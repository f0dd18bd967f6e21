---------------------------- MODULE MCLifecycle ----------------------------
(* Two threads and two ids: two creations at once, a creation and a        *)
(* deletion, two deletions.                                                *)
EXTENDS Lifecycle

CONSTANTS t1, t2, c1, c2, none

=============================================================================

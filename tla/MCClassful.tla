----------------------------- MODULE MCClassful -----------------------------
(* Addresses of six bits, networks of three, four and five: every prefix.  *)
EXTENDS Classful

CONSTANT none

=============================================================================

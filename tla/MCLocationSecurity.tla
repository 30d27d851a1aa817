------------------------- MODULE MCLocationSecurity -------------------------
(* Requests over two modes; on the page two armed modes, so that a command   *)
(* from one to the other takes the transition.                               *)
EXTENDS Arming, TLC

\* The arm states are interchangeable: no code path treats one specially.
AnyMode == Permutations(Mode)
=============================================================================

----------------------------- MODULE MCOpenOcd -----------------------------
(***************************************************************************)
(* Instances of OpenOcd for TLC.                                           *)
(***************************************************************************)
EXTENDS OpenOcd

CONSTANTS c1, c2

OneCaller  == {c1}
TwoCallers == {c1, c2}
Nobody     == {}

=============================================================================

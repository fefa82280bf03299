--------------------------- MODULE MCRestSession ---------------------------
(* Small instances of RestSession for TLC.                                  *)
EXTENDS RestSession, TLC

CONSTANTS r1, r2, r3

ThreeRequests == {r1, r2, r3}

\* The handler of r1 sends r3.
OneFollowUp == r3 :> r1
=============================================================================

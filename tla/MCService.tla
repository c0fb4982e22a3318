----------------------------- MODULE MCService -----------------------------
(* Instances of Service for TLC.                                           *)
EXTENDS Service, TLC

CONSTANTS p1, p2, home, away
Two == <<p1, p2>>
=============================================================================

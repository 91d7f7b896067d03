------------------------------- MODULE MCSmoke -------------------------------
(***************************************************************************)
(* Constants for TLC.                                                      *)
(***************************************************************************)
EXTENDS Smoke

MCCallers == 0..USERS
MCIds == Drawn \cup {<<Main, 1>>}
MCIterations == [s \in Scripts |-> IF s = "zod" THEN 1 ELSE 2]
=============================================================================

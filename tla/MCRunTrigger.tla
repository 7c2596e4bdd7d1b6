---------------------------- MODULE MCRunTrigger ----------------------------
(* Small instances of RunTrigger for TLC.                                  *)
EXTENDS RunTrigger, TLC

(* Requests are interchangeable (safety runs only).                        *)
Symmetric == Permutations(Request)
=============================================================================

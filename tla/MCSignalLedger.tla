---------------------------- MODULE MCSignalLedger ----------------------------
(* A finite instance of SignalLedger: a run reports nothing, or a signal   *)
(* of the lowest importance and one above it.  Which of the two is in the  *)
(* table already is up to the flow and to earlier runs.                    *)
EXTENDS SignalLedger

MCSignalType == [p \in Prints |-> IF p = "p1" THEN "commit_pushed" ELSE "content_change"]
MCResults == {<<>>, <<"p1", "p2">>}
=============================================================================

------------------------- MODULE MCInvestigationWorker -------------------------
(* Finite instances of InvestigationWorker: an event that is never         *)
(* eligible in front of one that is.                                       *)
EXTENDS InvestigationWorker

MCImportance == [e \in Events |-> IF e = 1 THEN "interesting" ELSE "important"]
=============================================================================

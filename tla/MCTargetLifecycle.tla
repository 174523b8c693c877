------------------------- MODULE MCTargetLifecycle -------------------------
(* A three-rung ladder, three failures to isolation, backoffs of one to    *)
(* four ticks: every branch of the policy differs in its delay.            *)
EXTENDS TargetLifecycle

ThreeRungs == <<4, 5, 7>>
=============================================================================

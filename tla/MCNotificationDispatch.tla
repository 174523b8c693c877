------------------------- MODULE MCNotificationDispatch -------------------------
(* Two notifications with one key and similar texts. *)
EXTENDS NotificationDispatch

CONSTANTS n1, n2

OneKey == [n \in {n1, n2} |-> "key"]
BothSimilar == {<<n1, n2>>, <<n2, n1>>}
=============================================================================

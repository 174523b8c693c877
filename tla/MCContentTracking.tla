--------------------------- MODULE MCContentTracking ---------------------------
(* Finite instances of ContentTracking: two texts, one of them with two    *)
(* kinds of noise, a trigger on any other text, noise included, and on the *)
(* first text when it is back; a feed one entry longer than what is        *)
(* remembered of it.                                                       *)
EXTENDS ContentTracking

MCFound == {<<1, 1>>, <<1, 2>>, <<2, 1>>}
MCTriggers == {pair \in MCFound \X MCFound : pair[1] # pair[2]}
              \cup {<<Missing, <<1, noise>>>> : noise \in {1, 2}}
=============================================================================

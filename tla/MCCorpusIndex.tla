--------------------------- MODULE MCCorpusIndex ---------------------------
(***************************************************************************)
(* CorpusIndex for TLC: two rulings in one block, and one in the last one, *)
(* with a block without rulings in between.                                *)
(***************************************************************************)
EXTENDS CorpusIndex

MCRulingBlock == [r \in Rulings |-> CASE r = 1 -> 1 [] r = 2 -> 1 [] r = 3 -> 3]
MCMaxFaults == [s \in Setups |-> IF s = "overlapping" THEN 0 ELSE 2]
MCMaxEdits == [s \in Setups |-> IF s = "one at a time" THEN 1 ELSE 0]
=============================================================================

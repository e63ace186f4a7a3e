---------------------------- MODULE MCIngestor ----------------------------
(***************************************************************************)
(* Small instance of Ingestor: a genesis block, a branch g a1 a2 and a     *)
(* rival that leaves it after a1 and gets longer.                          *)
(***************************************************************************)
EXTENDS Ingestor

CONSTANTS g, a1, a2, b2, b3

MCBlock    == {g, a1, a2, b2, b3}
MCHeightOf == [b \in MCBlock |->
                 CASE b = g -> 0 [] b = a1 -> 1 [] b \in {a2, b2} -> 2 [] b = b3 -> 3]
MCParentOf == [b \in MCBlock |->
                 CASE b = g -> NoBlock [] b = a1 -> g [] b \in {a2, b2} -> a1
                   [] b = b3 -> b2]
MCChains   == {<<g>>, <<g, a1>>, <<g, a1, a2>>, <<g, a1, b2>>, <<g, a1, b2, b3>>}
=============================================================================

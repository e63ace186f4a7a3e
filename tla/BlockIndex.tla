----------------------------- MODULE BlockIndex -----------------------------
(***************************************************************************)
(* What the blocks table promises to its readers (generator/internal/db):  *)
(* a list of blocks, one per height from 0 up, that only ever grows at its *)
(* end, by the blocks of one ingest transaction at a time.  Nothing here   *)
(* says which branch the blocks belong to.                                 *)
(***************************************************************************)
EXTENDS Integers, Sequences

CONSTANTS
    Block,        \* the blocks (identified by their hash)
    HeightOf,     \* HeightOf[b] is the height field of block b
    BatchBlocks   \* cfg.BatchBlocks, the most blocks one transaction commits

ASSUME IndexAssumption ==
    /\ HeightOf \in [Block -> Nat]
    /\ BatchBlocks \in Nat \ {0}

VARIABLE index    \* index[k] is the row of height k - 1

\* The index holds at every position a block of that height.
IndexTypeOK ==
    /\ index \in Seq(Block)
    /\ \A k \in 1..Len(index) : HeightOf[index[k]] = k - 1

IndexInit == index = << >>

\* The batches of n blocks that continue the index.
Batches(n) ==
    LET first == Len(index)
    IN  {batch \in [1..n -> Block] :
            \A k \in 1..n : HeightOf[batch[k]] = first + k - 1}

\* One ingest transaction becomes visible, all of it or nothing.
AppendBatch ==
    \E n \in 1..BatchBlocks : \E batch \in Batches(n) : index' = index \o batch

IndexSpec == IndexInit /\ [][AppendBatch]_index
=============================================================================

------------------------ MODULE LedgerHistoryProofs ------------------------
(***************************************************************************)
(* Proofs about the sums an address page shows: no history row is          *)
(* negative, the balance is where the history ends, and the two parts of a *)
(* page agree.  For any chain of blocks, any batches and any way the       *)
(* indexer, the backfill and the visitor interleave.                       *)
(*                                                                         *)
(* The first part is an invariant of the rows; the second computes the     *)
(* sums in closed form; the third brings them together.                    *)
(***************************************************************************)
EXTENDS LedgerProofs, SumLemmas

\* The transaction at place j of block k of the batch has been inserted.
Reached(k, j) ==
    \/ k < blk
    \/ k = blk /\ j < pos
    \/ k = blk /\ j = pos /\ ipc \in {"read", "mark"}

\* Block b pays output o; input i is one of its transaction j.
Pays(b, o)      == \E j \in 1..Len(TxsOf[b]) : o \in OutsOf[TxsOf[b][j]]
Spends(b, j, i) == j \in 1..Len(TxsOf[b]) /\ i \in ToSet(InsOf[TxsOf[b][j]])

\* A row belongs to a transaction of a block that is indexed or being inserted;
\* what the backfill has found are rows.
RowsInv ==
    /\ \A o \in Out : outs[o] # "none" => \E k \in 1..Len(index) : Pays(index[k], o)
    /\ \A i \in In : ins[i] # "none" =>
           \E k \in 1..Len(index) : \E j \in Nat : Spends(index[k], j, i)
    /\ \A o \in Out : staged.outs[o] # "none" =>
           \E k \in 1..Len(staged.blocks) : Pays(staged.blocks[k], o)
    /\ \A i \in In : staged.ins[i] # "none" =>
           \E k \in 1..Len(staged.blocks) : \E j \in Nat :
               Spends(staged.blocks[k], j, i) /\ Reached(k, j)
    /\ \A o \in todo : outs[o] # "none"

\* An input has an address only if its output has, and an output only if the
\* node reports one; a mark of a spent output names an input that spends it.
KnownInv ==
    /\ \A o \in Out : outs[o] = "known" \/ staged.outs[o] = "known" => o \in Reported
    /\ \A o \in Out : staged.outs[o] = "null" => o \notin Reported
    /\ \A i \in In : ins[i] = "known" => outs[Prev[i]] = "known"
    /\ \A i \in In : staged.ins[i] = "known" => Visible(Prev[i]) = "known"
    /\ \A o \in Out : spentBy[o] # NoIn => Prev[spentBy[o]] = o
    /\ \A o \in Out : staged.spentBy[o] # NoIn => Prev[staged.spentBy[o]] = o

\* An input whose output has not been read yet, and one whose output had no
\* address when it was read: the batch does not write that output later.
ReadInv ==
    /\ \A i \in In : staged.ins[i] = "null" =>
           /\ ipc \in {"read", "mark"}
           /\ \E k \in vin..Len(InsOf[TxAtHand]) :
                  InsOf[TxAtHand][k] = i /\ (ipc = "mark" => k # vin)
    /\ \A i \in In : staged.ins[i] = "valued" => staged.outs[Prev[i]] # "known"

\* What an undisturbed backfill leaves behind, and the batches after it keep.
FilledInv ==
    bpc = "done" /\ ~raced =>
        /\ \A i \in In : ins[i] \in {"null", "valued"} => outs[Prev[i]] # "known"
        /\ \A i \in In : staged.ins[i] = "valued" => outs[Prev[i]] # "known"

HInv == RowsInv /\ KnownInv /\ ReadInv /\ FilledInv

-----------------------------------------------------------------------------
(* The chain.                                                              *)

\* An output has one place in the chain.
LEMMA PaidOnce ==
    ASSUME NEW b \in Block, NEW c \in Block, NEW o,
           NEW j \in 1..Len(TxsOf[b]), NEW k \in 1..Len(TxsOf[c]),
           o \in OutsOf[TxsOf[b][j]], o \in OutsOf[TxsOf[c][k]]
    PROVE  b = c /\ j = k
  <1>1. TxsOf[b][j] \in Tx /\ TxsOf[c][k] \in Tx
    BY LedgerAssumption
  <1>2. TxsOf[b][j] = TxsOf[c][k]
    BY <1>1, ChainAssumption
  <1> QED BY <1>2, ChainAssumption

\* An input has one place in the chain.
LEMMA SpentOnce ==
    ASSUME NEW b \in Block, NEW c \in Block, NEW i, NEW j, NEW k,
           Spends(b, j, i), Spends(c, k, i)
    PROVE  b = c /\ j = k
  <1>1. TxsOf[b][j] \in Tx /\ TxsOf[c][k] \in Tx
    BY LedgerAssumption DEF Spends
  <1>2. TxsOf[b][j] = TxsOf[c][k]
    BY <1>1, ChainAssumption DEF Spends
  <1> QED BY <1>2, ChainAssumption DEF Spends

\* What an input spends is paid in an earlier block, or further up in its own.
LEMMA PaidBefore ==
    ASSUME NEW b \in Block, NEW k, NEW i, Spends(b, k, i),
           NEW c \in Block, NEW j \in 1..Len(TxsOf[c]), Prev[i] \in OutsOf[TxsOf[c][j]]
    PROVE  HeightOf[c] < HeightOf[b] \/ (c = b /\ j < k)
  <1>1. PICK d \in Block : \E l \in 1..Len(TxsOf[d]) :
            Prev[i] \in OutsOf[TxsOf[d][l]] /\ (HeightOf[d] < HeightOf[b] \/ (d = b /\ l < k))
    BY ChainAssumption DEF Spends
  <1>2. d = c
    BY <1>1, PaidOnce
  <1>3. PICK l \in 1..Len(TxsOf[c]) :
            Prev[i] \in OutsOf[TxsOf[c][l]] /\ (HeightOf[c] < HeightOf[b] \/ (c = b /\ l < k))
    BY <1>1, <1>2
  <1>4. l = j
    BY <1>3, PaidOnce
  <1> QED BY <1>3, <1>4

\* The indexed blocks and those of the batch at hand, with their heights.
LEMMA BlocksAtHand ==
    ASSUME IInv
    PROVE  /\ index \in Seq(Block) /\ staged.blocks \in Seq(Block)
           /\ Len(index) \in Nat /\ Len(staged.blocks) \in Nat
           /\ \A k \in 1..Len(index) : index[k] \in Block /\ HeightOf[index[k]] = k - 1
           /\ \A k \in 1..Len(staged.blocks) : staged.blocks[k] \in Block
           /\ ipc # "idle" => \A k \in 1..Len(staged.blocks) :
                  HeightOf[staged.blocks[k]] = Len(index) + k - 1
  <1>1. index \in Seq(Block) /\ staged.blocks \in Seq(Block)
    BY DEF IInv, TypeOK, IndexTypeOK, Stages
  <1> QED BY <1>1 DEF IInv, TypeOK, IndexTypeOK, BatchInv

\* The rows of the batch at hand are new: no output is overwritten, and none
\* is written that an input committed earlier spends.
LEMMA BatchIsNew ==
    ASSUME IInv, RowsInv, ipc # "idle"
    PROVE  /\ \A o \in Out : staged.outs[o] # "none" => outs[o] = "none"
           /\ \A i \in In : ins[i] # "none" => staged.outs[Prev[i]] = "none"
  <1>1. ASSUME NEW o \in Out, staged.outs[o] # "none", outs[o] # "none" PROVE FALSE
    <2>1. PICK k \in 1..Len(index) : Pays(index[k], o)
      BY <1>1 DEF RowsInv
    <2>2. PICK m \in 1..Len(staged.blocks) : Pays(staged.blocks[m], o)
      BY <1>1 DEF RowsInv
    <2>3. index[k] = staged.blocks[m]
      BY <2>1, <2>2, BlocksAtHand, PaidOnce DEF Pays
    <2>4. k - 1 = Len(index) + m - 1 /\ Len(index) \in Nat
      BY <2>3, BlocksAtHand
    <2> QED BY <2>4
  <1>2. ASSUME NEW i \in In, ins[i] # "none", staged.outs[Prev[i]] # "none" PROVE FALSE
    <2>1. PICK k \in 1..Len(index), j \in Nat : Spends(index[k], j, i)
      BY <1>2 DEF RowsInv
    <2>2. PICK m \in 1..Len(staged.blocks) : Pays(staged.blocks[m], Prev[i])
      BY <1>2, LedgerAssumption DEF RowsInv
    <2>3. /\ index[k] \in Block /\ HeightOf[index[k]] = k - 1
          /\ staged.blocks[m] \in Block /\ HeightOf[staged.blocks[m]] = Len(index) + m - 1
          /\ Len(index) \in Nat
      BY BlocksAtHand
    <2>4. PICK l \in 1..Len(TxsOf[staged.blocks[m]]) :
              Prev[i] \in OutsOf[TxsOf[staged.blocks[m]][l]]
      BY <2>2 DEF Pays
    <2>5. \/ HeightOf[staged.blocks[m]] < HeightOf[index[k]]
          \/ HeightOf[staged.blocks[m]] = HeightOf[index[k]]
      BY <2>1, <2>3, <2>4, PaidBefore
    <2> QED BY <2>3, <2>5
  <1> QED BY <1>1, <1>2

-----------------------------------------------------------------------------
(* The invariant of the rows.                                              *)

\* What has been inserted stays inserted as the cursor goes on.
LEMMA ReachedNext ==
    ASSUME TypeOK, ipc \in {"insert", "mark"}, NextTx, staged'.blocks = staged.blocks,
           NEW k \in Nat, NEW j \in Nat,
           Reached(k, j) \/ (k = blk /\ j = pos)
    PROVE  Reached(k, j)'
  <1>1. /\ blk \in Nat /\ pos \in Nat /\ pos <= Len(TxsOf[staged.blocks[blk]])
        /\ Len(TxsOf[staged.blocks[blk]]) \in Nat
    <2>1. staged.blocks[blk] \in Block
      BY DEF TypeOK, Stages
    <2>2. TxsOf[staged.blocks[blk]] \in Seq(Tx)
      BY <2>1, LedgerAssumption
    <2> QED BY <2>2 DEF TypeOK
  <1>2. k < blk \/ (k = blk /\ j <= pos)
    BY <1>1 DEF Reached
  <1>3. CASE pos < Len(TxsOf[staged.blocks[blk]])
    <2>1. pos' = pos + 1 /\ blk' = blk
      BY <1>3 DEF NextTx
    <2> QED BY <1>1, <1>2, <2>1 DEF Reached
  <1>4. CASE ~(pos < Len(TxsOf[staged.blocks[blk]]))
    <2>1. blk' = blk + 1
      BY <1>4 DEF NextTx
    <2> QED BY <1>1, <1>2, <2>1 DEF Reached
  <1> QED BY <1>3, <1>4

\* The rows of the old blocks.
LEMMA InitHistory == Init => HInv
  <1> SUFFICES ASSUME Init PROVE HInv
    OBVIOUS
  <1> USE DEF Init
  <1>1. \A t \in OldTxs : \E k \in 1..Len(index) : \E j \in 1..Len(TxsOf[index[k]]) :
            TxsOf[index[k]][j] = t
    <2> SUFFICES ASSUME NEW t \in OldTxs
                 PROVE  \E k \in 1..Len(index) : \E j \in 1..Len(TxsOf[index[k]]) :
                            TxsOf[index[k]][j] = t
      OBVIOUS
    <2>1. PICK b \in ToSet(OldIndex) : t \in ToSet(TxsOf[b])
      BY DEF OldTxs
    <2>2. OldIndex \in Seq(Block)
      BY LedgerAssumption
    <2>3. PICK k \in 1..Len(OldIndex) : OldIndex[k] = b
      BY <2>1, <2>2 DEF ToSet
    <2>4. TxsOf[b] \in Seq(Tx)
      BY <2>2, <2>3, LedgerAssumption
    <2>5. PICK j \in 1..Len(TxsOf[b]) : TxsOf[b][j] = t
      BY <2>1, <2>4 DEF ToSet
    <2> QED BY <2>3, <2>5
  <1>2. RowsInv
    <2>1. ASSUME NEW o \in Out, outs[o] # "none" PROVE \E k \in 1..Len(index) : Pays(index[k], o)
      <3>1. PICK t \in OldTxs : o \in OutsOf[t]
        BY <2>1 DEF OldOuts
      <3>2. PICK k \in 1..Len(index) : \E j \in 1..Len(TxsOf[index[k]]) :
                TxsOf[index[k]][j] = t
        BY <1>1, <3>1
      <3>3. Pays(index[k], o)
        BY <3>1, <3>2 DEF Pays
      <3> QED BY <3>3
    <2>2. ASSUME NEW i \in In, ins[i] # "none"
          PROVE  \E k \in 1..Len(index) : \E j \in Nat : Spends(index[k], j, i)
      <3>1. PICK t \in OldTxs : i \in ToSet(InsOf[t])
        BY <2>2 DEF OldIns
      <3>2. PICK k \in 1..Len(index) : \E j \in 1..Len(TxsOf[index[k]]) :
                TxsOf[index[k]][j] = t
        BY <1>1, <3>1
      <3>3. PICK j \in 1..Len(TxsOf[index[k]]) : TxsOf[index[k]][j] = t
        BY <3>2
      <3> QED BY <3>1, <3>3 DEF Spends
    <2> QED BY <2>1, <2>2 DEF RowsInv, NoStage
  <1>3. KnownInv
    <2>1. ASSUME NEW o \in Out, spentBy[o] # NoIn PROVE Prev[spentBy[o]] = o
      <3>1. \E i \in OldIns : Prev[i] = o
        BY <2>1
      <3>2. spentBy[o] = CHOOSE i \in OldIns : Prev[i] = o
        BY <3>1
      <3> QED BY <3>1, <3>2
    <2> QED BY <2>1, LedgerAssumption DEF KnownInv, NoStage
  <1>4. ReadInv /\ FilledInv
    BY LedgerAssumption DEF ReadInv, FilledInv, NoStage
  <1> QED BY <1>2, <1>3, <1>4 DEF HInv

\* A batch begins, or ends one way or the other, with nothing staged.
LEMMA NothingStaged ==
    ASSUME TypeOK, BeginBatch \/ Commit \/ Rollback
    PROVE  /\ \A o \in Out : staged'.outs[o] = "none" /\ staged'.spentBy[o] = NoIn
           /\ \A i \in In : staged'.ins[i] = "none"
  <1>1. staged'.outs = NoStage.outs /\ staged'.spentBy = NoStage.spentBy
        /\ staged'.ins = NoStage.ins
    BY StagedByBegin DEF Commit, Rollback, BatchOver
  <1> QED BY <1>1 DEF NoStage

\* What a read writes of the input at hand.
LEMMA ReadWrites ==
    ASSUME TypeOK, ReadPrev
    PROVE  \A i \in In : staged'.ins[i] =
               IF i # Input THEN staged.ins[i]
               ELSE IF Visible(Prev[Input]) = "known" THEN "known" ELSE "valued"
  <1>1. staged \in Stages /\ Input \in In
    BY AtHand DEF TypeOK, ReadPrev
  <1> DEFINE col == IF Visible(Prev[Input]) = "known" THEN "known" ELSE "valued"
  <1>2. staged' = [staged EXCEPT !.ins[Input] = col]
    BY DEF ReadPrev
  <1> HIDE DEF col
  <1>3. staged'.ins = [staged.ins EXCEPT ![Input] = col]
    BY <1>1, <1>2 DEF Stages
  <1>4. staged.ins \in [In -> InColumn]
    BY <1>1 DEF Stages
  <1>5. \A i \in In : staged'.ins[i] = IF i # Input THEN staged.ins[i] ELSE col
    BY <1>3, <1>4
  <1> QED BY <1>5 DEF col

\* The rows that the backfill has found stay.
LEMMA TodoNext ==
    ASSUME IInv, RowsInv, [Next]_vars
    PROVE  \A o \in todo' : outs'[o] # "none"
  <1>0. TypeOK /\ todo \subseteq Out /\ \A o \in todo : outs[o] # "none"
    BY LedgerAssumption DEF IInv, TypeOK, RowsInv
  <1> USE <1>0
  <1>1. CASE UNCHANGED <<outs, todo>>
    BY <1>1
  <1>2. CASE BeginBatch \/ InsertTx \/ ReadPrev \/ MarkSpent \/ Rollback
    BY <1>1, <1>2 DEF BeginBatch, InsertTx, ReadPrev, MarkSpent, Rollback, tables, filler
  <1>3. CASE Commit
    BY <1>3 DEF Commit, filler, Visible
  <1>4. CASE QueryOutputs
    BY <1>4 DEF QueryOutputs, tables
  <1>5. CASE Flush
    BY <1>5 DEF Flush
  <1>6. CASE UpdateRow \/ OutputsDone \/ QueryBreaks \/ BackfillDies \/ FillInputs
    BY <1>6 DEF UpdateRow, OutputsDone, QueryBreaks, BackfillDies, FillInputs, tables
  <1>7. CASE UNCHANGED vars
    BY <1>1, <1>7 DEF vars, tables, filler
  <1> QED BY <1>2, <1>3, <1>4, <1>5, <1>6, <1>7 DEF Next, Ingest, Backfill

\* Rows stay rows of transactions that are indexed or inserted.
LEMMA RowsNext ==
    ASSUME IInv, RowsInv, [Next]_vars
    PROVE  RowsInv'
  <1>0. TypeOK
    BY DEF IInv
  <1> USE <1>0
  <1> DEFINE Old == /\ \A o \in Out : outs'[o] # "none" =>
                           \E k \in 1..Len(index) : Pays(index[k], o)
                    /\ \A i \in In : ins'[i] # "none" =>
                           \E k \in 1..Len(index) : \E j \in Nat : Spends(index[k], j, i)
             New == /\ \A o \in Out : staged'.outs[o] # "none" =>
                           \E k \in 1..Len(staged.blocks) : Pays(staged.blocks[k], o)
                    /\ \A i \in In : staged'.ins[i] # "none" =>
                           \E k \in 1..Len(staged.blocks) : \E j \in Nat :
                               Spends(staged.blocks[k], j, i) /\ Reached(k, j)'
  <1>1. ASSUME index' = index, Old, staged'.blocks = staged.blocks, New PROVE RowsInv'
    BY <1>1, TodoNext DEF RowsInv, Pays, Spends
  <1>2. ASSUME UNCHANGED tables PROVE index' = index /\ Old
    BY <1>2 DEF tables, RowsInv
  <1>3. ASSUME UNCHANGED indexer PROVE staged'.blocks = staged.blocks /\ New
    BY <1>3 DEF indexer, cursor, RowsInv, Reached
  <1>4. ASSUME staged'.blocks = staged.blocks, staged'.outs = staged.outs,
               \A i \in In : staged'.ins[i] # "none" => staged.ins[i] # "none",
               \A k, j \in Nat : Reached(k, j) => Reached(k, j)'
        PROVE  New
    <2>1. \A k \in 1..Len(staged.blocks) : k \in Nat
      BY BlocksAtHand
    <2> QED BY <1>4, <2>1 DEF RowsInv
  <1> HIDE DEF Old, New
  <1>5. CASE BeginBatch
    <2>1. index' = index /\ Old
      BY <1>2, <1>5 DEF BeginBatch
    <2> QED BY <1>5, <2>1, NothingStaged, TodoNext DEF RowsInv, Old, Pays, Spends
  <1>6. CASE InsertTx
    <2>1. /\ ipc = "insert" /\ staged'.blocks = staged.blocks
          /\ \A i \in In : staged'.ins[i] =
                  IF i \in ToSet(InsOf[TxAtHand]) THEN "null" ELSE staged.ins[i]
          /\ \A o \in Out : staged'.outs[o] =
                  IF o \notin OutsOf[TxAtHand] THEN staged.outs[o]
                  ELSE IF o \in Reported THEN "known" ELSE "null"
      BY <1>6, StagedByInsert DEF InsertTx
    <2>2. /\ blk \in 1..Len(staged.blocks) /\ pos \in 1..Len(TxsOf[staged.blocks[blk]])
          /\ blk \in Nat /\ pos \in Nat
      BY <2>1 DEF TypeOK
    <2>3. \A k, j \in Nat : Reached(k, j) => Reached(k, j)'
      <3> SUFFICES ASSUME NEW k \in Nat, NEW j \in Nat, Reached(k, j) PROVE Reached(k, j)'
        OBVIOUS
      <3>1. CASE NextTx
        BY <2>1, <3>1, ReachedNext
      <3>2. CASE ipc' = "read" /\ UNCHANGED <<blk, pos>>
        BY <2>1, <3>2 DEF Reached
      <3> QED BY <1>6, <3>1, <3>2 DEF InsertTx
    <2>4. ASSUME NEW o \in Out, staged'.outs[o] # "none"
          PROVE  \E k \in 1..Len(staged.blocks) : Pays(staged.blocks[k], o)
      <3>1. CASE o \in OutsOf[TxAtHand]
        <4>1. Pays(staged.blocks[blk], o)
          BY <2>2, <3>1 DEF Pays, TxAtHand
        <4> QED BY <2>2, <4>1
      <3>2. CASE o \notin OutsOf[TxAtHand]
        BY <2>1, <2>4, <3>2 DEF RowsInv
      <3> QED BY <3>1, <3>2
    <2>5. ASSUME NEW i \in In, staged'.ins[i] # "none"
          PROVE  \E k \in 1..Len(staged.blocks) : \E j \in Nat :
                     Spends(staged.blocks[k], j, i) /\ Reached(k, j)'
      <3>1. CASE i \in ToSet(InsOf[TxAtHand])
        <4>1. Spends(staged.blocks[blk], pos, i)
          BY <2>2, <3>1 DEF Spends, TxAtHand
        <4>0. InsOf[TxAtHand] \in Seq(In)
          BY <2>1, AtHand
        <4>2. \A k, j \in Nat : k = blk /\ j = pos => Reached(k, j)'
          <5>1. InsOf[TxAtHand] # << >>
            BY <3>1, <4>0 DEF ToSet
          <5>2. ipc' = "read" /\ UNCHANGED <<blk, pos>>
            BY <1>6, <5>1 DEF InsertTx
          <5> QED BY <5>2 DEF Reached
        <4> QED BY <2>2, <4>1, <4>2
      <3>2. CASE i \notin ToSet(InsOf[TxAtHand])
        <4>1. PICK k \in 1..Len(staged.blocks) : \E j \in Nat :
                  Spends(staged.blocks[k], j, i) /\ Reached(k, j)
          BY <2>1, <2>5, <3>2 DEF RowsInv
        <4>2. PICK j \in Nat : Spends(staged.blocks[k], j, i) /\ Reached(k, j)
          BY <4>1
        <4>3. k \in Nat
          BY BlocksAtHand
        <4> QED BY <2>3, <4>2, <4>3
      <3> QED BY <3>1, <3>2
    <2>6. New
      BY <2>4, <2>5 DEF New
    <2>7. index' = index /\ Old
      BY <1>2, <1>6 DEF InsertTx
    <2> QED BY <1>1, <2>1, <2>6, <2>7

  <1>7. CASE ReadPrev
    <2>1. /\ staged'.blocks = staged.blocks /\ staged'.outs = staged.outs
          /\ \A i \in In : staged'.ins[i] # "none" <=> (i = Input \/ staged.ins[i] # "none")
      BY <1>7, StagedByRead
    <2>2. ipc = "read" /\ ipc' = "mark" /\ UNCHANGED <<blk, pos, vin>>
      BY <1>7 DEF ReadPrev, cursor
    <2>3. staged.ins[Input] # "none"
      <3>1. vin \in 1..Len(InsOf[TxAtHand])
        BY <2>2 DEF TypeOK
      <3> QED BY <2>2, <3>1 DEF IInv, StageInv, Input
    <2>4. \A k, j \in Nat : Reached(k, j) => Reached(k, j)'
      BY <2>2 DEF Reached
    <2>5. New
      BY <1>4, <2>1, <2>3, <2>4
    <2>6. index' = index /\ Old
      BY <1>2, <1>7 DEF ReadPrev
    <2> QED BY <1>1, <2>1, <2>5, <2>6
  <1>8. CASE MarkSpent
    <2>1. ipc = "mark" /\ staged'.blocks = staged.blocks /\ staged'.outs = staged.outs
          /\ staged'.ins = staged.ins
      BY <1>8, StagedByMark DEF MarkSpent
    <2>2. \A k, j \in Nat : Reached(k, j) => Reached(k, j)'
      <3> SUFFICES ASSUME NEW k \in Nat, NEW j \in Nat, Reached(k, j) PROVE Reached(k, j)'
        OBVIOUS
      <3>1. CASE NextTx
        BY <2>1, <3>1, ReachedNext
      <3>2. CASE ipc' = "read" /\ UNCHANGED <<blk, pos>>
        BY <2>1, <3>2 DEF Reached
      <3> QED BY <1>8, <3>1, <3>2 DEF MarkSpent
    <2>3. New
      BY <1>4, <2>1, <2>2
    <2>4. index' = index /\ Old
      BY <1>2, <1>8 DEF MarkSpent
    <2> QED BY <1>1, <2>1, <2>3, <2>4
  <1>9. CASE Commit
    <2>1. index' = index \o staged.blocks
      BY <1>9 DEF Commit
    <2>2. /\ \A k \in 1..Len(index) : k \in 1..Len(index') /\ index'[k] = index[k]
          /\ \A k \in 1..Len(staged.blocks) :
                 Len(index) + k \in 1..Len(index') /\ index'[Len(index) + k] = staged.blocks[k]
      BY <2>1, BlocksAtHand
    <2>3. ASSUME NEW o \in Out, outs'[o] # "none"
          PROVE  \E k \in 1..Len(index') : Pays(index'[k], o)
      <3>1. CASE staged.outs[o] # "none"
        <4>1. PICK k \in 1..Len(staged.blocks) : Pays(staged.blocks[k], o)
          BY <3>1 DEF RowsInv
        <4> QED BY <2>2, <4>1
      <3>2. CASE staged.outs[o] = "none"
        <4>1. outs[o] # "none"
          BY <1>9, <2>3, <3>2 DEF Commit, Visible
        <4> QED BY <2>2, <4>1 DEF RowsInv
      <3> QED BY <3>1, <3>2
    <2>4. ASSUME NEW i \in In, ins'[i] # "none"
          PROVE  \E k \in 1..Len(index') : \E j \in Nat : Spends(index'[k], j, i)
      <3>1. CASE staged.ins[i] # "none"
        <4>1. PICK k \in 1..Len(staged.blocks) : \E j \in Nat : Spends(staged.blocks[k], j, i)
          BY <3>1 DEF RowsInv
        <4> QED BY <2>2, <4>1
      <3>2. CASE staged.ins[i] = "none"
        <4>1. ins[i] # "none"
          BY <1>9, <2>4, <3>2 DEF Commit
        <4>2. PICK k \in 1..Len(index) : \E j \in Nat : Spends(index[k], j, i)
          BY <4>1 DEF RowsInv
        <4> QED BY <2>2, <4>2
      <3> QED BY <3>1, <3>2
    <2> QED BY <1>9, <2>3, <2>4, NothingStaged, TodoNext DEF RowsInv, Pays, Spends
  <1>10. CASE Rollback
    <2>1. index' = index /\ Old
      BY <1>2, <1>10 DEF Rollback
    <2> QED BY <1>10, <2>1, NothingStaged, TodoNext DEF RowsInv, Old, Pays, Spends
  <1>11. CASE UNCHANGED <<tables, indexer>>
    BY <1>1, <1>2, <1>3, <1>11
  <1>12. CASE Flush
    <2>1. index' = index /\ ins' = ins /\ \A o \in Out : outs'[o] # "none" => outs[o] # "none"
      <3>1. \A o \in held : outs[o] # "none"
        BY DEF TypeOK, RowsInv
      <3> QED BY <1>12, <3>1 DEF Flush
    <2>2. Old
      BY <2>1 DEF RowsInv, Old
    <2>3. staged'.blocks = staged.blocks /\ New
      BY <1>3, <1>12 DEF Flush
    <2> QED BY <1>1, <2>1, <2>2, <2>3
  <1>13. CASE FillInputs
    <2>1. /\ index' = index /\ outs' = outs
          /\ \A i \in In : ins'[i] # "none" => ins[i] # "none"
      BY <1>13 DEF FillInputs, Unfilled
    <2>2. Old
      BY <2>1 DEF RowsInv, Old
    <2>3. staged'.blocks = staged.blocks /\ New
      BY <1>3, <1>13 DEF FillInputs
    <2> QED BY <1>1, <2>1, <2>2, <2>3
  <1>14. CASE QueryOutputs \/ UpdateRow \/ OutputsDone \/ QueryBreaks \/ BackfillDies
    BY <1>11, <1>14 DEF QueryOutputs, UpdateRow, OutputsDone, QueryBreaks, BackfillDies
  <1>15. CASE UNCHANGED vars
    BY <1>11, <1>15 DEF vars
  <1> QED BY <1>5, <1>6, <1>7, <1>8, <1>9, <1>10, <1>12, <1>13, <1>14, <1>15
         DEF Next, Ingest, Backfill

\* An address in an input comes from the output it spends.
LEMMA KnownNext ==
    ASSUME IInv, KnownInv, [Next]_vars
    PROVE  KnownInv'
  <1>0. TypeOK /\ staged \in Stages /\ \A i \in In : Prev[i] \in Out
    BY LedgerAssumption DEF IInv, TypeOK
  <1> USE <1>0
  <1>1. CASE UNCHANGED <<tables, indexer>>
    BY <1>1 DEF KnownInv, tables, indexer, Visible
  <1>2. CASE BeginBatch \/ Rollback
    <2>1. UNCHANGED tables
      BY <1>2 DEF BeginBatch, Rollback
    <2> QED BY <1>2, <2>1, NothingStaged DEF KnownInv, tables, Visible
  <1>3. CASE InsertTx
    <2>1. /\ staged'.spentBy = staged.spentBy
          /\ \A i \in In : staged'.ins[i] =
                  IF i \in ToSet(InsOf[TxAtHand]) THEN "null" ELSE staged.ins[i]
          /\ \A o \in Out : staged'.outs[o] =
                  IF o \notin OutsOf[TxAtHand] THEN staged.outs[o]
                  ELSE IF o \in Reported THEN "known" ELSE "null"
      BY <1>3, StagedByInsert
    <2>2. UNCHANGED tables
      BY <1>3 DEF InsertTx
    <2>3. \A o \in Out : /\ staged'.outs[o] = "known" => o \in Reported
                         /\ staged'.outs[o] = "null" => o \notin Reported
      BY <2>1 DEF KnownInv
    <2>4. \A o \in Out : Visible(o) = "known" => Visible(o)' = "known"
      <3> SUFFICES ASSUME NEW o \in Out, Visible(o) = "known" PROVE Visible(o)' = "known"
        OBVIOUS
      <3>1. o \in Reported
        BY DEF Visible, KnownInv
      <3> QED BY <2>1, <2>2, <3>1 DEF Visible, tables
    <2>5. \A i \in In : staged'.ins[i] = "known" => Visible(Prev[i])' = "known"
      <3> SUFFICES ASSUME NEW i \in In, staged'.ins[i] = "known" PROVE Visible(Prev[i])' = "known"
        OBVIOUS
      <3>1. Visible(Prev[i]) = "known"
        BY <2>1 DEF KnownInv
      <3> QED BY <2>4, <3>1
    <2> QED BY <2>1, <2>2, <2>3, <2>5 DEF KnownInv, tables
  <1>4. CASE ReadPrev
    <2>1. staged'.spentBy = staged.spentBy /\ staged'.outs = staged.outs /\ UNCHANGED tables
      BY <1>4, StagedByRead DEF ReadPrev
    <2>2. \A o \in Out : Visible(o)' = Visible(o)
      BY <2>1 DEF Visible, tables
    <2>3. \A i \in In : staged'.ins[i] = "known" => Visible(Prev[i])' = "known"
      <3> SUFFICES ASSUME NEW i \in In, staged'.ins[i] = "known" PROVE Visible(Prev[i])' = "known"
        OBVIOUS
      <3>1. Visible(Prev[i]) = "known"
        BY <1>4, ReadWrites DEF KnownInv
      <3> QED BY <2>2, <3>1
    <2> QED BY <2>1, <2>3 DEF KnownInv, tables
  <1>5. CASE MarkSpent
    <2>1. /\ staged'.outs = staged.outs /\ staged'.ins = staged.ins /\ UNCHANGED tables
          /\ \A o \in Out : staged'.spentBy[o] = IF o = Prev[Input] THEN Input
                                                                   ELSE staged.spentBy[o]
      BY <1>5, StagedByMark DEF MarkSpent
    <2>2. \A i \in In : staged'.ins[i] = "known" => Visible(Prev[i])' = "known"
      BY <2>1 DEF KnownInv, Visible, tables
    <2>3. \A o \in Out : staged'.spentBy[o] # NoIn => Prev[staged'.spentBy[o]] = o
      BY <2>1 DEF KnownInv
    <2> QED BY <2>1, <2>2, <2>3 DEF KnownInv, tables
  <1>6. CASE Commit
    <2>1. /\ \A o \in Out : outs'[o] = Visible(o)
          /\ \A o \in Out : spentBy'[o] = IF staged.spentBy[o] # NoIn THEN staged.spentBy[o]
                                                                     ELSE spentBy[o]
          /\ \A i \in In : ins'[i] = IF staged.ins[i] # "none" THEN staged.ins[i] ELSE ins[i]
      BY <1>6 DEF Commit
    <2>2. \A o \in Out : outs'[o] = "known" => o \in Reported
      BY <2>1 DEF KnownInv, Visible
    <2>3. \A o \in Out : spentBy'[o] # NoIn => Prev[spentBy'[o]] = o
      BY <2>1 DEF KnownInv
    <2>4. ASSUME NEW i \in In, ins'[i] = "known" PROVE outs'[Prev[i]] = "known"
      <3>1. CASE staged.ins[i] # "none"
        <4>1. Visible(Prev[i]) = "known"
          BY <2>1, <2>4, <3>1 DEF KnownInv
        <4> QED BY <2>1, <4>1
      <3>2. CASE staged.ins[i] = "none"
        <4>1. outs[Prev[i]] = "known"
          BY <2>1, <2>4, <3>2 DEF KnownInv
        <4>2. staged.outs[Prev[i]] \in {"none", "known"}
          BY <4>1 DEF KnownInv, Stages, Column
        <4> QED BY <2>1, <4>1, <4>2 DEF Visible
      <3> QED BY <3>1, <3>2
    <2> QED BY <1>6, <2>2, <2>3, <2>4, NothingStaged DEF KnownInv
  <1>7. CASE Flush
    <2>1. /\ \A o \in Out : outs'[o] = IF o \in held THEN "known" ELSE outs[o]
          /\ UNCHANGED <<spentBy, ins, staged>>
      BY <1>7 DEF Flush, indexer
    <2>2. held \subseteq Reported
      BY LedgerAssumption DEF TypeOK
    <2>3. \A o \in Out : outs'[o] = "known" => o \in Reported
      BY <2>1, <2>2 DEF KnownInv
    <2>4. \A o \in Out : (outs[o] = "known" => outs'[o] = "known")
                         /\ (Visible(o) = "known" => Visible(o)' = "known")
      BY <2>1 DEF Visible
    <2>5. \A i \in In : /\ ins'[i] = "known" => outs'[Prev[i]] = "known"
                        /\ staged'.ins[i] = "known" => Visible(Prev[i])' = "known"
      BY <2>1, <2>4 DEF KnownInv
    <2> QED BY <2>1, <2>3, <2>5 DEF KnownInv
  <1>8. CASE FillInputs
    <2>1. /\ UNCHANGED <<outs, spentBy, staged>>
          /\ \A i \in In : ins'[i] = "known" => ins[i] = "known" \/ outs[Prev[i]] = "known"
      BY <1>8 DEF FillInputs, Unfilled, indexer
    <2>2. \A i \in In : staged'.ins[i] = "known" => Visible(Prev[i])' = "known"
      BY <2>1 DEF KnownInv, Visible
    <2> QED BY <2>1, <2>2 DEF KnownInv
  <1>9. CASE QueryOutputs \/ UpdateRow \/ OutputsDone \/ QueryBreaks \/ BackfillDies
    BY <1>1, <1>9 DEF QueryOutputs, UpdateRow, OutputsDone, QueryBreaks, BackfillDies
  <1>10. CASE UNCHANGED vars
    BY <1>1, <1>10 DEF vars
  <1> QED BY <1>2, <1>3, <1>4, <1>5, <1>6, <1>7, <1>8, <1>9, <1>10 DEF Next, Ingest, Backfill

\* The transaction at hand pays no output that an input read before spends.
LEMMA ReadAfterPaid ==
    ASSUME IInv, RowsInv, ipc = "insert", NEW i \in In, staged.ins[i] # "none"
    PROVE  Prev[i] \notin OutsOf[TxAtHand]
  <1> SUFFICES ASSUME Prev[i] \in OutsOf[TxAtHand] PROVE FALSE
    OBVIOUS
  <1>1. /\ blk \in 1..Len(staged.blocks) /\ pos \in 1..Len(TxsOf[staged.blocks[blk]])
        /\ blk \in Nat /\ pos \in Nat
    BY DEF IInv, TypeOK
  <1>2. PICK k \in 1..Len(staged.blocks) : \E j \in Nat :
            Spends(staged.blocks[k], j, i) /\ Reached(k, j)
    BY DEF RowsInv
  <1>3. PICK j \in Nat : Spends(staged.blocks[k], j, i) /\ Reached(k, j)
    BY <1>2
  <1>4. /\ staged.blocks[k] \in Block /\ HeightOf[staged.blocks[k]] = Len(index) + k - 1
        /\ staged.blocks[blk] \in Block /\ HeightOf[staged.blocks[blk]] = Len(index) + blk - 1
        /\ Len(index) \in Nat /\ k \in Nat
    BY <1>1, BlocksAtHand
  <1>5. \/ HeightOf[staged.blocks[blk]] < HeightOf[staged.blocks[k]]
        \/ staged.blocks[blk] = staged.blocks[k] /\ pos < j
    BY <1>1, <1>3, <1>4, PaidBefore DEF TxAtHand
  <1>6. k < blk \/ (k = blk /\ j < pos)
    BY <1>3 DEF Reached
  <1>7. CASE HeightOf[staged.blocks[blk]] < HeightOf[staged.blocks[k]]
    BY <1>4, <1>6, <1>7, <1>1
  <1>8. CASE staged.blocks[blk] = staged.blocks[k] /\ pos < j
    <2>1. Len(index) + k - 1 = Len(index) + blk - 1
      BY <1>4, <1>8
    <2>2. k = blk
      BY <1>1, <1>4, <2>1
    <2> QED BY <1>1, <1>6, <1>8, <2>2
  <1> QED BY <1>5, <1>7, <1>8

\* Each input is read in its turn, when what it spends is written.
LEMMA ReadNext ==
    ASSUME IInv, RowsInv, ReadInv, [Next]_vars
    PROVE  ReadInv'
  <1>0. TypeOK /\ staged \in Stages /\ \A i \in In : Prev[i] \in Out
    BY LedgerAssumption DEF IInv, TypeOK
  <1> USE <1>0
  <1>1. CASE UNCHANGED indexer
    BY <1>1 DEF ReadInv, indexer, cursor, TxAtHand
  <1>2. CASE BeginBatch \/ Commit \/ Rollback
    BY <1>2, NothingStaged DEF ReadInv
  <1>3. CASE InsertTx
    <2>1. /\ ipc = "insert" /\ staged'.blocks = staged.blocks
          /\ \A i \in In : staged'.ins[i] =
                  IF i \in ToSet(InsOf[TxAtHand]) THEN "null" ELSE staged.ins[i]
          /\ \A o \in Out : staged'.outs[o] =
                  IF o \notin OutsOf[TxAtHand] THEN staged.outs[o]
                  ELSE IF o \in Reported THEN "known" ELSE "null"
      BY <1>3, StagedByInsert DEF InsertTx
    <2>2. InsOf[TxAtHand] \in Seq(In)
      BY <2>1, AtHand
    <2>3. ASSUME NEW i \in In, staged'.ins[i] = "null"
          PROVE  /\ ipc' \in {"read", "mark"}
                 /\ \E k \in vin'..Len(InsOf[TxAtHand']) :
                        InsOf[TxAtHand'][k] = i /\ (ipc' = "mark" => k # vin')
      <3>1. i \in ToSet(InsOf[TxAtHand])
        BY <2>1, <2>3 DEF ReadInv
      <3>2. InsOf[TxAtHand] # << >>
        BY <2>2, <3>1 DEF ToSet
      <3>3. ipc' = "read" /\ vin' = 1 /\ TxAtHand' = TxAtHand
        BY <1>3, <2>1, <3>2 DEF InsertTx, TxAtHand
      <3>4. \E k \in 1..Len(InsOf[TxAtHand]) : InsOf[TxAtHand][k] = i
        BY <2>2, <3>1 DEF ToSet
      <3> QED BY <3>3, <3>4
    <2>4. ASSUME NEW i \in In, staged'.ins[i] = "valued" PROVE staged'.outs[Prev[i]] # "known"
      <3>1. staged.ins[i] = "valued"
        BY <2>1, <2>4
      <3>2. Prev[i] \notin OutsOf[TxAtHand]
        BY <2>1, <3>1, ReadAfterPaid
      <3> QED BY <2>1, <3>1, <3>2 DEF ReadInv
    <2> QED BY <2>3, <2>4 DEF ReadInv
  <1>4. CASE ReadPrev
    <2>1. /\ staged'.blocks = staged.blocks /\ staged'.outs = staged.outs
          /\ ipc = "read" /\ ipc' = "mark" /\ UNCHANGED <<blk, pos, vin>>
          /\ vin \in 1..Len(InsOf[TxAtHand])
      BY <1>4, StagedByRead DEF ReadPrev, cursor, TypeOK
    <2>2. TxAtHand' = TxAtHand
      BY <2>1 DEF TxAtHand
    <2>3. ASSUME NEW i \in In, staged'.ins[i] = "null"
          PROVE  \E k \in vin..Len(InsOf[TxAtHand]) : InsOf[TxAtHand][k] = i /\ k # vin
      <3>1. i # Input /\ staged.ins[i] = "null"
        BY <1>4, <2>3, ReadWrites
      <3> QED BY <3>1 DEF ReadInv, Input
    <2>4. ASSUME NEW i \in In, staged'.ins[i] = "valued" PROVE staged'.outs[Prev[i]] # "known"
      <3>1. CASE i = Input
        <4>1. Visible(Prev[i]) # "known"
          BY <1>4, <2>4, <3>1, ReadWrites
        <4> QED BY <2>1, <4>1 DEF Visible
      <3>2. CASE i # Input
        <4>1. staged.ins[i] = "valued"
          BY <1>4, <2>4, <3>2, ReadWrites
        <4> QED BY <2>1, <4>1 DEF ReadInv
      <3> QED BY <3>1, <3>2
    <2> QED BY <2>1, <2>2, <2>3, <2>4 DEF ReadInv
  <1>5. CASE MarkSpent
    <2>1. /\ ipc = "mark" /\ staged'.blocks = staged.blocks /\ staged'.outs = staged.outs
          /\ staged'.ins = staged.ins
          /\ vin \in 1..Len(InsOf[TxAtHand]) /\ Len(InsOf[TxAtHand]) \in Nat
      BY <1>5, StagedByMark, AtHand DEF MarkSpent, TypeOK
    <2>2. ASSUME NEW i \in In, staged'.ins[i] = "null"
          PROVE  /\ ipc' \in {"read", "mark"}
                 /\ \E k \in vin'..Len(InsOf[TxAtHand']) :
                        InsOf[TxAtHand'][k] = i /\ (ipc' = "mark" => k # vin')
      <3>1. PICK k \in vin..Len(InsOf[TxAtHand]) : InsOf[TxAtHand][k] = i /\ k # vin
        BY <2>1, <2>2 DEF ReadInv
      <3>2. vin < Len(InsOf[TxAtHand]) /\ k \in (vin + 1)..Len(InsOf[TxAtHand])
        BY <2>1, <3>1
      <3>3. ipc' = "read" /\ vin' = vin + 1 /\ TxAtHand' = TxAtHand
        BY <1>5, <2>1, <3>2 DEF MarkSpent, TxAtHand
      <3> QED BY <3>1, <3>2, <3>3
    <2> QED BY <2>1, <2>2 DEF ReadInv
  <1>6. CASE Backfill \/ QueryBreaks \/ BackfillDies
    BY <1>1, <1>6 DEF Backfill, QueryOutputs, UpdateRow, Flush, OutputsDone, FillInputs,
                      QueryBreaks, BackfillDies
  <1>7. CASE UNCHANGED vars
    BY <1>1, <1>7 DEF vars
  <1> QED BY <1>2, <1>3, <1>4, <1>5, <1>6, <1>7 DEF Next, Ingest

\* What an undisturbed backfill leaves behind lasts.
LEMMA FilledNext ==
    ASSUME IInv, HInv, [Next]_vars
    PROVE  FilledInv'
  <1>0. TypeOK /\ staged \in Stages /\ \A i \in In : Prev[i] \in Out
    BY LedgerAssumption DEF IInv, TypeOK
  <1>00. RowsInv /\ KnownInv /\ ReadInv /\ FilledInv
    BY DEF HInv
  <1> USE <1>0, <1>00
  <1>1. CASE UNCHANGED <<tables, staged, bpc, raced>>
    BY <1>1 DEF FilledInv, tables
  <1>2. CASE BeginBatch \/ Rollback
    <2>1. UNCHANGED <<tables, filler>>
      BY <1>2 DEF BeginBatch, Rollback
    <2> QED BY <1>2, <2>1, NothingStaged DEF FilledInv, tables, filler
  <1>3. CASE InsertTx
    <2>1. /\ \A i \in In : staged'.ins[i] =
                  IF i \in ToSet(InsOf[TxAtHand]) THEN "null" ELSE staged.ins[i]
          /\ UNCHANGED <<tables, filler>>
      BY <1>3, StagedByInsert DEF InsertTx
    <2> QED BY <2>1 DEF FilledInv, tables, filler
  <1>4. CASE ReadPrev
    <2>1. UNCHANGED <<tables, filler>>
      BY <1>4 DEF ReadPrev
    <2>2. ASSUME bpc = "done", ~raced, NEW i \in In, staged'.ins[i] = "valued"
          PROVE  outs[Prev[i]] # "known"
      <3>1. CASE i = Input
        <4>1. Visible(Prev[i]) # "known"
          BY <1>4, <2>2, <3>1, ReadWrites
        <4>2. staged.outs[Prev[i]] \in {"none", "null"}
          BY <4>1 DEF Visible, Stages, Column
        <4> QED BY <4>1, <4>2 DEF Visible, KnownInv
      <3>2. CASE i # Input
        <4>1. staged.ins[i] = "valued"
          BY <1>4, <2>2, <3>2, ReadWrites
        <4> QED BY <2>2, <4>1 DEF FilledInv
      <3> QED BY <3>1, <3>2
    <2> QED BY <2>1, <2>2 DEF FilledInv, tables, filler
  <1>5. CASE MarkSpent
    <2>1. staged'.ins = staged.ins /\ UNCHANGED <<tables, filler>>
      BY <1>5, StagedByMark DEF MarkSpent
    <2> QED BY <2>1 DEF FilledInv, tables, filler
  <1>6. CASE Commit
    <2>1. /\ ipc = "commit" /\ UNCHANGED filler
          /\ \A o \in Out : outs'[o] = Visible(o)
          /\ \A i \in In : ins'[i] = IF staged.ins[i] # "none" THEN staged.ins[i] ELSE ins[i]
      BY <1>6 DEF Commit
    <2>2. ASSUME bpc = "done", ~raced, NEW i \in In, ins'[i] \in {"null", "valued"}
          PROVE  outs'[Prev[i]] # "known"
      <3>1. CASE staged.ins[i] # "none"
        <4>1. staged.ins[i] = "valued"
          BY <2>1, <2>2, <3>1 DEF ReadInv
        <4>2. staged.outs[Prev[i]] # "known" /\ outs[Prev[i]] # "known"
          BY <2>2, <4>1 DEF ReadInv, FilledInv
        <4> QED BY <2>1, <4>2 DEF Visible
      <3>2. CASE staged.ins[i] = "none"
        <4>1. ins[i] \in {"null", "valued"}
          BY <2>1, <2>2, <3>2
        <4>2. outs[Prev[i]] # "known"
          BY <2>2, <4>1 DEF FilledInv
        <4>3. staged.outs[Prev[i]] = "none"
          BY <2>1, <4>1, BatchIsNew
        <4> QED BY <2>1, <4>2, <4>3 DEF Visible
      <3> QED BY <3>1, <3>2
    <2> QED BY <1>6, <2>1, <2>2, NothingStaged DEF FilledInv, filler
  <1>7. CASE FillInputs
    <2>1. /\ UNCHANGED <<outs, staged>>
          /\ raced' = \E i \in In : Unfilled(staged.ins, i)
          /\ \A i \in In : ins'[i] = IF Unfilled(ins, i) THEN "known" ELSE ins[i]
      BY <1>7 DEF FillInputs, indexer
    <2>2. \A i \in In : ins'[i] \in {"null", "valued"} => outs[Prev[i]] # "known"
      BY <2>1 DEF Unfilled
    <2>3. ~raced' => \A i \in In : staged.ins[i] = "valued" => outs[Prev[i]] # "known"
      BY <2>1 DEF Unfilled
    <2> QED BY <2>1, <2>2, <2>3 DEF FilledInv
  <1>8. CASE QueryOutputs \/ Flush \/ OutputsDone \/ QueryBreaks \/ BackfillDies
    <2>1. bpc' # "done"
      BY <1>8 DEF QueryOutputs, Flush, OutputsDone, QueryBreaks, BackfillDies
    <2> QED BY <2>1 DEF FilledInv
  <1>9. CASE UpdateRow
    BY <1>1, <1>9 DEF UpdateRow, indexer
  <1>10. CASE UNCHANGED vars
    BY <1>1, <1>10 DEF vars, indexer, filler
  <1> QED BY <1>2, <1>3, <1>4, <1>5, <1>6, <1>7, <1>8, <1>9, <1>10 DEF Next, Ingest, Backfill

\* IInv and HInv together are inductive.
THEOREM HistoryInvariant == Spec => [](IInv /\ HInv)
  <1>1. Init => IInv /\ HInv
    BY InitInv, InitHistory
  <1>2. IInv /\ HInv /\ IInv' /\ [Next]_vars => HInv'
    BY RowsNext, KnownNext, ReadNext, FilledNext DEF HInv
  <1> QED BY <1>1, <1>2, Invariant, PTL DEF Spec

\* backfill-addresses (main.go): the statement of phase 2 misses an input only
\* if an ingest transaction raced with it; otherwise one run fills every input
\* whose output has an address, and the indexer those that come after.
THEOREM OneRunFillsUnlessRaced == Spec => [](~raced => BackfillOnce)
  <1>1. HInv => (~raced => BackfillOnce)
    BY DEF HInv, FilledInv, BackfillOnce, Unfilled
  <1> QED BY <1>1, HistoryInvariant, PTL

-----------------------------------------------------------------------------
(* What the page adds up, in closed form.                                  *)

\* A transaction has one place in the chain.
LEMMA OnePlace ==
    ASSUME NEW b \in Block, NEW c \in Block,
           NEW j \in 1..Len(TxsOf[b]), NEW k \in 1..Len(TxsOf[c]), TxsOf[b][j] = TxsOf[c][k]
    PROVE  b = c /\ j = k
  BY ChainAssumption

\* The transactions of blocks one above the other, each once.
LEMMA TxsListed ==
    ASSUME NEW blocks \in Seq(Block),
           \A k, m \in 1..Len(blocks) : blocks[k] = blocks[m] => k = m
    PROVE  /\ TxsIn(blocks) \in Seq(Tx)
           /\ \E row, col : Listed(TxsIn(blocks), [k \in 1..Len(blocks) |-> TxsOf[blocks[k]]],
                                   row, col)
           /\ \A m, n \in 1..Len(TxsIn(blocks)) :
                  TxsIn(blocks)[m] = TxsIn(blocks)[n] => m = n
  <1> DEFINE lists == [k \in 1..Len(blocks) |-> TxsOf[blocks[k]]]
             txs == TxsIn(blocks)
  <1>1. lists \in Seq(Seq(Tx)) /\ Len(lists) = Len(blocks)
    <2>1. \A k \in 1..Len(blocks) : TxsOf[blocks[k]] \in Seq(Tx)
      BY LedgerAssumption
    <2> QED BY <2>1
  <1>2. txs = FlattenSeq(lists)
    BY DEF TxsIn
  <1> HIDE DEF txs
  <1>3. txs \in Seq(Tx) /\ \E row, col : Listed(txs, lists, row, col)
    BY <1>1, <1>2, FlattenListed
  <1>4. PICK row, col : Listed(txs, lists, row, col)
    BY <1>3
  <1>5. ASSUME NEW m \in 1..Len(txs), NEW n \in 1..Len(txs), txs[m] = txs[n] PROVE m = n
    <2>1. /\ row[m] \in 1..Len(blocks) /\ col[m] \in 1..Len(TxsOf[blocks[row[m]]])
          /\ txs[m] = TxsOf[blocks[row[m]]][col[m]]
          /\ row[n] \in 1..Len(blocks) /\ col[n] \in 1..Len(TxsOf[blocks[row[n]]])
          /\ txs[n] = TxsOf[blocks[row[n]]][col[n]]
      BY <1>1, <1>4 DEF Listed
    <2>2. blocks[row[m]] \in Block /\ blocks[row[n]] \in Block
      BY <2>1
    <2>3. TxsOf[blocks[row[m]]][col[m]] = TxsOf[blocks[row[n]]][col[n]]
      BY <1>5, <2>1
    <2>4. blocks[row[m]] = blocks[row[n]] /\ col[m] = col[n]
      BY <2>1, <2>2, <2>3, OnePlace
    <2>5. row[m] = row[n]
      BY <2>1, <2>4
    <2>6. Len(txs) \in Nat /\ m \in Int /\ n \in Int
      BY <1>3
    <2>7. ~(m < n)
      <3> SUFFICES ASSUME m < n PROVE FALSE
        OBVIOUS
      <3>1. row[m] < row[n] \/ (row[m] = row[n] /\ col[m] < col[n])
        BY <1>4 DEF Listed
      <3> QED BY <2>1, <2>4, <2>5, <3>1
    <2>8. ~(n < m)
      <3> SUFFICES ASSUME n < m PROVE FALSE
        OBVIOUS
      <3>1. row[n] < row[m] \/ (row[n] = row[m] /\ col[n] < col[m])
        BY <1>4 DEF Listed
      <3> QED BY <2>1, <2>4, <2>5, <3>1
    <2> QED BY <2>6, <2>7, <2>8
  <1> QED BY <1>3, <1>5 DEF txs

\* The transactions that are indexed: each once, those of every block, and the
\* one that pays an output above those that spend it.
LEMMA HistoryListed ==
    ASSUME IInv
    PROVE  /\ TxsIn(index) \in Seq(Tx)
           /\ \A m, n \in 1..Len(TxsIn(index)) : TxsIn(index)[m] = TxsIn(index)[n] => m = n
           /\ \A n \in 1..Len(TxsIn(index)) : \E k \in 1..Len(index) :
                  \E j \in 1..Len(TxsOf[index[k]]) : TxsIn(index)[n] = TxsOf[index[k]][j]
           /\ \A k \in 1..Len(index) : \A j \in 1..Len(TxsOf[index[k]]) :
                  \E n \in 1..Len(TxsIn(index)) : TxsIn(index)[n] = TxsOf[index[k]][j]
           /\ \A m, n \in 1..Len(TxsIn(index)) : \A i \in ToSet(InsOf[TxsIn(index)[n]]) :
                  Prev[i] \in OutsOf[TxsIn(index)[m]] => m < n
  <1> DEFINE lists == [k \in 1..Len(index) |-> TxsOf[index[k]]]
             txs == TxsIn(index)
  <1>1. /\ index \in Seq(Block) /\ Len(index) \in Nat
        /\ \A k \in 1..Len(index) : index[k] \in Block /\ HeightOf[index[k]] = k - 1
    BY BlocksAtHand
  <1>2. \A k, m \in 1..Len(index) : index[k] = index[m] => k = m
    BY <1>1
  <1>3. /\ txs \in Seq(Tx)
        /\ \E row, col : Listed(txs, lists, row, col)
        /\ \A m, n \in 1..Len(txs) : txs[m] = txs[n] => m = n
    BY <1>1, <1>2, TxsListed
  <1> HIDE DEF txs
  <1>4. PICK row, col : Listed(txs, lists, row, col)
    BY <1>3
  <1>5. /\ Len(lists) = Len(index)
        /\ \A k \in 1..Len(index) : lists[k] = TxsOf[index[k]]
    BY <1>1
  <1> HIDE DEF lists
  <1>6. \A n \in 1..Len(txs) :
            /\ row[n] \in 1..Len(index) /\ col[n] \in 1..Len(TxsOf[index[row[n]]])
            /\ txs[n] = TxsOf[index[row[n]]][col[n]]
    BY <1>4, <1>5 DEF Listed
  <1>7. \A k \in 1..Len(index) : \A j \in 1..Len(TxsOf[index[k]]) :
            \E n \in 1..Len(txs) : row[n] = k /\ col[n] = j
    BY <1>4, <1>5 DEF Listed
  <1>8. \A k \in 1..Len(index) : \A j \in 1..Len(TxsOf[index[k]]) :
            \E n \in 1..Len(txs) : txs[n] = TxsOf[index[k]][j]
    BY <1>6, <1>7
  <1>9. ASSUME NEW m \in 1..Len(txs), NEW n \in 1..Len(txs),
               NEW i \in ToSet(InsOf[txs[n]]), Prev[i] \in OutsOf[txs[m]]
        PROVE  m < n
    <2> DEFINE b == index[row[n]]
               c == index[row[m]]
    <2>1. /\ row[n] \in 1..Len(index) /\ col[n] \in 1..Len(TxsOf[b]) /\ txs[n] = TxsOf[b][col[n]]
          /\ row[m] \in 1..Len(index) /\ col[m] \in 1..Len(TxsOf[c]) /\ txs[m] = TxsOf[c][col[m]]
      BY <1>6
    <2>2. b \in Block /\ c \in Block /\ HeightOf[b] = row[n] - 1 /\ HeightOf[c] = row[m] - 1
      BY <1>1, <2>1
    <2> HIDE DEF b, c
    <2>3. Spends(b, col[n], i) /\ Prev[i] \in OutsOf[TxsOf[c][col[m]]]
      BY <1>9, <2>1 DEF Spends
    <2>4. HeightOf[c] < HeightOf[b] \/ (c = b /\ col[m] < col[n])
      BY <2>1, <2>2, <2>3, PaidBefore
    <2>5. row[m] < row[n] \/ (row[m] = row[n] /\ col[m] < col[n])
      <3>1. row[m] \in Int /\ row[n] \in Int
        BY <2>1
      <3> QED BY <2>2, <2>4, <3>1
    <2>6. Len(txs) \in Nat /\ m \in Int /\ n \in Int
      BY <1>3
    <2>7. m # n
      <3> SUFFICES ASSUME m = n PROVE FALSE
        OBVIOUS
      <3>1. row[m] \in Int /\ col[m] \in Int
        BY <2>1
      <3> QED BY <2>5, <3>1
    <2>8. ~(n < m)
      <3> SUFFICES ASSUME n < m PROVE FALSE
        OBVIOUS
      <3>1. row[n] < row[m] \/ (row[n] = row[m] /\ col[n] < col[m])
        BY <1>4 DEF Listed
      <3>2. row[m] \in Int /\ col[m] \in Int /\ row[n] \in Int /\ col[n] \in Int
        BY <2>1
      <3> QED BY <2>5, <3>1, <3>2
    <2> QED BY <2>6, <2>7, <2>8
  <1>10. \A n \in 1..Len(txs) : \E k \in 1..Len(index) : \E j \in 1..Len(TxsOf[index[k]]) :
            txs[n] = TxsOf[index[k]][j]
    BY <1>6
  <1> QED BY <1>3, <1>8, <1>9, <1>10 DEF txs

\* What the first n transactions have paid to address a, as far as the address
\* is known, and what of it they have spent.
PaidBy(n, a)  == {o \in Received(a) : \E k \in 1..n : o \in OutsOf[TxsIn(index)[k]]}
SpentBy(n, a) == {o \in Received(a) : \E k \in 1..n : \E i \in ToSet(InsOf[TxsIn(index)[k]]) :
                      ins[i] = "known" /\ Prev[i] = o}

LEMMA TotalIsSum == \A rows : Total(rows) = SumOf(Value, rows)
  BY DEF Total, SumOf

\* The outputs of finitely many transactions are finitely many.
LEMMA FewOutputs ==
    ASSUME IInv, NEW n \in 0..Len(TxsIn(index))
    PROVE  IsFiniteSet(UNION {OutsOf[TxsIn(index)[k]] : k \in 1..n})
  <1>1. TxsIn(index) \in Seq(Tx)
    BY HistoryListed
  <1> DEFINE txs == TxsIn(index)
             sets == {OutsOf[txs[k]] : k \in 1..n}
             f == [k \in 1..n |-> OutsOf[txs[k]]]
  <1> HIDE DEF txs
  <1>2. n \in Int /\ \A k \in 1..n : txs[k] \in Tx
    BY <1>1 DEF txs
  <1>3. IsFiniteSet(1..n)
    BY <1>2, FS_Interval
  <1>4. f \in Surjection(1..n, sets)
    BY DEF Surjection
  <1>5. IsFiniteSet(sets)
    BY <1>3, <1>4, FS_Surjection
  <1>6. \A T \in sets : IsFiniteSet(T)
    BY <1>2, ChainAssumption
  <1>7. IsFiniteSet(UNION sets)
    BY <1>5, <1>6, FS_UNION
  <1> QED BY <1>7 DEF txs

\* What is spent from an address was paid to it before.
LEMMA SpentWasPaid ==
    ASSUME IInv, RowsInv, KnownInv, NEW a, NEW n \in 0..Len(TxsIn(index))
    PROVE  /\ SpentBy(n, a) \subseteq PaidBy(n, a)
           /\ PaidBy(n, a) \subseteq Out
           /\ IsFiniteSet(PaidBy(n, a))
  <1> DEFINE txs == TxsIn(index)
  <1>1. Len(txs) \in Nat /\ n \in 0..Len(txs) /\ PaidBy(n, a) \subseteq Out
    BY HistoryListed DEF PaidBy, Received
  <1>2. ASSUME NEW o \in SpentBy(n, a) PROVE o \in PaidBy(n, a)
    <2>1. o \in Received(a) /\ o \in Out /\ outs[o] # "none"
      BY <1>2 DEF SpentBy, Received
    <2>2. PICK k \in 1..n : \E i \in ToSet(InsOf[txs[k]]) : ins[i] = "known" /\ Prev[i] = o
      BY <1>2 DEF SpentBy
    <2>3. PICK i \in ToSet(InsOf[txs[k]]) : Prev[i] = o
      BY <2>2
    <2>4. PICK b \in 1..Len(index) : Pays(index[b], o)
      BY <2>1 DEF RowsInv
    <2>5. PICK j \in 1..Len(TxsOf[index[b]]) : o \in OutsOf[TxsOf[index[b]][j]]
      BY <2>4 DEF Pays
    <2>6. PICK m \in 1..Len(txs) : txs[m] = TxsOf[index[b]][j]
      BY HistoryListed
    <2>7. k \in 1..Len(txs)
      BY <1>1
    <2>8. m < k
      BY <2>3, <2>5, <2>6, <2>7, HistoryListed
    <2>9. m \in 1..n
      BY <1>1, <2>8
    <2> QED BY <2>1, <2>5, <2>6, <2>9 DEF PaidBy
  <1>3. PaidBy(n, a) \in SUBSET (UNION {OutsOf[txs[k]] : k \in 1..n})
    BY DEF PaidBy
  <1>4. IsFiniteSet(PaidBy(n, a))
    BY <1>3, FewOutputs, FS_Subset
  <1> QED BY <1>1, <1>2, <1>4

\* The two sums, and the balance after n transactions as their difference.
LEMMA BalanceAfter ==
    ASSUME IInv, RowsInv, KnownInv, NEW a, NEW n \in 0..Len(TxsIn(index))
    PROVE  /\ Total(PaidBy(n, a)) \in Nat /\ Total(SpentBy(n, a)) \in Nat
           /\ Total(PaidBy(n, a)) - Total(SpentBy(n, a)) = Total(PaidBy(n, a) \ SpentBy(n, a))
           /\ Total(PaidBy(n, a)) - Total(SpentBy(n, a)) >= 0
  <1> DEFINE S == PaidBy(n, a)
             R == SpentBy(n, a)
  <1>1. R \in SUBSET S /\ IsFiniteSet(S) /\ \A o \in S : Value[o] \in Nat
    BY SpentWasPaid, LedgerAssumption
  <1> HIDE DEF R, S
  <1>2. /\ SumOf(Value, S) \in Nat /\ SumOf(Value, R) \in Nat
        /\ SumOf(Value, S \ R) = SumOf(Value, S) - SumOf(Value, R)
        /\ SumOf(Value, R) <= SumOf(Value, S)
    BY <1>1, SumDifference
  <1>3. /\ Total(S) = SumOf(Value, S) /\ Total(R) = SumOf(Value, R)
        /\ Total(S \ R) = SumOf(Value, S \ R)
    BY TotalIsSum
  <1>4. /\ Total(S) \in Nat /\ Total(R) \in Nat
        /\ Total(S) - Total(R) = Total(S \ R)
        /\ Total(S) - Total(R) >= 0
    BY <1>2, <1>3
  <1> QED BY <1>4 DEF R, S

\* One transaction more adds what it pays and takes off what it spends.
LEMMA OneMore ==
    ASSUME IInv, RowsInv, KnownInv, NEW a, NEW n \in 1..Len(TxsIn(index))
    PROVE  Total(PaidBy(n, a)) - Total(SpentBy(n, a))
               = (Total(PaidBy(n - 1, a)) - Total(SpentBy(n - 1, a))) + Net(TxsIn(index)[n], a)
  <1> DEFINE txs == TxsIn(index)
             t == txs[n]
             paid == {i \in ToSet(InsOf[t]) : ins[i] = "known" /\ Owner[Prev[i]] = a}
             P == PaidBy(n - 1, a)
             S == SpentBy(n - 1, a)
             p == OutsOf[t] \cap Received(a)
             s == {Prev[i] : i \in paid}
  <1>1. /\ txs \in Seq(Tx) /\ Len(txs) \in Nat /\ n \in Int /\ 1 <= n /\ n <= Len(txs)
        /\ \A j, k \in 1..Len(txs) : txs[j] = txs[k] => j = k
        /\ \A k \in 1..Len(txs) : txs[k] \in Tx
    BY HistoryListed
  <1>2. n \in 0..Len(txs) /\ n - 1 \in 0..Len(txs)
    BY <1>1
  <1>3. \A k : k \in 1..n <=> k \in 1..(n - 1) \/ k = n
    BY <1>1
  <1>4. \A k \in 1..(n - 1) : k \in 1..Len(txs) /\ k # n
    BY <1>1
  <1>5. \A k \in 1..Len(txs) : InsOf[txs[k]] \in Seq(In) /\ ToSet(InsOf[txs[k]]) \subseteq In
    <2>1. \A q \in Seq(In) : ToSet(q) \subseteq In
      BY DEF ToSet
    <2> QED BY <1>1, <2>1, LedgerAssumption
  <1>6. PaidBy(n, a) = P \cup p
    BY <1>3 DEF PaidBy
  <1>7. P \cap p = {}
    <2> SUFFICES ASSUME NEW o \in P, o \in p PROVE FALSE
      OBVIOUS
    <2>1. PICK k \in 1..(n - 1) : o \in OutsOf[txs[k]]
      BY DEF PaidBy
    <2>2. txs[k] = txs[n]
      BY <1>1, <1>4, <2>1, ChainAssumption
    <2> QED BY <1>1, <1>4, <2>2
  <1>8. SpentBy(n, a) = S \cup s
    <2>1. ASSUME NEW o \in SpentBy(n, a) PROVE o \in S \cup s
      <3>1. o \in Received(a) /\ Owner[o] = a
        BY <2>1 DEF SpentBy, Received
      <3>2. PICK k \in 1..n : \E i \in ToSet(InsOf[txs[k]]) : ins[i] = "known" /\ Prev[i] = o
        BY <2>1 DEF SpentBy
      <3>3. CASE k = n
        BY <3>1, <3>2, <3>3
      <3>4. CASE k \in 1..(n - 1)
        BY <3>1, <3>2, <3>4 DEF SpentBy
      <3> QED BY <1>3, <3>3, <3>4
    <2>2. ASSUME NEW o \in S PROVE o \in SpentBy(n, a)
      BY <1>3, <2>2 DEF SpentBy
    <2>3. ASSUME NEW o \in s PROVE o \in SpentBy(n, a)
      <3>1. PICK i \in ToSet(InsOf[t]) : ins[i] = "known" /\ Owner[Prev[i]] = a /\ o = Prev[i]
        BY <2>3
      <3>2. i \in In
        BY <1>1, <1>5
      <3>3. o \in Received(a)
        BY <3>1, <3>2, LedgerAssumption DEF KnownInv, Received
      <3>4. n \in 1..n
        BY <1>1
      <3> QED BY <3>1, <3>3, <3>4 DEF SpentBy
    <2> QED BY <2>1, <2>2, <2>3
  <1>9. S \cap s = {}
    <2> SUFFICES ASSUME NEW o \in S, o \in s PROVE FALSE
      OBVIOUS
    <2>1. PICK k \in 1..(n - 1) : \E i \in ToSet(InsOf[txs[k]]) : Prev[i] = o
      BY DEF SpentBy
    <2>2. PICK i \in ToSet(InsOf[txs[k]]) : Prev[i] = o
      BY <2>1
    <2>3. PICK j \in ToSet(InsOf[t]) : Prev[j] = o
      OBVIOUS
    <2>4. i \in In /\ j \in In
      BY <1>1, <1>4, <1>5
    <2>5. i = j
      BY <2>2, <2>3, <2>4, LedgerAssumption
    <2>6. txs[k] = txs[n]
      BY <1>1, <1>4, <2>2, <2>3, <2>5, ChainAssumption
    <2> QED BY <1>1, <1>4, <2>6
  <1>10. /\ IsFiniteSet(P \cup p) /\ IsFiniteSet(P) /\ P \cup p \subseteq Out
         /\ S \cup s \subseteq P \cup p /\ S \subseteq P
    BY <1>2, <1>6, <1>8, SpentWasPaid
  <1>11. Net(t, a) = Total(p) - Total(s)
    BY DEF Net
  <1> HIDE DEF txs, t, paid, P, S, p, s
  <1>12. /\ IsFiniteSet(P) /\ IsFiniteSet(p) /\ IsFiniteSet(S) /\ IsFiniteSet(s)
         /\ \A o \in P \cup p : Value[o] \in Nat
         /\ \A o \in S \cup s : Value[o] \in Nat
    <2>1. /\ p \in SUBSET (P \cup p) /\ S \in SUBSET (P \cup p) /\ s \in SUBSET (P \cup p)
      BY <1>10
    <2>2. IsFiniteSet(p) /\ IsFiniteSet(S) /\ IsFiniteSet(s)
      BY <1>10, <2>1, FS_Subset
    <2> QED BY <1>10, <2>2, LedgerAssumption
  <1>13. SumOf(Value, P \cup p) = SumOf(Value, P) + SumOf(Value, p)
    BY <1>7, <1>12, SumUnion
  <1>14. SumOf(Value, S \cup s) = SumOf(Value, S) + SumOf(Value, s)
    BY <1>9, <1>12, SumUnion
  <1>15. /\ SumOf(Value, P) \in Nat /\ SumOf(Value, p) \in Nat
         /\ SumOf(Value, S) \in Nat /\ SumOf(Value, s) \in Nat
    BY <1>12, SumNat
  <1>16. /\ Total(P) = SumOf(Value, P) /\ Total(p) = SumOf(Value, p)
         /\ Total(S) = SumOf(Value, S) /\ Total(s) = SumOf(Value, s)
         /\ Total(P \cup p) = SumOf(Value, P \cup p) /\ Total(S \cup s) = SumOf(Value, S \cup s)
    BY TotalIsSum
  <1>17. Total(P \cup p) - Total(S \cup s) = (Total(P) - Total(S)) + (Total(p) - Total(s))
    BY <1>13, <1>14, <1>15, <1>16
  <1>18. Total(PaidBy(n, a)) - Total(SpentBy(n, a)) = (Total(P) - Total(S)) + Net(t, a)
    BY <1>6, <1>8, <1>11, <1>17
  <1> QED BY <1>18 DEF P, S, t, txs

\* The running balance of the page, in closed form.
LEMMA RunningIs ==
    ASSUME IInv, RowsInv, KnownInv, NEW a
    PROVE  Running(a) = [n \in 0..Len(TxsIn(index)) |->
                             Total(PaidBy(n, a)) - Total(SpentBy(n, a))]
  <1> DEFINE txs == TxsIn(index)
             N == Len(txs)
             d == [n \in 1..N |-> Net(txs[n], a)]
             f == [n \in 0..N |-> Total(PaidBy(n, a)) - Total(SpentBy(n, a))]
  <1>1. N \in Nat
    BY HistoryListed
  <1>2. f[0] = 0
    <2>1. PaidBy(0, a) = {} /\ SpentBy(0, a) = {}
      <3>1. \A k \in 1..0 : FALSE
        OBVIOUS
      <3> QED BY <3>1 DEF PaidBy, SpentBy
    <2>2. Total({}) = 0
      BY TotalIsSum, SumStep, FS_EmptySet
    <2> QED BY <1>1, <2>1, <2>2
  <1>3. ASSUME NEW n \in 1..N PROVE f[n] = f[n - 1] + d[n]
    <2>1. n \in 0..N /\ n - 1 \in 0..N
      BY <1>1
    <2> QED BY <2>1, OneMore
  <1> HIDE DEF d, txs
  <1>4. RunsOver(f, N, d)
    <2>1. ASSUME NEW n \in 0..N PROVE f[n] = IF n = 0 THEN 0 ELSE f[n - 1] + d[n]
      <3>1. CASE n = 0
        BY <1>2, <3>1
      <3>2. CASE n # 0
        <4>1. n \in 1..N
          BY <1>1, <3>2
        <4> QED BY <1>3, <3>2, <4>1
      <3> QED BY <3>1, <3>2
    <2>2. f = [n \in 0..N |-> f[n]]
      OBVIOUS
    <2> HIDE DEF f
    <2> QED BY <2>1, <2>2 DEF RunsOver
  <1>5. Running(a) = CHOOSE g : g = [n \in 0..N |-> IF n = 0 THEN 0 ELSE g[n - 1] + Net(txs[n], a)]
    BY DEF Running, txs
  <1> HIDE DEF f, N
  <1>6. \A g : RunsOver(g, N, d) <=>
                   g = [n \in 0..N |-> IF n = 0 THEN 0 ELSE g[n - 1] + Net(txs[n], a)]
    <2>1. \A n \in 0..N : n # 0 => d[n] = Net(txs[n], a)
      BY <1>1 DEF d
    <2>2. ASSUME NEW g
          PROVE  [n \in 0..N |-> IF n = 0 THEN 0 ELSE g[n - 1] + d[n]]
                     = [n \in 0..N |-> IF n = 0 THEN 0 ELSE g[n - 1] + Net(txs[n], a)]
      BY <2>1
    <2> QED BY <2>2 DEF RunsOver
  <1>7. RunsOver(Running(a), N, d)
    BY <1>4, <1>5, <1>6
  <1>8. Running(a) = f
    BY <1>1, <1>4, <1>7, OneRun
  <1> QED BY <1>8 DEF f, N, txs

\* What all indexed transactions have paid to an address are its rows.
LEMMA PaidInAll ==
    ASSUME IInv, RowsInv, NEW a
    PROVE  PaidBy(Len(TxsIn(index)), a) = Received(a)
  <1> DEFINE txs == TxsIn(index)
  <1>1. ASSUME NEW o \in Received(a) PROVE \E n \in 1..Len(txs) : o \in OutsOf[txs[n]]
    <2>1. o \in Out /\ outs[o] # "none"
      BY <1>1 DEF Received
    <2>2. PICK b \in 1..Len(index) : Pays(index[b], o)
      BY <2>1 DEF RowsInv
    <2>3. PICK j \in 1..Len(TxsOf[index[b]]) : o \in OutsOf[TxsOf[index[b]][j]]
      BY <2>2 DEF Pays
    <2>4. PICK n \in 1..Len(txs) : txs[n] = TxsOf[index[b]][j]
      BY HistoryListed
    <2> QED BY <2>3, <2>4
  <1> QED BY <1>1 DEF PaidBy

\* Once the backfill is over, with no input missed, the inputs of the history
\* that have an address are those the marks of the address's rows name.
LEMMA SpentInAll ==
    ASSUME IInv, HInv, bpc = "done", ~raced, NEW a
    PROVE  SpentBy(Len(TxsIn(index)), a) = {o \in Received(a) : spentBy[o] # NoIn}
  <1> DEFINE txs == TxsIn(index)
  <1>0. TypeOK /\ SpentMatchesInputs /\ RowsInv /\ KnownInv /\ FilledInv
    BY DEF IInv, HInv
  <1>1. ASSUME NEW o \in Received(a), spentBy[o] # NoIn
        PROVE  \E n \in 1..Len(txs) : \E i \in ToSet(InsOf[txs[n]]) :
                   ins[i] = "known" /\ Prev[i] = o
    <2> DEFINE i == spentBy[o]
    <2>1. o \in Out /\ outs[o] = "known"
      BY DEF Received
    <2>2. i \in In /\ Prev[i] = o
      BY <1>0, <1>1, <2>1 DEF TypeOK, KnownInv
    <2>3. ins[i] # "none" /\ ins[i] \in InColumn
      BY <1>0, <2>2 DEF TypeOK, SpentMatchesInputs
    <2>4. ins[i] \notin {"null", "valued"}
      BY <1>0, <2>1, <2>2 DEF FilledInv
    <2>5. ins[i] = "known"
      BY <2>3, <2>4 DEF InColumn, Column
    <2>6. PICK b \in 1..Len(index) : \E j \in Nat : Spends(index[b], j, i)
      BY <1>0, <2>2, <2>3 DEF RowsInv
    <2>7. PICK j \in Nat : Spends(index[b], j, i)
      BY <2>6
    <2>8. PICK n \in 1..Len(txs) : txs[n] = TxsOf[index[b]][j]
      BY <2>7, HistoryListed DEF Spends
    <2>9. i \in ToSet(InsOf[txs[n]])
      BY <2>7, <2>8 DEF Spends
    <2> QED BY <2>2, <2>5, <2>9
  <1>2. ASSUME NEW o \in Received(a), NEW n \in 1..Len(txs), NEW i \in ToSet(InsOf[txs[n]]),
               ins[i] = "known", Prev[i] = o
        PROVE  spentBy[o] # NoIn
    <2>1. txs \in Seq(Tx)
      BY HistoryListed
    <2>2. InsOf[txs[n]] \in Seq(In)
      BY <2>1, LedgerAssumption
    <2>3. i \in In
      BY <2>2 DEF ToSet
    <2>4. spentBy[o] = i
      BY <1>0, <1>2, <2>3 DEF SpentMatchesInputs
    <2> QED BY <2>3, <2>4, LedgerAssumption
  <1> QED BY <1>1, <1>2 DEF SpentBy

\* The closed form before and after a step.
ClosedForm ==
    \A a, P, S : \A n \in 0..Len(TxsIn(index)) :
        P = PaidBy(n, a) /\ S = SpentBy(n, a) => Running(a)[n] = Total(P) - Total(S)

LEMMA ClosedFormNext ==
    /\ IInv /\ RowsInv /\ KnownInv => ClosedForm
    /\ IInv' /\ RowsInv' /\ KnownInv' => ClosedForm'
  <1>1. IInv /\ RowsInv /\ KnownInv => ClosedForm
    BY RunningIs DEF ClosedForm
  <1> QED BY <1>1, PTL

-----------------------------------------------------------------------------
(* The properties of the sums.                                             *)

\* AddressDetail's window over net_sats (addressdetail.go): whichever part of
\* the addresses the backfill has filled in, no row shows a negative balance.
THEOREM HistoryIsCovered == Spec => []NoOverdraft
  <1>1. IInv /\ HInv => NoOverdraft
    <2> SUFFICES ASSUME IInv, HInv, NEW a \in Address, NEW n \in DOMAIN Running(a)
                 PROVE  Running(a)[n] >= 0
      BY DEF NoOverdraft
    <2>1. RowsInv /\ KnownInv
      BY DEF HInv
    <2>2. /\ n \in 0..Len(TxsIn(index))
          /\ Running(a)[n] = Total(PaidBy(n, a)) - Total(SpentBy(n, a))
      BY <2>1, RunningIs
    <2>3. Total(PaidBy(n, a)) - Total(SpentBy(n, a)) >= 0
      BY <2>1, <2>2, BalanceAfter
    <2> QED BY <2>2, <2>3
  <1> QED BY <1>1, HistoryInvariant, PTL

\* The two sums of the summary, and the end of the history.
LEMMA SummaryIsEnd ==
    ASSUME IInv, HInv, NEW a
    PROVE  /\ Total(Received(a)) \in Nat
           /\ Total({o \in Received(a) : spentBy[o] # NoIn}) \in Nat
           /\ bpc = "done" /\ ~raced =>
                /\ Running(a)[Len(TxsIn(index))] =
                       Total(Received(a)) - Total({o \in Received(a) : spentBy[o] # NoIn})
                /\ Running(a)[Len(TxsIn(index))] = Balance(a)
  <1> DEFINE N == Len(TxsIn(index))
             gone == {o \in Received(a) : spentBy[o] # NoIn}
  <1>1. RowsInv /\ KnownInv
    BY DEF HInv
  <1>2. N \in 0..N
    BY HistoryListed
  <1>3. PaidBy(N, a) = Received(a)
    BY <1>1, PaidInAll
  <1>4. IsFiniteSet(Received(a)) /\ gone \in SUBSET Received(a)
        /\ \A o \in Received(a) : Value[o] \in Nat
    BY <1>1, <1>2, <1>3, SpentWasPaid, LedgerAssumption
  <1>5. SumOf(Value, Received(a)) \in Nat /\ SumOf(Value, gone) \in Nat
    <2> HIDE DEF gone
    <2> QED BY <1>4, SumDifference
  <1>6. ASSUME bpc = "done", ~raced
        PROVE  /\ Running(a)[N] = Total(Received(a)) - Total(gone)
               /\ Running(a)[N] = Balance(a)
    <2>1. SpentBy(N, a) = gone
      BY <1>6, SpentInAll
    <2>2. Running(a)[N] = Total(PaidBy(N, a)) - Total(SpentBy(N, a))
      <3> HIDE DEF N
      <3> QED BY <1>1, <1>2, RunningIs DEF N
    <2>3. Total(PaidBy(N, a)) - Total(SpentBy(N, a)) = Total(PaidBy(N, a) \ SpentBy(N, a))
      BY <1>1, <1>2, BalanceAfter
    <2>4. Received(a) \ gone = {o \in Received(a) : spentBy[o] = NoIn}
      OBVIOUS
    <2> QED BY <1>3, <2>1, <2>2, <2>3, <2>4 DEF Balance
  <1> QED BY <1>5, <1>6, TotalIsSum

\* AddressDetail (addressdetail.go): after an undisturbed backfill the balance,
\* over tx_outputs, is where the history, over outputs and inputs, ends.
THEOREM SummaryMatchesHistory == Spec => []BalanceMatchesHistory
  <1>1. IInv /\ HInv => BalanceMatchesHistory
    BY SummaryIsEnd DEF BalanceMatchesHistory
  <1> QED BY <1>1, HistoryInvariant, PTL

-----------------------------------------------------------------------------
(* The two parts of a page.                                                *)

PageTypeOK ==
    /\ apc \in {"idle", "inputs", "history", "answered"}
    /\ detail \in [address : Address \cup {""}, found : BOOLEAN, recv : Nat, sent : Nat,
                   running : Seq(Nat), indexed : Nat, settled : BOOLEAN, whole : BOOLEAN]
    /\ apc \in {"inputs", "history"} => detail.address \in Address

\* Between the summary and the history of a page that was asked for after an
\* undisturbed backfill, nothing moves what had been added up.
PageInv ==
    apc \in {"inputs", "history"} /\ detail.settled =>
        /\ bpc = "done" /\ ~raced
        /\ detail.indexed \in 0..Len(TxsIn(index))
        /\ \A a \in Address : a = detail.address =>
               Running(a)[detail.indexed] = detail.recv - detail.sent

\* More blocks add their transactions at the end.
LEMMA TxsAppend ==
    ASSUME NEW p \in Seq(Block), NEW q \in Seq(Block)
    PROVE  TxsIn(p \o q) = TxsIn(p) \o TxsIn(q)
  <1> DEFINE s == [k \in 1..Len(p) |-> TxsOf[p[k]]]
             t == [k \in 1..Len(q) |-> TxsOf[q[k]]]
             u == [k \in 1..Len(p \o q) |-> TxsOf[(p \o q)[k]]]
  <1>1. \A b \in Block : TxsOf[b] \in Seq(Tx)
    BY LedgerAssumption
  <1>2. /\ Len(p \o q) = Len(p) + Len(q) /\ Len(p) \in Nat /\ Len(q) \in Nat
        /\ p \o q \in Seq(Block)
        /\ \A k \in 1..(Len(p) + Len(q)) :
               (p \o q)[k] = IF k <= Len(p) THEN p[k] ELSE q[k - Len(p)]
    BY ConcatProperties
  <1>3. /\ s \in Seq(Seq(Tx)) /\ Len(s) = Len(p)
        /\ t \in Seq(Seq(Tx)) /\ Len(t) = Len(q)
        /\ u \in Seq(Seq(Tx)) /\ Len(u) = Len(p) + Len(q)
    <2> DEFINE r == p \o q
    <2>1. r \in Seq(Block) /\ Len(r) = Len(p) + Len(q)
      BY <1>2
    <2> HIDE DEF r
    <2>2. [k \in 1..Len(r) |-> TxsOf[r[k]]] \in Seq(Seq(Tx))
      BY <1>1, <2>1
    <2> QED BY <1>1, <1>2, <2>1, <2>2 DEF r
  <1>4. /\ \A k \in 1..Len(p) : s[k] = TxsOf[p[k]]
        /\ \A k \in 1..Len(q) : t[k] = TxsOf[q[k]]
        /\ \A k \in 1..(Len(p) + Len(q)) :
               u[k] = IF k <= Len(p) THEN TxsOf[p[k]] ELSE TxsOf[q[k - Len(p)]]
    BY <1>2
  <1>5. TxsIn(p) = FlattenSeq(s) /\ TxsIn(q) = FlattenSeq(t) /\ TxsIn(p \o q) = FlattenSeq(u)
    BY DEF TxsIn
  <1> HIDE DEF s, t, u
  <1>6. \A k \in 1..(Len(p) + Len(q)) : k <= Len(p) \/ k - Len(p) \in 1..Len(q)
    BY <1>2
  <1>7. /\ s \o t \in Seq(Seq(Tx)) /\ Len(s \o t) = Len(p) + Len(q)
        /\ \A k \in 1..(Len(p) + Len(q)) :
               (s \o t)[k] = IF k <= Len(p) THEN s[k] ELSE t[k - Len(p)]
    <2> DEFINE X == Seq(Tx)
    <2>1. s \in Seq(X) /\ t \in Seq(X)
      BY <1>3
    <2> HIDE DEF X
    <2>2. /\ s \o t \in Seq(X) /\ Len(s \o t) = Len(s) + Len(t)
          /\ \A k \in 1..(Len(s) + Len(t)) :
                 (s \o t)[k] = IF k <= Len(s) THEN s[k] ELSE t[k - Len(s)]
      BY <2>1, ConcatProperties
    <2> QED BY <1>3, <2>2 DEF X
  <1>8. \A k \in 1..(Len(p) + Len(q)) : u[k] = (s \o t)[k]
    BY <1>2, <1>4, <1>6, <1>7
  <1>9. u = s \o t
    BY <1>3, <1>7, <1>8, SeqEqual
  <1> QED BY <1>3, <1>5, <1>9, FlattenPrefix

\* Past a commit, the transactions indexed before are where they were, and the
\* balances after them what they were.
LEMMA CommitAppends ==
    ASSUME IInv, HInv, IInv', HInv', Commit
    PROVE  /\ Len(TxsIn(index)) \in Nat /\ Len(TxsIn(index')) \in Nat
           /\ Len(TxsIn(index)) <= Len(TxsIn(index'))
           /\ \A a : \A n \in 0..Len(TxsIn(index)) : Running(a)'[n] = Running(a)[n]
  <1> DEFINE txs == TxsIn(index)
             new == TxsIn(staged.blocks)
             N == Len(txs)
  <1>1. /\ ipc = "commit" /\ index' = index \o staged.blocks
        /\ \A o \in Out : outs'[o] = Visible(o)
        /\ \A i \in In : ins'[i] = IF staged.ins[i] # "none" THEN staged.ins[i] ELSE ins[i]
    BY DEF Commit
  <1>2. /\ index \in Seq(Block) /\ staged.blocks \in Seq(Block)
        /\ Len(index) \in Nat /\ Len(staged.blocks) \in Nat
        /\ \A k \in 1..Len(index) : index[k] \in Block /\ HeightOf[index[k]] = k - 1
        /\ \A k \in 1..Len(staged.blocks) :
               staged.blocks[k] \in Block /\ HeightOf[staged.blocks[k]] = Len(index) + k - 1
    BY <1>1, BlocksAtHand
  <1>3. txs \in Seq(Tx) /\ new \in Seq(Tx)
    <2>1. \A k, m \in 1..Len(staged.blocks) : staged.blocks[k] = staged.blocks[m] => k = m
      BY <1>2
    <2> QED BY <1>2, <2>1, TxsListed, HistoryListed
  <1>4. TxsIn(index') = txs \o new
    BY <1>1, <1>2, TxsAppend
  <1>5. /\ N \in Nat /\ Len(TxsIn(index')) \in Nat /\ N <= Len(TxsIn(index'))
        /\ \A k \in 1..N : TxsIn(index')[k] = txs[k]
    <2> HIDE DEF txs, new
    <2> QED BY <1>3, <1>4
  <1>6. RowsInv /\ KnownInv /\ RowsInv' /\ KnownInv'
    BY DEF HInv
  <1>7. ASSUME NEW k \in 1..N PROVE \A o \in OutsOf[txs[k]] : staged.outs[o] = "none"
    <2> SUFFICES ASSUME NEW o \in OutsOf[txs[k]], staged.outs[o] # "none" PROVE FALSE
      OBVIOUS
    <2>1. PICK b \in 1..Len(index) : \E j \in 1..Len(TxsOf[index[b]]) :
              txs[k] = TxsOf[index[b]][j]
      BY HistoryListed
    <2>2. PICK j \in 1..Len(TxsOf[index[b]]) : txs[k] = TxsOf[index[b]][j]
      BY <2>1
    <2>3. o \in Out
      BY <1>3, LedgerAssumption
    <2>4. PICK m \in 1..Len(staged.blocks) : Pays(staged.blocks[m], o)
      BY <1>6, <2>3 DEF RowsInv
    <2>5. index[b] = staged.blocks[m]
      <3>1. PICK l \in 1..Len(TxsOf[staged.blocks[m]]) : o \in OutsOf[TxsOf[staged.blocks[m]][l]]
        BY <2>4 DEF Pays
      <3>2. o \in OutsOf[TxsOf[index[b]][j]]
        BY <2>2
      <3> HIDE DEF txs
      <3> QED BY <1>2, <3>1, <3>2, PaidOnce
    <2>6. b - 1 = Len(index) + m - 1
      BY <1>2, <2>5
    <2> QED BY <1>2, <2>6
  <1>8. ASSUME NEW k \in 1..N PROVE \A i \in ToSet(InsOf[txs[k]]) : i \in In /\ staged.ins[i] = "none"
    <2> SUFFICES ASSUME NEW i \in ToSet(InsOf[txs[k]])
                 PROVE  i \in In /\ staged.ins[i] = "none"
      OBVIOUS
    <2>1. PICK b \in 1..Len(index) : \E j \in 1..Len(TxsOf[index[b]]) :
              txs[k] = TxsOf[index[b]][j]
      BY HistoryListed
    <2>2. PICK j \in 1..Len(TxsOf[index[b]]) : txs[k] = TxsOf[index[b]][j]
      BY <2>1
    <2>3. i \in In
      <3>1. InsOf[txs[k]] \in Seq(In)
        BY <1>3, LedgerAssumption
      <3> QED BY <3>1 DEF ToSet
    <2>4. ASSUME staged.ins[i] # "none" PROVE FALSE
      <3>1. PICK m \in 1..Len(staged.blocks) : \E l \in Nat : Spends(staged.blocks[m], l, i)
        BY <1>6, <2>3, <2>4 DEF RowsInv
      <3>2. Spends(index[b], j, i)
        BY <2>2 DEF Spends
      <3>3. index[b] = staged.blocks[m]
        BY <1>2, <3>1, <3>2, SpentOnce
      <3>4. b - 1 = Len(index) + m - 1
        BY <1>2, <3>3
      <3> QED BY <1>2, <3>4
    <2> QED BY <2>3, <2>4
  <1>9. ASSUME NEW a, NEW n \in 0..N
        PROVE  PaidBy(n, a)' = PaidBy(n, a) /\ SpentBy(n, a)' = SpentBy(n, a)
    <2>1. \A k \in 1..n : k \in 1..N
      BY <1>5
    <2>2. \A o \in Out : staged.outs[o] = "none" => outs'[o] = outs[o]
      BY <1>1 DEF Visible
    <2>3. \A k \in 1..n : TxsIn(index')[k] = txs[k]
      BY <1>5, <2>1
    <2>4. \A o : o \in PaidBy(n, a)' <=> o \in PaidBy(n, a)
      <3> SUFFICES ASSUME NEW o PROVE o \in PaidBy(n, a)' <=> o \in PaidBy(n, a)
        OBVIOUS
      <3>1. ASSUME NEW k \in 1..n, o \in OutsOf[txs[k]], o \in Out PROVE outs'[o] = outs[o]
        BY <1>7, <2>1, <2>2, <3>1
      <3> HIDE DEF txs
      <3>2. o \in PaidBy(n, a) <=> /\ o \in Out /\ outs[o] = "known" /\ Owner[o] = a
                                   /\ \E k \in 1..n : o \in OutsOf[txs[k]]
        BY DEF PaidBy, Received, txs
      <3>3. o \in PaidBy(n, a)' <=> /\ o \in Out /\ outs'[o] = "known" /\ Owner[o] = a
                                    /\ \E k \in 1..n : o \in OutsOf[TxsIn(index')[k]]
        BY DEF PaidBy, Received
      <3> QED BY <2>3, <3>1, <3>2, <3>3
    <2>5. \A o : o \in SpentBy(n, a)' <=> o \in SpentBy(n, a)
      <3> SUFFICES ASSUME NEW o PROVE o \in SpentBy(n, a)' <=> o \in SpentBy(n, a)
        OBVIOUS
      <3>1. ASSUME NEW k \in 1..n, NEW i \in ToSet(InsOf[txs[k]])
            PROVE  /\ i \in In
                   /\ ins'[i] = ins[i]
                   /\ ins[i] = "known" => outs[Prev[i]] = "known" /\ outs'[Prev[i]] = "known"
        <4>1. i \in In /\ ins'[i] = ins[i]
          BY <1>1, <1>8, <2>1
        <4>2. ASSUME ins[i] = "known" PROVE outs[Prev[i]] = "known" /\ outs'[Prev[i]] = "known"
          BY <1>6, <4>1, <4>2 DEF KnownInv
        <4> QED BY <4>1, <4>2
      <3> HIDE DEF txs
      <3>2. o \in SpentBy(n, a) <=> /\ o \in Out /\ outs[o] = "known" /\ Owner[o] = a
                                    /\ \E k \in 1..n : \E i \in ToSet(InsOf[txs[k]]) :
                                           ins[i] = "known" /\ Prev[i] = o
        BY DEF SpentBy, Received, txs
      <3>3. o \in SpentBy(n, a)' <=> /\ o \in Out /\ outs'[o] = "known" /\ Owner[o] = a
                                     /\ \E k \in 1..n : \E i \in ToSet(InsOf[TxsIn(index')[k]]) :
                                            ins'[i] = "known" /\ Prev[i] = o
        BY DEF SpentBy, Received
      <3>4. (\E k \in 1..n : \E i \in ToSet(InsOf[TxsIn(index')[k]]) :
                    ins'[i] = "known" /\ Prev[i] = o)
             <=> (\E k \in 1..n : \E i \in ToSet(InsOf[txs[k]]) : ins[i] = "known" /\ Prev[i] = o)
        BY <2>3, <3>1
      <3>5. (\E k \in 1..n : \E i \in ToSet(InsOf[txs[k]]) : ins[i] = "known" /\ Prev[i] = o)
               => outs[o] = "known" /\ outs'[o] = "known"
        BY <3>1
      <3> QED BY <3>2, <3>3, <3>4, <3>5
    <2> QED BY <2>4, <2>5 DEF PaidBy, SpentBy
  <1>10. ASSUME NEW a, NEW n \in 0..N PROVE Running(a)'[n] = Running(a)[n]
    <2>1. n \in 0..Len(TxsIn(index'))
      BY <1>5
    <2>2. Running(a)[n] = Total(PaidBy(n, a)) - Total(SpentBy(n, a))
      BY <1>6, RunningIs
    <2>3. ClosedForm'
      BY <1>6, ClosedFormNext
    <2>4. \A P, S : P = PaidBy(n, a)' /\ S = SpentBy(n, a)' =>
              Running(a)'[n] = Total(P) - Total(S)
      BY <2>1, <2>3 DEF ClosedForm
    <2> QED BY <1>9, <2>2, <2>4
  <1> QED BY <1>5, <1>10

\* The running balance is a function of the tables.
LEMMA RunningStays ==
    ASSUME IInv, HInv, IInv', HInv', UNCHANGED <<index, outs, ins>>
    PROVE  \A a : \A n \in 0..Len(TxsIn(index)) : Running(a)'[n] = Running(a)[n]
  <1>1. ClosedForm /\ ClosedForm'
    BY ClosedFormNext DEF HInv
  <1>2. ASSUME NEW a, NEW n \in 0..Len(TxsIn(index)) PROVE Running(a)'[n] = Running(a)[n]
    <2>1. PaidBy(n, a)' = PaidBy(n, a) /\ SpentBy(n, a)' = SpentBy(n, a)
      BY DEF PaidBy, SpentBy, Received
    <2>2. \A P, S : P = PaidBy(n, a) /\ S = SpentBy(n, a) =>
              Running(a)[n] = Total(P) - Total(S)
      BY <1>1 DEF ClosedForm
    <2>3. n \in 0..Len(TxsIn(index'))
      OBVIOUS
    <2>4. \A P, S : P = PaidBy(n, a)' /\ S = SpentBy(n, a)' =>
              Running(a)'[n] = Total(P) - Total(S)
      BY <1>1, <2>3 DEF ClosedForm
    <2> QED BY <2>1, <2>2, <2>4
  <1> QED BY <1>2

\* Once the backfill is over, only the indexer moves, and it only appends.
LEMMA NothingMoves ==
    ASSUME IInv, HInv, IInv', HInv', [Next]_vars, bpc = "done"
    PROVE  /\ bpc' = "done" /\ raced' = raced
           /\ Len(TxsIn(index)) \in Nat /\ Len(TxsIn(index')) \in Nat
           /\ Len(TxsIn(index)) <= Len(TxsIn(index'))
           /\ \A a : \A n \in 0..Len(TxsIn(index)) : Running(a)'[n] = Running(a)[n]
  <1>1. CASE Commit
    BY <1>1, CommitAppends DEF Commit, filler
  <1>2. ASSUME UNCHANGED tables, UNCHANGED filler
        PROVE  /\ bpc' = "done" /\ raced' = raced /\ index' = index
               /\ \A a : \A n \in 0..Len(TxsIn(index)) : Running(a)'[n] = Running(a)[n]
    BY <1>2, RunningStays DEF tables, filler
  <1>3. CASE BeginBatch \/ InsertTx \/ ReadPrev \/ MarkSpent \/ Rollback \/ UNCHANGED vars
    <2>1. UNCHANGED tables /\ UNCHANGED filler
      BY <1>3 DEF BeginBatch, InsertTx, ReadPrev, MarkSpent, Rollback, vars
    <2> QED BY <1>2, <2>1, HistoryListed
  <1>4. ~(Backfill \/ QueryBreaks \/ BackfillDies)
    BY DEF Backfill, QueryOutputs, UpdateRow, Flush, OutputsDone, FillInputs, QueryBreaks,
           BackfillDies
  <1> QED BY <1>1, <1>3, <1>4 DEF Next, Ingest

PInv == PageTypeOK /\ PageInv /\ HistoryReachesBalance

\* The summary.
LEMMA SummaryStep ==
    ASSUME IInv, HInv, IInv', HInv', PInv, ReadSummary
    PROVE  PInv'
  <1>1. PICK a \in Address :
            /\ detail' = [NoDetail EXCEPT
                   !.address = a, !.recv = Total(Received(a)),
                   !.sent = Total({o \in Received(a) : spentBy[o] # NoIn}),
                   !.indexed = Len(TxsIn(index)), !.settled = bpc = "done" /\ ~raced]
            /\ apc' \in {"inputs", "history"}
    BY DEF ReadSummary
  <1> DEFINE recv == Total(Received(a))
             sent == Total({o \in Received(a) : spentBy[o] # NoIn})
             N == Len(TxsIn(index))
             calm == bpc = "done" /\ ~raced
  <1>2. recv \in Nat /\ sent \in Nat /\ N \in Nat
        /\ (calm => Running(a)[N] = recv - sent)
    BY SummaryIsEnd, HistoryListed
  <1>3. UNCHANGED vars
    BY DEF ReadSummary
  <1>4. /\ detail' = [address |-> a, found |-> FALSE, recv |-> recv, sent |-> sent,
                      running |-> << >>, indexed |-> N, settled |-> calm, whole |-> FALSE]
    BY <1>1 DEF NoDetail
  <1>5. index' = index /\ bpc' = bpc /\ raced' = raced
    BY <1>3 DEF vars, tables, filler
  <1>6. \A b : \A n \in 0..N : Running(b)'[n] = Running(b)[n]
    BY <1>3, RunningStays DEF vars, tables
  <1>7. calm \in BOOLEAN /\ (calm => bpc = "done" /\ ~raced)
    OBVIOUS
  <1> HIDE DEF recv, sent, N, calm
  <1>8. PageTypeOK'
    <2>1. << >> \in Seq(Nat)
      OBVIOUS
    <2>2. apc' \in {"inputs", "history"}
      BY <1>1
    <2>3. detail'.address = a
      BY <1>4
    <2>4. calm \in BOOLEAN
      BY <1>7
    <2>5. detail' \in [address : Address \cup {""}, found : BOOLEAN, recv : Nat, sent : Nat,
                       running : Seq(Nat), indexed : Nat, settled : BOOLEAN, whole : BOOLEAN]
      BY <1>2, <1>4, <2>1, <2>4
    <2> QED BY <2>2, <2>3, <2>5 DEF PageTypeOK
  <1>9. PageInv'
    <2>1. /\ detail'.address = a /\ detail'.recv = recv /\ detail'.sent = sent
          /\ detail'.indexed = N /\ detail'.settled = calm
      BY <1>4
    <2>2. N \in 0..Len(TxsIn(index'))
      BY <1>2, <1>5 DEF N
    <2>3. N \in 0..N
      BY <1>2
    <2> QED BY <1>2, <1>5, <1>6, <1>7, <2>1, <2>2, <2>3 DEF PageInv
  <1>10. HistoryReachesBalance'
    BY <1>4 DEF HistoryReachesBalance
  <1> QED BY <1>8, <1>9, <1>10 DEF PInv

\* The history.
LEMMA HistoryStep ==
    ASSUME IInv, HInv, PInv, ReadHistory
    PROVE  PInv'
  <1> DEFINE N == Len(TxsIn(index))
             a == detail.address
  <1>1. PICK last \in 0..N :
            detail' = [detail EXCEPT !.found = TRUE, !.whole = last = N,
                                     !.running = [n \in 1..last |-> Running(a)[n]]]
    BY DEF ReadHistory
  <1>2. apc = "history" /\ apc' = "answered"
    BY DEF ReadHistory
  <1>3. PageTypeOK /\ PageInv /\ RowsInv /\ KnownInv
    BY DEF PInv, HInv
  <1>4. N \in Nat
    BY HistoryListed
  <1> DEFINE run == [n \in 1..last |-> Running(a)[n]]
  <1>5. run \in Seq(Nat) /\ DOMAIN run = 1..last
    <2>1. ASSUME NEW n \in 1..last PROVE Running(a)[n] \in Nat
      <3>1. n \in 0..Len(TxsIn(index))
        BY <1>4
      <3>2. Running(a)[n] = Total(PaidBy(n, a)) - Total(SpentBy(n, a))
        BY <1>3, <3>1, RunningIs
      <3>3. /\ Total(PaidBy(n, a)) \in Nat /\ Total(SpentBy(n, a)) \in Nat
            /\ Total(PaidBy(n, a)) - Total(SpentBy(n, a)) >= 0
        BY <1>3, <3>1, BalanceAfter
      <3> QED BY <3>2, <3>3
    <2>2. last \in Nat
      BY <1>4
    <2> QED BY <2>1, <2>2
  <1>6. /\ detail'.address = a /\ detail'.recv = detail.recv /\ detail'.sent = detail.sent
        /\ detail'.running = run /\ detail'.indexed = detail.indexed
        /\ detail'.settled = detail.settled /\ detail'.whole = (last = N)
    BY <1>1, <1>3 DEF PageTypeOK
  <1>7. PageTypeOK'
    <2> HIDE DEF run, N
    <2> QED BY <1>1, <1>2, <1>3, <1>5 DEF PageTypeOK, run
  <1>8. ASSUME detail'.settled, detail'.whole, detail'.indexed > 0
        PROVE  /\ detail'.indexed \in DOMAIN detail'.running
               /\ detail'.running[detail'.indexed] = detail'.recv - detail'.sent
    <2>1. detail.settled /\ last = N /\ detail.indexed > 0
      BY <1>6, <1>8
    <2>2. detail.indexed \in 0..N /\ a \in Address
          /\ Running(a)[detail.indexed] = detail.recv - detail.sent
      BY <1>2, <1>3, <2>1 DEF PageInv, PageTypeOK
    <2>3. detail.indexed \in 1..last
      BY <1>4, <2>1, <2>2
    <2> QED BY <1>5, <1>6, <2>2, <2>3
  <1> QED BY <1>2, <1>7, <1>8 DEF PInv, PageInv, HistoryReachesBalance

\* A step of the indexer or the backfill, between two queries of the page.
LEMMA MeanwhileStep ==
    ASSUME IInv, HInv, IInv', HInv', PInv, [Next]_vars, UNCHANGED reader
    PROVE  PInv'
  <1>1. apc' = apc /\ detail' = detail
    BY DEF reader
  <1>2. PageTypeOK' /\ HistoryReachesBalance'
    BY <1>1 DEF PInv, PageTypeOK, HistoryReachesBalance
  <1>3. ASSUME apc \in {"inputs", "history"}, detail.settled
        PROVE  /\ bpc' = "done" /\ ~raced'
               /\ detail.indexed \in 0..Len(TxsIn(index'))
               /\ \A a \in Address : a = detail.address =>
                      Running(a)'[detail.indexed] = detail.recv - detail.sent
    <2>1. /\ bpc = "done" /\ ~raced
          /\ detail.indexed \in 0..Len(TxsIn(index))
          /\ \A a \in Address : a = detail.address =>
                 Running(a)[detail.indexed] = detail.recv - detail.sent
      BY <1>3 DEF PInv, PageInv
    <2>2. /\ bpc' = "done" /\ raced' = raced
          /\ Len(TxsIn(index)) \in Nat /\ Len(TxsIn(index')) \in Nat
          /\ Len(TxsIn(index)) <= Len(TxsIn(index'))
          /\ \A a : \A n \in 0..Len(TxsIn(index)) : Running(a)'[n] = Running(a)[n]
      BY <2>1, NothingMoves
    <2> QED BY <2>1, <2>2
  <1>4. PageInv'
    BY <1>1, <1>3 DEF PageInv
  <1> QED BY <1>2, <1>4 DEF PInv

\* The invariant of a page that is asked for.
LEMMA PageInvariant == PageSpec => []PInv
  <1>1. PageInit => PInv
    <2> SUFFICES ASSUME PageInit PROVE PInv
      OBVIOUS
    <2>1. << >> \in Seq(Nat)
      OBVIOUS
    <2> QED BY <2>1 DEF PageInit, NoDetail, PInv, PageTypeOK, PageInv, HistoryReachesBalance
  <1>2. /\ IInv /\ HInv /\ IInv' /\ HInv' /\ PInv /\ [PageNext]_<<vars, reader>> => PInv'
    <2> SUFFICES ASSUME IInv, HInv, IInv', HInv', PInv, [PageNext]_<<vars, reader>>
                 PROVE  PInv'
      OBVIOUS
    <2>1. CASE Next /\ UNCHANGED reader
      BY <2>1, MeanwhileStep
    <2>2. CASE ReadSummary
      BY <2>2, SummaryStep
    <2>3. CASE CountInputs
      <3>1. /\ apc = "inputs" /\ apc' \in {"history", "answered"} /\ detail' = detail
            /\ UNCHANGED vars
        BY <2>3 DEF CountInputs
      <3>2. /\ UNCHANGED <<index, bpc, raced>>
            /\ \A a : \A n \in 0..Len(TxsIn(index)) : Running(a)'[n] = Running(a)[n]
        BY <3>1, RunningStays DEF vars, tables, filler
      <3> QED BY <3>1, <3>2 DEF PInv, PageTypeOK, PageInv, HistoryReachesBalance
    <2>4. CASE ReadHistory
      BY <2>4, HistoryStep
    <2>5. CASE RequestFails
      <3>1. << >> \in Seq(Nat)
        OBVIOUS
      <3> QED BY <2>5, <3>1 DEF RequestFails, NoDetail, PInv, PageTypeOK, PageInv,
                                HistoryReachesBalance
    <2>6. CASE UNCHANGED <<vars, reader>>
      BY <2>6, MeanwhileStep
    <2> QED BY <2>1, <2>2, <2>3, <2>4, <2>5, <2>6 DEF PageNext, Request
  <1> QED BY <1>1, <1>2, PagesOnlyRead, HistoryInvariant, PTL DEF PageSpec

\* AddressDetail (addressdetail.go): a page whose summary was read after an
\* undisturbed backfill, and whose history came whole, adds up to its balance
\* at the last transaction that was indexed when the summary was read, however
\* many batches were committed between the two queries.
THEOREM PageAddsUp == PageSpec => []HistoryReachesBalance
  <1>1. PInv => HistoryReachesBalance
    BY DEF PInv
  <1> QED BY <1>1, PageInvariant, PTL

\* AddressDetail (addressdetail.go): the sums and every running balance of a
\* page are amounts, none of them negative, whatever is committed between its
\* queries and however far the backfill has come.
THEOREM PageShowsAmounts ==
    PageSpec => [](/\ detail.recv \in Nat /\ detail.sent \in Nat
                   /\ detail.running \in Seq(Nat))
  <1>1. PInv => detail.recv \in Nat /\ detail.sent \in Nat /\ detail.running \in Seq(Nat)
    BY DEF PInv, PageTypeOK
  <1> QED BY <1>1, PageInvariant, PTL
=============================================================================

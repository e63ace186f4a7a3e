---------------------------- MODULE LedgerProofs ----------------------------
(***************************************************************************)
(* Proofs about Ledger, for any chain in which no output is spent twice,   *)
(* any batch size and any way the backfill and the indexer interleave.     *)
(* What the address page adds up is the subject of LedgerHistoryProofs.    *)
(***************************************************************************)
EXTENDS AddressPage, TLAPS

\* The batch under way continues the index.
BatchInv ==
    ipc # "idle" =>
        \A k \in 1..Len(staged.blocks) : HeightOf[staged.blocks[k]] = Len(index) + k - 1

\* Input i belongs to the transaction at hand, and its turn is still to come.
Pending(i) ==
    /\ ipc \in {"read", "mark"}
    /\ \E k \in vin..Len(InsOf[TxAtHand]) : InsOf[TxAtHand][k] = i

\* What the ingest transaction has written of inputs and of spent marks agrees,
\* but for the inputs of the transaction at hand, which are all inserted.
StageInv ==
    /\ \A i \in In : staged.spentBy[Prev[i]] # NoIn =>
           staged.spentBy[Prev[i]] = i /\ staged.ins[i] # "none"
    /\ \A i \in In : staged.ins[i] # "none" => staged.spentBy[Prev[i]] = i \/ Pending(i)
    /\ ipc \in {"read", "mark"} =>
           \A k \in 1..Len(InsOf[TxAtHand]) : staged.ins[InsOf[TxAtHand][k]] # "none"

\* The indexer leaves no decodable output without an address, and the backfill
\* none of those it has found, unless its query broke off.
FillInv ==
    /\ \A o \in Decodable : staged.outs[o] # "null"
    /\ ~cut /\ bpc # "idle" => \A o \in Decodable : outs[o] = "null" => o \in todo
    /\ bpc # "outputs" => todo = {}

IInv == TypeOK /\ BatchInv /\ SpentMatchesInputs /\ StageInv /\ FillInv

-----------------------------------------------------------------------------
LEMMA NoStageType == NoStage \in Stages /\ NoStage.blocks = << >>
  BY DEF NoStage, Stages, Column, InColumn

\* Where the cursor goes after a transaction.
LEMMA CursorAdvances ==
    ASSUME TypeOK, ipc \in {"insert", "mark"}, NextTx
    PROVE  /\ blk' \in Nat /\ pos' \in Nat /\ vin' = 0
           /\ ipc' \in {"insert", "commit"}
           /\ ipc' = "insert" => /\ blk' \in 1..Len(staged.blocks)
                                 /\ pos' \in 1..Len(TxsOf[staged.blocks[blk']])
  <1>1. /\ blk \in 1..Len(staged.blocks) /\ pos \in 1..Len(TxsOf[staged.blocks[blk]])
        /\ staged.blocks \in Seq(Block) /\ blk \in Nat /\ pos \in Nat
    BY DEF TypeOK, Stages
  <1>2. CASE pos < Len(TxsOf[staged.blocks[blk]])
    <2>1. pos' = pos + 1 /\ blk' = blk /\ vin' = 0 /\ ipc' = "insert"
      BY <1>2 DEF NextTx
    <2>2. Len(TxsOf[staged.blocks[blk]]) \in Nat
      BY <1>1, LedgerAssumption
    <2> QED BY <1>1, <1>2, <2>1, <2>2
  <1>3. CASE ~(pos < Len(TxsOf[staged.blocks[blk]]))
    <2>1. /\ pos' = 1 /\ blk' = blk + 1 /\ vin' = 0
          /\ ipc' = IF blk < Len(staged.blocks) THEN "insert" ELSE "commit"
      BY <1>3 DEF NextTx
    <2>2. Len(staged.blocks) \in Nat
      BY <1>1
    <2>3. CASE blk < Len(staged.blocks)
      <3>1. blk' \in 1..Len(staged.blocks)
        BY <1>1, <2>1, <2>2, <2>3
      <3>2. staged.blocks[blk'] \in Block
        BY <1>1, <3>1
      <3>3. TxsOf[staged.blocks[blk']] \in Seq(Tx) /\ TxsOf[staged.blocks[blk']] # << >>
        BY <3>2, LedgerAssumption
      <3>4. Len(TxsOf[staged.blocks[blk']]) \in Nat \ {0}
        BY <3>3
      <3> QED BY <1>1, <2>1, <2>3, <3>1, <3>4
    <2> QED BY <1>1, <2>1, <2>3
  <1> QED BY <1>2, <1>3

\* The transaction and the input at hand exist.
LEMMA AtHand ==
    ASSUME TypeOK, ipc \in {"insert", "read", "mark"}
    PROVE  /\ TxAtHand \in Tx
           /\ InsOf[TxAtHand] \in Seq(In)
           /\ Len(InsOf[TxAtHand]) \in Nat
           /\ ipc \in {"read", "mark"} => Input \in In /\ Prev[Input] \in Out
  <1>1. staged.blocks[blk] \in Block
    BY DEF TypeOK, Stages
  <1>2. TxsOf[staged.blocks[blk]] \in Seq(Tx)
    BY <1>1, LedgerAssumption
  <1>3. TxAtHand \in Tx
    BY <1>2 DEF TypeOK, TxAtHand
  <1>4. InsOf[TxAtHand] \in Seq(In)
    BY <1>3, LedgerAssumption
  <1>5. ipc \in {"read", "mark"} => Input \in In
    BY <1>4 DEF TypeOK, Input
  <1> QED BY <1>3, <1>4, <1>5, LedgerAssumption

\* Parts of TypeOK that different actions disturb.
TypesOfTables == IndexTypeOK /\ outs \in [Out -> Column]
                 /\ spentBy \in [Out -> In \cup {NoIn}] /\ ins \in [In -> InColumn]
TypesOfCursor ==
    /\ ipc \in {"idle", "insert", "read", "mark", "commit"}
    /\ {blk, pos, vin} \subseteq Nat
    /\ ipc \in {"insert", "read", "mark"} =>
        /\ blk \in 1..Len(staged.blocks)
        /\ pos \in 1..Len(TxsOf[staged.blocks[blk]])
    /\ ipc \in {"read", "mark"} => vin \in 1..Len(InsOf[TxAtHand])
TypesOfFiller ==
    /\ bpc \in {"idle", "outputs", "inputs", "done"}
    /\ todo \in SUBSET Decodable
    /\ held \in SUBSET todo
    /\ {cut, raced} \subseteq BOOLEAN

LEMMA TypeParts == TypeOK <=> /\ TypesOfTables /\ TypesOfCursor /\ TypesOfFiller
                              /\ staged \in Stages
  BY DEF TypeOK, TypesOfTables, TypesOfCursor, TypesOfFiller

LEMMA TypePartsNext == TypeOK' <=> /\ TypesOfTables' /\ TypesOfCursor' /\ TypesOfFiller'
                                   /\ staged' \in Stages
  BY DEF TypeOK, TypesOfTables, TypesOfCursor, TypesOfFiller

-----------------------------------------------------------------------------
\* The inputs of the old blocks are inputs.
LEMMA OldInsType == OldIns \subseteq In
  <1> USE LedgerAssumption
  <1>1. \A b \in ToSet(OldIndex) : b \in Block
    <2> SUFFICES ASSUME NEW b \in ToSet(OldIndex) PROVE b \in Block
      OBVIOUS
    <2>1. PICK k \in DOMAIN OldIndex : b = OldIndex[k]
      BY DEF ToSet
    <2>2. OldIndex \in Seq(Block)
      OBVIOUS
    <2> QED BY <2>1, <2>2
  <1>2. \A b \in Block : ToSet(TxsOf[b]) \subseteq Tx
    <2> SUFFICES ASSUME NEW b \in Block PROVE ToSet(TxsOf[b]) \subseteq Tx
      OBVIOUS
    <2>1. TxsOf[b] \in Seq(Tx)
      OBVIOUS
    <2> QED BY <2>1 DEF ToSet
  <1>3. \A x \in Tx : ToSet(InsOf[x]) \subseteq In
    <2> SUFFICES ASSUME NEW x \in Tx PROVE ToSet(InsOf[x]) \subseteq In
      OBVIOUS
    <2>1. InsOf[x] \in Seq(In)
      OBVIOUS
    <2> QED BY <2>1 DEF ToSet
  <1>4. OldTxs \subseteq Tx
    BY <1>1, <1>2 DEF OldTxs
  <1> QED BY <1>3, <1>4 DEF OldIns

\* A database from before addresses were ingested.
LEMMA InitInv == Init => IInv
  <1> SUFFICES ASSUME Init PROVE IInv
    OBVIOUS
  <1> USE LedgerAssumption, IndexAssumption, NoStageType DEF Init
  <1>1. TypesOfTables
    <2>1. IndexTypeOK
      BY DEF IndexTypeOK
    <2>2. outs \in [Out -> Column] /\ ins \in [In -> InColumn]
      BY DEF Column, InColumn
    <2>3. spentBy \in [Out -> In \cup {NoIn}]
      <3>1. \A o \in Out : (\E i \in OldIns : Prev[i] = o)
                => (CHOOSE i \in OldIns : Prev[i] = o) \in In
        BY OldInsType
      <3> QED BY <3>1
    <2> QED BY <2>1, <2>2, <2>3 DEF TypesOfTables
  <1>2. staged \in Stages /\ TypesOfFiller
    BY DEF TypesOfFiller
  <1>6. TypesOfCursor
    <2>1. ipc = "idle" /\ blk = 0 /\ pos = 0 /\ vin = 0
      OBVIOUS
    <2> QED BY <2>1 DEF TypesOfCursor
  <1>3. TypeOK
    BY <1>1, <1>2, <1>6, TypeParts
  <1>4. SpentMatchesInputs
    <2> SUFFICES ASSUME NEW i \in In
                 PROVE  ins[i] # "none" <=> spentBy[Prev[i]] = i
      BY DEF SpentMatchesInputs
    <2>1. ins[i] # "none" <=> i \in OldIns
      OBVIOUS
    <2>2. CASE i \in OldIns
      <3>1. \A j \in OldIns : Prev[j] = Prev[i] => j = i
        BY OldInsType
      <3>2. (CHOOSE j \in OldIns : Prev[j] = Prev[i]) = i
        BY <2>2, <3>1
      <3>3. spentBy[Prev[i]] = CHOOSE j \in OldIns : Prev[j] = Prev[i]
        BY <2>2
      <3> QED BY <2>1, <2>2, <3>2, <3>3
    <2>3. CASE i \notin OldIns
      <3>1. CASE \E j \in OldIns : Prev[j] = Prev[i]
        <4>1. spentBy[Prev[i]] = CHOOSE j \in OldIns : Prev[j] = Prev[i]
          BY <3>1
        <4>2. (CHOOSE j \in OldIns : Prev[j] = Prev[i]) \in OldIns
          BY <3>1
        <4> QED BY <2>1, <2>3, <4>1, <4>2
      <3>2. CASE ~ \E j \in OldIns : Prev[j] = Prev[i]
        <4>1. spentBy[Prev[i]] = NoIn
          BY <3>2
        <4> QED BY <2>1, <2>3, <4>1
      <3> QED BY <3>1, <3>2
    <2> QED BY <2>2, <2>3
  <1>5. BatchInv /\ StageInv /\ FillInv
    BY DEF BatchInv, StageInv, FillInv, NoStage
  <1> QED BY <1>3, <1>4, <1>5 DEF IInv

-----------------------------------------------------------------------------
\* What the steps of the ingest transaction do to what it has written.
LEMMA StagedByInsert ==
    ASSUME TypeOK, InsertTx
    PROVE  /\ staged' \in Stages
           /\ staged'.blocks = staged.blocks /\ staged'.spentBy = staged.spentBy
           /\ \A i \in In : staged'.ins[i] =
                  IF i \in ToSet(InsOf[TxAtHand]) THEN "null" ELSE staged.ins[i]
           /\ \A o \in Out : staged'.outs[o] =
                  IF o \notin OutsOf[TxAtHand] THEN staged.outs[o]
                  ELSE IF o \in Reported THEN "known" ELSE "null"
  <1> DEFINE newOuts == [o \in Out |-> IF o \notin OutsOf[TxAtHand] THEN staged.outs[o]
                                       ELSE IF o \in Reported THEN "known" ELSE "null"]
             newIns  == [i \in In |-> IF i \in ToSet(InsOf[TxAtHand]) THEN "null"
                                                                     ELSE staged.ins[i]]
  <1>1. staged' = [staged EXCEPT !.outs = newOuts, !.ins = newIns]
    BY DEF InsertTx
  <1>2. staged \in Stages
    BY DEF TypeOK
  <1>3. newOuts \in [Out -> Column] /\ newIns \in [In -> InColumn]
    BY <1>2 DEF Stages, Column, InColumn
  <1>4. staged' = [blocks |-> staged.blocks, outs |-> newOuts,
                   spentBy |-> staged.spentBy, ins |-> newIns]
    <2> HIDE DEF newOuts, newIns
    <2> QED BY <1>1, <1>2 DEF Stages
  <1>5. staged' \in Stages
    <2> HIDE DEF newOuts, newIns
    <2> QED BY <1>2, <1>3, <1>4 DEF Stages
  <1> QED BY <1>4, <1>5

LEMMA StagedByRead ==
    ASSUME TypeOK, ReadPrev
    PROVE  /\ staged' \in Stages
           /\ staged'.blocks = staged.blocks /\ staged'.spentBy = staged.spentBy
           /\ staged'.outs = staged.outs
           /\ \A i \in In : staged'.ins[i] # "none" <=> (i = Input \/ staged.ins[i] # "none")
  <1>1. staged \in Stages /\ Input \in In
    BY AtHand DEF TypeOK, ReadPrev
  <1>2. PICK col \in {"known", "valued"} : staged' = [staged EXCEPT !.ins[Input] = col]
    BY DEF ReadPrev
  <1>3. staged' = [blocks |-> staged.blocks, outs |-> staged.outs, spentBy |-> staged.spentBy,
                   ins |-> [staged.ins EXCEPT ![Input] = col]]
    BY <1>1, <1>2 DEF Stages
  <1>4. staged.ins \in [In -> InColumn] /\ col \in InColumn /\ col # "none"
    BY <1>1 DEF Stages, InColumn, Column
  <1>5. [staged.ins EXCEPT ![Input] = col] \in [In -> InColumn]
    BY <1>1, <1>4
  <1>6. staged' \in Stages
    BY <1>1, <1>3, <1>5 DEF Stages
  <1>7. \A i \in In : staged'.ins[i] = IF i = Input THEN col ELSE staged.ins[i]
    BY <1>1, <1>3, <1>4
  <1> QED BY <1>3, <1>4, <1>6, <1>7

LEMMA StagedByMark ==
    ASSUME TypeOK, MarkSpent
    PROVE  /\ staged' \in Stages
           /\ staged'.blocks = staged.blocks /\ staged'.outs = staged.outs
           /\ staged'.ins = staged.ins
           /\ \A o \in Out : staged'.spentBy[o] = IF o = Prev[Input] THEN Input
                                                                   ELSE staged.spentBy[o]
  <1>1. staged \in Stages /\ Input \in In /\ Prev[Input] \in Out
    BY AtHand DEF TypeOK, MarkSpent
  <1>2. staged' = [staged EXCEPT !.spentBy[Prev[Input]] = Input]
    BY DEF MarkSpent
  <1>3. staged' = [blocks |-> staged.blocks, outs |-> staged.outs, ins |-> staged.ins,
                   spentBy |-> [staged.spentBy EXCEPT ![Prev[Input]] = Input]]
    BY <1>1, <1>2 DEF Stages
  <1>4. staged.spentBy \in [Out -> In \cup {NoIn}]
    BY <1>1 DEF Stages
  <1>5. [staged.spentBy EXCEPT ![Prev[Input]] = Input] \in [Out -> In \cup {NoIn}]
    BY <1>1, <1>4
  <1>6. staged' \in Stages
    BY <1>1, <1>3, <1>5 DEF Stages
  <1>7. \A o \in Out : staged'.spentBy[o] = IF o = Prev[Input] THEN Input ELSE staged.spentBy[o]
    BY <1>1, <1>3, <1>4
  <1> QED BY <1>3, <1>6, <1>7

LEMMA StagedByBegin ==
    ASSUME TypeOK, BeginBatch
    PROVE  /\ staged' \in Stages
           /\ staged'.outs = NoStage.outs /\ staged'.ins = NoStage.ins
           /\ staged'.spentBy = NoStage.spentBy
           /\ Len(staged'.blocks) \in Nat \ {0} /\ Len(staged'.blocks) <= BatchBlocks
           /\ \A k \in 1..Len(staged'.blocks) :
                  HeightOf[staged'.blocks[k]] = Len(index) + k - 1
  <1>1. PICK n \in 1..BatchBlocks : \E batch \in Batches(n) :
            staged' = [NoStage EXCEPT !.blocks = batch]
    BY DEF BeginBatch
  <1>2. PICK batch \in Batches(n) : staged' = [NoStage EXCEPT !.blocks = batch]
    BY <1>1
  <1>3. n \in Nat \ {0} /\ n <= BatchBlocks
    BY IndexAssumption
  <1>4. /\ batch \in [1..n -> Block]
        /\ \A k \in 1..n : HeightOf[batch[k]] = Len(index) + k - 1
    BY DEF Batches
  <1>5. batch \in Seq(Block) /\ Len(batch) = n
    BY <1>3, <1>4
  <1>6. staged' = [blocks |-> batch, outs |-> NoStage.outs,
                   spentBy |-> NoStage.spentBy, ins |-> NoStage.ins]
    BY <1>2 DEF NoStage
  <1>7. staged' \in Stages
    BY <1>5, <1>6, NoStageType DEF Stages
  <1> QED BY <1>3, <1>4, <1>5, <1>6, <1>7

\* The cursor stays on a transaction and an input of the batch.
LEMMA CursorNext ==
    ASSUME IInv, [Next]_vars
    PROVE  TypesOfCursor'
  <1>0. TypeOK /\ TypesOfCursor
    BY TypeParts DEF IInv
  <1> USE <1>0
  <1>1. CASE BeginBatch
    <2>1. /\ ipc' = "insert" /\ blk' = 1 /\ pos' = 1 /\ vin' = vin
      BY <1>1 DEF BeginBatch
    <2>2. staged'.blocks \in Seq(Block) /\ 1 \in 1..Len(staged'.blocks)
      BY <1>1, StagedByBegin DEF Stages
    <2>3. staged'.blocks[1] \in Block
      BY <2>2
    <2>4. TxsOf[staged'.blocks[1]] \in Seq(Tx) /\ TxsOf[staged'.blocks[1]] # << >>
      BY <2>3, LedgerAssumption
    <2>5. 1 \in 1..Len(TxsOf[staged'.blocks[1]])
      BY <2>4
    <2>6. vin \in Nat
      BY DEF TypeOK
    <2> QED BY <2>1, <2>2, <2>5, <2>6 DEF TypesOfCursor
  <1>2. CASE InsertTx
    <2>1. CASE InsOf[TxAtHand] = << >>
      <3>1. NextTx /\ ipc \in {"insert", "mark"}
        BY <1>2, <2>1 DEF InsertTx
      <3> QED BY <1>2, <3>1, CursorAdvances, StagedByInsert DEF TypesOfCursor
    <2>2. CASE InsOf[TxAtHand] # << >>
      <3>1. ipc = "insert" /\ ipc' = "read" /\ vin' = 1 /\ blk' = blk /\ pos' = pos
        BY <1>2, <2>2 DEF InsertTx
      <3>2. TxAtHand' = TxAtHand
        BY <1>2, <3>1, StagedByInsert DEF TxAtHand
      <3>3. 1 \in 1..Len(InsOf[TxAtHand])
        BY <2>2, <3>1, AtHand
      <3>4. /\ blk \in 1..Len(staged.blocks) /\ pos \in 1..Len(TxsOf[staged.blocks[blk]])
            /\ {blk, pos} \subseteq Nat
        BY <3>1 DEF TypeOK
      <3> QED BY <1>2, <3>1, <3>2, <3>3, <3>4, StagedByInsert DEF TypesOfCursor
    <2> QED BY <2>1, <2>2
  <1>3. CASE ReadPrev
    <2>1. /\ ipc = "read" /\ ipc' = "mark" /\ UNCHANGED <<blk, pos, vin>>
      BY <1>3 DEF ReadPrev, cursor
    <2>2. TxAtHand' = TxAtHand /\ staged'.blocks = staged.blocks
      BY <1>3, <2>1, StagedByRead DEF TxAtHand
    <2> QED BY <2>1, <2>2 DEF TypesOfCursor
  <1>4. CASE MarkSpent
    <2>1. ipc = "mark" /\ staged'.blocks = staged.blocks
      BY <1>4, StagedByMark DEF MarkSpent
    <2>2. CASE vin < Len(InsOf[TxAtHand])
      <3>1. ipc' = "read" /\ vin' = vin + 1 /\ blk' = blk /\ pos' = pos
        BY <1>4, <2>2 DEF MarkSpent
      <3>2. TxAtHand' = TxAtHand
        BY <2>1, <3>1 DEF TxAtHand
      <3>3. vin + 1 \in 1..Len(InsOf[TxAtHand])
        BY <2>1, <2>2, AtHand DEF TypesOfCursor
      <3> QED BY <2>1, <3>1, <3>2, <3>3 DEF TypesOfCursor
    <2>3. CASE ~(vin < Len(InsOf[TxAtHand]))
      <3>1. NextTx /\ ipc \in {"insert", "mark"}
        BY <1>4, <2>1, <2>3 DEF MarkSpent
      <3> QED BY <2>1, <3>1, CursorAdvances DEF TypesOfCursor
    <2> QED BY <2>2, <2>3
  <1>5. CASE Commit
    <2>1. ipc' = "idle" /\ blk' = 0 /\ pos' = 0 /\ vin' = 0
      BY <1>5 DEF Commit, BatchOver
    <2> QED BY <2>1 DEF TypesOfCursor
  <1>6. CASE Rollback
    <2>1. ipc' = "idle" /\ blk' = 0 /\ pos' = 0 /\ vin' = 0
      BY <1>6 DEF Rollback, BatchOver
    <2> QED BY <2>1 DEF TypesOfCursor
  <1>7. CASE QueryOutputs
    BY <1>7 DEF QueryOutputs, tables, indexer, cursor, TypesOfCursor, TxAtHand
  <1>8. CASE UpdateRow
    BY <1>8 DEF UpdateRow, tables, indexer, cursor, TypesOfCursor, TxAtHand
  <1>9. CASE Flush
    BY <1>9 DEF Flush, tables, indexer, cursor, TypesOfCursor, TxAtHand
  <1>10. CASE OutputsDone
    BY <1>10 DEF OutputsDone, tables, indexer, cursor, TypesOfCursor, TxAtHand
  <1>11. CASE QueryBreaks
    BY <1>11 DEF QueryBreaks, tables, indexer, cursor, TypesOfCursor, TxAtHand
  <1>12. CASE FillInputs
    BY <1>12 DEF FillInputs, tables, indexer, cursor, TypesOfCursor, TxAtHand
  <1>13. CASE BackfillDies
    BY <1>13 DEF BackfillDies, tables, indexer, cursor, TypesOfCursor, TxAtHand
  <1>14. CASE UNCHANGED vars
    BY <1>14 DEF vars, indexer, cursor, TypesOfCursor, TxAtHand
  <1> QED BY <1>1, <1>2, <1>3, <1>4, <1>5, <1>6, <1>7, <1>8, <1>9, <1>10,
         <1>11, <1>12, <1>13, <1>14
         DEF Next, Ingest, Backfill

\* The index keeps a block per height, and every column its type.
LEMMA TablesNext ==
    ASSUME IInv, [Next]_vars
    PROVE  TypesOfTables'
  <1>0. TypeOK /\ TypesOfTables
    BY TypeParts DEF IInv
  <1> USE <1>0
  <1>1. CASE BeginBatch
    <2>1. UNCHANGED <<index, outs, spentBy, ins>>
      BY <1>1 DEF BeginBatch, tables
    <2> QED BY <2>1 DEF TypesOfTables, IndexTypeOK
  <1>2. CASE InsertTx
    <2>1. UNCHANGED <<index, outs, spentBy, ins>>
      BY <1>2 DEF InsertTx, tables
    <2> QED BY <2>1 DEF TypesOfTables, IndexTypeOK
  <1>3. CASE ReadPrev
    <2>1. UNCHANGED <<index, outs, spentBy, ins>>
      BY <1>3 DEF ReadPrev, tables
    <2> QED BY <2>1 DEF TypesOfTables, IndexTypeOK
  <1>4. CASE MarkSpent
    <2>1. UNCHANGED <<index, outs, spentBy, ins>>
      BY <1>4 DEF MarkSpent, tables
    <2> QED BY <2>1 DEF TypesOfTables, IndexTypeOK
  <1>5. CASE Commit
    <2>1. /\ index' = index \o staged.blocks
          /\ outs' = [o \in Out |-> Visible(o)]
          /\ spentBy' = [o \in Out |-> IF staged.spentBy[o] # NoIn THEN staged.spentBy[o]
                                                               ELSE spentBy[o]]
          /\ ins' = [i \in In |-> IF staged.ins[i] # "none" THEN staged.ins[i] ELSE ins[i]]
      BY <1>5 DEF Commit
    <2>2. /\ staged.outs \in [Out -> Column] /\ staged.spentBy \in [Out -> In \cup {NoIn}]
          /\ staged.ins \in [In -> InColumn] /\ staged.blocks \in Seq(Block)
      BY DEF TypeOK, Stages
    <2>3. outs' \in [Out -> Column]
      BY <2>1, <2>2 DEF TypesOfTables, Visible
    <2>4. spentBy' \in [Out -> In \cup {NoIn}]
      BY <2>1, <2>2 DEF TypesOfTables
    <2>5. ins' \in [In -> InColumn]
      BY <2>1, <2>2 DEF TypesOfTables
    <2>6. index \in Seq(Block) /\ \A k \in 1..Len(index) : HeightOf[index[k]] = k - 1
      BY DEF TypesOfTables, IndexTypeOK
    <2>7. \A k \in 1..Len(staged.blocks) : HeightOf[staged.blocks[k]] = Len(index) + k - 1
      BY <1>5 DEF Commit, IInv, BatchInv
    <2>8. index' \in Seq(Block) /\ Len(index') = Len(index) + Len(staged.blocks)
      BY <2>1, <2>2, <2>6
    <2>9. \A k \in 1..Len(index') : HeightOf[index'[k]] = k - 1
      <3> SUFFICES ASSUME NEW k \in 1..Len(index') PROVE HeightOf[index'[k]] = k - 1
        OBVIOUS
      <3>1. CASE k <= Len(index)
        <4>1. k \in 1..Len(index) /\ index'[k] = index[k]
          BY <2>1, <2>2, <2>6, <2>8, <3>1
        <4> QED BY <2>6, <4>1
      <3>2. CASE k > Len(index)
        <4>1. /\ k - Len(index) \in 1..Len(staged.blocks)
              /\ index'[k] = staged.blocks[k - Len(index)]
          BY <2>1, <2>2, <2>6, <2>8, <3>2
        <4>2. Len(index) \in Nat /\ k \in Nat
          BY <2>6
        <4> QED BY <2>7, <4>1, <4>2
      <3> QED BY <2>6, <2>8, <3>1, <3>2
    <2> QED BY <2>3, <2>4, <2>5, <2>8, <2>9 DEF TypesOfTables, IndexTypeOK
  <1>6. CASE Rollback
    <2>1. UNCHANGED <<index, outs, spentBy, ins>>
      BY <1>6 DEF Rollback, tables
    <2> QED BY <2>1 DEF TypesOfTables, IndexTypeOK
  <1>7. CASE QueryOutputs
    <2>1. UNCHANGED <<index, outs, spentBy, ins>>
      BY <1>7 DEF QueryOutputs, tables
    <2> QED BY <2>1 DEF TypesOfTables, IndexTypeOK
  <1>8. CASE UpdateRow
    <2>1. UNCHANGED <<index, outs, spentBy, ins>>
      BY <1>8 DEF UpdateRow, tables
    <2> QED BY <2>1 DEF TypesOfTables, IndexTypeOK
  <1>9. CASE Flush
    <2>1. /\ outs' = [o \in Out |-> IF o \in held THEN "known" ELSE outs[o]]
          /\ UNCHANGED <<index, spentBy, ins>>
      BY <1>9 DEF Flush
    <2>2. outs' \in [Out -> Column]
      BY <2>1 DEF TypesOfTables, Column
    <2> QED BY <2>1, <2>2 DEF TypesOfTables, IndexTypeOK
  <1>10. CASE OutputsDone
    <2>1. UNCHANGED <<index, outs, spentBy, ins>>
      BY <1>10 DEF OutputsDone, tables
    <2> QED BY <2>1 DEF TypesOfTables, IndexTypeOK
  <1>11. CASE QueryBreaks
    <2>1. UNCHANGED <<index, outs, spentBy, ins>>
      BY <1>11 DEF QueryBreaks, tables
    <2> QED BY <2>1 DEF TypesOfTables, IndexTypeOK
  <1>12. CASE FillInputs
    <2>1. /\ ins' = [i \in In |-> IF Unfilled(ins, i) THEN "known" ELSE ins[i]]
          /\ UNCHANGED <<index, spentBy, outs>>
      BY <1>12 DEF FillInputs
    <2>2. ins' \in [In -> InColumn]
      BY <2>1 DEF TypesOfTables, InColumn, Column
    <2> QED BY <2>1, <2>2 DEF TypesOfTables, IndexTypeOK
  <1>13. CASE BackfillDies
    <2>1. UNCHANGED <<index, outs, spentBy, ins>>
      BY <1>13 DEF BackfillDies, tables
    <2> QED BY <2>1 DEF TypesOfTables, IndexTypeOK
  <1>14. CASE UNCHANGED vars
    BY <1>14 DEF vars, tables, TypesOfTables, IndexTypeOK
  <1> QED BY <1>1, <1>2, <1>3, <1>4, <1>5, <1>6, <1>7, <1>8, <1>9, <1>10,
         <1>11, <1>12, <1>13, <1>14
         DEF Next, Ingest, Backfill

\* The backfill holds rows that it has still to do.
LEMMA FillerNext ==
    ASSUME IInv, [Next]_vars
    PROVE  TypesOfFiller' /\ staged' \in Stages
  <1>0. TypeOK /\ TypesOfFiller
    BY TypeParts DEF IInv
  <1> USE <1>0
  <1>1. CASE BeginBatch
    <2>1. TypesOfFiller'
      BY <1>1 DEF BeginBatch, filler, TypesOfFiller
    <2>2. staged' \in Stages
      BY <1>1, StagedByBegin
    <2> QED BY <2>1, <2>2
  <1>2. CASE InsertTx
    <2>1. TypesOfFiller'
      BY <1>2 DEF InsertTx, filler, TypesOfFiller
    <2>2. staged' \in Stages
      BY <1>2, StagedByInsert
    <2> QED BY <2>1, <2>2
  <1>3. CASE ReadPrev
    <2>1. TypesOfFiller'
      BY <1>3 DEF ReadPrev, filler, TypesOfFiller
    <2>2. staged' \in Stages
      BY <1>3, StagedByRead
    <2> QED BY <2>1, <2>2
  <1>4. CASE MarkSpent
    <2>1. TypesOfFiller'
      BY <1>4 DEF MarkSpent, filler, TypesOfFiller
    <2>2. staged' \in Stages
      BY <1>4, StagedByMark
    <2> QED BY <2>1, <2>2
  <1>5. CASE Commit
    <2>1. TypesOfFiller'
      BY <1>5 DEF Commit, filler, TypesOfFiller
    <2>2. staged' \in Stages
      BY <1>5, NoStageType DEF Commit, BatchOver
    <2> QED BY <2>1, <2>2
  <1>6. CASE Rollback
    <2>1. TypesOfFiller'
      BY <1>6 DEF Rollback, filler, TypesOfFiller
    <2>2. staged' \in Stages
      BY <1>6, NoStageType DEF Rollback, BatchOver
    <2> QED BY <2>1, <2>2
  <1>7. CASE QueryOutputs
    <2>0. todo = {} /\ todo' \in SUBSET Decodable
      BY <1>7 DEF QueryOutputs, IInv, FillInv
    <2>1. TypesOfFiller'
      BY <1>7, <2>0 DEF QueryOutputs, TypesOfFiller
    <2>2. staged' \in Stages
      BY <1>7 DEF QueryOutputs, TypeOK, indexer
    <2> QED BY <2>1, <2>2
  <1>8. CASE UpdateRow
    <2>1. TypesOfFiller'
      BY <1>8 DEF UpdateRow, filler, TypesOfFiller
    <2>2. staged' \in Stages
      BY <1>8 DEF UpdateRow, TypeOK, indexer
    <2> QED BY <2>1, <2>2
  <1>9. CASE Flush
    <2>1. TypesOfFiller'
      BY <1>9 DEF Flush, filler, TypesOfFiller
    <2>2. staged' \in Stages
      BY <1>9 DEF Flush, TypeOK, indexer
    <2> QED BY <2>1, <2>2
  <1>10. CASE OutputsDone
    <2>1. TypesOfFiller'
      BY <1>10 DEF OutputsDone, filler, TypesOfFiller
    <2>2. staged' \in Stages
      BY <1>10 DEF OutputsDone, TypeOK, indexer
    <2> QED BY <2>1, <2>2
  <1>11. CASE QueryBreaks
    <2>1. TypesOfFiller'
      BY <1>11 DEF QueryBreaks, filler, TypesOfFiller
    <2>2. staged' \in Stages
      BY <1>11 DEF QueryBreaks, TypeOK, indexer
    <2> QED BY <2>1, <2>2
  <1>12. CASE FillInputs
    <2>1. TypesOfFiller'
      BY <1>12 DEF FillInputs, filler, TypesOfFiller
    <2>2. staged' \in Stages
      BY <1>12 DEF FillInputs, TypeOK, indexer
    <2> QED BY <2>1, <2>2
  <1>13. CASE BackfillDies
    <2>1. TypesOfFiller'
      BY <1>13 DEF BackfillDies, filler, TypesOfFiller
    <2>2. staged' \in Stages
      BY <1>13 DEF BackfillDies, TypeOK, indexer
    <2> QED BY <2>1, <2>2
  <1>14. CASE UNCHANGED vars
    <2>1. TypesOfFiller'
      BY <1>14 DEF vars, filler, TypesOfFiller
    <2>2. staged' \in Stages
      BY <1>14 DEF vars, indexer, TypeOK
    <2> QED BY <2>1, <2>2
  <1> QED BY <1>1, <1>2, <1>3, <1>4, <1>5, <1>6, <1>7, <1>8, <1>9, <1>10,
         <1>11, <1>12, <1>13, <1>14
         DEF Next, Ingest, Backfill

\* Nothing is committed under an open ingest transaction.
LEMMA BatchNext ==
    ASSUME IInv, [Next]_vars
    PROVE  BatchInv'
  <1>0. TypeOK /\ BatchInv
    BY DEF IInv
  <1> USE <1>0
  <1>1. CASE BeginBatch
    BY <1>1, StagedByBegin DEF BeginBatch, tables, BatchInv
  <1>2. CASE InsertTx
    BY <1>2, StagedByInsert DEF InsertTx, tables, BatchInv
  <1>3. CASE ReadPrev
    BY <1>3, StagedByRead DEF ReadPrev, tables, BatchInv
  <1>4. CASE MarkSpent
    BY <1>4, StagedByMark DEF MarkSpent, tables, BatchInv
  <1>5. CASE Commit
    BY <1>5 DEF Commit, BatchOver, BatchInv
  <1>6. CASE Rollback
    BY <1>6 DEF Rollback, BatchOver, BatchInv
  <1>7. CASE QueryOutputs
    BY <1>7 DEF QueryOutputs, indexer, tables, BatchInv
  <1>8. CASE UpdateRow
    BY <1>8 DEF UpdateRow, indexer, tables, BatchInv
  <1>9. CASE Flush
    BY <1>9 DEF Flush, indexer, tables, BatchInv
  <1>10. CASE OutputsDone
    BY <1>10 DEF OutputsDone, indexer, tables, BatchInv
  <1>11. CASE QueryBreaks
    BY <1>11 DEF QueryBreaks, indexer, tables, BatchInv
  <1>12. CASE FillInputs
    BY <1>12 DEF FillInputs, indexer, tables, BatchInv
  <1>13. CASE BackfillDies
    BY <1>13 DEF BackfillDies, indexer, tables, BatchInv
  <1>14. CASE UNCHANGED vars
    BY <1>14 DEF vars, indexer, tables, BatchInv
  <1> QED BY <1>1, <1>2, <1>3, <1>4, <1>5, <1>6, <1>7, <1>8, <1>9, <1>10,
         <1>11, <1>12, <1>13, <1>14
         DEF Next, Ingest, Backfill

\* Marks and inputs become visible together.
LEMMA SpentNext ==
    ASSUME IInv, [Next]_vars
    PROVE  SpentMatchesInputs'
  <1>0. TypeOK /\ SpentMatchesInputs /\ StageInv
    BY DEF IInv
  <1> USE <1>0
  <1>1. CASE BeginBatch
    <2>1. UNCHANGED <<spentBy, ins>>
      BY <1>1 DEF BeginBatch, tables
    <2> QED BY <2>1 DEF SpentMatchesInputs
  <1>2. CASE InsertTx
    <2>1. UNCHANGED <<spentBy, ins>>
      BY <1>2 DEF InsertTx, tables
    <2> QED BY <2>1 DEF SpentMatchesInputs
  <1>3. CASE ReadPrev
    <2>1. UNCHANGED <<spentBy, ins>>
      BY <1>3 DEF ReadPrev, tables
    <2> QED BY <2>1 DEF SpentMatchesInputs
  <1>4. CASE MarkSpent
    <2>1. UNCHANGED <<spentBy, ins>>
      BY <1>4 DEF MarkSpent, tables
    <2> QED BY <2>1 DEF SpentMatchesInputs
  <1>5. CASE Commit
    <2> SUFFICES ASSUME NEW i \in In
                 PROVE  ins'[i] # "none" <=> spentBy'[Prev[i]] = i
      BY DEF SpentMatchesInputs
    <2>1. Prev[i] \in Out /\ i # NoIn
      BY LedgerAssumption
    <2>2. /\ spentBy'[Prev[i]] = IF staged.spentBy[Prev[i]] # NoIn
                                 THEN staged.spentBy[Prev[i]] ELSE spentBy[Prev[i]]
          /\ ins'[i] = IF staged.ins[i] # "none" THEN staged.ins[i] ELSE ins[i]
      BY <1>5, <2>1 DEF Commit
    <2>3. ~Pending(i)
      BY <1>5 DEF Commit, Pending
    <2>4. ins[i] # "none" <=> spentBy[Prev[i]] = i
      BY DEF SpentMatchesInputs
    <2>5. CASE staged.spentBy[Prev[i]] # NoIn
      BY <2>2, <2>5 DEF StageInv
    <2>6. CASE staged.spentBy[Prev[i]] = NoIn
      BY <2>1, <2>2, <2>3, <2>4, <2>6 DEF StageInv
    <2> QED BY <2>5, <2>6
  <1>6. CASE Rollback
    <2>1. UNCHANGED <<spentBy, ins>>
      BY <1>6 DEF Rollback, tables
    <2> QED BY <2>1 DEF SpentMatchesInputs
  <1>7. CASE QueryOutputs
    <2>1. UNCHANGED <<spentBy, ins>>
      BY <1>7 DEF QueryOutputs, tables
    <2> QED BY <2>1 DEF SpentMatchesInputs
  <1>8. CASE UpdateRow
    <2>1. UNCHANGED <<spentBy, ins>>
      BY <1>8 DEF UpdateRow, tables
    <2> QED BY <2>1 DEF SpentMatchesInputs
  <1>9. CASE Flush
    <2>1. UNCHANGED <<spentBy, ins>>
      BY <1>9 DEF Flush, tables
    <2> QED BY <2>1 DEF SpentMatchesInputs
  <1>10. CASE OutputsDone
    <2>1. UNCHANGED <<spentBy, ins>>
      BY <1>10 DEF OutputsDone, tables
    <2> QED BY <2>1 DEF SpentMatchesInputs
  <1>11. CASE QueryBreaks
    <2>1. UNCHANGED <<spentBy, ins>>
      BY <1>11 DEF QueryBreaks, tables
    <2> QED BY <2>1 DEF SpentMatchesInputs
  <1>12. CASE FillInputs
    <2>1. \A i \in In : ins'[i] # "none" <=> ins[i] # "none"
      BY <1>12 DEF FillInputs, Unfilled, TypeOK
    <2>2. spentBy' = spentBy
      BY <1>12 DEF FillInputs
    <2> QED BY <2>1, <2>2 DEF SpentMatchesInputs
  <1>13. CASE BackfillDies
    <2>1. UNCHANGED <<spentBy, ins>>
      BY <1>13 DEF BackfillDies, tables
    <2> QED BY <2>1 DEF SpentMatchesInputs
  <1>14. CASE UNCHANGED vars
    BY <1>14 DEF vars, tables, SpentMatchesInputs
  <1> QED BY <1>1, <1>2, <1>3, <1>4, <1>5, <1>6, <1>7, <1>8, <1>9, <1>10,
         <1>11, <1>12, <1>13, <1>14
         DEF Next, Ingest, Backfill

\* Within a transaction inputs come first and marks follow.
LEMMA StageNext ==
    ASSUME IInv, [Next]_vars
    PROVE  StageInv'
  <1>0. TypeOK /\ StageInv
    BY DEF IInv
  <1> USE <1>0
  <1>1. CASE BeginBatch
    <2>1. /\ \A i \in In : staged'.ins[i] = "none"
          /\ \A o \in Out : staged'.spentBy[o] = NoIn
          /\ ipc' \notin {"read", "mark"}
      BY <1>1, StagedByBegin DEF BeginBatch, NoStage
    <2> QED BY <2>1, LedgerAssumption DEF StageInv
  <1>2. CASE InsertTx
    <2>1. /\ staged'.spentBy = staged.spentBy
          /\ \A i \in In : staged'.ins[i] =
                 IF i \in ToSet(InsOf[TxAtHand]) THEN "null" ELSE staged.ins[i]
      BY <1>2, StagedByInsert
    <2>2. ipc = "insert" /\ InsOf[TxAtHand] \in Seq(In)
      BY <1>2, AtHand DEF InsertTx
    <2>3. ToSet(InsOf[TxAtHand]) = {InsOf[TxAtHand][k] : k \in 1..Len(InsOf[TxAtHand])}
      BY <2>2 DEF ToSet
    <2>4. \A i \in In : staged.ins[i] # "none" => staged'.ins[i] # "none"
      BY <2>1
    <2>5. \A i \in In : staged'.spentBy[Prev[i]] # NoIn =>
              staged'.spentBy[Prev[i]] = i /\ staged'.ins[i] # "none"
      BY <2>1, <2>4 DEF StageInv
    <2>6. \A i \in In : staged.ins[i] # "none" => staged'.spentBy[Prev[i]] = i
      BY <2>1, <2>2 DEF StageInv, Pending
    <2>7. CASE InsOf[TxAtHand] = << >>
      <3>1. ipc' \in {"insert", "commit"}
        BY <1>2, <2>2, <2>7, CursorAdvances DEF InsertTx
      <3>2. \A i \in In : staged'.ins[i] = staged.ins[i]
        BY <2>1, <2>3, <2>7
      <3> QED BY <2>5, <2>6, <3>1, <3>2 DEF StageInv
    <2>8. CASE InsOf[TxAtHand] # << >>
      <3>1. ipc' = "read" /\ vin' = 1 /\ TxAtHand' = TxAtHand
        BY <1>2, <2>8, StagedByInsert DEF InsertTx, TxAtHand
      <3>2. \A i \in In : i \in ToSet(InsOf[TxAtHand]) => Pending(i)'
        BY <2>3, <3>1 DEF Pending
      <3>3. \A i \in In : staged'.ins[i] # "none" =>
                staged'.spentBy[Prev[i]] = i \/ Pending(i)'
        BY <2>1, <2>6, <3>2
      <3>4. \A k \in 1..Len(InsOf[TxAtHand]) : staged'.ins[InsOf[TxAtHand][k]] # "none"
        BY <2>1, <2>2, <2>3
      <3> QED BY <2>5, <3>1, <3>3, <3>4 DEF StageInv
    <2> QED BY <2>7, <2>8
  <1>3. CASE ReadPrev
    <2>1. /\ ipc = "read" /\ ipc' = "mark" /\ vin' = vin
          /\ staged'.spentBy = staged.spentBy
          /\ \A i \in In : staged'.ins[i] # "none" <=> (i = Input \/ staged.ins[i] # "none")
      BY <1>3, StagedByRead DEF ReadPrev, cursor
    <2>2. TxAtHand' = TxAtHand
      BY <1>3, StagedByRead DEF ReadPrev, cursor, TxAtHand
    <2>3. staged.ins[Input] # "none" /\ InsOf[TxAtHand] \in Seq(In)
      BY <2>1, AtHand DEF StageInv, Input, TypeOK
    <2>4. \A i \in In : staged'.ins[i] # "none" <=> staged.ins[i] # "none"
      BY <2>1, <2>3
    <2>5. \A i \in In : Pending(i) => Pending(i)'
      BY <2>1, <2>2 DEF Pending
    <2>6. \A k \in 1..Len(InsOf[TxAtHand]) : InsOf[TxAtHand][k] \in In
      BY <2>3
    <2>7. \A k \in 1..Len(InsOf[TxAtHand]) : staged'.ins[InsOf[TxAtHand][k]] # "none"
      BY <2>1, <2>4, <2>6 DEF StageInv
    <2> QED BY <2>1, <2>2, <2>4, <2>5, <2>7 DEF StageInv
  <1>4. CASE MarkSpent
    <2>1. /\ ipc = "mark" /\ staged'.ins = staged.ins /\ staged'.blocks = staged.blocks
          /\ \A o \in Out : staged'.spentBy[o] = IF o = Prev[Input] THEN Input
                                                                  ELSE staged.spentBy[o]
      BY <1>4, StagedByMark DEF MarkSpent
    <2>2. /\ Input \in In /\ Input # NoIn
          /\ \A i \in In : Prev[i] \in Out /\ (Prev[i] = Prev[Input] => i = Input)
      BY <2>1, AtHand, LedgerAssumption
    <2>3. staged.ins[Input] # "none" /\ vin \in 1..Len(InsOf[TxAtHand])
          /\ Len(InsOf[TxAtHand]) \in Nat
      BY <2>1, AtHand DEF StageInv, Input, TypeOK
    <2>4. \A i \in In : staged'.spentBy[Prev[i]] = IF i = Input THEN Input
                                                   ELSE staged.spentBy[Prev[i]]
      BY <2>1, <2>2
    <2>5. \A i \in In : staged'.spentBy[Prev[i]] # NoIn =>
              staged'.spentBy[Prev[i]] = i /\ staged'.ins[i] # "none"
      BY <2>1, <2>3, <2>4 DEF StageInv
    <2>6. \A i \in In : staged.spentBy[Prev[i]] = i => staged'.spentBy[Prev[i]] = i
      BY <2>4
    <2>7. CASE vin < Len(InsOf[TxAtHand])
      <3>1. ipc' = "read" /\ vin' = vin + 1 /\ TxAtHand' = TxAtHand
        BY <1>4, <2>1, <2>7 DEF MarkSpent, TxAtHand
      <3>2. \A i \in In : Pending(i) => i = Input \/ Pending(i)'
        <4> SUFFICES ASSUME NEW i \in In, Pending(i) PROVE i = Input \/ Pending(i)'
          OBVIOUS
        <4>1. PICK k \in vin..Len(InsOf[TxAtHand]) : InsOf[TxAtHand][k] = i
          BY DEF Pending
        <4>2. k = vin \/ k \in (vin + 1)..Len(InsOf[TxAtHand])
          BY <2>3
        <4> QED BY <3>1, <4>1, <4>2 DEF Pending, Input
      <3>3. \A i \in In : staged'.ins[i] # "none" =>
                staged'.spentBy[Prev[i]] = i \/ Pending(i)'
        BY <2>1, <2>4, <2>6, <3>2 DEF StageInv
      <3> QED BY <2>1, <2>5, <3>1, <3>3 DEF StageInv
    <2>8. CASE ~(vin < Len(InsOf[TxAtHand]))
      <3>1. ipc' \in {"insert", "commit"}
        BY <1>4, <2>1, <2>8, CursorAdvances DEF MarkSpent
      <3>2. \A i \in In : Pending(i) => i = Input
        BY <2>3, <2>8 DEF Pending, Input
      <3>3. \A i \in In : staged'.ins[i] # "none" => staged'.spentBy[Prev[i]] = i
        BY <2>1, <2>4, <2>6, <3>2 DEF StageInv
      <3> QED BY <2>5, <3>1, <3>3 DEF StageInv
    <2> QED BY <2>7, <2>8
  <1>5. CASE Commit
    <2>1. /\ \A i \in In : staged'.ins[i] = "none"
          /\ \A o \in Out : staged'.spentBy[o] = NoIn
          /\ ipc' \notin {"read", "mark"}
      BY <1>5 DEF Commit, BatchOver, NoStage
    <2> QED BY <2>1, LedgerAssumption DEF StageInv
  <1>6. CASE Rollback
    <2>1. /\ \A i \in In : staged'.ins[i] = "none"
          /\ \A o \in Out : staged'.spentBy[o] = NoIn
          /\ ipc' \notin {"read", "mark"}
      BY <1>6 DEF Rollback, BatchOver, NoStage
    <2> QED BY <2>1, LedgerAssumption DEF StageInv
  <1>7. CASE QueryOutputs
    <2>1. UNCHANGED indexer
      BY <1>7 DEF QueryOutputs
    <2> QED BY <2>1 DEF indexer, cursor, StageInv, Pending, TxAtHand
  <1>8. CASE UpdateRow
    <2>1. UNCHANGED indexer
      BY <1>8 DEF UpdateRow
    <2> QED BY <2>1 DEF indexer, cursor, StageInv, Pending, TxAtHand
  <1>9. CASE Flush
    <2>1. UNCHANGED indexer
      BY <1>9 DEF Flush
    <2> QED BY <2>1 DEF indexer, cursor, StageInv, Pending, TxAtHand
  <1>10. CASE OutputsDone
    <2>1. UNCHANGED indexer
      BY <1>10 DEF OutputsDone
    <2> QED BY <2>1 DEF indexer, cursor, StageInv, Pending, TxAtHand
  <1>11. CASE QueryBreaks
    <2>1. UNCHANGED indexer
      BY <1>11 DEF QueryBreaks
    <2> QED BY <2>1 DEF indexer, cursor, StageInv, Pending, TxAtHand
  <1>12. CASE FillInputs
    <2>1. UNCHANGED indexer
      BY <1>12 DEF FillInputs
    <2> QED BY <2>1 DEF indexer, cursor, StageInv, Pending, TxAtHand
  <1>13. CASE BackfillDies
    <2>1. UNCHANGED indexer
      BY <1>13 DEF BackfillDies
    <2> QED BY <2>1 DEF indexer, cursor, StageInv, Pending, TxAtHand
  <1>14. CASE UNCHANGED vars
    BY <1>14 DEF vars, indexer, cursor, StageInv, Pending, TxAtHand
  <1> QED BY <1>1, <1>2, <1>3, <1>4, <1>5, <1>6, <1>7, <1>8, <1>9, <1>10,
         <1>11, <1>12, <1>13, <1>14
         DEF Next, Ingest, Backfill

\* An address is only missing where the backfill still has the row to do.
LEMMA FillNext ==
    ASSUME IInv, [Next]_vars
    PROVE  FillInv'
  <1>0. TypeOK /\ FillInv
    BY DEF IInv
  <1> USE <1>0
  <1>1. CASE BeginBatch
    BY <1>1, StagedByBegin, LedgerAssumption DEF BeginBatch, tables, filler, FillInv, NoStage
  <1>2. CASE InsertTx
    <2>1. \A o \in Decodable : staged'.outs[o] # "null"
      BY <1>2, StagedByInsert, LedgerAssumption DEF FillInv
    <2> QED BY <1>2, <2>1 DEF InsertTx, tables, filler, FillInv
  <1>3. CASE ReadPrev
    BY <1>3, StagedByRead DEF ReadPrev, tables, filler, FillInv
  <1>4. CASE MarkSpent
    BY <1>4, StagedByMark DEF MarkSpent, tables, filler, FillInv
  <1>5. CASE Commit
    <2>1. \A o \in Decodable : staged'.outs[o] # "null"
      BY <1>5, LedgerAssumption DEF Commit, BatchOver, NoStage
    <2>2. \A o \in Decodable : outs'[o] = "null" => outs[o] = "null"
      BY <1>5, LedgerAssumption DEF Commit, Visible, FillInv
    <2> QED BY <1>5, <2>1, <2>2 DEF Commit, filler, FillInv
  <1>6. CASE Rollback
    BY <1>6, LedgerAssumption DEF Rollback, BatchOver, NoStage, tables, filler, FillInv
  <1>7. CASE QueryOutputs
    BY <1>7 DEF QueryOutputs, tables, indexer, filler, FillInv
  <1>8. CASE UpdateRow
    BY <1>8 DEF UpdateRow, tables, indexer, filler, FillInv
  <1>9. CASE Flush
    <2>1. \A o \in Decodable : outs'[o] = "null" => outs[o] = "null" /\ o \notin held
      BY <1>9, LedgerAssumption DEF Flush
    <2> QED BY <1>9, <2>1 DEF Flush, indexer, FillInv
  <1>10. CASE OutputsDone
    BY <1>10 DEF OutputsDone, tables, indexer, filler, FillInv
  <1>11. CASE QueryBreaks
    BY <1>11 DEF QueryBreaks, tables, indexer, filler, FillInv
  <1>12. CASE FillInputs
    BY <1>12 DEF FillInputs, tables, indexer, filler, FillInv
  <1>13. CASE BackfillDies
    BY <1>13 DEF BackfillDies, tables, indexer, filler, FillInv
  <1>14. CASE UNCHANGED vars
    BY <1>14 DEF vars, tables, indexer, filler, FillInv
  <1> QED BY <1>1, <1>2, <1>3, <1>4, <1>5, <1>6, <1>7, <1>8, <1>9, <1>10,
         <1>11, <1>12, <1>13, <1>14
         DEF Next, Ingest, Backfill

-----------------------------------------------------------------------------
\* IInv is inductive, and holds from the start on.
THEOREM Invariant == Spec => []IInv
  <1>1. ASSUME IInv, [Next]_vars PROVE IInv'
    <2>1. TypeOK'
      BY <1>1, TablesNext, CursorNext, FillerNext, TypePartsNext
    <2> QED BY <1>1, <2>1, BatchNext, SpentNext, StageNext, FillNext DEF IInv
  <1> QED BY InitInv, <1>1, PTL DEF Spec

\* Every variable keeps its type, and insertBlockBundle stays within its batch.
THEOREM TypeCorrect == Spec => []TypeOK
  BY Invariant, PTL DEF IInv

\* insertBlockBundle (ingestor.go): the mark of a spent output and the input
\* that spends it are seen together or not at all, whatever rolls back and
\* whatever backfill-addresses writes in between.
THEOREM SpentMarksMatchInputs == Spec => []SpentMatchesInputs
  BY Invariant, PTL DEF IInv

\* backfill-addresses: a run whose query has not broken off leaves no output
\* without an address that it could decode, whatever is ingested meanwhile.
THEOREM BackfillLeavesNone == Spec => []BackfillComplete
  <1>1. IInv => BackfillComplete
    BY DEF IInv, FillInv, BackfillComplete
  <1> QED BY Invariant, <1>1, PTL

\* The batch under way is no larger than the configuration allows.
BatchSize == ipc # "idle" => Len(staged.blocks) \in 1..BatchBlocks

LEMMA BatchSizeNext == IInv /\ BatchSize /\ [Next]_vars => BatchSize'
  <1> SUFFICES ASSUME IInv, BatchSize, [Next]_vars PROVE BatchSize'
    OBVIOUS
  <1>0. TypeOK
    BY DEF IInv
  <1>1. CASE BeginBatch
    <2>1. Len(staged'.blocks) \in Nat \ {0} /\ Len(staged'.blocks) <= BatchBlocks
      BY <1>0, <1>1, StagedByBegin
    <2> QED BY <2>1, IndexAssumption DEF BatchSize
  <1>2. CASE InsertTx \/ ReadPrev \/ MarkSpent
    <2>1. staged'.blocks = staged.blocks
      BY <1>0, <1>2, StagedByInsert, StagedByRead, StagedByMark
    <2>2. ipc # "idle"
      BY <1>2 DEF InsertTx, ReadPrev, MarkSpent
    <2> QED BY <2>1, <2>2 DEF BatchSize
  <1>3. CASE Commit \/ Rollback
    BY <1>3 DEF Commit, Rollback, BatchOver, BatchSize
  <1>4. CASE Backfill \/ QueryBreaks \/ BackfillDies
    BY <1>4 DEF Backfill, QueryOutputs, UpdateRow, Flush, OutputsDone, FillInputs, QueryBreaks,
                BackfillDies, indexer, BatchSize
  <1>5. CASE UNCHANGED vars
    BY <1>5 DEF vars, indexer, BatchSize
  <1> QED BY <1>1, <1>2, <1>3, <1>4, <1>5 DEF Next, Ingest

\* insertBlockBundle and backfill-addresses (ingestor.go, main.go) keep what
\* BlockIndex promises: whatever rolls back or is filled in, readers see the
\* blocks table grow by whole batches at its end, or not at all.
THEOREM LedgerAppendsBatches == Spec => [][AppendBatch]_index
  <1>1. Init => BatchSize
    BY DEF Init, BatchSize
  <1>2. IInv /\ BatchSize /\ [Next]_vars => [AppendBatch]_index
    <2> SUFFICES ASSUME IInv, BatchSize, Next PROVE [AppendBatch]_index
      BY DEF vars, tables
    <2>1. CASE Commit
      <3>1. /\ index' = index \o staged.blocks
            /\ Len(staged.blocks) \in 1..BatchBlocks
            /\ \A k \in 1..Len(staged.blocks) : HeightOf[staged.blocks[k]] = Len(index) + k - 1
        BY <2>1 DEF Commit, BatchSize, IInv, BatchInv
      <3>2. staged.blocks \in [1..Len(staged.blocks) -> Block]
        BY DEF IInv, TypeOK, Stages
      <3>3. staged.blocks \in Batches(Len(staged.blocks))
        BY <3>1, <3>2 DEF Batches
      <3> QED BY <3>1, <3>3 DEF AppendBatch
    <2>2. CASE BeginBatch \/ InsertTx \/ ReadPrev \/ MarkSpent \/ Rollback
      BY <2>2 DEF BeginBatch, InsertTx, ReadPrev, MarkSpent, Rollback, tables
    <2>3. CASE Backfill \/ QueryBreaks \/ BackfillDies
      BY <2>3 DEF Backfill, QueryOutputs, UpdateRow, Flush, OutputsDone, FillInputs, QueryBreaks,
                  BackfillDies, tables
    <2> QED BY <2>1, <2>2, <2>3 DEF Next, Ingest
  <1> QED BY <1>1, <1>2, Invariant, BatchSizeNext, PTL DEF Spec

\* AddressDetail only reads: beside it the indexer and the backfill behave as
\* without it, so that all of the above holds with address pages served.
THEOREM PagesOnlyRead == PageSpec => Spec
  <1>1. PageInit => Init
    BY DEF PageInit
  <1>2. [PageNext]_<<vars, reader>> => [Next]_vars
    <2> SUFFICES ASSUME [PageNext]_<<vars, reader>> PROVE [Next]_vars
      OBVIOUS
    <2>1. Request => UNCHANGED vars
      BY DEF Request, ReadSummary, CountInputs, ReadHistory, RequestFails
    <2> QED BY <2>1 DEF PageNext
  <1> QED BY <1>1, <1>2, PTL DEF PageSpec, Spec
=============================================================================

--------------------------- MODULE IngestorProofs ---------------------------
(***************************************************************************)
(* Proofs about Ingestor, for every set of blocks, every family of chains  *)
(* and every batch size.                                                   *)
(***************************************************************************)
EXTENDS Ingestor, TLAPS

\* The node's chain holds at every position a block of that height.
LEMMA ChainFacts ==
    ASSUME NodeOK
    PROVE  /\ chain \in Seq(Block)
           /\ Len(chain) \in Nat \ {0}
           /\ TipHeight \in Nat
           /\ \A k \in 0..TipHeight : chain[k + 1] \in Block /\ HeightOf[chain[k + 1]] = k
BY ChainsAssumption DEF NodeOK, TipHeight

\* The end of a batch is a height between its first block and the tip.
LEMMA BatchEndFacts ==
    ASSUME FrameOK
    PROVE  /\ BatchEnd \in Int
           /\ BatchEnd <= tip
           /\ BatchEnd < batchStart + BatchBlocks
           /\ batchStart <= tip => batchStart <= BatchEnd
BY BoundsAssumption DEF FrameOK, BatchEnd

LEMMA StartStates == EmptyDB \in DBState /\ NoTx \in TxState
BY DEF EmptyDB, DBState, NoTx, TxState

-----------------------------------------------------------------------------
(* Type correctness.                                                       *)

LEMMA TypeInit == Init => TypeOK
<1> SUFFICES ASSUME Init PROVE TypeOK
  OBVIOUS
<1>1. NodeOK
  BY BoundsAssumption DEF Init, NodeOK
<1>2. DatabaseOK
  BY StartStates DEF Init, DatabaseOK
<1>3. FrameOK
  BY DEF Init, FrameOK
<1>4. ProcessOK
  BY BoundsAssumption DEF Init, ProcessOK, PCs
<1>5. FlagsOK
  BY DEF Init, FlagsOK
<1> QED BY <1>1, <1>2, <1>3, <1>4, <1>5 DEF TypeOK

\* What is left alone keeps its type.
LEMMA Same ==
    ASSUME TypeOK
    PROVE  /\ UNCHANGED nodeVars => NodeOK'
           /\ UNCHANGED <<db, tx>> => DatabaseOK'
           /\ UNCHANGED frameVars => FrameOK'
           /\ UNCHANGED <<pc, sub, notified, crashes>> => ProcessOK'
           /\ UNCHANGED <<dbUp, cancelled, owed>> => FlagsOK'
<1>1. UNCHANGED nodeVars => NodeOK'
  BY DEF TypeOK, NodeOK, nodeVars
<1>2. UNCHANGED <<db, tx>> => DatabaseOK'
  BY DEF TypeOK, DatabaseOK
<1>3. UNCHANGED frameVars => FrameOK'
  BY DEF TypeOK, FrameOK, frameVars
<1>4. UNCHANGED <<pc, sub, notified, crashes>> => ProcessOK'
  BY DEF TypeOK, ProcessOK
<1>5. UNCHANGED <<dbUp, cancelled, owed>> => FlagsOK'
  BY DEF TypeOK, FlagsOK
<1> QED BY <1>1, <1>2, <1>3, <1>4, <1>5

LEMMA Gone == FrameGone => FrameOK'
<1> SUFFICES ASSUME FrameGone PROVE FrameOK'
  OBVIOUS
<1>1. missed' \in BOOLEAN
  BY DEF FrameGone
<1> QED BY <1>1 DEF FrameGone, FrameOK

\* Leaving the process keeps every type.
LEMMA ExitTypes ==
    ASSUME TypeOK, NEW how \in Down, Exit(how), dbUp' = dbUp, db' \in DBState,
           crashes' \in 0..MaxCrashes
    PROVE  TypeOK'
<1>1. NodeOK'
  BY Same DEF Exit
<1>2. DatabaseOK'
  BY StartStates DEF Exit, DatabaseOK
<1>3. FrameOK'
  BY Gone DEF Exit
<1>4. ProcessOK'
  BY BoundsAssumption DEF Exit, ProcessOK, PCs
<1>5. FlagsOK'
  BY DEF TypeOK, Exit, FlagsOK
<1> QED BY <1>1, <1>2, <1>3, <1>4, <1>5 DEF TypeOK

LEMMA ReturnTypes ==
    ASSUME TypeOK, RunReturns, dbUp' = dbUp, db' \in DBState
    PROVE  TypeOK'
<1>1. PICK how \in Down : Exit(how)
  BY DEF RunReturns, Down
<1>2. crashes' \in 0..MaxCrashes
  BY DEF RunReturns, TypeOK, ProcessOK
<1> QED BY <1>1, <1>2, ExitTypes

\* So does leaving ingestRange with an error.
LEMMA RangeFailsTypes ==
    ASSUME TypeOK, NEW class, RangeFails(class), dbUp' = dbUp, db' \in DBState
    PROVE  TypeOK'
<1>1. CASE RunReturns
  BY <1>1, ReturnTypes
<1>2. CASE ~RunReturns
  <2>1. NodeOK'
    BY <1>2, Same DEF RangeFails
  <2>2. DatabaseOK'
    BY <1>2, StartStates DEF RangeFails, DatabaseOK
  <2>3. FrameOK'
    BY <1>2, Gone DEF RangeFails
  <2>4. ProcessOK'
    BY <1>2 DEF RangeFails, TypeOK, ProcessOK, PCs, subVars
  <2>5. FlagsOK'
    BY <1>2 DEF RangeFails, TypeOK, FlagsOK, subVars
  <2> QED BY <2>1, <2>2, <2>3, <2>4, <2>5 DEF TypeOK
<1> QED BY <1>1, <1>2

LEMMA TypeStep == TypeOK /\ BatchInv /\ [Next]_vars => TypeOK'
<1> SUFFICES ASSUME TypeOK, BatchInv, [Next]_vars PROVE TypeOK'
  OBVIOUS
<1>r. ASSUME RunReturns, UNCHANGED dbVars PROVE TypeOK'
  BY <1>r, ReturnTypes DEF TypeOK, DatabaseOK, dbVars
<1>f. ASSUME NEW class, RangeFails(class), UNCHANGED dbVars PROVE TypeOK'
  BY <1>f, RangeFailsTypes DEF TypeOK, DatabaseOK, dbVars
<1>1. CASE NodeExtend \/ NodeReorg
  <2>1. chain' \in Chains /\ node' = node
    BY <1>1 DEF NodeExtend, NodeReorg, Longer, Rivals
  <2>2. reorgs' \in 0..MaxReorgs
    <3>1. CASE NodeExtend
      BY <3>1 DEF NodeExtend, TypeOK, NodeOK
    <3>2. CASE NodeReorg
      <4>1. reorgs < MaxReorgs /\ reorgs' = reorgs + 1
        BY <3>2 DEF NodeReorg, Rivals
      <4> QED BY <4>1, BoundsAssumption DEF TypeOK, NodeOK
    <3> QED BY <1>1, <3>1, <3>2
  <2>3. lead' \in -MaxLag..MaxLag
    <3>1. lead > -MaxLag /\ lead' = lead - 1
      BY <1>1 DEF NodeExtend, NodeReorg
    <3> QED BY <3>1, BoundsAssumption DEF TypeOK, NodeOK
  <2> QED BY <1>1, <2>1, <2>2, <2>3, Same
          DEF NodeExtend, NodeReorg, TypeOK, NodeOK, dbVars, subVars
<1>22. CASE Announce
  <2>1. lead' \in -MaxLag..MaxLag
    BY <1>22, BoundsAssumption DEF Announce, TypeOK, NodeOK
  <2>2. NodeOK'
    BY <1>22, <2>1 DEF Announce, TypeOK, NodeOK
  <2>3. ProcessOK'
    BY <1>22, BoundsAssumption DEF Announce, Publish, TypeOK, ProcessOK
  <2>4. missed' \in BOOLEAN
    <3>1. missed' = missed \/ missed' = (pc \in TipRead)
      BY <1>22 DEF Announce, Publish
    <3>2. missed \in BOOLEAN
      BY DEF TypeOK, FrameOK
    <3>3. (pc \in TipRead) \in BOOLEAN
      OBVIOUS
    <3> QED BY <3>1, <3>2, <3>3, Zenon
  <2>5. FrameOK'
    BY <1>22, <2>4 DEF Announce, TypeOK, FrameOK
  <2> QED BY <1>22, <2>2, <2>3, <2>5, Same DEF Announce, TypeOK, dbVars
<1>2. CASE NodeHealth
  <2>1. NodeOK'
    BY <1>2 DEF NodeHealth, TypeOK, NodeOK
  <2> QED BY <1>2, <2>1, Same DEF NodeHealth, TypeOK, dbVars, subVars
<1>3. CASE DBDown \/ DBBack
  <2>1. DatabaseOK'
    BY <1>3 DEF DBDown, DBBack, TypeOK, DatabaseOK, TxState
  <2>2. FlagsOK'
    BY <1>3 DEF DBDown, DBBack, TypeOK, FlagsOK, subVars
  <2> QED BY <1>3, <2>1, <2>2, Same DEF DBDown, DBBack, TypeOK, subVars
<1>4. CASE Cancel
  <2>1. FlagsOK'
    BY <1>4 DEF Cancel, TypeOK, FlagsOK, dbVars, subVars
  <2> QED BY <1>4, <2>1, Same DEF Cancel, TypeOK, dbVars, subVars
<1>5. CASE Kill
  <2>1. crashes' \in 0..MaxCrashes
    BY <1>5, BoundsAssumption DEF Kill, TypeOK, ProcessOK
  <2> QED BY <1>5, <2>1, ExitTypes DEF Kill, Down, TypeOK, DatabaseOK, dbVars
<1>6. CASE ServiceRestart \/ ManualStart
  <2>1. ProcessOK'
    BY <1>6 DEF ServiceRestart, ManualStart, Start, TypeOK, ProcessOK, PCs, subVars
  <2>2. FlagsOK'
    BY <1>6 DEF ServiceRestart, ManualStart, Start, TypeOK, FlagsOK, dbVars, subVars
  <2> QED BY <1>6, <2>1, <2>2, Same DEF ServiceRestart, ManualStart, Start, TypeOK, dbVars
<1>7. CASE EnsureChainState
  <2>1. CASE RunReturns
    BY <1>7, <2>1, ReturnTypes DEF EnsureChainState, TypeOK, DatabaseOK, DBState
  <2>2. CASE ~RunReturns
    <3>1. DatabaseOK'
      BY <1>7, <2>2 DEF EnsureChainState, TypeOK, DatabaseOK, DBState
    <3>2. ProcessOK'
      BY <1>7, <2>2 DEF EnsureChainState, TypeOK, ProcessOK, PCs, subVars
    <3>3. FlagsOK'
      BY <1>7, <2>2 DEF EnsureChainState, TypeOK, FlagsOK, subVars
    <3> QED BY <1>7, <2>2, <3>1, <3>2, <3>3, Same DEF EnsureChainState, TypeOK
  <2> QED BY <2>1, <2>2
<1>8. CASE Subscribe
  <2>1. ProcessOK'
    BY <1>8 DEF Subscribe, TypeOK, ProcessOK, PCs
  <2>2. FlagsOK'
    BY <1>8 DEF Subscribe, TypeOK, FlagsOK, dbVars
  <2> QED BY <1>8, <2>1, <2>2, Same DEF Subscribe, TypeOK, dbVars
<1>9. CASE (LoopTop \/ Backoff \/ Sleep) /\ ~RunReturns
  <2>1. ProcessOK'
    BY <1>9 DEF LoopTop, Backoff, Sleep, TypeOK, ProcessOK, PCs, subVars
  <2>2. FlagsOK'
    BY <1>9 DEF LoopTop, Backoff, Sleep, TypeOK, FlagsOK, dbVars, subVars
  <2>3. NodeOK' /\ DatabaseOK' /\ FrameOK'
    BY <1>9, Same, Gone DEF LoopTop, Backoff, Sleep, dbVars
  <2> QED BY <2>1, <2>2, <2>3 DEF TypeOK
<1>10. CASE GetBlockCount /\ ~RunReturns
  <2>1. ProcessOK'
    BY <1>10 DEF GetBlockCount, TypeOK, ProcessOK, PCs, subVars
  <2>2. FlagsOK'
    BY <1>10 DEF GetBlockCount, TypeOK, FlagsOK, dbVars, subVars
  <2>3. missed' \in BOOLEAN
    <3>1. missed' = missed \/ missed' = Hasty
      BY <1>10 DEF GetBlockCount, frameVars
    <3> QED BY <3>1 DEF Hasty, TypeOK, FrameOK
  <2>4. tip' \in Nat /\ UNCHANGED <<batchStart, h, cur, last>>
    BY <1>10, ChainFacts DEF GetBlockCount, TypeOK, FrameOK, frameVars
  <2>5. FrameOK'
    BY <2>3, <2>4 DEF TypeOK, FrameOK
  <2> QED BY <1>10, <2>1, <2>2, <2>5, Same DEF GetBlockCount, TypeOK, dbVars
<1>11. CASE GetDBTip /\ ~RunReturns
  <2>1. ProcessOK'
    BY <1>11 DEF GetDBTip, TypeOK, ProcessOK, PCs, Batch, subVars
  <2>2. FlagsOK'
    BY <1>11 DEF GetDBTip, TypeOK, FlagsOK, dbVars, subVars
  <2>3. FrameOK'
    BY <1>11 DEF GetDBTip, TypeOK, FrameOK, DatabaseOK, DBState
  <2> QED BY <1>11, <2>1, <2>2, <2>3, Same DEF GetDBTip, TypeOK, dbVars
<1>12. CASE WaitForBlock
  <2>1. CASE sub = "dead"
    BY <1>12, <2>1, ExitTypes
    DEF WaitForBlock, Down, TypeOK, ProcessOK, DatabaseOK, dbVars
  <2>2. CASE sub # "dead"
    <3>0. pc' \in PCs /\ sub' = sub /\ crashes' = crashes
      BY <1>12, <2>2 DEF WaitForBlock, PCs, subVars
    <3>1. notified' = notified \/ (notified > 0 /\ notified' = notified - 1)
      BY <1>12, <2>2 DEF WaitForBlock, subVars
    <3>2. ProcessOK'
      BY <3>0, <3>1, BoundsAssumption DEF TypeOK, ProcessOK
    <3>3. FlagsOK'
      BY <1>12, <2>2 DEF WaitForBlock, TypeOK, FlagsOK, dbVars, subVars
    <3> QED BY <1>12, <2>2, <3>2, <3>3, Same DEF WaitForBlock, TypeOK, dbVars
  <2> QED BY <2>1, <2>2
<1>13. CASE Reconnect
  <2>1. ProcessOK'
    BY <1>13, BoundsAssumption DEF Reconnect, TypeOK, ProcessOK, PCs
  <2>2. FlagsOK'
    BY <1>13 DEF Reconnect, TypeOK, FlagsOK, dbVars
  <2> QED BY <1>13, <2>1, <2>2, Same, Gone DEF Reconnect, TypeOK, dbVars
<1>14. CASE BeginBatch
  <2>1. CASE AnyError
    BY <1>14, <1>f, <2>1 DEF BeginBatch, AnyError
  <2>2. CASE ~AnyError
    <3>1. DatabaseOK'
      BY <1>14, <2>2, StartStates DEF BeginBatch, TypeOK, DatabaseOK, TxState, dbVars
    <3>2. ProcessOK'
      BY <1>14, <2>2 DEF BeginBatch, TypeOK, ProcessOK, PCs, Batch, subVars
    <3>3. FlagsOK'
      BY <1>14, <2>2 DEF BeginBatch, TypeOK, FlagsOK, dbVars, subVars
    <3>4. FrameOK'
      BY <1>14, <2>2 DEF BeginBatch, TypeOK, FrameOK
    <3> QED BY <1>14, <2>2, <3>1, <3>2, <3>3, <3>4, Same DEF BeginBatch, TypeOK
  <2> QED BY <2>1, <2>2
<1>15. CASE GetBlockHash
  <2>1. CASE \E class : RangeFails(class)
    BY <1>15, <1>f, <2>1 DEF GetBlockHash
  <2>2. CASE ~\E class : RangeFails(class)
    <3>1. ProcessOK'
      BY <1>15, <2>2 DEF GetBlockHash, RPCFails, AnyError, TypeOK, ProcessOK, PCs, Batch, subVars
    <3>2. FlagsOK'
      BY <1>15, <2>2 DEF GetBlockHash, RPCFails, AnyError, TypeOK, FlagsOK, dbVars, subVars
    <3>3. FrameOK'
      BY <1>15, <2>2, ChainFacts DEF GetBlockHash, RPCFails, AnyError, TypeOK, FrameOK
    <3> QED BY <1>15, <2>2, <3>1, <3>2, <3>3, Same DEF GetBlockHash, RPCFails, AnyError, TypeOK, dbVars
  <2> QED BY <2>1, <2>2
<1>16. CASE InsertBlock
  <2>1. CASE \E class : RangeFails(class)
    BY <1>16, <1>f, <2>1 DEF InsertBlock
  <2>2. CASE ~\E class : RangeFails(class)
    <3>1. ProcessOK'
      BY <1>16, <2>2
      DEF InsertBlock, RPCFails, AnyError, TypeOK, ProcessOK, PCs, Batch, subVars
    <3>2. FlagsOK'
      BY <1>16, <2>2 DEF InsertBlock, RPCFails, AnyError, TypeOK, FlagsOK, dbVars, subVars
    <3>3. FrameOK'
      BY <1>16, <2>2 DEF InsertBlock, RPCFails, AnyError, TypeOK, FrameOK
    <3>4. DatabaseOK'
      BY <1>16, <2>2
      DEF InsertBlock, RPCFails, AnyError, BatchInv, TypeOK, DatabaseOK, TxState, dbVars
    <3> QED BY <1>16, <2>2, <3>1, <3>2, <3>3, <3>4, Same
            DEF InsertBlock, RPCFails, AnyError, TypeOK
  <2> QED BY <2>1, <2>2
<1>17. CASE UpdateChainState
  <2>1. CASE AnyError
    BY <1>17, <1>f, <2>1 DEF UpdateChainState, AnyError
  <2>2. CASE ~AnyError
    <3>1. DatabaseOK'
      BY <1>17, <2>2, BlockAssumption
      DEF UpdateChainState, BatchInv, TypeOK, DatabaseOK, TxState, dbVars
    <3>2. ProcessOK'
      BY <1>17, <2>2 DEF UpdateChainState, TypeOK, ProcessOK, PCs, Batch, subVars
    <3>3. FlagsOK'
      BY <1>17, <2>2 DEF UpdateChainState, TypeOK, FlagsOK, dbVars, subVars
    <3> QED BY <1>17, <2>2, <3>1, <3>2, <3>3, Same DEF UpdateChainState, TypeOK
  <2> QED BY <2>1, <2>2
<1>18. CASE Commit
  <2>0. Committed \in DBState
    BY DEF Committed, TypeOK, DatabaseOK, DBState, TxState
  <2>1. CASE AnyError
    BY <1>18, <2>0, <2>1, RangeFailsTypes DEF Commit, AnyError, TypeOK, DatabaseOK
  <2>2. CASE ~AnyError
    <3>1. DatabaseOK'
      BY <1>18, <2>0, <2>2, StartStates DEF Commit, DatabaseOK
    <3>2. ProcessOK'
      BY <1>18, <2>2 DEF Commit, TypeOK, ProcessOK, PCs, Batch, subVars
    <3>3. FlagsOK'
      BY <1>18, <2>2 DEF Commit, TypeOK, FlagsOK, subVars
    <3>4. BatchEnd + 1 \in Nat
      BY <1>18, BatchEndFacts DEF Commit, BatchInv, Batch, TypeOK, FrameOK
    <3>5. FrameOK'
      BY <1>18, <2>2, <3>4, Gone DEF Commit, TypeOK, FrameOK
    <3> QED BY <1>18, <2>2, <3>1, <3>2, <3>3, <3>5, Same DEF Commit, TypeOK
  <2> QED BY <2>1, <2>2
<1>19. CASE UNCHANGED vars
  BY <1>19, Same DEF vars, TypeOK, dbVars, subVars
<1>20. CASE RunReturns /\ (LoopTop \/ GetBlockCount \/ Backoff \/ GetDBTip \/ Sleep)
  BY <1>20, <1>r DEF LoopTop, GetBlockCount, Backoff, GetDBTip, Sleep
<1>21. CASE RecvError
  <2>1. ProcessOK'
    BY <1>21 DEF RecvError, TypeOK, ProcessOK, PCs, subVars
  <2>2. FlagsOK'
    BY <1>21 DEF RecvError, TypeOK, FlagsOK, dbVars, subVars
  <2> QED BY <1>21, <2>1, <2>2, Same DEF RecvError, TypeOK, dbVars
<1> QED
  BY <1>1, <1>2, <1>3, <1>4, <1>5, <1>6, <1>7, <1>8, <1>9, <1>10, <1>11, <1>12,
     <1>13, <1>14, <1>15, <1>16, <1>17, <1>18, <1>19, <1>20, <1>21, <1>22
  DEF Next, Environment, Run, IngestRange

-----------------------------------------------------------------------------
(* The checkpoint.                                                         *)

\* One more block on top keeps a table exact.
LEMMA ExactAdd ==
    ASSUME NEW rows \in SUBSET Block, NEW k \in Nat \cup {-1}, NEW hash,
           NEW b \in Block, Exact(rows, k, hash), HeightOf[b] = k + 1
    PROVE  Exact(rows \cup {b}, k + 1, b)
<1>1. \A a \in rows \cup {b} : HeightOf[a] \in Nat /\ HeightOf[a] <= k + 1
  BY BlockAssumption DEF Exact
<1>2. ASSUME NEW j \in 0..(k + 1) PROVE \E a \in rows \cup {b} : HeightOf[a] = j
  <2>1. CASE j = k + 1
    BY <2>1
  <2>2. CASE j # k + 1
    <3>1. j \in 0..k
      BY <1>2, <2>2
    <3> QED BY <3>1 DEF Exact
  <2> QED BY <2>1, <2>2
<1>3. ASSUME NEW a \in rows PROVE HeightOf[a] # k + 1
  BY <1>3, BlockAssumption DEF Exact
<1>4. \A a, c \in rows \cup {b} : HeightOf[a] = HeightOf[c] => a = c
  BY <1>3 DEF Exact
<1>5. k + 1 # -1
  OBVIOUS
<1> QED BY <1>1, <1>2, <1>4, <1>5 DEF Exact

\* An error leaves ingestRange.
LEMMA FailsLeaves == \A class : RangeFails(class) => pc' \notin Batch
BY DEF RangeFails, RunReturns, Exit, Batch

LEMMA ReturnsLeaves == RunReturns => pc' \notin Batch
BY DEF RunReturns, Exit, Batch

\* Outside ingestRange only the committed state matters.
LEMMA OutsideBatch ==
    ASSUME CheckpointExact, pc' \notin Batch, db' = db
    PROVE  BatchInv' /\ CheckpointExact'
BY DEF BatchInv, CheckpointExact, Batch

\* A step that leaves ingestRange's state alone.
LEMMA SameBatch ==
    ASSUME BatchInv, CheckpointExact,
           UNCHANGED <<pc, db, tip, batchStart, h, cur, last>>,
           tx'.rows = tx.rows, tx'.height = tx.height, tx'.hash = tx.hash
    PROVE  BatchInv' /\ CheckpointExact'
<1>1. BatchEnd' = BatchEnd
  BY DEF BatchEnd
<1> QED BY <1>1 DEF BatchInv, CheckpointExact

LEMMA BatchInit == Init => BatchInv /\ CheckpointExact
BY DEF Init, EmptyDB, BatchInv, CheckpointExact, Exact, Batch

LEMMA BatchStep ==
    TypeOK /\ BatchInv /\ CheckpointExact /\ [Next]_vars
    => BatchInv' /\ CheckpointExact'
<1> SUFFICES ASSUME TypeOK, BatchInv, CheckpointExact, [Next]_vars
             PROVE  BatchInv' /\ CheckpointExact'
  OBVIOUS
<1>t. /\ db.rows \in SUBSET Block /\ tx.rows \in SUBSET Block
      /\ db.height \in Nat \cup {-1}
      /\ tip \in Nat /\ batchStart \in Nat /\ h \in Nat
  BY DEF TypeOK, DatabaseOK, DBState, TxState, FrameOK
<1>f. ASSUME NEW class, RangeFails(class), UNCHANGED dbVars
      PROVE  BatchInv' /\ CheckpointExact'
  BY <1>f, FailsLeaves, OutsideBatch DEF dbVars
<1>1. CASE NodeExtend \/ NodeReorg \/ NodeHealth \/ DBBack \/ Cancel
  BY <1>1, SameBatch
  DEF NodeExtend, NodeReorg, NodeHealth, DBBack, Cancel, dbVars, frameVars
<1>14. CASE Announce
  BY <1>14, SameBatch DEF Announce, dbVars
<1>2. CASE DBDown
  <2>1. tx'.rows = tx.rows /\ tx'.height = tx.height /\ tx'.hash = tx.hash
    BY <1>2 DEF DBDown, TypeOK, DatabaseOK, TxState
  <2> QED BY <1>2, <2>1, SameBatch DEF DBDown, frameVars
<1>3. CASE Kill \/ ServiceRestart \/ ManualStart
  BY <1>3, OutsideBatch DEF Kill, ServiceRestart, ManualStart, Start, Exit, Batch, dbVars
<1>4. CASE EnsureChainState
  <2>1. pc' \notin Batch
    BY <1>4, ReturnsLeaves DEF EnsureChainState, Batch
  <2>2. db'.rows = db.rows /\ db'.height = db.height /\ db'.hash = db.hash
    BY <1>4 DEF EnsureChainState, TypeOK, DatabaseOK, DBState
  <2> QED BY <2>1, <2>2 DEF BatchInv, CheckpointExact, Batch
<1>5. CASE Subscribe \/ LoopTop \/ GetBlockCount \/ Backoff \/ Reconnect \/ Sleep
  BY <1>5, ReturnsLeaves, OutsideBatch
  DEF Subscribe, LoopTop, GetBlockCount, Backoff, Reconnect, Sleep, Batch, dbVars
<1>6. CASE WaitForBlock \/ RecvError
  BY <1>6, OutsideBatch DEF WaitForBlock, RecvError, Exit, Batch, dbVars
<1>7. CASE GetDBTip
  <2>1. CASE pc' \notin Batch
    BY <1>7, <2>1, OutsideBatch DEF GetDBTip, dbVars
  <2>2. CASE pc' \in Batch
    <3>1. /\ pc' = "begin" /\ batchStart' = db.height + 1
          /\ tip > db.height /\ tip' = tip /\ db' = db
      BY <1>7, <2>2, ReturnsLeaves DEF GetDBTip, Batch, dbVars
    <3> QED BY <3>1, <1>t DEF BatchInv, CheckpointExact
  <2> QED BY <2>1, <2>2
<1>8. CASE BeginBatch
  <2>1. CASE AnyError
    BY <1>8, <1>f, <2>1 DEF BeginBatch, AnyError
  <2>2. CASE ~AnyError
    <3>1. /\ pc' = "hash" /\ h' = batchStart /\ batchStart' = batchStart
          /\ tip' = tip /\ db' = db /\ tx'.rows = {}
      BY <1>8, <2>2 DEF BeginBatch, NoTx, dbVars
    <3>2. batchStart = db.height + 1 /\ batchStart <= tip
      BY <1>8 DEF BeginBatch, BatchInv, Batch
    <3>3. BatchEnd' = BatchEnd
      BY <3>1 DEF BatchEnd
    <3>4. h' \in batchStart'..BatchEnd'
      BY <3>1, <3>2, <3>3, BatchEndFacts DEF TypeOK, FrameOK
    <3>5. Exact(db'.rows \cup tx'.rows, h' - 1, db'.hash)
      <4>1. db'.rows \cup tx'.rows = db.rows
        BY <3>1
      <4>2. h' - 1 = db.height
        BY <3>1, <3>2, <1>t
      <4> QED BY <3>1, <4>1, <4>2 DEF CheckpointExact
    <3> QED BY <3>1, <3>2, <3>4, <3>5 DEF BatchInv, CheckpointExact
  <2> QED BY <2>1, <2>2
<1>9. CASE GetBlockHash
  <2>1. CASE \E class : RangeFails(class)
    BY <1>9, <1>f, <2>1 DEF GetBlockHash
  <2>2. CASE ~\E class : RangeFails(class)
    <3>1. /\ pc = "hash" /\ pc' = "block" /\ h <= TipHeight /\ cur' = chain[h + 1]
          /\ UNCHANGED <<db, tx, tip, batchStart, h, last>>
      BY <1>9, <2>2 DEF GetBlockHash, RPCFails, AnyError, dbVars
    <3>2. cur' \in Block /\ HeightOf[cur'] = h
      BY <3>1, <1>t, ChainFacts DEF TypeOK
    <3>3. BatchEnd' = BatchEnd
      BY <3>1 DEF BatchEnd
    <3> QED BY <3>1, <3>2, <3>3 DEF BatchInv, CheckpointExact, Batch
  <2> QED BY <2>1, <2>2
<1>10. CASE InsertBlock
  <2>1. CASE \E class : RangeFails(class)
    BY <1>10, <1>f, <2>1 DEF InsertBlock
  <2>2. CASE ~\E class : RangeFails(class)
    <3>1. /\ pc = "block" /\ last' = cur
          /\ tx' = [tx EXCEPT !.rows = @ \cup {cur}]
          /\ IF h < BatchEnd THEN pc' = "hash" /\ h' = h + 1
                             ELSE pc' = "state" /\ h' = h
          /\ UNCHANGED <<db, tip, batchStart>>
      BY <1>10, <2>2 DEF InsertBlock, RPCFails, AnyError, dbVars
    <3>2. tx'.rows = tx.rows \cup {cur}
      BY <3>1 DEF TypeOK, DatabaseOK, TxState
    <3>3. /\ batchStart = db.height + 1 /\ batchStart <= tip
          /\ h \in batchStart..BatchEnd
          /\ cur \in Block /\ HeightOf[cur] = h
          /\ Exact(db.rows \cup tx.rows, h - 1, IF h = batchStart THEN db.hash ELSE last)
      BY <3>1 DEF BatchInv, Batch
    <3>4. Exact((db.rows \cup tx.rows) \cup {cur}, (h - 1) + 1, cur)
      BY <3>3, <1>t, ExactAdd
    <3>5. Exact(db'.rows \cup tx'.rows, h, cur)
      <4>1. db'.rows \cup tx'.rows = (db.rows \cup tx.rows) \cup {cur}
        BY <3>1, <3>2
      <4>2. (h - 1) + 1 = h
        BY <1>t
      <4> QED BY <3>4, <4>1, <4>2
    <3>6. BatchEnd' = BatchEnd /\ BatchEnd \in Int
      BY <3>1, BatchEndFacts DEF BatchEnd, TypeOK
    <3>7. CASE h < BatchEnd
      <4>1. pc' = "hash" /\ h' = h + 1 /\ h' \in batchStart'..BatchEnd' /\ h' # batchStart'
        BY <3>1, <3>3, <3>6, <3>7, <1>t
      <4>2. h' - 1 = h
        BY <4>1, <1>t
      <4> QED BY <3>1, <3>3, <3>5, <4>1, <4>2 DEF BatchInv, CheckpointExact
    <3>8. CASE ~(h < BatchEnd)
      <4>1. pc' = "state" /\ h = BatchEnd'
        BY <3>1, <3>3, <3>6, <3>8, <1>t
      <4> QED BY <3>1, <3>3, <3>5, <4>1 DEF BatchInv, CheckpointExact
    <3> QED BY <3>7, <3>8
  <2> QED BY <2>1, <2>2
<1>11. CASE UpdateChainState
  <2>1. CASE AnyError
    BY <1>11, <1>f, <2>1 DEF UpdateChainState, AnyError
  <2>2. CASE ~AnyError
    <3>1. /\ pc = "state" /\ pc' = "commit" /\ UNCHANGED <<db, frameVars>>
          /\ tx' = [tx EXCEPT !.height = HeightOf[last], !.hash = last]
      BY <1>11, <2>2 DEF UpdateChainState, dbVars
    <3>2. tx'.rows = tx.rows /\ tx'.height = HeightOf[last] /\ tx'.hash = last
      BY <3>1 DEF TypeOK, DatabaseOK, TxState
    <3>3. BatchEnd' = BatchEnd /\ BatchEnd # -1
      BY <3>1, <1>t, BatchEndFacts DEF BatchEnd, frameVars, BatchInv, Batch, TypeOK
    <3>4. HeightOf[last] = BatchEnd
      BY <3>1, <3>3 DEF BatchInv, Exact
    <3> QED BY <3>1, <3>2, <3>3, <3>4 DEF BatchInv, CheckpointExact, Batch, frameVars
  <2> QED BY <2>1, <2>2
<1>12. CASE Commit
  <2>1. pc = "commit" /\ Exact(db.rows \cup tx.rows, tx.height, tx.hash) /\ tx.height = BatchEnd
    BY <1>12 DEF Commit, BatchInv
  <2>2. /\ Committed.rows = db.rows \cup tx.rows
        /\ Committed.height = tx.height /\ Committed.hash = tx.hash
    BY DEF Committed, TypeOK, DatabaseOK, DBState
  <2>3. db' = db \/ db' = Committed
    BY <1>12 DEF Commit
  <2>4. CheckpointExact'
    BY <2>1, <2>2, <2>3 DEF CheckpointExact
  <2>5. CASE pc' \notin Batch
    BY <2>4, <2>5 DEF BatchInv, Batch
  <2>6. CASE pc' \in Batch
    <3>1. /\ pc' = "begin" /\ db' = Committed /\ batchStart' = BatchEnd + 1
          /\ BatchEnd < tip /\ tip' = tip
      BY <1>12, <2>6, FailsLeaves DEF Commit, AnyError, Batch
    <3> QED BY <2>1, <2>2, <2>4, <3>1, <1>t, BatchEndFacts DEF BatchInv, TypeOK
  <2> QED BY <2>5, <2>6
<1>13. CASE UNCHANGED vars
  BY <1>13, SameBatch DEF vars, dbVars, frameVars
<1> QED
  BY <1>1, <1>2, <1>3, <1>4, <1>5, <1>6, <1>7, <1>8, <1>9, <1>10, <1>11, <1>12, <1>13, <1>14
  DEF Next, Environment, Run, IngestRange

IInv == TypeOK /\ BatchInv /\ CheckpointExact

LEMMA Invariance == Spec => []IInv
<1>1. Init => IInv
  BY TypeInit, BatchInit DEF IInv
<1>2. IInv /\ [Next]_vars => IInv'
  BY TypeStep, BatchStep DEF IInv
<1> QED BY <1>1, <1>2, PTL DEF Spec

\* Type correctness, for every family of chains and every batch size.
THEOREM TypeCorrect == Spec => []TypeOK
<1>1. IInv => TypeOK
  BY DEF IInv
<1> QED BY <1>1, Invariance, PTL

\* Between the steps of a batch, committed and staged rows together are exact up
\* to the last block inserted, and the frame of ingestRange still matches the
\* checkpoint it was computed from.
THEOREM BatchStaysExact == Spec => []BatchInv
<1>1. IInv => BatchInv
  BY DEF IInv
<1> QED BY <1>1, Invariance, PTL

\* chain_state and the blocks table agree at every instant: no gap, no height
\* twice, nothing beyond the checkpoint, whatever fails or restarts.
THEOREM CheckpointIsExact == Spec => []CheckpointExact
<1>1. IInv => CheckpointExact
  BY DEF IInv
<1> QED BY <1>1, Invariance, PTL

-----------------------------------------------------------------------------
(* Without a reorganisation the index is a prefix of the node's chain.     *)

LEMMA PrefixSame ==
    ASSUME PrefixInv, UNCHANGED <<chain, reorgs>>,
           db'.rows \cup tx'.rows \subseteq db.rows \cup tx.rows,
           pc' = "block" => pc = "block" /\ cur' = cur
    PROVE  PrefixInv'
BY DEF PrefixInv, OnChain

\* A step that adds no row, staged or committed, and does not fetch a hash.
LEMMA PrefixQuiet ==
    ASSUME TypeOK, PrefixInv, UNCHANGED <<chain, reorgs>>, db'.rows = db.rows,
           tx'.rows = tx.rows \/ tx' = NoTx, pc' # "block" \/ UNCHANGED <<pc, cur>>
    PROVE  PrefixInv'
<1>1. tx'.rows \subseteq tx.rows
  BY DEF NoTx
<1> QED BY <1>1, PrefixSame

LEMMA ExitEffect ==
    /\ \A how : Exit(how) => pc' = how /\ tx' = NoTx /\ UNCHANGED <<chain, reorgs>>
    /\ RunReturns => pc' \in Down /\ tx' = NoTx /\ UNCHANGED <<chain, reorgs>>
    /\ \A class : RangeFails(class) =>
          /\ pc' \in Down \cup {"top"}
          /\ tx' = NoTx
          /\ UNCHANGED <<chain, reorgs>>
BY DEF Exit, RunReturns, RangeFails, Down, nodeVars

LEMMA PrefixInit == Init => PrefixInv
BY DEF Init, EmptyDB, NoTx, PrefixInv

LEMMA PrefixStep == IInv /\ PrefixInv /\ [Next]_vars => PrefixInv'
<1> SUFFICES ASSUME IInv, PrefixInv, [Next]_vars PROVE PrefixInv'
  OBVIOUS
<1>t. /\ TypeOK /\ BatchInv /\ FrameOK /\ NodeOK
      /\ db.rows \in SUBSET Block /\ tx.rows \in SUBSET Block
  BY DEF IInv, TypeOK, DatabaseOK, DBState, TxState
<1>1. CASE NodeExtend
  <2>1. PICK c \in Chains : Continues(c, chain) /\ chain' = c
    BY <1>1 DEF NodeExtend, Longer
  <2>2. UNCHANGED <<reorgs, db, tx, pc, cur>>
    BY <1>1 DEF NodeExtend, dbVars, frameVars
  <2>3. ASSUME NEW b \in Block, OnChain(b) PROVE OnChain(b)'
    <3>1. HeightOf[b] \in Nat /\ Len(chain) \in Nat /\ Len(c) \in Nat
      BY <1>t, ChainFacts, ChainsAssumption, BlockAssumption
    <3> QED BY <2>1, <2>3, <3>1 DEF OnChain, Continues
  <2>4. pc = "block" => cur \in Block
    BY <1>t DEF BatchInv
  <2> QED BY <1>t, <2>2, <2>3, <2>4 DEF PrefixInv
<1>2. CASE NodeReorg
  <2>1. reorgs' # 0
    BY <1>2, <1>t, BoundsAssumption DEF NodeReorg, NodeOK
  <2> QED BY <2>1 DEF PrefixInv
<1>3. CASE NodeHealth \/ DBBack \/ Cancel
  BY <1>3, <1>t, PrefixQuiet DEF NodeHealth, DBBack, Cancel, dbVars, frameVars, nodeVars
<1>14. CASE Announce
  BY <1>14, <1>t, PrefixQuiet DEF Announce, dbVars
<1>4. CASE DBDown
  <2>1. tx'.rows = tx.rows
    BY <1>4, <1>t DEF DBDown, TypeOK, DatabaseOK, TxState
  <2> QED BY <1>4, <2>1, <1>t, PrefixQuiet DEF DBDown, frameVars, nodeVars
<1>5. CASE Kill \/ ServiceRestart \/ ManualStart
  BY <1>5, <1>t, ExitEffect, PrefixQuiet
  DEF Kill, ServiceRestart, ManualStart, Start, dbVars, nodeVars
<1>6. CASE EnsureChainState
  <2>1. db'.rows = db.rows
    BY <1>6, <1>t DEF EnsureChainState, TypeOK, DatabaseOK, DBState
  <2>2. pc' # "block" /\ UNCHANGED <<chain, reorgs>> /\ (tx' = tx \/ tx' = NoTx)
    BY <1>6, ExitEffect DEF EnsureChainState, Down, nodeVars
  <2> QED BY <1>t, <2>1, <2>2, PrefixQuiet
<1>7. CASE Subscribe \/ LoopTop \/ GetBlockCount \/ Backoff \/ GetDBTip
           \/ WaitForBlock \/ RecvError \/ Reconnect \/ Sleep
  BY <1>7, <1>t, ExitEffect, PrefixQuiet
  DEF Subscribe, LoopTop, GetBlockCount, Backoff, GetDBTip, WaitForBlock, RecvError,
      Reconnect, Sleep, Down, dbVars, nodeVars
<1>8. CASE BeginBatch
  <2>1. tx' = NoTx \/ tx'.rows = {}
    BY <1>8, ExitEffect DEF BeginBatch, AnyError, NoTx
  <2>2. pc' # "block" /\ UNCHANGED <<chain, reorgs, db>>
    BY <1>8, ExitEffect DEF BeginBatch, AnyError, Down, dbVars, nodeVars
  <2>3. tx'.rows = {}
    BY <2>1 DEF NoTx
  <2> QED BY <2>2, <2>3, PrefixSame
<1>9. CASE GetBlockHash
  <2>1. CASE pc' = "block"
    <3>1. h <= TipHeight /\ cur' = chain[h + 1] /\ UNCHANGED <<chain, reorgs, db, tx>>
      BY <1>9, <2>1, ExitEffect DEF GetBlockHash, RPCFails, AnyError, Down, dbVars, nodeVars
    <3>2. h \in Nat /\ HeightOf[cur'] = h
      BY <1>t, <3>1, ChainFacts DEF FrameOK
    <3>3. OnChain(cur)'
      BY <1>t, <3>1, <3>2, ChainFacts DEF OnChain, TipHeight
    <3> QED BY <3>1, <3>3 DEF PrefixInv, OnChain
  <2>2. CASE pc' # "block"
    BY <1>9, <2>2, <1>t, ExitEffect, PrefixQuiet DEF GetBlockHash, RPCFails, AnyError, dbVars, nodeVars
  <2> QED BY <2>1, <2>2
<1>10. CASE InsertBlock
  <2>1. CASE tx' = NoTx
    BY <1>10, <2>1, <1>t, ExitEffect, PrefixQuiet
    DEF InsertBlock, RPCFails, AnyError, Down, dbVars, nodeVars
  <2>2. CASE tx' # NoTx
    <3>1. /\ pc = "block" /\ pc' # "block"
          /\ UNCHANGED <<chain, reorgs, db>>
          /\ tx' = [tx EXCEPT !.rows = @ \cup {cur}]
      BY <1>10, <2>2, ExitEffect DEF InsertBlock, RPCFails, AnyError, dbVars, nodeVars
    <3>2. tx'.rows = tx.rows \cup {cur}
      BY <1>t, <3>1 DEF TypeOK, DatabaseOK, TxState
    <3> QED BY <3>1, <3>2 DEF PrefixInv, OnChain
  <2> QED BY <2>1, <2>2
<1>11. CASE UpdateChainState
  <2>1. tx' = NoTx \/ tx'.rows = tx.rows
    BY <1>11, <1>t, ExitEffect DEF UpdateChainState, AnyError, TypeOK, DatabaseOK, TxState
  <2> QED BY <1>11, <2>1, <1>t, ExitEffect, PrefixQuiet
          DEF UpdateChainState, AnyError, Down, dbVars, nodeVars
<1>12. CASE Commit
  <2>1. db' = db \/ db' = Committed
    BY <1>12 DEF Commit
  <2>2. tx' = NoTx /\ pc' # "block" /\ UNCHANGED <<chain, reorgs>>
    BY <1>12, ExitEffect DEF Commit, AnyError, Down, nodeVars
  <2>3. Committed.rows = db.rows \cup tx.rows
    BY <1>t DEF Committed, TypeOK, DatabaseOK, DBState
  <2>4. db'.rows \cup tx'.rows \subseteq db.rows \cup tx.rows
    BY <2>1, <2>2, <2>3 DEF NoTx
  <2> QED BY <2>2, <2>4, PrefixSame
<1>13. CASE UNCHANGED vars
  BY <1>13, <1>t, PrefixQuiet DEF vars, dbVars, nodeVars, frameVars
<1> QED
  BY <1>1, <1>2, <1>3, <1>4, <1>5, <1>6, <1>7, <1>8, <1>9, <1>10, <1>11, <1>12, <1>13, <1>14
  DEF Next, Environment, Run, IngestRange

\* As long as the node has not changed branch, every row is the block the node
\* has at that height.
THEOREM IndexIsPrefix == Spec => []PrefixUntilReorg
<1>1. Init => PrefixInv
  BY PrefixInit
<1>2. IInv /\ PrefixInv /\ [Next]_vars => PrefixInv'
  BY PrefixStep
<1>3. PrefixInv => PrefixUntilReorg
  BY DEF PrefixInv, PrefixUntilReorg
<1> QED BY <1>1, <1>2, <1>3, Invariance, PTL DEF Spec

-----------------------------------------------------------------------------
(* No lost wake-up.                                                        *)

LEMMA WakeupOutside == pc' \notin TipRead => WakeupInv'
BY DEF WakeupInv, TipRead

\* A step that stays between reading the tip and waiting, and neither changes
\* the chain nor takes a message.
LEMMA WakeupSame ==
    ASSUME WakeupInv, UNCHANGED <<chain, lead, tip, sub, notified, missed>>, pc \in TipRead,
           pc' = "wait" => tip' <= db'.height
    PROVE  WakeupInv'
BY DEF WakeupInv, TipRead, TipHeight

LEMMA RangeEffect ==
    \/ RunReturns
    \/ \E class : RangeFails(class)
    => pc' \notin TipRead
BY DEF RunReturns, Exit, RangeFails, TipRead, Batch

LEMMA WakeupInit == Init => WakeupInv
BY DEF Init, WakeupInv, Batch

LEMMA PublishWakes ==
    ASSUME TypeOK, Publish
    PROVE  pc \in TipRead /\ sub' = "open" /\ ~missed' => notified' > 0
<1>1. \/ missed' = (pc \in TipRead)
      \/ notified' = IF notified < MaxNotify THEN notified + 1 ELSE notified
  BY DEF Publish
<1>2. notified \in 0..MaxNotify /\ MaxNotify \in Nat \ {0}
  BY BoundsAssumption DEF TypeOK, ProcessOK
<1>3. (IF notified < MaxNotify THEN notified + 1 ELSE notified) > 0
  BY <1>2
<1> QED BY <1>1, <1>3

LEMMA WakeupStep == IInv /\ WakeupInv /\ [Next]_vars => WakeupInv'
<1> SUFFICES ASSUME IInv, WakeupInv, [Next]_vars PROVE WakeupInv'
  OBVIOUS
<1>t. TypeOK
  BY DEF IInv
<1>1. CASE NodeExtend \/ NodeReorg
  <2>1. lead' = lead - 1 /\ UNCHANGED <<pc, db, tip, missed, sub, notified>>
    BY <1>1 DEF NodeExtend, NodeReorg, frameVars, dbVars, subVars
  <2>2. lead \in Int /\ (lead < 0 \/ lead = 0 => lead - 1 < 0)
    BY <1>t DEF TypeOK, NodeOK
  <2> QED BY <2>1, <2>2 DEF WakeupInv
<1>8. CASE Announce
  <2>1. pc \in TipRead /\ sub' = "open" /\ ~missed' => notified' > 0
    BY <1>8, <1>t, PublishWakes DEF Announce
  <2>2. UNCHANGED <<pc, tip, db>>
    BY <1>8 DEF Announce, dbVars
  <2> QED BY <2>1, <2>2 DEF WakeupInv
<1>2. CASE NodeHealth \/ DBDown \/ DBBack \/ Cancel \/ UNCHANGED vars
  <2>1. UNCHANGED <<chain, lead, pc, tip, db, sub, notified, missed>>
    BY <1>2 DEF NodeHealth, DBDown, DBBack, Cancel, vars, nodeVars, frameVars, dbVars, subVars
  <2> QED BY <2>1 DEF WakeupInv, TipHeight
<1>3. CASE Kill \/ ServiceRestart \/ ManualStart \/ EnsureChainState \/ Subscribe
           \/ LoopTop \/ Backoff \/ Reconnect \/ Sleep
  <2>1. pc' \notin TipRead
    BY <1>3, RangeEffect
    DEF Kill, Exit, ServiceRestart, ManualStart, Start, EnsureChainState, Subscribe,
        LoopTop, Backoff, Reconnect, Sleep, TipRead, Batch
  <2> QED BY <2>1, WakeupOutside
<1>4. CASE WaitForBlock \/ RecvError
  <2>1. pc' \notin TipRead
    BY <1>4 DEF WaitForBlock, RecvError, Exit, TipRead, Batch
  <2> QED BY <2>1, WakeupOutside
<1>5. CASE GetBlockCount
  <2>1. CASE pc' \notin TipRead
    BY <2>1, WakeupOutside
  <2>2. CASE pc' \in TipRead
    <3>1. /\ pc' = "dbtip" /\ tip' = TipHeight /\ missed' = Hasty
          /\ UNCHANGED <<chain, lead, notified>>
      BY <1>5, <2>2, RangeEffect DEF GetBlockCount, TipRead, Batch, nodeVars
    <3>2. TipHeight' <= tip'
      BY <3>1, <1>t, ChainFacts DEF TipHeight, TypeOK
    <3>3. lead \in Int /\ notified \in Nat
      BY <1>t DEF TypeOK, NodeOK, ProcessOK
    <3>4. ~missed' => notified' > 0 \/ lead' < 0 \/ lead' = 0
      <4>1. ~Hasty => notified > 0 \/ lead < 0 \/ lead = 0
        BY <3>3 DEF Hasty
      <4>2. ~missed' => ~Hasty
        BY <3>1
      <4> QED BY <3>1, <4>1, <4>2
    <3> QED BY <3>1, <3>2, <3>4 DEF WakeupInv
  <2> QED BY <2>1, <2>2
<1>6. CASE GetDBTip
  <2>1. CASE pc' \notin TipRead
    BY <2>1, WakeupOutside
  <2>2. CASE pc' \in TipRead
    <3>1. /\ pc = "dbtip" /\ UNCHANGED <<chain, lead, tip, sub, notified, missed>>
          /\ db' = db /\ (pc' = "begin" \/ (pc' = "wait" /\ ~(tip > db.height)))
      BY <1>6, <2>2, RangeEffect DEF GetDBTip, TipRead, Batch, nodeVars, subVars, dbVars
    <3>2. tip \in Nat /\ db.height \in Nat \cup {-1}
      BY <1>t DEF TypeOK, FrameOK, DatabaseOK, DBState
    <3> QED BY <3>1, <3>2, WakeupSame DEF TipRead
  <2> QED BY <2>1, <2>2
<1>7. CASE IngestRange
  <2>1. CASE pc' \notin TipRead
    BY <2>1, WakeupOutside
  <2>2. CASE pc' \in TipRead
    <3>1. UNCHANGED <<chain, lead, tip, sub, notified, missed>>
      BY <1>7, <2>2, RangeEffect
      DEF IngestRange, BeginBatch, GetBlockHash, InsertBlock, UpdateChainState, Commit,
          RPCFails, AnyError, TipRead, Batch, nodeVars, subVars, frameVars
    <3>2. pc \in TipRead /\ pc' # "wait"
      BY <1>7, <2>2, RangeEffect
      DEF IngestRange, BeginBatch, GetBlockHash, InsertBlock, UpdateChainState, Commit,
          RPCFails, AnyError, TipRead, Batch
    <3> QED BY <3>1, <3>2, WakeupSame
  <2> QED BY <2>1, <2>2
<1> QED
  BY <1>1, <1>2, <1>3, <1>4, <1>5, <1>6, <1>7, <1>8 DEF Next, Environment, Run

\* The indexer does not wait on an empty socket while RPC shows a block it lacks
\* and every message is out, unless a message was lost or came before its block.
THEOREM WakeupNotLost == Spec => []NoLostWakeup
<1>1. Init => WakeupInv
  BY WakeupInit
<1>2. IInv /\ WakeupInv /\ [Next]_vars => WakeupInv'
  BY WakeupStep
<1>3. IInv /\ WakeupInv => NoLostWakeup
  <2> SUFFICES ASSUME IInv, WakeupInv, pc = "wait", sub = "open", ~missed,
                      TipHeight > db.height
               PROVE  notified > 0 \/ lead < 0
    BY DEF NoLostWakeup
  <2>1. /\ TipHeight \in Int /\ tip \in Int /\ db.height \in Int
    BY ChainFacts DEF IInv, TypeOK, FrameOK, DatabaseOK, DBState
  <2>2. tip <= db.height /\ (TipHeight <= tip \/ notified > 0 \/ lead < 0)
    BY DEF WakeupInv, TipRead
  <2> QED BY <2>1, <2>2
<1> QED BY <1>1, <1>2, <1>3, Invariance, PTL DEF Spec

-----------------------------------------------------------------------------
(* Refinement: the indexer implements the append-only index.               *)

LEMMA SeqIsFunction ==
    ASSUME NEW S, NEW s \in Seq(S)
    PROVE  s = [k \in 1..Len(s) |-> s[k]]
OBVIOUS

\* In an exact table the row of a height is unique.
LEMMA RowFacts ==
    ASSUME NEW rows \in SUBSET Block, NEW k \in Nat \cup {-1}, NEW hash,
           Exact(rows, k, hash), NEW j \in 0..k
    PROVE  /\ RowAt(rows, j) \in rows
           /\ HeightOf[RowAt(rows, j)] = j
           /\ \A b \in rows : HeightOf[b] = j => b = RowAt(rows, j)
<1>1. \E b \in rows : HeightOf[b] = j
  BY DEF Exact
<1>2. RowAt(rows, j) \in rows /\ HeightOf[RowAt(rows, j)] = j
  BY <1>1 DEF RowAt
<1> QED BY <1>2 DEF Exact

LEMMA IndexStart == Init => Abstract!IndexInit
<1> SUFFICES ASSUME Init PROVE Index = << >>
  BY DEF Abstract!IndexInit
<1>1. db.height = -1
  BY DEF Init, EmptyDB
<1>2. 1..(db.height + 1) = {}
  BY <1>1
<1> QED BY <1>2 DEF Index

\* A step that leaves rows and checkpoint alone stutters.
LEMMA IndexSame ==
    ASSUME db'.rows = db.rows, db'.height = db.height
    PROVE  Index' = Index
BY DEF Index

\* A commit appends the blocks of one batch.
LEMMA IndexAppends ==
    ASSUME IInv, Commit, db' = Committed
    PROVE  Abstract!AppendBatch
<1> DEFINE n == tx.height - db.height
           batch == [k \in 1..n |-> RowAt(db'.rows, db.height + k)]
           m == db.height + 1
<1>t. /\ TypeOK /\ BatchInv
      /\ db.rows \in SUBSET Block /\ tx.rows \in SUBSET Block
      /\ db.height \in Nat \cup {-1} /\ BatchBlocks \in Nat \ {0}
  BY BoundsAssumption DEF IInv, TypeOK, DatabaseOK, DBState, TxState
<1>1. /\ db'.rows = db.rows \cup tx.rows
      /\ db'.height = tx.height
      /\ Exact(db'.rows, tx.height, tx.hash)
      /\ tx.height = BatchEnd
  BY <1>t DEF Committed, Commit, BatchInv, TypeOK, DatabaseOK, DBState
<1>2. /\ tx.height \in Int /\ tx.height >= db.height + 1
      /\ tx.height < db.height + 1 + BatchBlocks
  BY <1>t, <1>1, BatchEndFacts DEF Commit, BatchInv, Batch, TypeOK
<1>3. n \in 1..BatchBlocks /\ m \in Nat /\ m + n = tx.height + 1
  BY <1>t, <1>2
<1>4. tx.height \in Nat
  BY <1>t, <1>2
<1>5. ASSUME NEW j \in 0..tx.height
      PROVE  RowAt(db'.rows, j) \in Block /\ HeightOf[RowAt(db'.rows, j)] = j
  BY <1>t, <1>1, <1>4, RowFacts
<1>6. batch \in [1..n -> Block]
  <2>1. ASSUME NEW k \in 1..n PROVE RowAt(db'.rows, db.height + k) \in Block
    <3>1. db.height + k \in 0..tx.height
      BY <1>t, <1>2, <1>3
    <3> QED BY <3>1, <1>5
  <2> QED BY <2>1
<1>7. ASSUME NEW j \in 0..db.height PROVE RowAt(db'.rows, j) = RowAt(db.rows, j)
  <2>1. j \in 0..tx.height
    BY <1>t, <1>2
  <2>2. RowAt(db.rows, j) \in db.rows /\ HeightOf[RowAt(db.rows, j)] = j
    BY <1>t, RowFacts DEF IInv, CheckpointExact
  <2>3. RowAt(db.rows, j) \in db'.rows
    BY <2>2, <1>1
  <2> QED BY <1>1, <1>4, <1>t, <2>1, <2>2, <2>3, RowFacts
<1>8. Index \in Seq(Block) /\ Len(Index) = m
  <2>1. ASSUME NEW k \in 1..m PROVE RowAt(db.rows, k - 1) \in Block
    <3>1. k - 1 \in 0..db.height
      BY <1>t
    <3> QED BY <3>1, <1>t, RowFacts DEF IInv, CheckpointExact
  <2>2. Index \in [1..m -> Block]
    BY <2>1 DEF Index
  <2> QED BY <2>2, <1>3
<1>9. batch \in Seq(Block) /\ Len(batch) = n
  BY <1>3, <1>6
<1>10. Index' = [k \in 1..(m + n) |-> RowAt(db'.rows, k - 1)]
  BY <1>1, <1>3 DEF Index
<1>11. ASSUME NEW k \in 1..(m + n) PROVE (Index \o batch)[k] = RowAt(db'.rows, k - 1)
  <2> HIDE DEF batch, n, m
  <2>1. (Index \o batch)[k] = IF k <= m THEN Index[k] ELSE batch[k - m]
    BY <1>3, <1>8, <1>9
  <2>2. CASE k <= m
    <3>1. k \in 1..m /\ k - 1 \in 0..db.height
      BY <1>3, <1>t, <2>2 DEF m
    <3>2. Index[k] = RowAt(db.rows, k - 1)
      BY <3>1 DEF Index, m
    <3> QED BY <2>1, <2>2, <3>1, <3>2, <1>7
  <2>3. CASE ~(k <= m)
    <3>1. k - m \in 1..n /\ db.height + (k - m) = k - 1
      BY <1>3, <1>t, <2>3 DEF m
    <3>2. batch[k - m] = RowAt(db'.rows, k - 1)
      BY <3>1 DEF batch
    <3> QED BY <2>1, <2>3, <3>2
  <2> QED BY <2>2, <2>3
<1>12. ASSUME NEW k \in 1..n PROVE HeightOf[batch[k]] = Len(Index) + k - 1
  <2>1. db.height + k \in 0..tx.height
    BY <1>t, <1>2, <1>3
  <2>2. batch[k] = RowAt(db'.rows, db.height + k)
    OBVIOUS
  <2>3. HeightOf[batch[k]] = db.height + k
    BY <2>1, <2>2, <1>5
  <2> QED BY <2>3, <1>8, <1>t
<1>13. batch \in Abstract!Batches(n)
  BY <1>6, <1>12 DEF Abstract!Batches
<1>14. Index' = Index \o batch
  <2> HIDE DEF batch, n, m
  <2>1. Index \o batch = [k \in 1..(m + n) |-> (Index \o batch)[k]]
    <3>1. Index \o batch \in Seq(Block) /\ Len(Index \o batch) = m + n
      BY <1>8, <1>9, <1>3
    <3> QED BY <3>1, SeqIsFunction
  <2> QED BY <2>1, <1>10, <1>11
<1> HIDE DEF batch, n
<1> QED BY <1>3, <1>13, <1>14 DEF Abstract!AppendBatch

LEMMA IndexStep == IInv /\ [Next]_vars => [Abstract!AppendBatch]_Index
<1> SUFFICES ASSUME IInv, [Next]_vars PROVE Abstract!AppendBatch \/ Index' = Index
  OBVIOUS
<1>t. db \in DBState
  BY DEF IInv, TypeOK, DatabaseOK
<1>1. CASE Commit
  BY <1>1, IndexAppends, IndexSame DEF Commit
<1>2. CASE EnsureChainState
  <2>1. db'.rows = db.rows /\ db'.height = db.height
    BY <1>2, <1>t DEF EnsureChainState, DBState
  <2> QED BY <2>1, IndexSame
<1>3. CASE ~Commit /\ ~EnsureChainState
  <2>1. db' = db
    <3>1. CASE Environment
      BY <3>1 DEF Environment, NodeExtend, NodeReorg, Announce, NodeHealth, DBDown,
                  DBBack, Cancel, Kill, ManualStart, Start, RecvError, dbVars
    <3>2. CASE ServiceRestart \/ UNCHANGED vars
      BY <3>2 DEF ServiceRestart, Start, vars, dbVars
    <3>3. CASE Run
      BY <1>3, <3>3 DEF Run, IngestRange, Subscribe, LoopTop, GetBlockCount, Backoff,
           GetDBTip, WaitForBlock, Reconnect, Sleep, BeginBatch, GetBlockHash, InsertBlock,
           UpdateChainState, dbVars
    <3> QED BY <3>1, <3>2, <3>3 DEF Next
  <2> QED BY <2>1, IndexSame
<1> QED BY <1>1, <1>2, <1>3

\* Every behaviour of the indexer, seen through the blocks table, is a
\* behaviour of the append-only index.
THEOREM ImplementsBlockIndex == Spec => AbstractSpec
<1>1. Init => Abstract!IndexInit
  BY IndexStart
<1>2. IInv /\ [Next]_vars => [Abstract!AppendBatch]_Index
  BY IndexStep
<1> QED BY <1>1, <1>2, Invariance, PTL DEF Spec, AbstractSpec, Abstract!IndexSpec
=============================================================================

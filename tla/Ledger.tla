------------------------------- MODULE Ledger -------------------------------
(***************************************************************************)
(* Transactions, outputs and inputs: insertBlockBundle of                  *)
(* indexer/internal/ingest/ingestor.go inside one ingest transaction, the  *)
(* tool indexer/cmd/backfill-addresses that runs beside it, and what the   *)
(* address page (generator/internal/db/addressdetail.go) computes from the *)
(* rows.                                                                   *)
(*                                                                         *)
(* The database runs READ COMMITTED: a statement sees what is committed    *)
(* when it starts and what its own transaction wrote; an updated row is    *)
(* locked until its transaction ends.  The address and the value of an     *)
(* output are fixed by its script, so a row only says whether its address  *)
(* column is filled ("known") or NULL; an input row also whether the value *)
(* alone is filled ("valued").                                             *)
(***************************************************************************)
EXTENDS BlockIndex, FiniteSetsExt, SequencesExt

CONSTANTS
    Tx,           \* transactions
    Out,          \* outputs, one (txid, vout) each
    In,           \* inputs that are not coinbase, one (txid, vin) each
    Address,
    NoIn,         \* spent_by_txid IS NULL
    TxsOf,        \* TxsOf[b]: the transactions of block b, in order
    OutsOf,       \* OutsOf[t]: outputs of t
    InsOf,        \* InsOf[t]: inputs of t, in order
    Prev,         \* Prev[i]: the output that input i spends
    Owner,        \* Owner[o]: the address that the script of o pays
    Value,        \* Value[o]: its amount in base units
    Reported,     \* outputs whose address the node reports (FirstAddress # "")
    Decodable,    \* outputs decodeScriptAddress understands
    OldIndex,     \* blocks ingested before addresses were
    FlushRows     \* --batch of backfill-addresses

ASSUME LedgerAssumption ==
    /\ NoIn \notin In
    /\ TxsOf \in [Block -> Seq(Tx)]
    /\ \A b \in Block : TxsOf[b] # << >>
    /\ OutsOf \in [Tx -> SUBSET Out]
    /\ InsOf \in [Tx -> Seq(In)]
    /\ Prev \in [In -> Out]
    /\ \A i, j \in In : Prev[i] = Prev[j] => i = j    \* no output is spent twice
    /\ Owner \in [Out -> Address]
    /\ Value \in [Out -> Nat]
    /\ Decodable \subseteq Reported /\ Reported \subseteq Out
    /\ OldIndex \in Seq(Block)
    /\ \A k \in 1..Len(OldIndex) : HeightOf[OldIndex[k]] = k - 1
    /\ FlushRows \in Nat \ {0}

\* The blocks are those of one chain: no reorganisation.  Transactions, outputs
\* and inputs have a place each in it, and what is spent was paid out before.
ASSUME ChainAssumption ==
    /\ \A b, c \in Block : HeightOf[b] = HeightOf[c] => b = c
    /\ \A b, c \in Block : \A j \in 1..Len(TxsOf[b]), k \in 1..Len(TxsOf[c]) :
           TxsOf[b][j] = TxsOf[c][k] => b = c /\ j = k
    /\ \A t \in Tx : IsFiniteSet(OutsOf[t])
    /\ \A t, u \in Tx : OutsOf[t] \cap OutsOf[u] # {} => t = u
    /\ \A t, u \in Tx : ToSet(InsOf[t]) \cap ToSet(InsOf[u]) # {} => t = u
    /\ \A b \in Block : \A k \in 1..Len(TxsOf[b]) : \A i \in ToSet(InsOf[TxsOf[b][k]]) :
           \E c \in Block : \E j \in 1..Len(TxsOf[c]) :
               /\ Prev[i] \in OutsOf[TxsOf[c][j]]
               /\ HeightOf[c] < HeightOf[b] \/ (c = b /\ j < k)

VARIABLES
    outs,         \* tx_outputs: no row, or the state of its address column
    spentBy,      \* tx_outputs: spent_by_txid, spent_by_vin
    ins,          \* tx_inputs: no row, or the state of its prev_address
    ipc,          \* where insertBlockBundle is
    staged,       \* what its transaction has written
    blk,          \* the block of the batch at hand
    pos,          \* its transaction at hand
    vin,          \* the input of that at hand, 0 before the loop over them
    bpc,          \* where backfill-addresses is
    todo,         \* rows of the query of phase 1 not written yet
    held,         \* rows the open transaction of flush has updated
    cut,          \* history: the query of phase 1 broke off
    raced         \* history: phase 2 ran while an ingest transaction held an
                  \* input without the address its output has: one that read
                  \* NULL before it was filled, or that has not read yet

tables  == <<index, outs, spentBy, ins>>
cursor  == <<blk, pos, vin>>
indexer == <<ipc, staged, cursor>>
filler  == <<bpc, todo, held, cut, raced>>
vars    == <<tables, indexer, filler>>

Column   == {"none", "null", "known"}
InColumn == Column \cup {"valued"}

NoStage == [blocks  |-> << >>,
            outs    |-> [o \in Out |-> "none"],
            spentBy |-> [o \in Out |-> NoIn],
            ins     |-> [i \in In |-> "none"]]

Stages == [blocks : Seq(Block), outs : [Out -> Column],
           spentBy : [Out -> In \cup {NoIn}], ins : [In -> InColumn]]

\* The transaction and the input that insertBlockBundle has got to.
TxAtHand == TxsOf[staged.blocks[blk]][pos]
Input    == InsOf[TxAtHand][vin]

TypeOK ==
    /\ IndexTypeOK
    /\ outs \in [Out -> Column]
    /\ spentBy \in [Out -> In \cup {NoIn}]
    /\ ins \in [In -> InColumn]
    /\ ipc \in {"idle", "insert", "read", "mark", "commit"}
    /\ staged \in Stages
    /\ {blk, pos, vin} \subseteq Nat
    /\ ipc \in {"insert", "read", "mark"} =>
        /\ blk \in 1..Len(staged.blocks)
        /\ pos \in 1..Len(TxsOf[staged.blocks[blk]])
    /\ ipc \in {"read", "mark"} => vin \in 1..Len(InsOf[TxAtHand])
    /\ bpc \in {"idle", "outputs", "inputs", "done"}
    /\ todo \in SUBSET Decodable
    /\ held \in SUBSET todo
    /\ {cut, raced} \subseteq BOOLEAN

TxsIn(blocks) == FlattenSeq([k \in 1..Len(blocks) |-> TxsOf[blocks[k]]])

OldTxs  == UNION {ToSet(TxsOf[b]) : b \in ToSet(OldIndex)}
OldOuts == UNION {OutsOf[t] : t \in OldTxs}
OldIns  == UNION {ToSet(InsOf[t]) : t \in OldTxs}

\* A database that an indexer without address decoding has filled.
Init ==
    /\ index = OldIndex
    /\ outs = [o \in Out |-> IF o \in OldOuts THEN "null" ELSE "none"]
    /\ ins = [i \in In |-> IF i \in OldIns THEN "null" ELSE "none"]
    /\ spentBy = [o \in Out |-> IF \E i \in OldIns : Prev[i] = o
                                THEN CHOOSE i \in OldIns : Prev[i] = o ELSE NoIn]
    /\ ipc = "idle"
    /\ staged = NoStage
    /\ blk = 0
    /\ pos = 0
    /\ vin = 0
    /\ bpc = "idle"
    /\ todo = {}
    /\ held = {}
    /\ cut = FALSE
    /\ raced = FALSE

-----------------------------------------------------------------------------
(* The indexer's transaction.                                              *)

\* The blocks of the batch, one after the other.
BeginBatch ==
    /\ ipc = "idle"
    /\ \E n \in 1..BatchBlocks : \E batch \in Batches(n) :
        staged' = [NoStage EXCEPT !.blocks = batch]
    /\ ipc' = "insert"
    /\ blk' = 1
    /\ pos' = 1
    /\ UNCHANGED <<tables, vin, filler>>

\* Go on with the next transaction, the next block or the commit.
NextTx ==
    /\ vin' = 0
    /\ IF pos < Len(TxsOf[staged.blocks[blk]])
       THEN pos' = pos + 1 /\ blk' = blk /\ ipc' = "insert"
       ELSE /\ pos' = 1
            /\ blk' = blk + 1
            /\ ipc' = IF blk < Len(staged.blocks) THEN "insert" ELSE "commit"

\* The rows of one transaction; the address of an output is what the node says.
InsertTx ==
    /\ ipc = "insert"
    /\ LET t == TxAtHand IN
        /\ staged' = [staged EXCEPT
             !.outs = [o \in Out |-> IF o \notin OutsOf[t] THEN staged.outs[o]
                                     ELSE IF o \in Reported THEN "known" ELSE "null"],
             !.ins  = [i \in In |-> IF i \in ToSet(InsOf[t]) THEN "null"
                                                             ELSE staged.ins[i]]]
        /\ IF InsOf[t] = << >> THEN NextTx
                               ELSE ipc' = "read" /\ vin' = 1 /\ UNCHANGED <<blk, pos>>
    /\ UNCHANGED <<tables, filler>>

\* An output row as a statement of the ingest transaction sees it.
Visible(o) == IF staged.outs[o] # "none" THEN staged.outs[o] ELSE outs[o]

\* Variant: the address of the spent output comes from the node.
ReadPrevFromNode ==
    /\ ipc = "read"
    /\ staged' = [staged EXCEPT !.ins[Input] = "known"]
    /\ ipc' = "mark"
    /\ UNCHANGED <<tables, cursor, filler>>

\* SELECT value, address of the spent output; UPDATE of the input with them.
ReadPrev ==
    /\ ipc = "read"
    /\ staged' = [staged EXCEPT
         !.ins[Input] = IF Visible(Prev[Input]) = "known" THEN "known" ELSE "valued"]
    /\ ipc' = "mark"
    /\ UNCHANGED <<tables, cursor, filler>>

\* Variant: the UPDATE goes to the pool instead of the transaction.
MarkSpentAtOnce ==
    /\ ipc = "mark"
    /\ Prev[Input] \notin held
    /\ spentBy' = [spentBy EXCEPT ![Prev[Input]] = Input]
    /\ IF vin < Len(InsOf[TxAtHand])
       THEN vin' = vin + 1 /\ ipc' = "read" /\ UNCHANGED <<blk, pos>>
       ELSE NextTx
    /\ UNCHANGED <<index, outs, ins, staged, filler>>

\* UPDATE of the spent output, which waits for a flush that holds its row.
MarkSpent ==
    /\ ipc = "mark"
    /\ Prev[Input] \notin held
    /\ staged' = [staged EXCEPT !.spentBy[Prev[Input]] = Input]
    /\ IF vin < Len(InsOf[TxAtHand])
       THEN vin' = vin + 1 /\ ipc' = "read" /\ UNCHANGED <<blk, pos>>
       ELSE NextTx
    /\ UNCHANGED <<tables, filler>>

BatchOver ==
    /\ ipc' = "idle"
    /\ staged' = NoStage
    /\ blk' = 0
    /\ pos' = 0
    /\ vin' = 0

Commit ==
    /\ ipc = "commit"
    /\ index' = index \o staged.blocks
    /\ outs' = [o \in Out |-> Visible(o)]
    /\ spentBy' = [o \in Out |-> IF staged.spentBy[o] # NoIn THEN staged.spentBy[o]
                                                             ELSE spentBy[o]]
    /\ ins' = [i \in In |-> IF staged.ins[i] # "none" THEN staged.ins[i] ELSE ins[i]]
    /\ BatchOver
    /\ UNCHANGED filler

\* Any call of the batch fails, the process dies, or PostgreSQL picks the
\* ingest transaction as the victim of a deadlock with flush.
Rollback ==
    /\ ipc # "idle"
    /\ BatchOver
    /\ UNCHANGED <<tables, filler>>

-----------------------------------------------------------------------------
(* backfill-addresses.                                                     *)

\* Variant: scripts that do not decode are not skipped.
QueryOutputsAll ==
    /\ bpc = "idle"
    /\ bpc' = "outputs"
    /\ todo' = {o \in Out : outs[o] = "null"}
    /\ cut' = FALSE
    /\ UNCHANGED <<tables, indexer, held, raced>>

\* The SELECT of phase 1, and the decoding of each row.
QueryOutputs ==
    /\ bpc = "idle"
    /\ bpc' = "outputs"
    /\ todo' = {o \in Decodable : outs[o] = "null"}
    /\ cut' = FALSE
    /\ UNCHANGED <<tables, indexer, held, raced>>

\* One UPDATE of flush; it waits while the ingest transaction holds the row.
UpdateRow ==
    /\ bpc = "outputs"
    /\ Cardinality(held) < FlushRows
    /\ \E o \in todo \ held : staged.spentBy[o] = NoIn /\ held' = held \cup {o}
    /\ UNCHANGED <<tables, indexer, bpc, todo, cut, raced>>

\* Variant: flush writes back the rows as the query returned them.
FlushWholeRows ==
    /\ bpc = "outputs"
    /\ held # {}
    /\ outs' = [o \in Out |-> IF o \in held THEN "known" ELSE outs[o]]
    /\ spentBy' = [o \in Out |-> IF o \in held THEN NoIn ELSE spentBy[o]]
    /\ todo' = todo \ held
    /\ held' = {}
    /\ UNCHANGED <<index, ins, indexer, bpc, cut, raced>>

\* Commit of a full batch, or of the last rows.
Flush ==
    /\ bpc = "outputs"
    /\ held # {}
    /\ Cardinality(held) = FlushRows \/ held = todo
    /\ outs' = [o \in Out |-> IF o \in held THEN "known" ELSE outs[o]]
    /\ todo' = todo \ held
    /\ held' = {}
    /\ UNCHANGED <<index, spentBy, ins, indexer, bpc, cut, raced>>

\* Variant: the rows left in the last, partial batch are forgotten.
OutputsDoneEarly ==
    /\ bpc = "outputs"
    /\ held = {}
    /\ Cardinality(todo) < FlushRows
    /\ todo' = {}
    /\ bpc' = "inputs"
    /\ UNCHANGED <<tables, indexer, held, cut, raced>>

OutputsDone ==
    /\ bpc = "outputs"
    /\ todo = {}
    /\ bpc' = "inputs"
    /\ UNCHANGED <<tables, indexer, todo, held, cut, raced>>

\* The connection of the query breaks between two flushes: rows.Next ends the
\* loop, rows.Err is not looked at, and the rows that had not arrived are not
\* missed.
QueryBreaks ==
    /\ bpc = "outputs"
    /\ held = {}
    /\ \E rest \in SUBSET todo :
        /\ rest # {}
        /\ todo' = todo \ rest
    /\ cut' = TRUE
    /\ UNCHANGED <<tables, indexer, bpc, held, raced>>

\* An input of a committed or an open transaction that phase 2 should fill.
Unfilled(rows, i) == rows[i] \in {"null", "valued"} /\ outs[Prev[i]] = "known"

\* Variant: the statement looks at prev_value only.
FillInputsWithoutValue ==
    /\ bpc = "inputs"
    /\ ins' = [i \in In |-> IF Unfilled(ins, i) /\ ins[i] = "null" THEN "known" ELSE ins[i]]
    /\ raced' = \E i \in In : Unfilled(staged.ins, i)
    /\ bpc' = "done"
    /\ UNCHANGED <<index, outs, spentBy, indexer, todo, held, cut>>

\* Phase 2 is one statement: it does not see rows that are not committed.
FillInputs ==
    /\ bpc = "inputs"
    /\ ins' = [i \in In |-> IF Unfilled(ins, i) THEN "known" ELSE ins[i]]
    /\ raced' = \E i \in In : Unfilled(staged.ins, i)
    /\ bpc' = "done"
    /\ UNCHANGED <<index, outs, spentBy, indexer, todo, held, cut>>

\* log.Fatalf on any error, or a deadlock with the indexer: to be run again.
BackfillDies ==
    /\ bpc \in {"outputs", "inputs"}
    /\ bpc' = "idle"
    /\ todo' = {}
    /\ held' = {}
    /\ UNCHANGED <<tables, indexer, cut, raced>>

-----------------------------------------------------------------------------
Ingest   == BeginBatch \/ InsertTx \/ ReadPrev \/ MarkSpent \/ Commit
Backfill == QueryOutputs \/ UpdateRow \/ Flush \/ OutputsDone \/ FillInputs

Next == Ingest \/ Rollback \/ Backfill \/ QueryBreaks \/ BackfillDies

Spec == Init /\ [][Next]_vars

-----------------------------------------------------------------------------
(* What the address page reads, in one instant.                            *)

Total(rows) == MapThenSumSet(LAMBDA o : Value[o], rows)

Received(a) == {o \in Out : outs[o] = "known" /\ Owner[o] = a}

\* AddressDetail's first query: recv - sent over tx_outputs.
Balance(a) == Total({o \in Received(a) : spentBy[o] = NoIn})

\* net_sats of transaction t in the second query.
Net(t, a) ==
    LET paid == {i \in ToSet(InsOf[t]) : ins[i] = "known" /\ Owner[Prev[i]] = a} IN
    Total(OutsOf[t] \cap Received(a)) - Total({Prev[i] : i \in paid})

\* The running balance after each indexed transaction.
Running(a) ==
    LET txs == TxsIn(index)
        sum[n \in 0..Len(txs)] == IF n = 0 THEN 0 ELSE sum[n - 1] + Net(txs[n], a)
    IN sum

-----------------------------------------------------------------------------
(* Properties.                                                             *)

\* tx_outputs and tx_inputs tell the same story of what is spent, through
\* rollbacks of the one and flushes of the other.
SpentMatchesInputs ==
    \A i \in In : ins[i] # "none" <=> spentBy[Prev[i]] = i

\* No row of an address history shows a negative balance, also half-way
\* through a backfill: what is spent from an address was received by it.
NoOverdraft ==
    \A a \in Address : \A n \in DOMAIN Running(a) : Running(a)[n] >= 0

\* Once the backfill is over and raced with no ingest transaction, the balance
\* of every address is the last balance of its history.
BalanceMatchesHistory ==
    bpc = "done" /\ ~raced =>
        \A a \in Address : Balance(a) = Running(a)[Len(TxsIn(index))]

\* And no row that it can decode is left without an address, if its query has
\* run to the end.
BackfillComplete ==
    bpc = "done" /\ ~cut => \A o \in Decodable : outs[o] # "null"

\* One run fills every input whose output has an address, and the indexer the
\* ones that come after.
BackfillOnce == bpc = "done" => \A i \in In : ~Unfilled(ins, i)
=============================================================================

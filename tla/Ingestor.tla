------------------------------ MODULE Ingestor ------------------------------
(***************************************************************************)
(* The indexer process: Run, retryGetBlockCount and ingestRange of         *)
(* indexer/internal/ingest/ingestor.go, the ZMQ subscriber it blocks on    *)
(* (indexer/internal/zmq/subscriber.go), and around it the node it reads,  *)
(* the PostgreSQL database it writes and the service manager that starts   *)
(* it again.  pc names the place in the code the process has reached.      *)
(*                                                                         *)
(* Of the database this module keeps the blocks table (the hashes in it)   *)
(* and the one row of chain_state; the rows that insertBlockBundle adds to *)
(* the other tables travel in the same transaction.  refreshAlgoStats      *)
(* writes network_stats only and its errors are logged and dropped, so it  *)
(* is a stutter here.  Durations are not modelled: a sleep is a step.      *)
(***************************************************************************)
EXTENDS Integers, Sequences

CONSTANTS
    Block,        \* the blocks the node may ever show, identified by hash
    NoBlock,      \* the all-zero hash of an empty chain_state
    HeightOf,     \* HeightOf[b] is blk.Height
    ParentOf,     \* ParentOf[b] is blk.PreviousBlockHash
    Chains,       \* the chains the node may have active, genesis first
    BatchBlocks,  \* cfg.BatchBlocks
    UseZMQ,       \* cfg.ZMQEndpoint != ""
    MaxReorgs,    \* bound: how often the node changes branch
    MaxCrashes,   \* bound: how often the process is killed
    MaxNotify,    \* receive high-water mark of the SUB socket
    MaxLag        \* bound: changes of tip by which messages and RPC differ

ASSUME BlockAssumption ==
    /\ NoBlock \notin Block
    /\ HeightOf \in [Block -> Nat]
    /\ ParentOf \in [Block -> Block \cup {NoBlock}]

ASSUME ChainsAssumption ==
    /\ Chains # {}
    /\ \A c \in Chains :
        /\ c \in Seq(Block)
        /\ Len(c) >= 1
        /\ \A k \in 1..Len(c) : HeightOf[c[k]] = k - 1
        /\ \A k \in 2..Len(c) : ParentOf[c[k]] = c[k - 1]

ASSUME BoundsAssumption ==
    /\ BatchBlocks \in Nat \ {0}
    /\ UseZMQ \in BOOLEAN
    /\ MaxReorgs \in Nat
    /\ MaxCrashes \in Nat
    /\ MaxNotify \in Nat \ {0}
    /\ MaxLag \in Nat

VARIABLES
    chain,        \* the node's active chain, as RPC shows it
    reorgs,       \* how many reorganisations it has been through
    lead,         \* changes of tip announced, less those RPC shows
    node,         \* how the node answers RPC calls
    db,           \* committed state: blocks table and chain_state row
    dbUp,         \* the database accepts connections
    pc,           \* where the indexer is
    cancelled,    \* ctx.Err() != nil
    tip,          \* Run: tip, ingestRange: endHeight
    missed,       \* history: the tip read may be stale with no message to tell
    batchStart,   \* ingestRange: batchStart
    h,            \* ingestRange: h
    cur,          \* ingestRange: hash
    last,         \* ingestRange: lastHeight, lastHash
    tx,           \* ingestRange: tx, what it has written so far
    sub,          \* Run: the subscriber and its socket
    notified,     \* hashblock messages waiting in the socket
    owed,         \* history: a transient error has not been slept on yet
    crashes       \* how often the process has been killed

nodeVars  == <<chain, reorgs, lead, node>>
dbVars    == <<db, dbUp>>
frameVars == <<tip, missed, batchStart, h, cur, last>>
subVars   == <<sub, notified>>
vars      == <<nodeVars, dbVars, frameVars, subVars,
               pc, cancelled, tx, owed, crashes>>

TipHeight == Len(chain) - 1

\* Chain d is chain c or continues it.
Continues(d, c) == Len(c) <= Len(d) /\ \A k \in 1..Len(c) : d[k] = c[k]

Down  == {"stopped", "failed", "panicked", "killed"}
Batch == {"begin", "hash", "block", "state", "commit"}

\* Run has read the node's tip and acts on it.
TipRead == Batch \cup {"dbtip", "wait"}

PCs   == Down \cup Batch \cup
         {"ensure", "subscribe", "top", "count", "backoff", "dbtip",
          "wait", "reconnect", "poll", "pause"}

\* A call to the node or the database with a live ctx.
RPCAnswers == node = "up" /\ ~cancelled
DBAnswers  == dbUp /\ ~cancelled

\* Variant: the batch is one block too long.
LongBatchEnd == IF batchStart + BatchBlocks > tip THEN tip ELSE batchStart + BatchBlocks

\* The height of the last block of the batch at hand (batchEnd).
BatchEnd ==
    IF batchStart + BatchBlocks - 1 > tip THEN tip ELSE batchStart + BatchBlocks - 1

\* The chain_state row with the blocks table, committed and within tx.
DBState == [seeded : BOOLEAN, rows : SUBSET Block,
            height : Nat \cup {-1}, hash : Block \cup {NoBlock}]
TxState == [state : {"none", "open", "broken"}, rows : SUBSET Block,
            height : Nat \cup {-1}, hash : Block \cup {NoBlock}]

EmptyDB == [seeded |-> FALSE, rows |-> {}, height |-> -1, hash |-> NoBlock]
NoTx == [state |-> "none", rows |-> {}, height |-> -1, hash |-> NoBlock]

NodeOK ==
    /\ chain \in Chains
    /\ reorgs \in 0..MaxReorgs
    /\ lead \in -MaxLag..MaxLag
    /\ node \in {"up", "busy", "broken"}

DatabaseOK ==
    /\ db \in DBState
    /\ tx \in TxState

FrameOK ==
    /\ tip \in Nat
    /\ missed \in BOOLEAN
    /\ batchStart \in Nat
    /\ h \in Nat
    /\ cur \in Block \cup {NoBlock}
    /\ last \in Block \cup {NoBlock}

ProcessOK ==
    /\ pc \in PCs
    /\ sub \in {"none", "open", "dead"}
    /\ notified \in 0..MaxNotify
    /\ crashes \in 0..MaxCrashes

FlagsOK ==
    /\ dbUp \in BOOLEAN
    /\ cancelled \in BOOLEAN
    /\ owed \in BOOLEAN

TypeOK == NodeOK /\ DatabaseOK /\ FrameOK /\ ProcessOK /\ FlagsOK

Init ==
    /\ chain \in Chains
    /\ reorgs = 0
    /\ lead = 0
    /\ node = "up"
    /\ db = EmptyDB
    /\ dbUp = TRUE
    /\ pc = "ensure"
    /\ cancelled = FALSE
    /\ tip = 0
    /\ missed = FALSE
    /\ batchStart = 0
    /\ h = 0
    /\ cur = NoBlock
    /\ last = NoBlock
    /\ tx = NoTx
    /\ sub = "none"
    /\ notified = 0
    /\ owed = FALSE
    /\ crashes = 0

-----------------------------------------------------------------------------
(* The node, the database and the operator.                                *)

\* Variant: a socket without a high-water mark.
PublishUnbounded ==
    /\ sub = "open"
    /\ notified' = notified + 1
    /\ UNCHANGED <<sub, missed>>

\* A hashblock message on its way.  A SUB socket that is not connected at that
\* moment never sees it; a full one drops it.
Publish ==
    \/ /\ sub = "open"
       /\ notified' = IF notified < MaxNotify THEN notified + 1 ELSE notified
       /\ UNCHANGED <<sub, missed>>
    \/ /\ missed' = (pc \in TipRead)
       /\ UNCHANGED <<sub, notified>>

\* Where the node can go from its present chain: one block further, or to
\* another branch, of any length: the one with more work.
Longer == {c \in Chains : Len(c) = Len(chain) + 1 /\ Continues(c, chain)}
Rivals == {c \in Chains : reorgs < MaxReorgs /\ ~Continues(c, chain)}

\* RPC shows the next block.  Its message may be out already, or follow later.
NodeExtend ==
    /\ lead > -MaxLag
    /\ chain' \in Longer
    /\ lead' = lead - 1
    /\ UNCHANGED <<reorgs, node, dbVars, frameVars, subVars,
                   pc, cancelled, tx, owed, crashes>>

\* RPC shows another branch.
NodeReorg ==
    /\ lead > -MaxLag
    /\ chain' \in Rivals
    /\ lead' = lead - 1
    /\ reorgs' = reorgs + 1
    /\ UNCHANGED <<node, dbVars, frameVars, subVars,
                   pc, cancelled, tx, owed, crashes>>

\* The node publishes a change of tip: one that RPC shows already, or one that
\* RPC has still to show.
Announce ==
    /\ lead < MaxLag
    /\ lead < 0 \/ Longer \cup Rivals # {}
    /\ lead' = lead + 1
    /\ Publish
    /\ UNCHANGED <<chain, reorgs, node, dbVars, tip, batchStart, h, cur, last,
                   pc, cancelled, tx, owed, crashes>>

\* "busy": every call fails with an error isTransientRPCErr accepts (503,
\* connection refused, loading).  "broken": with one it does not accept.
NodeHealth ==
    /\ node' \in {"up", "busy", "broken"} \ {node}
    /\ UNCHANGED <<chain, reorgs, lead, dbVars, frameVars, subVars,
                   pc, cancelled, tx, owed, crashes>>

\* A database that goes away takes the open transaction with it.
DBDown ==
    /\ dbUp
    /\ dbUp' = FALSE
    /\ tx' = IF tx.state = "open" THEN [tx EXCEPT !.state = "broken"] ELSE tx
    /\ UNCHANGED <<nodeVars, db, frameVars, subVars,
                   pc, cancelled, owed, crashes>>

DBBack ==
    /\ ~dbUp
    /\ dbUp' = TRUE
    /\ UNCHANGED <<nodeVars, db, frameVars, subVars,
                   pc, cancelled, tx, owed, crashes>>

\* SIGINT or SIGTERM.
Cancel ==
    /\ pc \notin Down
    /\ ~cancelled
    /\ cancelled' = TRUE
    /\ UNCHANGED <<nodeVars, dbVars, frameVars, subVars,
                   pc, tx, owed, crashes>>

-----------------------------------------------------------------------------
(* Ways for the process to end and to start again.                         *)

\* The locals of an iteration of Run, and of ingestRange, are gone.
FrameGone ==
    /\ tip' = 0
    /\ missed' = FALSE
    /\ batchStart' = 0
    /\ h' = 0
    /\ cur' = NoBlock
    /\ last' = NoBlock

\* The process is gone: the transaction rolls back, the socket is closed.
Exit(how) ==
    /\ pc' = how
    /\ FrameGone
    /\ tx' = NoTx
    /\ sub' = "none"
    /\ notified' = 0
    /\ owed' = FALSE
    /\ UNCHANGED <<nodeVars, cancelled>>

\* Run returns an error: main exits cleanly after a signal, with log.Fatalf
\* otherwise.
RunReturns == Exit(IF cancelled THEN "stopped" ELSE "failed") /\ UNCHANGED crashes

Kill ==
    /\ pc \notin Down
    /\ crashes < MaxCrashes
    /\ Exit("killed")
    /\ crashes' = crashes + 1
    /\ UNCHANGED dbVars

Start ==
    /\ pc' = "ensure"
    /\ cancelled' = FALSE
    /\ UNCHANGED <<nodeVars, dbVars, frameVars, subVars, tx, owed, crashes>>

\* Restart=always of the unit file, and systemctl start by hand.
ServiceRestart == pc \in Down \ {"stopped"} /\ Start
ManualStart    == pc = "stopped" /\ Start

-----------------------------------------------------------------------------
(* Run.                                                                    *)

EnsureChainState ==
    /\ pc = "ensure"
    /\ \/ /\ DBAnswers
          /\ db' = [db EXCEPT !.seeded = TRUE]
          /\ pc' = "subscribe"
          /\ UNCHANGED <<nodeVars, frameVars, subVars,
                         cancelled, tx, owed, crashes>>
       \/ ~DBAnswers /\ RunReturns /\ UNCHANGED db
    /\ UNCHANGED dbUp

\* zmq.NewSubscriber; on an error the subscriber stays nil for good.
Subscribe ==
    /\ pc = "subscribe"
    /\ sub' \in IF UseZMQ THEN {"open", "none"} ELSE {"none"}
    /\ pc' = "top"
    /\ UNCHANGED <<nodeVars, dbVars, frameVars, notified,
                   cancelled, tx, owed, crashes>>

\* Head of the loop: the select on ctx.Done().
LoopTop ==
    /\ pc = "top"
    /\ \/ /\ ~cancelled
          /\ pc' = "count"
          /\ UNCHANGED <<nodeVars, frameVars, subVars,
                         cancelled, tx, owed, crashes>>
       \/ cancelled /\ RunReturns
    /\ UNCHANGED dbVars

\* RPC has not shown all the messages announced, and none of them is left in
\* the socket to wake the indexer again.
Hasty == lead > 0 /\ notified = 0

\* Variant: the error is classified before ctx is looked at.
GetBlockCountLateCtx ==
    /\ pc = "count"
    /\ \/ /\ RPCAnswers
          /\ tip' = TipHeight
          /\ missed' = Hasty
          /\ pc' = "dbtip"
          /\ UNCHANGED <<batchStart, h, cur, last, sub, notified>>
       \/ ~RPCAnswers /\ pc' = "backoff" /\ UNCHANGED <<frameVars, subVars>>
    /\ UNCHANGED <<nodeVars, dbVars, cancelled, tx, owed, crashes>>

\* One round of retryGetBlockCount.
GetBlockCount ==
    /\ pc = "count"
    /\ \/ /\ RPCAnswers
          /\ tip' = TipHeight
          /\ missed' = Hasty
          /\ pc' = "dbtip"
          /\ UNCHANGED <<nodeVars, batchStart, h, cur, last, sub, notified,
                         cancelled, tx, owed, crashes>>
       \/ /\ ~cancelled
          /\ node = "busy"
          /\ pc' = "backoff"
          /\ UNCHANGED <<nodeVars, frameVars, subVars,
                         cancelled, tx, owed, crashes>>
       \/ (cancelled \/ node = "broken") /\ RunReturns
    /\ UNCHANGED dbVars

\* The sleep before the next round; its select also watches ctx.
Backoff ==
    /\ pc = "backoff"
    /\ \/ /\ pc' = "count"
          /\ owed' = FALSE
          /\ UNCHANGED <<nodeVars, frameVars, subVars,
                         cancelled, tx, crashes>>
       \/ cancelled /\ RunReturns
    /\ UNCHANGED dbVars

\* Variant: the batch starts at best_height instead of the height after it.
GetDBTipOffByOne ==
    /\ pc = "dbtip"
    /\ DBAnswers
    /\ IF tip > db.height
       THEN pc' = "begin" /\ batchStart' = IF db.height = -1 THEN 0 ELSE db.height
       ELSE /\ pc' = IF sub # "none" THEN "wait" ELSE "poll"
            /\ UNCHANGED batchStart
    /\ UNCHANGED <<nodeVars, dbVars, tip, missed, h, cur, last, subVars,
                   cancelled, tx, owed, crashes>>

\* getDBTip and the choice between batch mode and waiting at the tip.
GetDBTip ==
    /\ pc = "dbtip"
    /\ \/ /\ DBAnswers
          /\ db.seeded
          /\ IF tip > db.height
             THEN pc' = "begin" /\ batchStart' = db.height + 1
             ELSE /\ pc' = IF sub # "none" THEN "wait" ELSE "poll"
                  /\ UNCHANGED batchStart
          /\ UNCHANGED <<nodeVars, tip, missed, h, cur, last, subVars,
                         cancelled, tx, owed, crashes>>
       \/ ~(DBAnswers /\ db.seeded) /\ RunReturns
    /\ UNCHANGED dbVars

\* Variant: no receive timeout on the socket.
WaitForBlockForever ==
    /\ pc = "wait"
    /\ sub = "open"
    /\ notified > 0
    /\ notified' = notified - 1
    /\ pc' = "pause"
    /\ UNCHANGED <<nodeVars, dbVars, frameVars, sub,
                   cancelled, tx, owed, crashes>>

\* WaitForBlock: a message, or EAGAIN after two minutes without one.  It does
\* not look at ctx; a socket left nil by a failed reconnect is dereferenced.
WaitForBlock ==
    /\ pc = "wait"
    /\ \/ /\ sub = "open"
          /\ notified > 0
          /\ notified' = notified - 1
          /\ pc' = "pause"
          /\ UNCHANGED <<nodeVars, frameVars, sub,
                         cancelled, tx, owed, crashes>>
       \/ /\ sub = "open"
          /\ notified = 0
          /\ pc' = "reconnect"
          /\ UNCHANGED <<nodeVars, frameVars, subVars,
                         cancelled, tx, owed, crashes>>
       \/ sub = "dead" /\ Exit("panicked") /\ UNCHANGED crashes
    /\ UNCHANGED dbVars

\* RecvMessage fails in any other way; nothing says it ever will.
RecvError ==
    /\ pc = "wait"
    /\ sub = "open"
    /\ pc' = "poll"
    /\ UNCHANGED <<nodeVars, dbVars, frameVars, subVars,
                   cancelled, tx, owed, crashes>>

\* Variant: after the reconnect the receive is tried again, inside WaitForBlock.
ReconnectAndReceive ==
    /\ pc = "reconnect"
    /\ sub' = "open"
    /\ pc' = "wait"
    /\ notified' = 0
    /\ UNCHANGED <<nodeVars, dbVars, frameVars,
                   cancelled, tx, owed, crashes>>

\* connect after the two minutes: the old socket goes with what it holds.
Reconnect ==
    /\ pc = "reconnect"
    /\ \/ sub' = "open" /\ pc' = "top"
       \/ sub' = "dead" /\ pc' = "poll"
    /\ notified' = 0
    /\ FrameGone
    /\ UNCHANGED <<nodeVars, dbVars, cancelled, tx, owed, crashes>>

\* The 200 ms pause after a notification, in the hope that RPC shows the block
\* by then, and the sleep of PollInterval.
Sleep ==
    /\ pc \in {"pause", "poll"}
    /\ \/ /\ pc' = "top"
          /\ FrameGone
          /\ UNCHANGED <<nodeVars, subVars, cancelled, tx, owed, crashes>>
       \/ cancelled /\ RunReturns
    /\ UNCHANGED dbVars

-----------------------------------------------------------------------------
(* ingestRange.                                                            *)

\* ingestRange fails, after a rollback; Run looks at ctx first, then at the
\* text of the error.
RangeFails(class) ==
    \/ /\ cancelled \/ class = "permanent"
       /\ RunReturns
    \/ /\ ~cancelled
       /\ class = "transient"
       /\ pc' = "top"
       /\ FrameGone
       /\ tx' = NoTx
       /\ owed' = TRUE
       /\ UNCHANGED <<nodeVars, subVars, cancelled, crashes>>

\* An error of either class.  The text of a database error may or may not look
\* transient, and so may any error wrapped with a height or a hash that has
\* "503" among its digits.
AnyError == \E class \in {"transient", "permanent"} : RangeFails(class)

\* A failing RPC call: a busy node is always recognised.
RPCFails ==
    \/ node = "busy" /\ RangeFails("transient")
    \/ (cancelled \/ node = "broken") /\ AnyError

BeginBatch ==
    /\ pc = "begin"
    /\ \/ /\ DBAnswers
          /\ tx' = [NoTx EXCEPT !.state = "open"]
          /\ h' = batchStart
          /\ last' = NoBlock
          /\ pc' = "hash"
          /\ UNCHANGED <<nodeVars, subVars, tip, missed, batchStart, cur,
                         cancelled, owed, crashes>>
       \/ ~DBAnswers /\ AnyError
    /\ UNCHANGED dbVars

\* Variant: the hash of any block of that height the node has ever seen.
GetBlockHashAnyBranch ==
    /\ pc = "hash"
    /\ RPCAnswers
    /\ \E b \in Block : HeightOf[b] = h /\ cur' = b
    /\ pc' = "block"
    /\ UNCHANGED <<nodeVars, dbVars, subVars, tip, missed, batchStart, h, last,
                   cancelled, tx, owed, crashes>>

\* getblockhash(h) against the chain active now; a height beyond it is an error.
GetBlockHash ==
    /\ pc = "hash"
    /\ \/ /\ RPCAnswers
          /\ h <= TipHeight
          /\ cur' = chain[h + 1]
          /\ pc' = "block"
          /\ UNCHANGED <<nodeVars, subVars, tip, missed, batchStart, h, last,
                         cancelled, tx, owed, crashes>>
       \/ RPCAnswers /\ h > TipHeight /\ AnyError
       \/ ~RPCAnswers /\ RPCFails
    /\ UNCHANGED dbVars

\* getblock and insertBlockBundle: a known hash is answered whether or not the
\* block is still active; the row is keyed by its hash.
InsertBlock ==
    /\ pc = "block"
    /\ \/ /\ RPCAnswers
          /\ tx.state = "open"
          /\ tx' = [tx EXCEPT !.rows = @ \cup {cur}]
          /\ last' = cur
          /\ IF h < BatchEnd THEN pc' = "hash" /\ h' = h + 1
                             ELSE pc' = "state" /\ UNCHANGED h
          /\ UNCHANGED <<nodeVars, subVars, tip, missed, batchStart, cur,
                         cancelled, owed, crashes>>
       \/ RPCAnswers /\ tx.state # "open" /\ AnyError
       \/ ~RPCAnswers /\ RPCFails
    /\ UNCHANGED dbVars

\* Variant: chain_state is updated through the pool, outside tx.
UpdateChainStateOutsideTx ==
    /\ pc = "state"
    /\ DBAnswers
    /\ db' = [db EXCEPT !.height = HeightOf[last], !.hash = last]
    /\ tx' = [tx EXCEPT !.height = HeightOf[last], !.hash = last]
    /\ pc' = "commit"
    /\ UNCHANGED <<nodeVars, dbUp, frameVars, subVars, cancelled, owed, crashes>>

\* updateChainStateTx: in the same transaction as the rows.
UpdateChainState ==
    /\ pc = "state"
    /\ \/ /\ ~cancelled
          /\ tx.state = "open"
          /\ tx' = [tx EXCEPT !.height = HeightOf[last], !.hash = last]
          /\ pc' = "commit"
          /\ UNCHANGED <<nodeVars, frameVars, subVars,
                         cancelled, owed, crashes>>
       \/ (cancelled \/ tx.state # "open") /\ AnyError
    /\ UNCHANGED dbVars

\* What the database holds once the transaction has committed.
Committed ==
    [db EXCEPT !.rows = @ \cup tx.rows, !.height = tx.height, !.hash = tx.hash]

\* Commit succeeds; or it takes effect and the answer is lost; or it fails.
Commit ==
    /\ pc = "commit"
    /\ \/ /\ ~cancelled
          /\ tx.state = "open"
          /\ db' = Committed
          /\ tx' = NoTx
          /\ owed' = FALSE
          /\ IF BatchEnd < tip
             THEN /\ pc' = "begin"
                  /\ batchStart' = BatchEnd + 1
                  /\ UNCHANGED <<tip, missed, h, cur, last>>
             ELSE pc' = "top" /\ FrameGone
          /\ UNCHANGED <<nodeVars, subVars, cancelled, crashes>>
       \/ tx.state = "open" /\ db' = Committed /\ AnyError
       \/ (cancelled \/ tx.state # "open") /\ UNCHANGED db /\ AnyError
    /\ UNCHANGED dbUp

-----------------------------------------------------------------------------
Environment == NodeExtend \/ NodeReorg \/ Announce \/ NodeHealth \/ DBDown
               \/ DBBack \/ Cancel \/ Kill \/ ManualStart \/ RecvError

IngestRange == BeginBatch \/ GetBlockHash \/ InsertBlock \/ UpdateChainState \/ Commit

Run == EnsureChainState \/ Subscribe \/ LoopTop \/ GetBlockCount \/ Backoff
       \/ GetDBTip \/ WaitForBlock \/ Reconnect \/ Sleep \/ IngestRange

Next == Environment \/ ServiceRestart \/ Run

Spec == Init /\ [][Next]_vars

\* A running process keeps taking steps; systemd restarts one that failed.
FairSpec == Spec /\ WF_vars(Run) /\ WF_vars(ServiceRestart)

-----------------------------------------------------------------------------
(* Properties.                                                             *)

\* A table and a checkpoint agree: one row for each height up to the
\* checkpoint, none beyond it, and the checkpoint names the last of them.
Exact(rows, height, hash) ==
    /\ \A b \in rows : HeightOf[b] <= height
    /\ \A k \in 0..height : \E b \in rows : HeightOf[b] = k
    /\ \A a, b \in rows : HeightOf[a] = HeightOf[b] => a = b
    /\ height = -1 => hash = NoBlock
    /\ height # -1 => hash \in rows /\ HeightOf[hash] = height

\* chain_state is exact at every instant a reader may look, through rollbacks,
\* kills, lost commit answers and reorganisations: the index has no gap and no
\* height twice, and resuming from best_height + 1 skips nothing.
CheckpointExact == Exact(db.rows, db.height, db.hash)

\* Until the node first changes branch, every indexed block is the block the
\* node has at that height, whatever failed, was retried or restarted.
OnChain(b) == HeightOf[b] < Len(chain) /\ chain[HeightOf[b] + 1] = b

PrefixUntilReorg == reorgs = 0 => \A b \in db.rows : OnChain(b)

\* The indexer never waits on an empty socket while RPC shows a block it lacks
\* and every message is out: it subscribes before it reads the tip, and reads
\* the tip again after every wake-up.  Two ways to sleep on are left, and the
\* two-minute timeout ends both (CatchesUp): a message lost on the way, and a
\* pause of 200 ms too short for RPC to show the block just announced.
NoLostWakeup ==
    pc = "wait" /\ sub = "open" /\ ~missed /\ TipHeight > db.height
    => notified > 0 \/ lead < 0

\* Rows of neighbouring heights are parent and child.
Linked ==
    \A a, b \in db.rows : HeightOf[b] = HeightOf[a] + 1 => ParentOf[b] = a

\* After a transient error the node is left alone for one back-off delay
\* before another block is asked for.
BackoffBeforeRetry == owed => pc \notin {"hash", "block"}

\* A broken ZMQ connection never takes the process down.
NoPanic == pc # "panicked"

\* What holds between the steps of a batch: the frame of ingestRange still
\* matches the checkpoint it was computed from, and committed and staged rows
\* together are exact up to the last block inserted.  With TypeOK and
\* CheckpointExact this is inductive.
BatchInv ==
    /\ pc \in Batch => batchStart = db.height + 1 /\ batchStart <= tip
    /\ pc \in {"hash", "block"} =>
         /\ h \in batchStart..BatchEnd
         /\ Exact(db.rows \cup tx.rows, h - 1,
                  IF h = batchStart THEN db.hash ELSE last)
    /\ pc = "block" => cur \in Block /\ HeightOf[cur] = h
    /\ pc = "state" =>
         last \in Block /\ Exact(db.rows \cup tx.rows, BatchEnd, last)
    /\ pc = "commit" =>
         tx.height = BatchEnd /\ Exact(db.rows \cup tx.rows, tx.height, tx.hash)

\* PrefixUntilReorg with the rows that are still staged: inductive.
PrefixInv ==
    reorgs = 0 =>
        /\ \A b \in db.rows \cup tx.rows : OnChain(b)
        /\ pc = "block" => OnChain(cur)

\* From the moment the tip is read until the socket is waited on: a message is
\* there or still to come, or messages and RPC agree and the tip read is not
\* behind the node.
WakeupInv ==
    /\ pc \in TipRead /\ sub = "open" /\ ~missed =>
         notified > 0 \/ lead < 0 \/ (lead = 0 /\ TipHeight <= tip)
    /\ pc = "wait" => tip <= db.height

Healthy == node = "up" /\ dbUp /\ ~cancelled

\* Once node and database stay up and the node stays where it is, everything it
\* has is indexed in the end: from notifications, or without any of them.
Settled == <>[]Healthy /\ <>[][FALSE]_chain

CatchesUp == Settled => <>[](db.height >= TipHeight)

\* A signal always brings the process down, also out of a back-off, a batch or
\* a wait for ZMQ.
StopsOnSignal == cancelled ~> pc \in Down

\* The index as its readers see it.
RowAt(rows, k) == CHOOSE b \in rows : HeightOf[b] = k

Index == [k \in 1..(db.height + 1) |-> RowAt(db.rows, k - 1)]

Abstract == INSTANCE BlockIndex WITH index <- Index

\* The indexer implements the append-only index.
AbstractSpec == Abstract!IndexSpec
=============================================================================

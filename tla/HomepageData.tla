---------------------------- MODULE HomepageData ----------------------------
(***************************************************************************)
(* The figures on the homepage: the statistics of each algorithm, which    *)
(* the indexer copies from the node (doUpdateAlgoStats and                 *)
(* nominalEpochReward of indexer/internal/ingest/algo_stats.go), and what  *)
(* generate of the generator's main.go puts together from one answer of    *)
(* the node and queries at different moments (AlgoStats and GlobalStats of *)
(* internal/db/stats.go): the page, and the two heights on the operator's  *)
(* terminal (SetNodeStatus of internal/tui/tui.go).  What buildSyncInfo    *)
(* computes for the page is not modelled: homepage.html shows none of it.  *)
(*                                                                         *)
(* A figure is known by the height of the node when it was asked for.      *)
(* Height 0 stands for none: a row that is missing, a node that did not    *)
(* answer.  The node does not change branch.                               *)
(***************************************************************************)
EXTENDS Integers

CONSTANTS
    Algos,        \* number of algorithms, 8 in the code
    HashAt,       \* HashAt[a][h]: hashrate of a that the node reports at height h
    PeakAt,       \* PeakAt[a][h]: its peak at that height, 0 if none is known
    EraAt,        \* EraAt[a][h]: the place of a's nominal reward in the schedule
    MaxHeight     \* bound: blocks of the node

Heights == 1..MaxHeight
LastEra == 12     \* bound: entries of the schedule
Algo    == 1..Algos

ASSUME HomepageDataAssumption ==
    /\ Algos \in Nat \ {0}
    /\ MaxHeight \in Nat \ {0}
    /\ HashAt \in [Algo -> [Heights -> Nat]]
    /\ PeakAt \in [Algo -> [Heights -> Nat]]
    /\ EraAt \in [Algo -> [Heights -> 0..LastEra]]

VARIABLES
    tip,          \* height of the node
    good,         \* node and database answer
    index,        \* highest block in the table
    rows,         \* algo_stats_current
    ipc,          \* where the indexer is
    pass,         \* locals of doUpdateAlgoStats
    gpc,          \* where generate is
    draft,        \* what it has read
    status,       \* heights on the operator's terminal
    page          \* the page in place

indexer   == <<index, rows, ipc, pass>>
generator == <<gpc, draft, status, page>>
vars      == <<tip, good, indexer, generator>>

\* When the columns of a row were asked for, and the nominal reward in it.
Row    == [dyn : 0..MaxHeight, supply : 0..MaxHeight, reward : 0..MaxHeight,
           nominal : 0..LastEra]
NoRow  == [dyn |-> 0, supply |-> 0, reward |-> 0, nominal |-> 0]
Pass   == [algo : 0..Algos, dyn : 0..MaxHeight, supply : 0..MaxHeight, reward : 0..MaxHeight]
NoPass == [algo |-> 0, dyn |-> 0, supply |-> 0, reward |-> 0]

\* shown and total: height of each algorithm's supply in the rows and in the sum.
Page   == [shown : [Algo -> 0..MaxHeight], total : [Algo -> 0..MaxHeight]]
NoPage == [shown |-> [a \in Algo |-> 0], total |-> [a \in Algo |-> 0]]

\* node: height the node gave; listed: newest block of the list; behind:
\* history, how far the list was behind the node when it was read.
Status   == [node : 0..MaxHeight, listed : 0..MaxHeight, behind : 0..MaxHeight]
NoStatus == [node |-> 0, listed |-> 0, behind |-> 0]

Draft   == [page : Page, status : Status]
NoDraft == [page |-> NoPage, status |-> NoStatus]

TypeOK ==
    /\ tip \in Heights
    /\ good \in BOOLEAN
    /\ index \in 0..tip
    /\ rows \in [Algo -> Row]
    /\ ipc \in {"ingest", "dynamics", "supply", "reward", "upsert", "wait"}
    /\ pass \in Pass
    /\ ipc \in {"supply", "reward", "upsert"} => pass.algo \in Algo
    /\ gpc \in {"idle", "latest", "rows", "total", "write"}
    /\ draft \in Draft
    /\ status \in Status
    /\ page \in Page

-----------------------------------------------------------------------------
(* Rewards, in units of a hundred-thousandth of a coin.                    *)

\* The epoch schedule: three quarters and two thirds by turns, from 20 down.
Schedule[k \in 0..LastEra] ==
    IF k = 0 THEN 2000000
    ELSE IF k % 2 = 1 THEN (Schedule[k - 1] * 3) \div 4
                      ELSE (Schedule[k - 1] * 2) \div 3

\* 1 + ESF of algorithm a at height h is Weight over Base.  The ESF is at most
\* 1, and 0 where there is no peak.
Base(a, h)   == IF PeakAt[a][h] > 0 THEN PeakAt[a][h] ELSE 1
Capped(a, h) == IF HashAt[a][h] > PeakAt[a][h] THEN PeakAt[a][h] ELSE HashAt[a][h]
Weight(a, h) == Base(a, h) + Capped(a, h)

\* getblockreward: half the nominal reward times 1 + ESF, in whole units.
NodeReward(a, h) == (Schedule[EraAt[a][h]] * Weight(a, h)) \div (2 * Base(a, h))

\* How far twice the reward is from (1 + ESF) times entry k of the schedule.
Distance(reward, a, h, k) ==
    LET d == 2 * Base(a, h) * reward - Schedule[k] * Weight(a, h)
    IN  IF d < 0 THEN -d ELSE d

\* Variant: the highest entry that is not above the result.
NominalEpochRewardBelow(reward, a, h) ==
    CHOOSE k \in 0..LastEra :
        /\ Schedule[k] * Weight(a, h) <= 2 * Base(a, h) * reward
        /\ \A j \in 0..(k - 1) : Schedule[j] * Weight(a, h) > 2 * Base(a, h) * reward

\* The entry nearest to reward * 2 / (1 + ESF), the higher one of two.
NominalEpochReward(reward, a, h) ==
    CHOOSE k \in 0..LastEra :
        \A j \in 0..LastEra :
            \/ Distance(reward, a, h, k) < Distance(reward, a, h, j)
            \/ Distance(reward, a, h, k) = Distance(reward, a, h, j) /\ k <= j

\* The outcome for the chain dynamics of height d and a reward of height r.
Nominal == [a \in Algo |-> [d \in Heights |-> [r \in Heights |->
                NominalEpochReward(NodeReward(a, r), a, d)]]]

-----------------------------------------------------------------------------
Init ==
    /\ tip = 1
    /\ good = TRUE
    /\ index = 0
    /\ rows = [a \in Algo |-> NoRow]
    /\ ipc = "ingest"
    /\ pass = NoPass
    /\ gpc = "idle"
    /\ draft = NoDraft
    /\ status = NoStatus
    /\ page = NoPage

NodeExtend ==
    /\ tip < MaxHeight
    /\ tip' = tip + 1
    /\ UNCHANGED <<good, indexer, generator>>

Trouble ==
    /\ good' = ~good
    /\ UNCHANGED <<tip, indexer, generator>>

-----------------------------------------------------------------------------
(* The indexer.                                                            *)

\* A batch is committed, up to the tip that was read or not quite so far.
Ingest ==
    /\ ipc = "ingest" /\ good
    /\ index < tip
    /\ index' \in (index + 1)..tip
    /\ UNCHANGED <<tip, good, rows, ipc, pass, generator>>

\* Nothing to ingest: the statistics are refreshed.
AtTip ==
    /\ ipc = "ingest" /\ good
    /\ index = tip
    /\ ipc' = "dynamics"
    /\ UNCHANGED <<tip, good, index, rows, pass, generator>>

ChainDynamics ==
    /\ ipc = "dynamics" /\ good
    /\ pass' = [NoPass EXCEPT !.algo = 1, !.dyn = tip]
    /\ ipc' = "supply"
    /\ UNCHANGED <<tip, good, index, rows, generator>>

MoneySupply ==
    /\ ipc = "supply" /\ good
    /\ pass' = [pass EXCEPT !.supply = tip]
    /\ ipc' = "reward"
    /\ UNCHANGED <<tip, good, index, rows, generator>>

BlockReward ==
    /\ ipc = "reward" /\ good
    /\ pass' = [pass EXCEPT !.reward = tip]
    /\ ipc' = "upsert"
    /\ UNCHANGED <<tip, good, index, rows, generator>>

Written ==
    [dyn |-> pass.dyn, supply |-> pass.supply, reward |-> pass.reward,
     nominal |-> Nominal[pass.algo][pass.dyn][pass.reward]]

\* The locals when the loop goes on to the next algorithm.
NextAlgo == [algo |-> pass.algo + 1, dyn |-> pass.dyn, supply |-> 0, reward |-> 0]

\* Variant: one turn of the loop too many.
UpsertOneMore ==
    /\ ipc = "upsert" /\ good
    /\ rows' = [rows EXCEPT ![pass.algo] = Written]
    /\ IF pass.algo <= Algos
       THEN ipc' = "supply" /\ pass' = NextAlgo
       ELSE ipc' = "wait" /\ pass' = NoPass
    /\ UNCHANGED <<tip, good, index, generator>>

\* The row of one algorithm, in a transaction of its own.
Upsert ==
    /\ ipc = "upsert" /\ good
    /\ rows' = [rows EXCEPT ![pass.algo] = Written]
    /\ IF pass.algo < Algos
       THEN ipc' = "supply" /\ pass' = NextAlgo
       ELSE ipc' = "wait" /\ pass' = NoPass
    /\ UNCHANGED <<tip, good, index, generator>>

\* Variant: an algorithm that fails is passed over.
RefreshGoesOn ==
    /\ ipc \in {"dynamics", "supply", "reward", "upsert"} /\ ~good
    /\ IF ipc # "dynamics" /\ pass.algo < Algos
       THEN ipc' = "supply" /\ pass' = NextAlgo
       ELSE ipc' = "wait" /\ pass' = NoPass
    /\ UNCHANGED <<tip, good, index, rows, generator>>

\* Any call fails, or the process ends: the rows written so far stay.
RefreshStops ==
    /\ ipc \in {"dynamics", "supply", "reward", "upsert"} /\ ~good
    /\ ipc' = "wait"
    /\ pass' = NoPass
    /\ UNCHANGED <<tip, good, index, rows, generator>>

\* Variant: only a block ends the wait.
WaitForBlockOnly ==
    /\ ipc = "wait" /\ index < tip
    /\ ipc' = "ingest"
    /\ UNCHANGED <<tip, good, index, rows, pass, generator>>

\* A block, or two minutes without one.
WaitOver ==
    /\ ipc = "wait"
    /\ ipc' = "ingest"
    /\ UNCHANGED <<tip, good, index, rows, pass, generator>>

-----------------------------------------------------------------------------
(* The generator.                                                          *)

\* The node may not answer, or not be asked (rpcBreaker).
QueryNode ==
    /\ gpc = "idle"
    /\ \E answer \in {0, tip} : draft' = [NoDraft EXCEPT !.status.node = answer]
    /\ gpc' = "latest"
    /\ UNCHANGED <<tip, good, indexer, status, page>>

\* A connection that breaks may leave no block at all: rows.Err is not looked at.
ReadLatestBlocks ==
    /\ gpc = "latest"
    /\ \E newest \in {0, index} :
        draft' = [draft EXCEPT !.status.listed = newest, !.status.behind = tip - index]
    /\ gpc' = "rows"
    /\ UNCHANGED <<tip, good, indexer, status, page>>

\* rows.Err is not looked at: a connection that breaks leaves the first rows.
ReadAlgoStats ==
    /\ gpc = "rows"
    /\ \E n \in 0..Algos :
        draft' = [draft EXCEPT !.page.shown =
                    [a \in Algo |-> IF a <= n THEN rows[a].supply ELSE 0]]
    /\ gpc' = "total"
    /\ UNCHANGED <<tip, good, indexer, status, page>>

\* Variant: the sum is kept from the page before.
ReadGlobalStatsKept ==
    /\ gpc = "total"
    /\ draft' = [draft EXCEPT !.page.total = page.total]
    /\ status' = draft.status
    /\ gpc' = "write"
    /\ UNCHANGED <<tip, good, indexer, page>>

\* Variant: the node is asked when the rest is known.
ReadGlobalStatsAskNode ==
    /\ gpc = "total"
    /\ draft' = [draft EXCEPT !.page.total = [a \in Algo |-> rows[a].supply]]
    /\ status' = [draft.status EXCEPT !.node = tip]
    /\ gpc' = "write"
    /\ UNCHANGED <<tip, good, indexer, page>>

\* SUM(money_supply), after the query of the rows.  MAX(height) and the block
\* spacing are two more queries, of which a number of pages and a text are made.
\* With all data there, the terminal shows the height the node gave and that of
\* the newest block listed, whatever becomes of the page.
ReadGlobalStats ==
    /\ gpc = "total"
    /\ draft' = [draft EXCEPT !.page.total = [a \in Algo |-> rows[a].supply]]
    /\ status' = draft.status
    /\ gpc' = "write"
    /\ UNCHANGED <<tip, good, indexer, page>>

WritePage ==
    /\ gpc = "write"
    /\ page' = draft.page
    /\ draft' = NoDraft
    /\ gpc' = "idle"
    /\ UNCHANGED <<tip, good, indexer, status>>

\* Any query or the rendering fails: the page in place stays.
GenerateFails ==
    /\ gpc # "idle"
    /\ draft' = NoDraft
    /\ gpc' = "idle"
    /\ UNCHANGED <<tip, good, indexer, status, page>>

-----------------------------------------------------------------------------
Refresh  == ChainDynamics \/ MoneySupply \/ BlockReward \/ Upsert \/ RefreshStops
Indexer  == Ingest \/ AtTip \/ Refresh \/ WaitOver
Generate == QueryNode \/ ReadLatestBlocks \/ ReadAlgoStats
            \/ ReadGlobalStats \/ WritePage \/ GenerateFails

Next == NodeExtend \/ Trouble \/ Indexer \/ Generate

Spec == Init /\ [][Next]_vars

FairSpec == Spec /\ WF_vars(Indexer)

-----------------------------------------------------------------------------
(* Properties.                                                             *)

\* The table is the rows of the last refresh followed by older ones, whatever
\* call of it failed: no row has chain dynamics older than a row below it.
RowsInOrder ==
    \A a, b \in Algo : a < b => rows[a].dyn >= rows[b].dyn

\* The total supply on the homepage counts every algorithm at least as far as
\* its row shows it, though a refresh writes rows between the two queries.  (The
\* older pages drop the errors of both, and may show no total beside rows.)
TotalNotBehindRows == \A a \in Algo : page.total[a] >= page.shown[a]

\* 1 + ESF of a changed by less than a tenth from one height to the other.
Steady(a, d, r) ==
    /\ 9 * Weight(a, r) * Base(a, d) <= 10 * Weight(a, d) * Base(a, r)
    /\ 9 * Weight(a, d) * Base(a, r) <= 10 * Weight(a, r) * Base(a, d)

\* A row names the epoch its reward is of, though hashrate and reward were
\* asked for at different heights and the reward is cut to whole units, if
\* 1 + ESF was steady between the two calls.  Nothing in the code sees to that:
\* after a larger change the row may name another epoch.
NominalIsEpoch ==
    \A a \in Algo : rows[a].dyn # 0 /\ Steady(a, rows[a].dyn, rows[a].reward) =>
        rows[a].nominal = EraAt[a][rows[a].reward]

\* The operator's terminal never shows the list further behind the node than it
\* was: the height of the node is asked for first, and a generate that fails
\* leaves the pair of an earlier one, never half of each.
StatusNotExaggerated ==
    status.node > 0 /\ status.listed > 0 => status.node - status.listed <= status.behind

\* A refresh that stopped half-way is made up for without a new block.
StatsFollowNode == <>[]good => <>[](\A a \in Algo : rows[a].supply = tip)
=============================================================================

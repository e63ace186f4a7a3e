---------------------------- MODULE AddressPage ----------------------------
(***************************************************************************)
(* AddressDetail of generator/internal/db/addressdetail.go beside the      *)
(* indexer and the backfill of Ledger: the summary, the second look at the *)
(* inputs when it is all zero, and the history are queries of their own,   *)
(* with commits between them.                                              *)
(***************************************************************************)
EXTENDS Ledger

VARIABLES
    apc,          \* where AddressDetail is, "answered" after it
    detail        \* its result so far

reader == <<apc, detail>>

\* running: the balance after each indexed transaction; a transaction that
\* does not touch the address repeats the balance and has no row.
\* indexed, settled, whole: history, the transactions that were indexed when
\* the summary was read, whether the backfill was over with no input missed,
\* and whether every row of the history came.
NoDetail == [address |-> "", found |-> FALSE, recv |-> 0, sent |-> 0,
             running |-> << >>, indexed |-> 0, settled |-> FALSE, whole |-> FALSE]

PageInit == Init /\ apc = "idle" /\ detail = NoDetail

-----------------------------------------------------------------------------
\* total_recv and total_spent of an address that somebody asks for.
ReadSummary ==
    /\ apc \in {"idle", "answered"}
    /\ \E a \in Address :
        LET recv == Total(Received(a))
            sent == Total({o \in Received(a) : spentBy[o] # NoIn})
        IN /\ detail' = [NoDetail EXCEPT !.address = a, !.recv = recv, !.sent = sent,
                                         !.indexed = Len(TxsIn(index)),
                                         !.settled = bpc = "done" /\ ~raced]
           /\ apc' = IF recv = 0 /\ sent = 0 THEN "inputs" ELSE "history"
    /\ UNCHANGED vars

\* "Double-check there are no inputs either", else the address is not found.
\* The error of this query is dropped: its count is then 0.
CountInputs ==
    /\ apc = "inputs"
    /\ \/ /\ \E i \in In : ins[i] = "known" /\ Owner[Prev[i]] = detail.address
          /\ apc' = "history"
       \/ apc' = "answered"
    /\ UNCHANGED <<vars, detail>>

\* The rows, with the running balance over them.  rows.Err is not looked at: a
\* connection that breaks leaves the first of them.
ReadHistory ==
    /\ apc = "history"
    /\ \E last \in 0..Len(TxsIn(index)) :
        detail' = [detail EXCEPT
             !.found = TRUE,
             !.whole = last = Len(TxsIn(index)),
             !.running = [n \in 1..last |-> Running(detail.address)[n]]]
    /\ apc' = "answered"
    /\ UNCHANGED vars

\* The query of the history fails.
RequestFails ==
    /\ apc = "history"
    /\ apc' = "idle"
    /\ detail' = NoDetail
    /\ UNCHANGED vars

Request == ReadSummary \/ CountInputs \/ ReadHistory \/ RequestFails

PageNext == (Next /\ UNCHANGED reader) \/ Request

PageSpec == PageInit /\ [][PageNext]_<<vars, reader>>

-----------------------------------------------------------------------------
\* The two parts of the page differ by what was committed between them and by
\* nothing else: the history reaches the balance of the summary at the last
\* transaction that was indexed when the summary was read.
HistoryReachesBalance ==
    detail.found /\ detail.settled /\ detail.whole /\ detail.indexed > 0 =>
        /\ detail.indexed \in DOMAIN detail.running
        /\ detail.running[detail.indexed] = detail.recv - detail.sent
=============================================================================

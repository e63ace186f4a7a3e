------------------------------- MODULE Broker -------------------------------
(***************************************************************************)
(* The SSE broker of the generator (generator/internal/sse/broker.go) and  *)
(* the stream to one browser tab.  Each connection has a channel of        *)
(* capacity one; ServeHTTP moves a signal from the channel to the wire.    *)
(* Only the connections matter here: the per-IP counts of Connected are    *)
(* derived from the same map.  The mutex makes each operation one step.    *)
(***************************************************************************)
EXTENDS Integers

CONSTANT Tab      \* browser tabs, each with at most one live connection

VARIABLES
    conn,         \* the channel of the tab's connection in b.clients
    wire          \* a newblock event is on its way to the tab

brokerVars == <<conn, wire>>

BrokerTypeOK ==
    /\ conn \in [Tab -> {"none", "empty", "full"}]
    /\ wire \in [Tab -> BOOLEAN]

BrokerInit ==
    /\ conn = [t \in Tab |-> "none"]
    /\ wire = [t \in Tab |-> FALSE]

\* Every client is signalled; one whose channel is full is skipped.
Broadcast ==
    /\ conn' = [t \in Tab |-> IF conn[t] = "none" THEN "none" ELSE "full"]
    /\ UNCHANGED wire

Subscribe(t) ==
    /\ conn[t] = "none"
    /\ conn' = [conn EXCEPT ![t] = "empty"]
    /\ UNCHANGED wire

\* The request context is done; what was in the channel or on the wire is lost.
Unsubscribe(t) ==
    /\ conn[t] # "none"
    /\ conn' = [conn EXCEPT ![t] = "none"]
    /\ wire' = [wire EXCEPT ![t] = FALSE]

\* Variant: the event is written and not flushed.
DeliverUnflushed(t) ==
    /\ conn[t] = "full"
    /\ conn' = [conn EXCEPT ![t] = "empty"]
    /\ UNCHANGED wire

\* ServeHTTP takes the signal, writes the event and flushes it.
Deliver(t) ==
    /\ conn[t] = "full"
    /\ conn' = [conn EXCEPT ![t] = "empty"]
    /\ wire' = [wire EXCEPT ![t] = TRUE]
=============================================================================

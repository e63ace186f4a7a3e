----------------------------- MODULE RpcBreaker -----------------------------
(***************************************************************************)
(* rpcBreaker of generator/cmd/bitmark-hp-gen/main.go: the guard in front  *)
(* of the getblockcount that every generate asks for.  The block page asks *)
(* the node too, and not through it (GetBlockExtra of Explorer).           *)
(***************************************************************************)
EXTENDS Integers, Sequences

CONSTANTS
    Delays,       \* rpcBackoffDelays, in units of Tick
    MaxFailures   \* bound: failures are counted up to here

ASSUME BreakerAssumption ==
    /\ Delays \in Seq(Nat)
    /\ MaxFailures \in Nat
    /\ MaxFailures >= Len(Delays) /\ Len(Delays) >= 1
    /\ \A j, k \in 1..Len(Delays) : j <= k => Delays[j] <= Delays[k]

VARIABLES
    failures,     \* consecutive failures
    wait,         \* time left until nextTryAt
    since         \* history: time since query last called, up to the longest delay

breakerVars == <<failures, wait, since>>

LongestDelay == CHOOSE d \in {Delays[k] : k \in DOMAIN Delays} :
                    \A k \in DOMAIN Delays : Delays[k] <= d

BreakerTypeOK ==
    /\ failures \in 0..MaxFailures
    /\ wait \in 0..LongestDelay
    /\ since \in 0..LongestDelay

BreakerInit == failures = 0 /\ wait = 0 /\ since = LongestDelay

\* The delay set on the n-th failure: idx = n counts from 0, so the first entry
\* of the table is never used.
DelayAfter(n) == Delays[IF n >= Len(Delays) THEN Len(Delays) ELSE n + 1]

\* Variant: the delay is set on the first failure of an outage only.
CallFailsOnce ==
    /\ wait = 0
    /\ failures' = IF failures < MaxFailures THEN failures + 1 ELSE failures
    /\ wait' = IF failures = 0 THEN DelayAfter(failures') ELSE 0
    /\ since' = 0

CallFails ==
    /\ wait = 0
    /\ failures' = IF failures < MaxFailures THEN failures + 1 ELSE failures
    /\ wait' = DelayAfter(failures')
    /\ since' = 0

CallSucceeds ==
    /\ wait = 0
    /\ failures' = 0
    /\ wait' = 0
    /\ since' = 0

\* During back-off the call is skipped and the last error shown again.
CallSkipped == wait > 0 /\ UNCHANGED breakerVars

Tick ==
    /\ wait' = IF wait > 0 THEN wait - 1 ELSE 0
    /\ since' = IF since < LongestDelay THEN since + 1 ELSE since
    /\ UNCHANGED failures

\* After a failure rpcBreaker.query does not call the node again before the
\* whole delay it has set is over, however often a page is generated.
SpacedCalls ==
    [][(CallFails \/ CallSucceeds) /\ failures >= 1 => since >= DelayAfter(failures)
      ]_breakerVars

\* The first failure: retry immediately on the next generate cycle.
FirstRetryAtOnce == failures = 1 => wait = 0
=============================================================================

----------------------------- MODULE RpcClient -----------------------------
(***************************************************************************)
(* One call of the indexer to its node after the other:                    *)
(* indexer/internal/rpc/client.go (authHeader, call), the credentials that *)
(* indexer/internal/config/config.go chooses at each start, the errors     *)
(* isTransientRPCErr of ingestor.go retries, and the service manager that  *)
(* starts an indexer again whose call failed for good.  A node that is     *)
(* stopped, started, overloaded, hung or cut off is the environment.       *)
(*                                                                         *)
(* Each start of the node has a number, its epoch.  The cookie file holds  *)
(* the epoch that wrote it, or NoCookie where there is none: a clean stop  *)
(* deletes it, a crash leaves it behind.                                   *)
(***************************************************************************)
EXTENDS Integers, FiniteSets

CONSTANTS
    Settings,     \* the configurations considered
    MaxEpoch,     \* bound: starts of the node
    MaxHeight     \* bound: blocks of the node

Key == {"RPC_USER", "RPC_PASS", "RPC_COOKIE_FILE"}

\* A key has no value, the one the node knows, or one that is out of date.
SettingsType ==
    [env : [Key -> {"none", "node", "old"}], file : [Key -> {"none", "node", "old"}],
     timeout : {"none", "short", "long"}, cut : BOOLEAN]

NoCookie == 0

ASSUME RpcClientAssumption ==
    /\ Settings \subseteq SettingsType
    /\ \A s \in Settings : "old" \notin {s.env["RPC_COOKIE_FILE"], s.file["RPC_COOKIE_FILE"]}
    /\ MaxEpoch \in Nat \ {0}
    /\ MaxHeight \in Nat \ {0}

VARIABLES
    settings,     \* environment file and settings.conf, RPC_TIMEOUT (none, below
                  \* or above the dial timeout), answers beyond RPC_MAX_RESPONSE_BYTES
    conf,         \* what build made of them when the process started
    state,        \* the node: how it treats a request
    epoch, cookieFile, height,
    net,          \* its host can be reached
    pc,           \* where the client is; "down": the process has ended
    attempt,      \* of the loop in call
    shown,        \* credentials in the header of the request
    conn,         \* epoch of the node the connection was made to
    reply,        \* of the node, with the height it gives
    answer,       \* result of the last call that succeeded
    gave,         \* why the process ended, if it did
    from,         \* history: height of the node when the call began
    restarts,     \* history: starts of the node since then
    trouble       \* history: what else happened since then

node    == <<state, epoch, cookieFile, height, net>>
client  == <<pc, attempt, shown, conn, reply, answer, gave>>
history == <<from, restarts, trouble>>
vars    == <<settings, conf, node, client, history>>

Running   == {"up", "busy", "loading", "hung", "failing"}
Replies   == {"none", "ok", "401", "503", "loading", "error", "errorbody"}
Troubles  == {"net", "failing"}
NoReply   == [kind |-> "none", height |-> 0]
NoCreds   == [pass |-> "none", cookie |-> NoCookie]

TypeOK ==
    /\ settings \in Settings
    /\ conf \in [pass : {"none", "node", "old"}, cookie : BOOLEAN]
    /\ state \in Running \cup {"down"}
    /\ epoch \in 1..MaxEpoch
    /\ cookieFile \in 0..epoch
    /\ height \in 1..MaxHeight
    /\ net \in BOOLEAN
    /\ pc \in {"down", "auth", "connect", "await", "handle", "backoff", "ok"}
    /\ attempt \in 0..1
    /\ shown \in [pass : {"none", "node", "old"}, cookie : 0..epoch]
    /\ conn \in 0..epoch
    /\ reply \in [kind : Replies, height : 0..height]
    /\ answer \in 0..height
    /\ gave \in {"none", "config", "nocookie", "unreachable", "refused", "cut", "error"}
    /\ from \in 1..height
    /\ restarts \in 0..epoch
    /\ trouble \subseteq Troubles

-----------------------------------------------------------------------------
(* Configuration.                                                          *)

\* Variant: settings.conf wins over the environment.
LookupFileFirst(s, k) == IF s.file[k] # "none" THEN s.file[k] ELSE s.env[k]

\* makeLookup: the environment first, then settings.conf.
Lookup(s, k) == IF s.env[k] # "none" THEN s.env[k] ELSE s.file[k]

\* Variant: a password makes the cookie file unnecessary.
BuildPasswordFirst(s, found) ==
    [pass   |-> IF Lookup(s, "RPC_USER") # "none" THEN Lookup(s, "RPC_PASS") ELSE "none",
     cookie |-> Lookup(s, "RPC_PASS") = "none" /\ (found \/ Lookup(s, "RPC_COOKIE_FILE") # "none")]

\* build: a path that is set, or one found when there is no password.
Build(s, found) ==
    [pass   |-> IF Lookup(s, "RPC_USER") # "none" THEN Lookup(s, "RPC_PASS") ELSE "none",
     cookie |-> \/ Lookup(s, "RPC_COOKIE_FILE") # "none"
                \/ Lookup(s, "RPC_PASS") = "none" /\ found]

HasAuth(c) == c.pass # "none" \/ c.cookie

\* Variant: the client is made without a timeout.
HasTimeoutNever == FALSE

\* http.Client.Timeout ends a call unless RPC_TIMEOUT is zero or less.
HasTimeout == settings.timeout # "none"

Init ==
    /\ settings \in Settings
    /\ conf = [pass |-> "none", cookie |-> FALSE]
    /\ state = "up"
    /\ epoch = 1
    /\ cookieFile = 1
    /\ height = 1
    /\ net = TRUE
    /\ pc = "down"
    /\ attempt = 0
    /\ shown = NoCreds
    /\ conn = 0
    /\ reply = NoReply
    /\ answer = 0
    /\ gave = "none"
    /\ from = 1
    /\ restarts = 0
    /\ trouble = {}

-----------------------------------------------------------------------------
(* The node and its host.                                                  *)

\* A clean stop removes the cookie file, a crash leaves it.
NodeStop ==
    /\ state # "down"
    /\ state' = "down"
    /\ cookieFile' \in {NoCookie, cookieFile}
    /\ UNCHANGED <<settings, conf, epoch, height, net, client, history>>

NodeStart ==
    /\ state = "down"
    /\ epoch < MaxEpoch
    /\ state' = "loading"
    /\ epoch' = epoch + 1
    /\ cookieFile' = epoch'
    /\ restarts' = restarts + 1
    /\ UNCHANGED <<settings, conf, height, net, client, from, trouble>>

NodeHealth ==
    /\ state \in Running
    /\ state' \in Running \ {"loading"}
    /\ trouble' = trouble \cup ({state'} \cap Troubles)
    /\ UNCHANGED <<settings, conf, epoch, cookieFile, height, net, client, from, restarts>>

NodeExtend ==
    /\ state = "up"
    /\ height < MaxHeight
    /\ height' = height + 1
    /\ UNCHANGED <<settings, conf, state, epoch, cookieFile, net, client, history>>

Network ==
    /\ net' = ~net
    /\ trouble' = trouble \cup {"net"}
    /\ UNCHANGED <<settings, conf, state, epoch, cookieFile, height, client, from, restarts>>

Accepts(creds) == creds.pass = "node" \/ creds.cookie = epoch

\* A full work queue refuses before it looks at credentials, a node that is
\* loading after.  An error comes with HTTP 500, or inside a 200.
Serve ==
    /\ pc = "await" /\ net /\ conn = epoch
    /\ state \in Running \ {"hung"}
    /\ \E kind \in CASE state = "busy"   -> {"503"}
                     [] state # "busy" /\ ~Accepts(shown) -> {"401"}
                     [] state = "loading" /\ Accepts(shown) -> {"loading"}
                     [] state = "failing" /\ Accepts(shown) -> {"error", "errorbody"}
                     [] OTHER -> {"ok"} :
        reply' = [kind |-> kind, height |-> IF kind = "ok" THEN height ELSE 0]
    /\ pc' = "handle"
    /\ UNCHANGED <<settings, conf, node, attempt, shown, conn, answer, gave, history>>

-----------------------------------------------------------------------------
(* The client.                                                             *)

\* Locals of call, gone when it returns or tries again.
Forget == shown' = NoCreds /\ conn' = 0 /\ reply' = NoReply

Transient == pc' = "backoff" /\ attempt' = 0 /\ Forget /\ UNCHANGED <<answer, gave>>

\* Run returns the error and main ends the process.
Permanent(reason) ==
    /\ pc' = "down"
    /\ gave' = reason
    /\ attempt' = 0
    /\ Forget
    /\ UNCHANGED answer

\* History of a call starts here; trouble that goes on belongs to it too.
CallBegins ==
    /\ pc' = "auth"
    /\ gave' = "none"
    /\ from' = height
    /\ restarts' = 0
    /\ trouble' = (IF net THEN {} ELSE {"net"}) \cup ({state} \cap Troubles)

\* systemd starts the indexer, which loads its configuration.
Start ==
    /\ pc = "down"
    /\ LET built == Build(settings, cookieFile # NoCookie) IN
        \/ /\ HasAuth(built)
           /\ conf' = built
           /\ CallBegins
        \/ /\ ~HasAuth(built)
           /\ gave' = "config"
           /\ UNCHANGED <<conf, pc, history>>
    /\ UNCHANGED <<settings, node, attempt, shown, conn, reply, answer>>

NextCall ==
    /\ pc \in {"ok", "backoff"}
    /\ CallBegins
    /\ UNCHANGED <<settings, conf, node, attempt, shown, conn, reply, answer>>

\* Variant: the second attempt sends the header of the first.
AuthHeaderOnce ==
    /\ pc = "auth"
    /\ shown' = IF shown # NoCreds THEN shown
                ELSE IF conf.cookie THEN [NoCreds EXCEPT !.cookie = cookieFile]
                ELSE [NoCreds EXCEPT !.pass = conf.pass]
    /\ pc' = "connect"
    /\ UNCHANGED <<settings, conf, node, attempt, conn, reply, answer, gave, history>>

\* The cookie file is read at every attempt, and wins over a password.
AuthHeader ==
    /\ pc = "auth"
    /\ \/ /\ ~conf.cookie
          /\ shown' = [NoCreds EXCEPT !.pass = conf.pass]
          /\ pc' = "connect"
          /\ UNCHANGED <<attempt, conn, reply, answer, gave>>
       \/ /\ conf.cookie /\ cookieFile # NoCookie
          /\ shown' = [NoCreds EXCEPT !.cookie = cookieFile]
          /\ pc' = "connect"
          /\ UNCHANGED <<attempt, conn, reply, answer, gave>>
       \/ /\ conf.cookie /\ cookieFile = NoCookie
          /\ Permanent("nocookie")
    /\ UNCHANGED <<settings, conf, node, history>>

\* A dial that gets no answer ends after five seconds with "i/o timeout",
\* which is not retried, unless RPC_TIMEOUT is shorter than that.
Dial ==
    /\ pc = "connect"
    /\ \/ /\ net /\ state # "down"
          /\ pc' = "await"
          /\ conn' = epoch
          /\ UNCHANGED <<attempt, shown, reply, answer, gave>>
       \/ net /\ state = "down" /\ Transient
       \/ ~net /\ settings.timeout = "short" /\ Transient
       \/ ~net /\ settings.timeout # "short" /\ Permanent("unreachable")
    /\ UNCHANGED <<settings, conf, node, history>>

TimesOut ==
    /\ pc = "await"
    /\ HasTimeout
    /\ Transient
    /\ UNCHANGED <<settings, conf, node, history>>

\* Variant: EOF is missing among the errors that are retried.
ConnectionLostPermanent ==
    /\ pc = "await" /\ net
    /\ state = "down" \/ conn # epoch
    /\ Permanent("error")
    /\ UNCHANGED <<settings, conf, node, history>>

\* The node has ended: EOF or a reset.
ConnectionLost ==
    /\ pc = "await" /\ net
    /\ state = "down" \/ conn # epoch
    /\ Transient
    /\ UNCHANGED <<settings, conf, node, history>>

\* Its host is cut off and TCP keep-alive notices: not an error to retry.
KeepAliveFails ==
    /\ pc = "await" /\ ~net
    /\ Permanent("unreachable")
    /\ UNCHANGED <<settings, conf, node, history>>

\* Variant: the error field of an answer is not looked at; a null result is 0.
HandleErrorUnseen ==
    /\ pc = "handle" /\ reply.kind \in {"ok", "errorbody"}
    /\ answer' = reply.height
    /\ pc' = "ok" /\ attempt' = 0 /\ Forget
    /\ UNCHANGED <<settings, conf, node, gave, history>>

Answered ==
    /\ pc = "handle" /\ reply.kind = "ok" /\ ~settings.cut
    /\ answer' = reply.height
    /\ pc' = "ok" /\ attempt' = 0 /\ Forget
    /\ UNCHANGED <<settings, conf, node, gave, history>>

\* LimitReader cuts the answer, which then does not decode.
AnswerCut ==
    /\ pc = "handle" /\ reply.kind = "ok" /\ settings.cut
    /\ Permanent("cut")
    /\ UNCHANGED <<settings, conf, node, history>>

\* Variant: every 401 is tried again.
UnauthorizedAgain ==
    /\ pc = "handle" /\ reply.kind = "401"
    /\ \/ /\ conf.cookie
          /\ attempt' = attempt + 1
          /\ pc' = "auth"
          /\ conn' = 0 /\ reply' = NoReply
          /\ UNCHANGED <<shown, answer, gave>>
       \/ ~conf.cookie /\ Permanent("refused")
    /\ UNCHANGED <<settings, conf, node, history>>

\* The first 401 is tried again with the cookie read anew.
Unauthorized ==
    /\ pc = "handle" /\ reply.kind = "401"
    /\ \/ /\ conf.cookie /\ attempt = 0
          /\ attempt' = 1
          /\ pc' = "auth"
          /\ conn' = 0 /\ reply' = NoReply
          /\ UNCHANGED <<shown, answer, gave>>
       \/ /\ ~conf.cookie \/ attempt = 1
          /\ Permanent("refused")
    /\ UNCHANGED <<settings, conf, node, history>>

\* HTTP 503 and code -28.
Overloaded ==
    /\ pc = "handle" /\ reply.kind \in {"503", "loading"}
    /\ Transient
    /\ UNCHANGED <<settings, conf, node, history>>

RpcError ==
    /\ pc = "handle" /\ reply.kind \in {"error", "errorbody"}
    /\ Permanent("error")
    /\ UNCHANGED <<settings, conf, node, history>>

-----------------------------------------------------------------------------
Call ==
    \/ NextCall \/ AuthHeader \/ Dial \/ TimesOut \/ ConnectionLost \/ KeepAliveFails
    \/ Answered \/ AnswerCut \/ Unauthorized \/ Overloaded \/ RpcError

Environment == NodeStop \/ NodeStart \/ NodeHealth \/ NodeExtend \/ Network

Next == Start \/ Call \/ Serve \/ Environment

Spec == Init /\ [][Next]_vars

\* A running process goes on, systemd starts it again, and a node that can
\* answer and is asked again and again answers in time once.
FairSpec == Spec /\ WF_vars(Start) /\ WF_vars(Call) /\ SF_vars(Serve)

-----------------------------------------------------------------------------
(* Properties.                                                             *)

\* The configuration names a cookie file, or the password of the node, or
\* neither, so that the cookie file is found at the start.  The environment
\* counts, and settings.conf where it says nothing.
Rightful(s) ==
    \/ "node" \in {s.env["RPC_COOKIE_FILE"], s.file["RPC_COOKIE_FILE"]}
    \/ s.env["RPC_PASS"] = "none" /\ s.file["RPC_PASS"] = "none"
    \/ /\ \/ s.env["RPC_PASS"] = "node"
          \/ s.env["RPC_PASS"] = "none" /\ s.file["RPC_PASS"] = "node"
       /\ s.env["RPC_USER"] # "none" \/ s.file["RPC_USER"] # "none"

\* A call that succeeds returns a height the node had while the call lasted:
\* what Ingestor models as one step with the tip of that moment.
AnswerIsCurrent == pc = "ok" => answer \in from..height

\* One restart of the node never costs a refusal: with a right configuration
\* a call is refused only with a cookie, and only if two restarts fell into it.
RefusedOnlyByTwoRestarts ==
    gave = "refused" /\ Rightful(settings) => conf.cookie /\ restarts >= 2

\* With a password, a node that is stopped, started, loading, overloaded or
\* hung does not end the indexer: its calls are retried until they succeed.
PasswordSurvivesRestarts ==
    /\ conf.pass = "node" /\ ~conf.cookie
    /\ ~settings.cut
    /\ trouble = {}
    => gave = "none"

\* With a timeout every call ends, whatever node and network do.
CallsEnd == settings.timeout # "none" /\ pc = "auth" ~> pc \in {"ok", "backoff", "down"}

\* A node that is up and stays up is asked with success again and again,
\* through any retries and restarts of the indexer on the way.
Reconnects ==
    Rightful(settings) /\ ~settings.cut /\ <>[](net /\ state = "up") => []<>(pc = "ok")
=============================================================================

----------------------------- MODULE HomepageGen -----------------------------
(***************************************************************************)
(* The homepage generator: the main loop and the ZMQ goroutine of          *)
(* generator/cmd/bitmark-hp-gen/main.go, the page file that                *)
(* render.GenerateHomepage replaces, the SSE broker, and the browser tabs  *)
(* that run the script of generator/templates/homepage.html.               *)
(*                                                                         *)
(* The database is seen through BlockIndex, which Ingestor implements.  A  *)
(* page is the newest height in its block list (tip) and the height in its *)
(* statistics (num): two queries, made at two moments.                     *)
(***************************************************************************)
EXTENDS BlockIndex, Broker

CONSTANTS
    MaxHeight,    \* bound: the last height the node reaches
    MaxMsgs,      \* messages the SUB socket holds; it drops those after them
    PollTicks,    \* ticks between two looks at chain_state (30 in the code)
    MaxCrashes    \* bound: how often the generator dies

ASSUME GeneratorAssumption ==
    /\ MaxHeight \in Nat
    /\ MaxMsgs \in Nat \ {0}
    /\ PollTicks \in Nat \ {0}
    /\ MaxCrashes \in Nat

VARIABLES
    nodeTip,      \* height of the node's chain
    msgs,         \* hashblock messages in the SUB socket
    sock,         \* the socket works, or a failed reconnect left it closed
    zpc,          \* the goroutine receives, or is blocked on zmqErrCh
    blockCh,      \* blockCh holds a signal
    errCh,        \* zmqErrCh holds an error
    forceCh,      \* ui.forceCh holds a signal
    tick,         \* tickCount modulo PollTicks
    dbUp,         \* queries succeed
    gpc,          \* where the main goroutine is
    announce,     \* the generate under way is followed by a Broadcast
    page,         \* what generate has read so far
    tmp,          \* outputPath.tmp, as far as the generate under way has got
    rendered,     \* lastRenderedHeight
    file,         \* outputPath
    crashes,      \* how often the generator has died
    tab,          \* what each tab is doing
    shown,        \* tip of the page a tab shows
    missed        \* history: no event for the page in place will reach a live tab

zmqVars  == <<nodeTip, msgs, sock, zpc>>
chanVars == <<blockCh, errCh, forceCh>>
tabVars  == <<tab, shown, missed>>
vars     == <<index, brokerVars, zmqVars, chanVars, tabVars, tick, dbUp,
              gpc, announce, page, tmp, rendered, file, crashes>>

Height == -1..MaxHeight
Best   == Len(index) - 1

NoPage == [tip |-> -1, num |-> -1]
NoFile == [state |-> "none", tip |-> -1, num |-> -1]

\* A file with a page: the template has not finished it ("part"); or it has, and
\* a failing Close left the file "short"; or it is whole.  Only of a whole page
\* is it known what a reader finds in it.
PageFile == [state : {"none", "part", "short", "whole"}, tip : Height, num : Height]

TypeOK ==
    /\ IndexTypeOK
    /\ BrokerTypeOK
    /\ nodeTip \in Height
    /\ msgs \in 0..MaxMsgs
    /\ sock \in {"open", "closed"}
    /\ zpc \in {"recv", "error"}
    /\ blockCh \in BOOLEAN /\ errCh \in BOOLEAN /\ forceCh \in BOOLEAN
    /\ dbUp \in BOOLEAN /\ announce \in BOOLEAN
    /\ tick \in 0..(PollTicks - 1)
    /\ gpc \in {"select", "pause", "latest", "stats", "render", "rename",
                "broadcast", "poll", "down"}
    /\ page \in [tip : Height, num : Height]
    /\ rendered \in Height
    /\ tmp \in PageFile
    /\ file \in PageFile
    /\ crashes \in 0..MaxCrashes
    /\ tab \in [Tab -> {"closed", "loaded", "live"}]
    /\ shown \in [Tab -> Height]
    /\ missed \in [Tab -> BOOLEAN]

\* The generator starts for the first time, beside an empty database.
Init ==
    /\ IndexInit
    /\ BrokerInit
    /\ nodeTip = -1
    /\ msgs = 0
    /\ sock = "open"
    /\ zpc = "recv"
    /\ blockCh = FALSE
    /\ errCh = FALSE
    /\ forceCh = FALSE
    /\ tick = 0
    /\ dbUp = TRUE
    /\ gpc = "latest"
    /\ announce = FALSE
    /\ page = NoPage
    /\ tmp = NoFile
    /\ rendered = -1
    /\ file = NoFile
    /\ crashes = 0
    /\ tab = [t \in Tab |-> "closed"]
    /\ shown = [t \in Tab |-> -1]
    /\ missed = [t \in Tab |-> FALSE]

-----------------------------------------------------------------------------
(* The node and the indexer.                                               *)

\* A new block; its message reaches the socket, if there is one with room, or is
\* lost.
NodeBlock ==
    /\ nodeTip < MaxHeight
    /\ nodeTip' = nodeTip + 1
    /\ msgs' \in IF gpc = "down" \/ msgs = MaxMsgs THEN {msgs} ELSE {msgs, msgs + 1}
    /\ UNCHANGED <<index, brokerVars, sock, zpc, chanVars, tabVars, tick, dbUp,
                   gpc, announce, page, tmp, rendered, file, crashes>>

\* The indexer commits a batch, before or after the generator hears of it.
IndexerCommits ==
    /\ AppendBatch
    /\ Len(index') - 1 <= nodeTip
    /\ UNCHANGED <<brokerVars, zmqVars, chanVars, tabVars, tick, dbUp,
                   gpc, announce, page, tmp, rendered, file, crashes>>

DBToggles ==
    /\ dbUp' = ~dbUp
    /\ UNCHANGED <<index, brokerVars, zmqVars, chanVars, tabVars, tick,
                   gpc, announce, page, tmp, rendered, file, crashes>>

-----------------------------------------------------------------------------
(* The ZMQ goroutine.                                                      *)

\* A message becomes a signal in blockCh, or joins the one already there.
Receive ==
    /\ gpc # "down"
    /\ zpc = "recv"
    /\ sock = "open"
    /\ msgs > 0
    /\ msgs' = msgs - 1
    /\ blockCh' = TRUE
    /\ UNCHANGED <<index, brokerVars, nodeTip, sock, zpc, errCh, forceCh, tabVars,
                   tick, dbUp, gpc, announce, page, tmp, rendered, file, crashes>>

\* Two silent minutes and a reconnect that may fail; or a socket that an
\* earlier failure left closed.  Either way there is an error to hand over, and
\* the goroutine blocks in the send while zmqErrCh holds the last one.
ReceiveFails ==
    /\ gpc # "down"
    /\ zpc = "recv"
    /\ \/ sock = "open" /\ msgs = 0 /\ sock' \in {"open", "closed"}
       \/ sock = "closed" /\ UNCHANGED sock
    /\ \/ ~errCh /\ errCh' = TRUE /\ UNCHANGED zpc
       \/ errCh /\ zpc' = "error" /\ UNCHANGED errCh
    /\ UNCHANGED <<index, brokerVars, nodeTip, msgs, blockCh, forceCh, tabVars, tick,
                   dbUp, gpc, announce, page, tmp, rendered, file, crashes>>

-----------------------------------------------------------------------------
(* The main loop.                                                          *)

Generate(broadcast) == gpc' = "latest" /\ announce' = broadcast

OnBlock ==
    /\ gpc = "select"
    /\ blockCh
    /\ blockCh' = FALSE
    /\ gpc' = "pause"
    /\ UNCHANGED <<index, brokerVars, zmqVars, errCh, forceCh, tabVars, tick, dbUp,
                   announce, page, tmp, rendered, file, crashes>>

\* The second given to the indexer to commit is over.
AfterPause ==
    /\ gpc = "pause"
    /\ Generate(TRUE)
    /\ UNCHANGED <<index, brokerVars, zmqVars, chanVars, tabVars, tick, dbUp,
                   page, tmp, rendered, file, crashes>>

\* The error is shown.  A send that waits fills the channel again.
OnZMQError ==
    /\ gpc = "select"
    /\ errCh
    /\ errCh' = (zpc = "error")
    /\ zpc' = "recv"
    /\ UNCHANGED <<index, brokerVars, nodeTip, msgs, sock, blockCh, forceCh, tabVars,
                   tick, dbUp, gpc, announce, page, tmp, rendered, file, crashes>>

OnForce ==
    /\ gpc = "select"
    /\ forceCh
    /\ forceCh' = FALSE
    /\ Generate(TRUE)
    /\ UNCHANGED <<index, brokerVars, zmqVars, blockCh, errCh, tabVars, tick, dbUp,
                   page, tmp, rendered, file, crashes>>

\* R among the pending keystrokes; forceCh holds one signal at most.
CheckInput == forceCh' \in {forceCh, TRUE}

\* Variant: the tick count is compared and not reduced.
OnTickUnreduced ==
    /\ gpc = "select"
    /\ tick' = tick + 1
    /\ CheckInput
    /\ gpc' = IF tick' = PollTicks THEN "poll" ELSE "select"
    /\ UNCHANGED <<index, brokerVars, zmqVars, blockCh, errCh, tabVars, dbUp,
                   announce, page, tmp, rendered, file, crashes>>

\* The ticker: keystrokes are read, and every PollTicks-th tick looks at
\* chain_state.
OnTick ==
    /\ gpc = "select"
    /\ tick' = (tick + 1) % PollTicks
    /\ CheckInput
    /\ gpc' = IF tick' = 0 THEN "poll" ELSE "select"
    /\ UNCHANGED <<index, brokerVars, zmqVars, blockCh, errCh, tabVars, dbUp,
                   announce, page, tmp, rendered, file, crashes>>

\* Variant: the poll compares with what the node announced last.
PollEqualOnly ==
    /\ gpc = "poll"
    /\ IF dbUp /\ Best = rendered + 1 THEN Generate(TRUE)
                                      ELSE gpc' = "select" /\ UNCHANGED announce
    /\ UNCHANGED <<index, brokerVars, zmqVars, chanVars, tabVars, tick, dbUp,
                   page, tmp, rendered, file, crashes>>

Poll ==
    /\ gpc = "poll"
    /\ IF dbUp /\ Best > rendered THEN Generate(TRUE)
                                  ELSE gpc' = "select" /\ UNCHANGED announce
    /\ UNCHANGED <<index, brokerVars, zmqVars, chanVars, tabVars, tick, dbUp,
                   page, tmp, rendered, file, crashes>>

\* doGenerate is over, with or without a page; its locals are gone.  A temporary
\* file it leaves behind is not kept here: os.Create truncates it next time.
GenerateDone ==
    /\ gpc' = IF announce THEN "broadcast" ELSE "select"
    /\ announce' = FALSE
    /\ page' = NoPage
    /\ tmp' = NoFile

\* A query or the template fails: no page, lastRenderedHeight stays.
GenerateFails ==
    /\ GenerateDone
    /\ UNCHANGED <<index, brokerVars, zmqVars, chanVars, tabVars, tick, dbUp,
                   rendered, file, crashes>>

\* Variant: without ORDER BY the rows are any that the table has.
ReadLatestBlocksUnordered ==
    /\ gpc = "latest"
    /\ dbUp
    /\ \E k \in 0..Best : page' = [page EXCEPT !.tip = k]
    /\ gpc' = "stats"
    /\ UNCHANGED <<index, brokerVars, zmqVars, chanVars, tabVars, tick, dbUp,
                   announce, tmp, rendered, file, crashes>>

\* LatestBlocks: an error before the query is sent ends generate.  A connection
\* that breaks later only ends the loop over rows.Next, as rows.Err is not looked
\* at: the list is empty and there is no error.
ReadLatestBlocks ==
    /\ gpc = "latest"
    /\ \/ /\ page' = [page EXCEPT !.tip = IF dbUp THEN Best ELSE -1]
          /\ gpc' = "stats"
          /\ UNCHANGED <<index, brokerVars, zmqVars, chanVars, tabVars, tick, dbUp,
                         announce, tmp, rendered, file, crashes>>
       \/ ~dbUp /\ GenerateFails

\* Variant: the statistics of the last page are used again.
ReadStatsCached ==
    /\ gpc = "stats"
    /\ page' = [page EXCEPT !.num = file.num]
    /\ tmp' = [NoFile EXCEPT !.state = "part"]
    /\ gpc' = "render"
    /\ UNCHANGED <<index, brokerVars, zmqVars, chanVars, tabVars, tick, dbUp,
                   announce, rendered, file, crashes>>

\* Variant: the page is written where readers look for it.
CreateInPlace ==
    /\ tmp' = [NoFile EXCEPT !.state = "part"]
    /\ file' = tmp'

\* The template goes into a temporary file, which readers do not see.
Create ==
    /\ tmp' = [NoFile EXCEPT !.state = "part"]
    /\ UNCHANGED file

\* AlgoStats and GlobalStats: COALESCE(MAX(height), 0).  They are the last that
\* generate reads, and the temporary file is made next.
ReadStats ==
    /\ gpc = "stats"
    /\ \/ /\ dbUp
          /\ page' = [page EXCEPT !.num = IF Best = -1 THEN 0 ELSE Best]
          /\ Create
          /\ gpc' = "render"
          /\ UNCHANGED <<index, brokerVars, zmqVars, chanVars, tabVars, tick, dbUp,
                         announce, rendered, crashes>>
       \/ ~dbUp /\ GenerateFails

\* The template is executed.  The error of the Close after it is dropped, so the
\* file may be short, and generate goes on with it.
Render ==
    /\ gpc = "render"
    /\ \/ tmp' = [state |-> "whole", tip |-> page.tip, num |-> page.num]
       \/ tmp' = [NoFile EXCEPT !.state = "short"]
    /\ gpc' = "rename"
    /\ UNCHANGED <<index, brokerVars, zmqVars, chanVars, tabVars, tick, dbUp,
                   announce, page, rendered, file, crashes>>

\* The template does not parse, or the temporary file cannot be made, written or
\* renamed: the page in place stays.
RenderFails == gpc = "render" /\ GenerateFails

\* The rename puts the page in place and generate returns its height.  With no
\* Broadcast to follow, the tabs that are connected are not told.
Rename ==
    /\ gpc = "rename"
    /\ file' = tmp
    /\ rendered' = IF page.tip >= 0 THEN page.tip ELSE rendered
    /\ missed' = [t \in Tab |-> missed[t] \/ (tab[t] = "live" /\ ~announce)]
    /\ GenerateDone
    /\ UNCHANGED <<index, brokerVars, zmqVars, chanVars, tab, shown, tick, dbUp, crashes>>

BroadcastNewBlock ==
    /\ gpc = "broadcast"
    /\ Broadcast
    /\ gpc' = "select"
    /\ UNCHANGED <<index, zmqVars, chanVars, tabVars, tick, dbUp,
                   announce, page, tmp, rendered, file, crashes>>

\* The process dies: its memory, its socket and its connections go with it.
Crash ==
    /\ gpc # "down"
    /\ crashes < MaxCrashes
    /\ crashes' = crashes + 1
    /\ gpc' = "down"
    /\ announce' = FALSE
    /\ page' = NoPage
    /\ tmp' = NoFile
    /\ rendered' = -1
    /\ tick' = 0
    /\ msgs' = 0
    /\ sock' = "open"
    /\ zpc' = "recv"
    /\ blockCh' = FALSE
    /\ errCh' = FALSE
    /\ forceCh' = FALSE
    /\ conn' = [t \in Tab |-> "none"]
    /\ wire' = [t \in Tab |-> FALSE]
    /\ tab' = [t \in Tab |-> IF tab[t] = "live" THEN "loaded" ELSE tab[t]]
    /\ missed' = [t \in Tab |-> FALSE]
    /\ UNCHANGED <<index, nodeTip, shown, dbUp, file>>

\* The operator or a reboot starts it again: it renders once, and tells nobody.
\* systemd does not, as the loop that waits for the tmux session exits with 0.
Restart ==
    /\ gpc = "down"
    /\ Generate(FALSE)
    /\ UNCHANGED <<index, brokerVars, zmqVars, chanVars, tabVars, tick, dbUp,
                   page, tmp, rendered, file, crashes>>

-----------------------------------------------------------------------------
(* The browser tabs.                                                       *)

\* GET /: whatever file is in place.
Load(t) ==
    /\ tab' = [tab EXCEPT ![t] = "loaded"]
    /\ shown' = [shown EXCEPT ![t] = file.tip]
    /\ missed' = [missed EXCEPT ![t] = FALSE]

OpenTab(t) ==
    /\ gpc # "down"
    /\ tab[t] = "closed"
    /\ file # NoFile
    /\ Load(t)
    /\ UNCHANGED <<index, brokerVars, zmqVars, chanVars, tick, dbUp,
                   gpc, announce, page, tmp, rendered, file, crashes>>

\* new EventSource(...), and the reconnect EventSource does by itself.  If the
\* page was replaced since it was loaded and its Broadcast is over, it is missed.
Connect(t) ==
    /\ gpc # "down"
    /\ tab[t] = "loaded"
    /\ Subscribe(t)
    /\ tab' = [tab EXCEPT ![t] = "live"]
    /\ missed' = [missed EXCEPT ![t] = shown[t] < file.tip /\ gpc # "broadcast"]
    /\ UNCHANGED <<index, zmqVars, chanVars, shown, tick, dbUp,
                   gpc, announce, page, tmp, rendered, file, crashes>>

SendEvent(t) ==
    /\ Deliver(t)
    /\ UNCHANGED <<index, zmqVars, chanVars, tabVars, tick, dbUp,
                   gpc, announce, page, tmp, rendered, file, crashes>>

\* The newblock listener: location.reload(), which drops the old stream.
Reload(t) ==
    /\ tab[t] = "live"
    /\ wire[t]
    /\ Unsubscribe(t)
    /\ Load(t)
    /\ UNCHANGED <<index, zmqVars, chanVars, tick, dbUp,
                   gpc, announce, page, tmp, rendered, file, crashes>>

\* The stream breaks; the page stays.
Disconnect(t) ==
    /\ tab[t] = "live"
    /\ Unsubscribe(t)
    /\ tab' = [tab EXCEPT ![t] = "loaded"]
    /\ missed' = [missed EXCEPT ![t] = FALSE]
    /\ UNCHANGED <<index, zmqVars, chanVars, shown, tick, dbUp,
                   gpc, announce, page, tmp, rendered, file, crashes>>

-----------------------------------------------------------------------------
Goroutine == Receive \/ ReceiveFails

GenerateStep == AfterPause \/ Poll \/ ReadLatestBlocks \/ ReadStats \/ Render
                \/ RenderFails \/ Rename \/ BroadcastNewBlock

Environment == NodeBlock \/ IndexerCommits \/ DBToggles \/ Crash
               \/ \E t \in Tab : OpenTab(t) \/ Disconnect(t)

Next == Environment \/ Goroutine \/ GenerateStep \/ Restart
        \/ OnBlock \/ OnZMQError \/ OnForce \/ OnTick
        \/ \E t \in Tab : Connect(t) \/ SendEvent(t) \/ Reload(t)

Spec == Init /\ [][Next]_vars

\* select picks at random among the cases that are ready, so a ticker that is
\* ready again and again is picked; the browser and the handlers keep running.
\* The output directory is not full for ever: in the end a page gets through.
\* Nothing is assumed of ZMQ, nor that anyone starts a generator that died.
FairSpec ==
    /\ Spec
    /\ WF_vars(GenerateStep)
    /\ SF_vars(Render)
    /\ SF_vars(OnTick)
    /\ \A t \in Tab : WF_vars(SendEvent(t)) /\ WF_vars(Reload(t))

-----------------------------------------------------------------------------
(* Properties.                                                             *)

\* A visitor never gets a page that the template has not finished, wherever the
\* generator dies or fails while it writes one.  (A page left short by the Close
\* after it, whose error is dropped, is possible.)
ServedWhole == file.state # "part"

\* The statistics on a page are never behind the blocks listed on it: the block
\* list is read first, and the index only grows.
PageConsistent == file.state = "whole" => file.tip <= file.num

\* A subscribed tab whose page is out of date has an event coming, unless the
\* page was replaced while the tab was not subscribed, or with no Broadcast:
\* skipping a full channel, or merging two signals, loses no update.
NoLostUpdate ==
    \A t \in Tab :
        tab[t] = "live" /\ shown[t] < file.tip /\ ~missed[t]
        => conn[t] = "full" \/ wire[t] \/ gpc = "broadcast"

\* The page never goes back to an older tip, also across restarts, except to a
\* list that a broken connection left empty, or to a page left short.
PageNeverGoesBack == [][file'.tip >= file.tip \/ file'.tip = -1]_vars

Working == dbUp /\ gpc # "down"

\* With database and generator up for good the page gets to what is indexed,
\* whether ZMQ messages arrive early, late or not at all; or to a page left
\* short, which the poll of chain_state does not notice.
PageFollowsIndex ==
    \A k \in 0..MaxHeight :
        <>[](Working /\ Best >= k) => <>(file.tip >= k \/ file.state = "short")

\* And stays there: whatever the database went through before it came back, the
\* poll of chain_state sees that the page is behind.
PageStaysCurrent ==
    \A k \in 0..MaxHeight :
        <>[](Working /\ Best >= k) => <>[](file.tip >= k \/ file.state = "short")

\* A tab that stays connected and missed nothing is brought up to date.
TabsFollowPage ==
    \A t \in Tab :
        tab[t] = "live" /\ ~missed[t] /\ shown[t] < file.tip
        ~> shown[t] >= file.tip \/ tab[t] # "live" \/ missed[t]
=============================================================================

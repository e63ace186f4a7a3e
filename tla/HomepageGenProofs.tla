------------------------- MODULE HomepageGenProofs -------------------------
(***************************************************************************)
(* Proofs about HomepageGen, for every set of tabs, every way the index    *)
(* grows and every interval between two looks at chain_state.              *)
(***************************************************************************)
EXTENDS HomepageGen, TLAPS

\* The index grows by blocks of the next heights.
LEMMA IndexGrowth ==
    ASSUME IndexTypeOK, AppendBatch
    PROVE  IndexTypeOK' /\ Len(index') > Len(index)
<1>1. PICK n \in 1..BatchBlocks : \E batch \in Batches(n) : index' = index \o batch
  BY DEF AppendBatch
<1>2. PICK batch \in Batches(n) : index' = index \o batch
  BY <1>1
<1>3. n \in Nat \ {0} /\ batch \in [1..n -> Block]
      /\ \A k \in 1..n : HeightOf[batch[k]] = Len(index) + k - 1
  BY <1>2, IndexAssumption DEF Batches
<1>4. batch \in Seq(Block) /\ Len(batch) = n
  BY <1>3
<1>5. index' \in Seq(Block) /\ Len(index') = Len(index) + n
  BY <1>2, <1>3, <1>4 DEF IndexTypeOK
<1>6. ASSUME NEW k \in 1..Len(index')
      PROVE  HeightOf[index'[k]] = k - 1
  <2>1. CASE k <= Len(index)
    BY <1>2, <1>4, <1>5, <2>1 DEF IndexTypeOK
  <2>2. CASE k > Len(index)
    <3>1. index'[k] = batch[k - Len(index)] /\ k - Len(index) \in 1..n
      BY <1>2, <1>4, <1>5, <2>2 DEF IndexTypeOK
    <3>2. HeightOf[batch[k - Len(index)]] = Len(index) + (k - Len(index)) - 1
      BY <1>3, <3>1
    <3> QED BY <3>1, <3>2 DEF IndexTypeOK
  <2> QED BY <1>5, <2>1, <2>2 DEF IndexTypeOK
<1> QED BY <1>3, <1>5, <1>6 DEF IndexTypeOK

-----------------------------------------------------------------------------
(* Type correctness.                                                       *)

\* The index is not ahead of the node.
NodeInv == Best <= nodeTip

TypeInv == TypeOK /\ NodeInv

LEMMA HeightFacts ==
    ASSUME TypeInv
    PROVE  /\ Best \in Height /\ -1 \in Height /\ 0 \in Height
           /\ \A k \in Height : k \in Int /\ -1 <= k /\ k <= MaxHeight
           /\ MaxHeight \in Nat
BY GeneratorAssumption DEF TypeInv, TypeOK, IndexTypeOK, NodeInv, Best, Height

LEMMA TypeInit == Init => TypeInv
<1> SUFFICES ASSUME Init PROVE TypeInv
  OBVIOUS
<1> USE GeneratorAssumption DEF Init
<1>1. IndexTypeOK /\ Len(index) = 0
  BY DEF IndexInit, IndexTypeOK
<1>2. BrokerTypeOK
  BY DEF BrokerInit, BrokerTypeOK
<1>3. NodeInv
  BY <1>1 DEF NodeInv, Best
<1>4. page \in [tip : Height, num : Height] /\ tmp \in PageFile /\ file \in PageFile
  BY DEF NoPage, NoFile, PageFile, Height
<1>5. tab \in [Tab -> {"closed", "loaded", "live"}] /\ shown \in [Tab -> Height]
      /\ missed \in [Tab -> BOOLEAN]
  BY DEF Height
<1>6. -1 \in Height /\ msgs \in 0..MaxMsgs /\ crashes \in 0..MaxCrashes
      /\ tick \in 0..(PollTicks - 1)
  BY DEF Height
<1> HIDE GeneratorAssumption
<1> QED BY <1>1, <1>2, <1>3, <1>4, <1>5, <1>6 DEF TypeInv, TypeOK

\* A page that has been read is reset when generate is over.
LEMMA PageReset == TypeInv => NoPage \in [tip : Height, num : Height] /\ NoFile \in PageFile
BY HeightFacts DEF NoPage, NoFile, PageFile, Height

\* The node, the indexer and the database.
LEMMA TypeOutside ==
    ASSUME TypeInv, NodeBlock \/ IndexerCommits \/ DBToggles
    PROVE  TypeInv'
<1> USE DEF TypeInv
<1>1. CASE NodeBlock
  <2>1. nodeTip' \in Height /\ msgs' \in 0..MaxMsgs /\ nodeTip < nodeTip'
    BY <1>1, HeightFacts, GeneratorAssumption DEF NodeBlock, TypeOK, NodeInv, Height
  <2>2. NodeInv'
    BY <1>1, <2>1, HeightFacts DEF NodeBlock, NodeInv, Best, TypeOK
  <2> QED
    BY <1>1, <2>1, <2>2
    DEF NodeBlock, TypeOK, IndexTypeOK, BrokerTypeOK, brokerVars, chanVars, tabVars
<1>2. CASE IndexerCommits
  <2>1. IndexTypeOK'
    BY <1>2, IndexGrowth DEF IndexerCommits, TypeOK
  <2> QED
    BY <1>2, <2>1
    DEF IndexerCommits, TypeOK, NodeInv, BrokerTypeOK, brokerVars, zmqVars, chanVars, tabVars,
        Best, Height
<1>3. CASE DBToggles
  BY <1>3
  DEF DBToggles, TypeOK, NodeInv, IndexTypeOK, BrokerTypeOK, brokerVars, zmqVars, chanVars,
      tabVars, Best
<1> QED BY <1>1, <1>2, <1>3

LEMMA TypeGoroutine ==
    ASSUME TypeInv, Goroutine
    PROVE  TypeInv'
<1> USE HeightFacts
    DEF TypeInv, TypeOK, NodeInv, IndexTypeOK, BrokerTypeOK, brokerVars, tabVars, chanVars, Best
<1>1. CASE Receive
  <2>1. msgs' \in 0..MaxMsgs
    BY <1>1, GeneratorAssumption DEF Receive
  <2> QED BY <1>1, <2>1 DEF Receive
<1>2. CASE ReceiveFails
  BY <1>2 DEF ReceiveFails
<1> QED BY <1>1, <1>2 DEF Goroutine

\* The main loop between two generates.
LEMMA TypeLoop ==
    ASSUME TypeInv, OnBlock \/ AfterPause \/ OnZMQError \/ OnForce \/ OnTick \/ Poll
    PROVE  TypeInv'
<1> USE DEF TypeInv, TypeOK, NodeInv, IndexTypeOK, BrokerTypeOK, brokerVars, zmqVars,
            chanVars, tabVars, Best, Height
<1>1. CASE OnBlock
  BY <1>1 DEF OnBlock
<1>2. CASE AfterPause
  BY <1>2 DEF AfterPause, Generate
<1>3. CASE OnZMQError
  <2>1. errCh' \in BOOLEAN
    BY <1>3 DEF OnZMQError
  <2> QED BY <1>3, <2>1 DEF OnZMQError
<1>4. CASE OnForce
  BY <1>4 DEF OnForce, Generate
<1>5. CASE OnTick
  <2>1. tick' \in 0..(PollTicks - 1)
    BY <1>5, GeneratorAssumption DEF OnTick
  <2>2. forceCh' \in BOOLEAN
    BY <1>5 DEF OnTick, CheckInput
  <2>3. gpc' \in {"poll", "select"}
    BY <1>5 DEF OnTick
  <2> QED BY <1>5, <2>1, <2>2, <2>3 DEF OnTick
<1>6. CASE Poll
  BY <1>6 DEF Poll, Generate
<1> QED BY <1>1, <1>2, <1>3, <1>4, <1>5, <1>6

\* generate, the broadcast that follows, and the end of the process.
LEMMA TypeGenerate ==
    ASSUME TypeInv,
           GenerateFails \/ ReadLatestBlocks \/ ReadStats \/ Render \/ Rename
             \/ BroadcastNewBlock \/ Crash \/ Restart
    PROVE  TypeInv'
<1>0. NoPage \in [tip : Height, num : Height] /\ NoFile \in PageFile /\ MaxHeight \in Nat
      /\ Best \in Height /\ -1 \in Height /\ 0 \in Height
  BY PageReset, HeightFacts
<1> USE DEF TypeInv, TypeOK, NodeInv, IndexTypeOK, BrokerTypeOK, brokerVars, zmqVars,
            chanVars, tabVars
<1>1. CASE GenerateFails
  BY <1>0, <1>1 DEF GenerateFails, GenerateDone, Best
<1>2. CASE ReadLatestBlocks
  <2>1. CASE GenerateFails
    BY <2>1, <1>1
  <2>2. CASE ~GenerateFails
    <3>1. page' \in [tip : Height, num : Height]
      BY <1>0, <1>2, <2>2 DEF ReadLatestBlocks
    <3> QED BY <1>2, <2>2, <3>1 DEF ReadLatestBlocks, Best
  <2> QED BY <2>1, <2>2
<1>3. CASE ReadStats
  <2>1. CASE GenerateFails
    BY <2>1, <1>1
  <2>2. CASE ~GenerateFails
    <3>1. page' \in [tip : Height, num : Height]
      <4>1. (IF Best = -1 THEN 0 ELSE Best) \in Height
        BY <1>0
      <4> QED BY <1>3, <2>2, <4>1 DEF ReadStats
    <3>2. tmp' \in PageFile
      BY <1>0, <1>3, <2>2 DEF ReadStats, Create, PageFile, NoFile
    <3> QED BY <1>3, <2>2, <3>1, <3>2 DEF ReadStats, Create, Best
  <2> QED BY <2>1, <2>2
<1>4. CASE Render
  <2>1. tmp' \in PageFile
    BY <1>0, <1>4 DEF Render, PageFile, NoFile
  <2> QED BY <1>4, <2>1 DEF Render, Best
<1>5. CASE Rename
  BY <1>0, <1>5 DEF Rename, GenerateDone, Best
<1>6. CASE BroadcastNewBlock
  BY <1>6 DEF BroadcastNewBlock, Broadcast, Best
<1>7. CASE Crash
  <2>1. crashes' \in 0..MaxCrashes
    BY <1>7, GeneratorAssumption DEF Crash
  <2>2. conn' \in [Tab -> {"none", "empty", "full"}] /\ wire' \in [Tab -> BOOLEAN]
    BY <1>7 DEF Crash
  <2>3. tab' \in [Tab -> {"closed", "loaded", "live"}]
    BY <1>7 DEF Crash
  <2>4. tick' \in 0..(PollTicks - 1) /\ msgs' \in 0..MaxMsgs
    BY <1>0, <1>7, HeightFacts, GeneratorAssumption DEF Crash
  <2>5. missed' \in [Tab -> BOOLEAN]
    BY <1>7 DEF Crash
  <2> QED BY <1>0, <1>7, <2>1, <2>2, <2>3, <2>4, <2>5 DEF Crash, Best
<1>8. CASE Restart
  BY <1>8 DEF Restart, Generate, Best
<1> QED BY <1>1, <1>2, <1>3, <1>4, <1>5, <1>6, <1>7, <1>8

LEMMA TypeTabs ==
    ASSUME TypeInv, NEW t \in Tab,
           OpenTab(t) \/ Connect(t) \/ SendEvent(t) \/ Reload(t) \/ Disconnect(t)
    PROVE  TypeInv'
<1>0. file.tip \in Height
  BY DEF TypeInv, TypeOK, PageFile
<1> USE DEF TypeInv, TypeOK, NodeInv, IndexTypeOK, BrokerTypeOK, brokerVars, zmqVars,
            chanVars, tabVars, Best
<1>1. CASE OpenTab(t)
  BY <1>0, <1>1 DEF OpenTab, Load
<1>2. CASE Connect(t)
  <2>1. missed' \in [Tab -> BOOLEAN]
    BY <1>2 DEF Connect
  <2> QED BY <1>2, <2>1 DEF Connect, Subscribe
<1>3. CASE SendEvent(t)
  BY <1>3 DEF SendEvent, Deliver
<1>4. CASE Reload(t)
  BY <1>0, <1>4 DEF Reload, Load, Unsubscribe
<1>5. CASE Disconnect(t)
  BY <1>5 DEF Disconnect, Unsubscribe
<1> QED BY <1>1, <1>2, <1>3, <1>4, <1>5

LEMMA TypeStep == TypeInv /\ [Next]_vars => TypeInv'
<1> SUFFICES ASSUME TypeInv, [Next]_vars PROVE TypeInv'
  OBVIOUS
<1>1. CASE UNCHANGED vars
  BY <1>1
  DEF TypeInv, TypeOK, NodeInv, IndexTypeOK, BrokerTypeOK, vars, brokerVars, zmqVars,
      chanVars, tabVars, Best
<1> QED
  BY <1>1, TypeOutside, TypeGoroutine, TypeLoop, TypeGenerate, TypeTabs
  DEF Next, Environment, GenerateStep, RenderFails

\* Every variable keeps its type.
THEOREM TypeCorrect == Spec => []TypeOK
<1>1. TypeInv => TypeOK
  BY DEF TypeInv
<1> QED BY <1>1, TypeInit, TypeStep, PTL DEF Spec

-----------------------------------------------------------------------------
(* What generate has read, and what is in place.                           *)

\* A page is read only while generate runs.
Reading == gpc \in {"stats", "render", "rename"}

\* What Render leaves in the temporary file: the page that was read, or a file
\* cut short.
Rendered ==
    \/ tmp = [state |-> "whole", tip |-> page.tip, num |-> page.num]
    \/ tmp = [NoFile EXCEPT !.state = "short"]

\* The list was taken from the index, after whatever is in place; the
\* statistics were taken after the list.
PageInv ==
    /\ ~Reading => page = NoPage
    /\ page.tip <= Best
    /\ file.tip <= Best
    /\ Reading => page.tip = -1 \/ file.tip <= page.tip
    /\ gpc \in {"render", "rename"} => page.tip <= page.num
    /\ gpc = "rename" => Rendered
    /\ PageConsistent
    /\ ServedWhole

LEMMA PageInit == Init => PageInv
BY DEF Init, IndexInit, PageInv, Reading, NoPage, NoFile, PageConsistent, ServedWhole, Best

\* Steps that touch neither a page nor the index.
LEMMA PageElsewhere ==
    ASSUME PageInv, UNCHANGED <<index, file>>,
           \/ UNCHANGED <<page, tmp, gpc>>
           \/ ~Reading' /\ page' = NoPage
    PROVE  PageInv'
BY DEF PageInv, Rendered, Reading, NoPage, PageConsistent, ServedWhole, Best

LEMMA PageStep == TypeInv /\ PageInv /\ [Next]_vars => PageInv'
<1> SUFFICES ASSUME TypeInv, PageInv, [Next]_vars PROVE PageInv'
  OBVIOUS
<1>1. /\ Best \in Int /\ Best >= -1
      /\ page \in [tip : Int, num : Int]
      /\ file.tip \in Int /\ file.num \in Int
  BY HeightFacts DEF TypeInv, TypeOK, PageFile, Height
<1>2. CASE IndexerCommits
  <2>1. Best' > Best
    BY <1>2, IndexGrowth, <1>1 DEF IndexerCommits, TypeInv, TypeOK, Best, IndexTypeOK
  <2>2. Best' \in Int
    BY <1>2, IndexGrowth DEF IndexerCommits, TypeInv, TypeOK, Best, IndexTypeOK
  <2> QED
    BY <1>1, <1>2, <2>1, <2>2
    DEF IndexerCommits, PageInv, Rendered, Reading, PageConsistent, ServedWhole
<1>3. CASE GenerateFails
  BY <1>3, PageElsewhere DEF GenerateFails, GenerateDone, Reading
<1>4. CASE ReadLatestBlocks
  <2>1. CASE page' = [page EXCEPT !.tip = IF dbUp THEN Best ELSE -1]
    <3>1. page = NoPage /\ gpc = "latest"
      BY <1>4 DEF ReadLatestBlocks, PageInv, Reading
    <3>2. CASE GenerateFails
      BY <3>2, <1>3
    <3>3. CASE ~GenerateFails
      <4>1. gpc' = "stats" /\ UNCHANGED <<index, file>>
        BY <1>4, <3>3 DEF ReadLatestBlocks
      <4>2. page'.tip = Best \/ page'.tip = -1
        BY <1>1, <2>1
      <4> QED
        BY <1>1, <4>1, <4>2 DEF PageInv, Reading, PageConsistent, ServedWhole, Best
    <3> QED BY <3>2, <3>3
  <2> QED BY <1>3, <1>4, <2>1 DEF ReadLatestBlocks
<1>5. CASE ReadStats
  <2>1. CASE GenerateFails
    BY <2>1, <1>3
  <2>2. CASE ~GenerateFails
    <3>1. /\ gpc = "stats" /\ gpc' = "render"
          /\ page' = [page EXCEPT !.num = IF Best = -1 THEN 0 ELSE Best]
          /\ UNCHANGED <<index, file>>
      BY <1>5, <2>2 DEF ReadStats, Create
    <3>2. page'.tip = page.tip /\ page'.num = (IF Best = -1 THEN 0 ELSE Best)
      BY <1>1, <3>1
    <3> QED
      BY <1>1, <3>1, <3>2 DEF PageInv, Reading, PageConsistent, ServedWhole, Best
  <2> QED BY <2>1, <2>2
<1>6. CASE Render
  BY <1>6 DEF Render, PageInv, Rendered, Reading, PageConsistent, ServedWhole, Best
<1>7. CASE Rename
  <2>1. /\ gpc = "rename" /\ gpc' \in {"broadcast", "select"} /\ page' = NoPage
        /\ file' = tmp /\ Rendered
        /\ UNCHANGED index
    BY <1>7 DEF Rename, GenerateDone, PageInv
  <2>2. NoPage.tip = -1
    BY DEF NoPage
  <2>3. CASE tmp = [state |-> "whole", tip |-> page.tip, num |-> page.num]
    <3>1. file'.state = "whole" /\ file'.tip = page.tip /\ file'.num = page.num
      BY <2>1, <2>3
    <3> QED
      BY <1>1, <2>1, <2>2, <3>1 DEF PageInv, Reading, PageConsistent, ServedWhole, Best
  <2>4. CASE tmp = [NoFile EXCEPT !.state = "short"]
    <3>1. file'.state = "short" /\ file'.tip = -1
      BY <2>1, <2>4 DEF NoFile
    <3> QED
      BY <1>1, <2>1, <2>2, <3>1 DEF PageInv, Reading, PageConsistent, ServedWhole, Best
  <2> QED BY <2>1, <2>3, <2>4 DEF Rendered
<1>8. CASE UNCHANGED <<index, file>> /\ (UNCHANGED <<page, tmp, gpc>> \/ (~Reading' /\ page' = NoPage))
  BY <1>8, PageElsewhere
<1>9. CASE OnBlock \/ AfterPause \/ OnZMQError \/ OnForce \/ OnTick \/ Poll \/ BroadcastNewBlock
  <2>1. ~Reading /\ ~Reading' /\ page' = page /\ UNCHANGED <<index, file>>
    BY <1>9
    DEF OnBlock, AfterPause, OnZMQError, OnForce, OnTick, Poll, BroadcastNewBlock, Generate,
        Reading
  <2>2. page' = NoPage
    BY <2>1 DEF PageInv
  <2> QED BY <1>8, <2>1, <2>2
<1>10. CASE Crash
  BY <1>8, <1>10 DEF Crash, Reading
<1>11. CASE Restart
  <2>1. page' = NoPage
    BY <1>11 DEF Restart, PageInv, Reading
  <2> QED BY <1>8, <1>11, <2>1 DEF Restart, Generate, Reading
<1>12. CASE NodeBlock \/ DBToggles \/ Goroutine \/ UNCHANGED vars
  <2>1. UNCHANGED <<index, file>> /\ UNCHANGED <<page, tmp, gpc>>
    BY <1>12
    DEF NodeBlock, DBToggles, Goroutine, Receive, ReceiveFails, vars
  <2> QED BY <2>1, PageElsewhere
<1>13. ASSUME NEW t \in Tab,
              OpenTab(t) \/ Connect(t) \/ SendEvent(t) \/ Reload(t) \/ Disconnect(t)
       PROVE  PageInv'
  <2>1. UNCHANGED <<index, file>> /\ UNCHANGED <<page, tmp, gpc>>
    BY <1>13 DEF OpenTab, Connect, SendEvent, Reload, Disconnect
  <2> QED BY <2>1, PageElsewhere
<1> QED
  BY <1>2, <1>3, <1>4, <1>5, <1>6, <1>7, <1>9, <1>10, <1>11, <1>12, <1>13
  DEF Next, Environment, GenerateStep, RenderFails

LEMMA PageInvariance == Spec => [](TypeInv /\ PageInv)
BY TypeInit, TypeStep, PageInit, PageStep, PTL DEF Spec

\* The statistics on a page are never behind the blocks listed on it.
THEOREM PagesAreConsistent == Spec => []PageConsistent
<1>1. PageInv => PageConsistent
  BY DEF PageInv
<1> QED BY <1>1, PageInvariance, PTL

\* The page never goes back to an older tip, except to a list that came out empty
\* or to a page left short.
THEOREM PageOnlyAdvances == Spec => PageNeverGoesBack
<1>1. TypeInv /\ PageInv /\ [Next]_vars => [file'.tip >= file.tip \/ file'.tip = -1]_vars
  <2> SUFFICES ASSUME TypeInv, PageInv, Next
               PROVE  file'.tip >= file.tip \/ file'.tip = -1
    OBVIOUS
  <2>1. page.tip \in Int /\ file.tip \in Int
    BY HeightFacts DEF TypeInv, TypeOK, PageFile
  <2>2. CASE Rename
    <3>1. Rendered /\ file' = tmp /\ (page.tip = -1 \/ file.tip <= page.tip)
      BY <2>2 DEF Rename, PageInv, Reading
    <3>2. file'.tip = page.tip \/ file'.tip = -1
      BY <3>1 DEF Rendered, NoFile
    <3> QED BY <2>1, <3>1, <3>2
  <2>3. CASE file' = file
    BY <2>1, <2>3
  <2>4. ~Rename => file' = file
    BY DEF Next, Environment, GenerateStep, RenderFails, Goroutine, NodeBlock, IndexerCommits,
           DBToggles, Crash, Restart, OpenTab, Disconnect, Connect, SendEvent, Reload, Receive,
           ReceiveFails, AfterPause, Poll, GenerateFails, ReadLatestBlocks,
           ReadStats, Create, Render, BroadcastNewBlock, OnBlock, OnZMQError, OnForce, OnTick
  <2> QED BY <2>2, <2>3, <2>4
<1> QED BY <1>1, PageInvariance, PTL DEF Spec, PageNeverGoesBack

\* No visitor gets a page that the template has not finished: what is put in
\* place has been through Render, also when the generator died in the middle of
\* an earlier one.
THEOREM PagesAreWhole == Spec => []ServedWhole
<1>1. PageInv => ServedWhole
  BY DEF PageInv
<1> QED BY <1>1, PageInvariance, PTL

-----------------------------------------------------------------------------
(* No update is lost between a rename and the tab.                         *)

\* A live tab has its connection in the client map.
UpdateInv ==
    /\ \A t \in Tab : tab[t] = "live" => conn[t] # "none"
    /\ NoLostUpdate

LEMMA UpdateInit == Init => UpdateInv
BY DEF Init, UpdateInv, NoLostUpdate

\* Steps that touch neither the page in place, the tabs nor the broker, and do
\* not leave the broadcast undone.
LEMMA UpdateElsewhere ==
    ASSUME UpdateInv, UNCHANGED <<file, tabVars, brokerVars>>,
           gpc = "broadcast" => gpc' = "broadcast"
    PROVE  UpdateInv'
BY DEF UpdateInv, NoLostUpdate, tabVars, brokerVars

LEMMA UpdateStep == TypeInv /\ UpdateInv /\ [Next]_vars => UpdateInv'
<1> SUFFICES ASSUME TypeInv, UpdateInv, [Next]_vars PROVE UpdateInv'
  OBVIOUS
<1>0. /\ conn \in [Tab -> {"none", "empty", "full"}] /\ wire \in [Tab -> BOOLEAN]
      /\ tab \in [Tab -> {"closed", "loaded", "live"}] /\ shown \in [Tab -> Height]
      /\ missed \in [Tab -> BOOLEAN]
      /\ \A k \in Height : k \in Int
      /\ file.tip \in Height
  BY HeightFacts DEF TypeInv, TypeOK, BrokerTypeOK, PageFile
<1>1. CASE NodeBlock \/ IndexerCommits \/ DBToggles \/ Goroutine \/ UNCHANGED vars
  <2>1. UNCHANGED <<file, tabVars, brokerVars>> /\ gpc' = gpc
    BY <1>1
    DEF NodeBlock, IndexerCommits, DBToggles, Goroutine, Receive, ReceiveFails, vars
  <2> QED BY <2>1, UpdateElsewhere
<1>2. CASE OnBlock \/ AfterPause \/ OnZMQError \/ OnForce \/ OnTick \/ Poll
           \/ ReadLatestBlocks \/ ReadStats \/ Render \/ RenderFails \/ Restart
  <2>1. UNCHANGED <<file, tabVars, brokerVars>> /\ gpc # "broadcast"
    BY <1>2
    DEF OnBlock, AfterPause, OnZMQError, OnForce, OnTick, Poll, ReadLatestBlocks,
        ReadStats, Create, Render, RenderFails, GenerateFails, Restart
  <2> QED BY <2>1, UpdateElsewhere
<1>3. CASE Rename
  <2>1. /\ UNCHANGED <<conn, wire, tab, shown>>
        /\ announce => gpc' = "broadcast"
        /\ missed' = [t \in Tab |-> missed[t] \/ (tab[t] = "live" /\ ~announce)]
    BY <1>3 DEF Rename, GenerateDone, brokerVars
  <2> QED BY <1>0, <2>1 DEF UpdateInv, NoLostUpdate
<1>4. CASE BroadcastNewBlock
  <2>1. /\ UNCHANGED <<tab, shown, missed, file, wire>>
        /\ conn' = [t \in Tab |-> IF conn[t] = "none" THEN "none" ELSE "full"]
    BY <1>4 DEF BroadcastNewBlock, Broadcast, tabVars
  <2> QED BY <1>0, <2>1 DEF UpdateInv, NoLostUpdate
<1>5. CASE Crash
  <2>1. \A t \in Tab : tab'[t] # "live"
    BY <1>0, <1>5 DEF Crash
  <2> QED BY <2>1 DEF UpdateInv, NoLostUpdate
<1>6. ASSUME NEW t \in Tab, OpenTab(t) \/ Disconnect(t)
      PROVE  UpdateInv'
  BY <1>0, <1>6
  DEF OpenTab, Disconnect, Load, Unsubscribe, UpdateInv, NoLostUpdate, brokerVars
<1>7. ASSUME NEW t \in Tab, Connect(t) PROVE UpdateInv'
  <2>1. /\ UNCHANGED <<file, gpc, shown, wire>>
        /\ conn' = [conn EXCEPT ![t] = "empty"]
        /\ tab' = [tab EXCEPT ![t] = "live"]
        /\ missed' = [missed EXCEPT ![t] = shown[t] < file.tip /\ gpc # "broadcast"]
    BY <1>7 DEF Connect, Subscribe
  <2> QED BY <1>0, <2>1 DEF UpdateInv, NoLostUpdate
<1>8. ASSUME NEW t \in Tab, SendEvent(t) PROVE UpdateInv'
  <2>1. /\ UNCHANGED <<file, gpc, tab, shown, missed>>
        /\ conn' = [conn EXCEPT ![t] = "empty"]
        /\ wire' = [wire EXCEPT ![t] = TRUE]
    BY <1>8 DEF SendEvent, Deliver, tabVars
  <2> QED BY <1>0, <2>1 DEF UpdateInv, NoLostUpdate
<1>9. ASSUME NEW t \in Tab, Reload(t) PROVE UpdateInv'
  <2>1. /\ UNCHANGED <<file, gpc>>
        /\ conn' = [conn EXCEPT ![t] = "none"]
        /\ wire' = [wire EXCEPT ![t] = FALSE]
        /\ tab' = [tab EXCEPT ![t] = "loaded"]
        /\ shown' = [shown EXCEPT ![t] = file.tip]
        /\ missed' = [missed EXCEPT ![t] = FALSE]
    BY <1>9 DEF Reload, Load, Unsubscribe
  <2> QED BY <1>0, <2>1 DEF UpdateInv, NoLostUpdate
<1> QED
  BY <1>1, <1>2, <1>3, <1>4, <1>5, <1>6, <1>7, <1>8, <1>9
  DEF Next, Environment, GenerateStep

\* A subscribed tab whose page is out of date has an event coming: skipping a
\* full channel or merging two signals loses no update, for every set of tabs.
THEOREM UpdatesReachTabs == Spec => []NoLostUpdate
<1>1. UpdateInv => NoLostUpdate
  BY DEF UpdateInv
<1> QED BY <1>1, TypeInit, TypeStep, UpdateInit, UpdateStep, PTL DEF Spec
=============================================================================

--------------------------- MODULE ExplorerProofs ---------------------------
(***************************************************************************)
(* Proofs about Explorer, for every page size, every window and every way  *)
(* the index grows.                                                        *)
(***************************************************************************)
EXTENDS Explorer, FiniteSetTheorems, TLAPS

\* Rounding up gives a natural number of pages.
LEMMA PageCountNat ==
    ASSUME NEW n \in Nat, NEW size \in Nat \ {0}
    PROVE  PageCount(n, size) \in Nat
BY DEF PageCount

\* The pages within half a window of a page.
Around(current) == (current - Window \div 2)..(current + (Window - 1) \div 2)

\* PageWindow returns pages that exist, as many as fit, and those around the
\* current one if it exists.
LEMMA WindowExact ==
    ASSUME NEW current \in Nat, NEW pages \in Nat
    PROVE  LET shown == PageWindow(current, pages) IN
           /\ shown \subseteq 1..pages
           /\ Cardinality(shown) = IF pages < Window THEN pages ELSE Window
           /\ current \in 1..pages => Around(current) \cap 1..pages \subseteq shown
<1> DEFINE first == FirstStart(current)
           last  == first + Window - 1
           low   == IF pages - Window + 1 < 1 THEN 1 ELSE pages - Window + 1
<1>1. first \in Nat \ {0} /\ (first = 1 \/ first = current - Window \div 2)
  BY PagingAssumption DEF FirstStart
<1>2. current + (Window - 1) \div 2 <= last /\ Window \div 2 \in Nat /\ (Window - 1) \div 2 \in Nat
  BY PagingAssumption DEF FirstStart
<1>3. CASE last <= pages
  <2>1. PageWindow(current, pages) = first..last
    BY <1>3 DEF PageWindow
  <2>2. Cardinality(first..last) = Window
    <3>1. first \in Int /\ last \in Int /\ first <= last /\ last - first + 1 = Window
      BY <1>1, PagingAssumption
    <3> HIDE DEF first, last
    <3> QED BY <3>1, FS_Interval
  <2>3. Window <= pages
    <3> HIDE DEF first
    <3> QED BY <1>1, <1>3, PagingAssumption
  <2>4. last \in Int
    BY <1>1, PagingAssumption
  <2>5. first..last \subseteq 1..pages
    <3> HIDE DEF first, last
    <3> QED BY <1>1, <1>3, <2>4
  <2>6. Around(current) \cap 1..pages \subseteq first..last
    <3> HIDE DEF first, last
    <3> QED BY <1>1, <1>2, <2>4 DEF Around
  <2>7. ~(pages < Window)
    BY <2>3, PagingAssumption
  <2> HIDE DEF first, last
  <2> QED BY <2>1, <2>2, <2>5, <2>6, <2>7
<1>4. CASE last > pages
  <2>1. PageWindow(current, pages) = low..pages
    BY <1>1, <1>4, PagingAssumption DEF PageWindow
  <2>2. low \in Nat \ {0} /\ low <= pages + 1
    BY PagingAssumption
  <2>3. pages - low + 1 = IF pages < Window THEN pages ELSE Window
    BY PagingAssumption
  <2>4. low = 1 \/ low <= current - Window \div 2
    <3>1. low = 1 \/ low <= first
      BY <1>1, <1>4, PagingAssumption
    <3> HIDE DEF low, first, last
    <3> QED BY <1>1, <1>2, <2>2, <3>1
  <2>5. Cardinality(low..pages) = pages - low + 1
    <3> HIDE DEF low
    <3>1. Cardinality(low..pages) = IF low > pages THEN 0 ELSE pages - low + 1
      BY <2>2, FS_Interval
    <3> QED BY <3>1, <2>2
  <2>6. low..pages \subseteq 1..pages
    <3> HIDE DEF low
    <3> QED BY <2>2
  <2>7. Around(current) \cap 1..pages \subseteq low..pages
    <3> HIDE DEF low
    <3> QED BY <1>2, <2>2, <2>4 DEF Around
  <2> HIDE DEF low
  <2> QED BY <2>1, <2>3, <2>5, <2>6, <2>7
<1> QED
  <2>1. last \in Int
    BY <1>1, PagingAssumption
  <2> HIDE DEF first, last, low
  <2> QED BY <2>1, <1>3, <1>4

-----------------------------------------------------------------------------
(* The inductive invariant.                                                *)

NumbersOK ==
    /\ index \in Seq(Block)
    /\ page \in Nat
    /\ total \in Nat
    /\ older \in Nat

\* Once the next block has been found, the tip is above the block shown.
BlockPageOK ==
    /\ vpc \in {"next", "tip", "extra", "block"} =>
         block \in [height : Heights, next : BOOLEAN, confirmations : Nat]
    /\ vpc = "next" => ~block.next
    /\ vpc = "next" \/ vpc = "tip" => block.confirmations = 0
    /\ vpc = "tip" /\ block.next => block.height < Best
    /\ vpc = "extra" /\ block.next /\ block.confirmations # 0 => block.confirmations >= 2
    /\ SuccessorConfirms

PageNumbersOK == vpc = "window" => nums = PageWindow(page, PageCount(total, MultiTxPageSize))

IInv == NumbersOK /\ BlockPageOK /\ PageNumbersOK

\* The index only gets longer.
LEMMA IndexGrowth ==
    ASSUME NumbersOK, AppendBatch
    PROVE  index' \in Seq(Block) /\ Len(index') >= Len(index)
<1>1. PICK n \in 1..BatchBlocks : \E batch \in Batches(n) : index' = index \o batch
  BY DEF AppendBatch
<1>2. PICK batch \in [1..n -> Block] : index' = index \o batch
  BY <1>1 DEF Batches
<1>3. batch \in Seq(Block)
  BY <1>2, IndexAssumption
<1> QED BY <1>2, <1>3 DEF NumbersOK

LEMMA CountedNat ==
    ASSUME NumbersOK
    PROVE  Cardinality(Several \cap Heights) \in Nat
<1>1. IsFiniteSet(Heights)
  BY FS_Interval DEF NumbersOK, Heights
<1>2. IsFiniteSet(Several \cap Heights)
  BY <1>1, FS_Intersection
<1> QED BY <1>2, FS_CardinalityType

LEMMA InvInit == Init => IInv
BY DEF Init, IndexInit, IInv, NumbersOK, BlockPageOK, PageNumbersOK,
       SuccessorConfirms, NoBlock

LEMMA InvStep == IInv /\ [Next]_vars => IInv'
<1> SUFFICES ASSUME IInv, [Next]_vars PROVE IInv'
  OBVIOUS
<1> USE DEF IInv, NumbersOK
<1> DEFINE OtherPages == vpc' \notin {"next", "tip", "extra", "block", "window"}
<1>0. OtherPages => BlockPageOK' /\ PageNumbersOK'
  BY DEF BlockPageOK, PageNumbersOK, SuccessorConfirms
<1>1. ASSUME UNCHANGED <<index, visitVars>> PROVE IInv'
  BY <1>1 DEF visitVars, BlockPageOK, PageNumbersOK, SuccessorConfirms, Heights, Best
<1>2. CASE IndexGrows
  <2>1. index' \in Seq(Block) /\ Len(index') >= Len(index)
    BY <1>2, IndexGrowth DEF IndexGrows
  <2>2. BlockPageOK'
    BY <1>2, <2>1 DEF IndexGrows, BlockPageOK, SuccessorConfirms, Heights, Best
  <2> QED BY <1>2, <2>1, <2>2 DEF IndexGrows, PageNumbersOK
<1>3. CASE Leave
  BY <1>3, <1>0 DEF Leave
<1>4. CASE OpenHomepage
  BY <1>4, <1>0 DEF OpenHomepage
<1>5. CASE CountBlocks
  BY <1>5, <1>0 DEF CountBlocks
<1>6. CASE ListBlocks
  BY <1>6, <1>0 DEF ListBlocks
<1>7. CASE FindBlock
  <2>1. PICK k \in Heights : block' = [NoBlock EXCEPT !.height = k]
    BY <1>7 DEF FindBlock
  <2>2. block' = [height |-> k, next |-> FALSE, confirmations |-> 0]
    BY <2>1 DEF NoBlock
  <2> QED
    BY <1>7, <2>2 DEF FindBlock, BlockPageOK, PageNumbersOK, SuccessorConfirms, Heights
<1>8. CASE FindNext
  <2>1. block \in [height : Heights, next : BOOLEAN, confirmations : Nat]
        /\ ~block.next /\ block.confirmations = 0
    BY <1>8 DEF FindNext, BlockPageOK
  <2>2. block' \in [height : Heights, next : BOOLEAN, confirmations : Nat]
        /\ block'.confirmations = 0
        /\ (block'.next => block'.height < Best)
    <3>1. CASE block' = block
      BY <3>1, <2>1
    <3>2. CASE block' = [block EXCEPT !.next = block.height < Best]
      <4>1. block' = [height |-> block.height, next |-> block.height < Best,
                      confirmations |-> block.confirmations]
        BY <3>2, <2>1
      <4>2. (block.height < Best) \in BOOLEAN
        OBVIOUS
      <4> QED BY <4>1, <4>2, <2>1
    <3> QED BY <1>8, <3>1, <3>2 DEF FindNext
  <2> QED
    BY <1>8, <2>2 DEF FindNext, BlockPageOK, PageNumbersOK, SuccessorConfirms, Heights, Best
<1>9. CASE CountConfirmations
  <2>1. block \in [height : Heights, next : BOOLEAN, confirmations : Nat]
        /\ block.confirmations = 0 /\ (block.next => block.height < Best)
    BY <1>9 DEF CountConfirmations, BlockPageOK
  <2>2. Best - block.height + 1 \in Nat
    BY <2>1 DEF Heights, Best
  <2>3. block' \in [height : Heights, next : BOOLEAN, confirmations : Nat]
        /\ (block'.next /\ block'.confirmations # 0 => block'.confirmations >= 2)
    BY <1>9, <2>1, <2>2 DEF CountConfirmations, Heights, Best
  <2> QED
    BY <1>9, <2>3 DEF CountConfirmations, BlockPageOK, PageNumbersOK, SuccessorConfirms, Heights
<1>10. CASE CountMulti
  BY <1>10, <1>0, CountedNat DEF CountMulti
<1>11. CASE ListMulti
  BY <1>11 DEF ListMulti, BlockPageOK, PageNumbersOK, SuccessorConfirms
<1>12. CASE GetBlockExtra
  BY <1>12 DEF GetBlockExtra, BlockPageOK, PageNumbersOK, SuccessorConfirms, Heights, Best
<1> QED
  BY <1>1, <1>2, <1>3, <1>4, <1>5, <1>6, <1>7, <1>8, <1>9, <1>10, <1>11, <1>12
  DEF Next, Second, Generate, vars

LEMMA Invariance == Spec => []IInv
BY InvInit, InvStep, PTL DEF Spec

-----------------------------------------------------------------------------
\* A block page that shows a successor shows two confirmations or more,
\* although the two come from queries made at different moments.
THEOREM SuccessorIsConfirmed == Spec => []SuccessorConfirms
<1>1. IInv => SuccessorConfirms
  BY DEF IInv, BlockPageOK
<1> QED BY <1>1, Invariance, PTL

\* The page numbers under the list of blocks with several transactions exist,
\* are as many as fit, and include the page shown and its neighbours, for every
\* window and for every page number asked for.
THEOREM WindowAlwaysFits == Spec => []WindowFits
<1>1. IInv => WindowFits
  BY PageCountNat, WindowExact, PagingAssumption
  DEF IInv, NumbersOK, PageNumbersOK, WindowFits, Around
<1> QED BY <1>1, Invariance, PTL

-----------------------------------------------------------------------------
(* Walking through the older pages.                                        *)

\* Rounding up: a page number below the count leaves rows, one from it on none.
LEMMA PageCountExact ==
    ASSUME NEW n \in Nat, NEW p \in Nat
    PROVE  p < PageCount(n, HomePageSize) <=> p * HomePageSize < n
<1> DEFINE q == PageCount(n, HomePageSize)
<1>1. q \in Nat /\ HomePageSize \in Nat /\ HomePageSize >= 1
  BY PageCountNat, PagingAssumption
<1>2. q * HomePageSize <= n + HomePageSize - 1 /\ n + HomePageSize - 1 < q * HomePageSize + HomePageSize
  BY PagingAssumption DEF PageCount
<1> HIDE DEF q
<1>3. CASE p < q
  <2>1. (p + 1) * HomePageSize <= q * HomePageSize
    BY <1>1, <1>3
  <2>2. (p + 1) * HomePageSize = p * HomePageSize + HomePageSize
    BY <1>1
  <2>3. p * HomePageSize \in Nat /\ q * HomePageSize \in Nat
    BY <1>1
  <2> QED BY <1>1, <1>2, <1>3, <2>1, <2>2, <2>3 DEF q
<1>4. CASE p >= q
  <2>1. q * HomePageSize <= p * HomePageSize
    BY <1>1, <1>4
  <2>2. p * HomePageSize \in Nat /\ q * HomePageSize \in Nat
    BY <1>1
  <2> QED BY <1>1, <1>2, <1>4, <2>1, <2>2 DEF q
<1> QED BY <1>1, <1>3, <1>4

\* Page p of n blocks is an interval of heights, counted from the top.
LEMMA ListedInterval ==
    ASSUME NEW n \in Nat, NEW p \in Nat \ {0}
    PROVE  Listed(0..(n - 1), p, HomePageSize) =
             {h \in 0..(n - 1) : n - p * HomePageSize <= h /\ h < n - (p - 1) * HomePageSize}
<1>1. ASSUME NEW h \in 0..(n - 1)
      PROVE  Cardinality({g \in 0..(n - 1) : g > h}) = n - 1 - h
  <2>1. {g \in 0..(n - 1) : g > h} = (h + 1)..(n - 1)
    OBVIOUS
  <2>2. h + 1 \in Int /\ n - 1 \in Int /\ h <= n - 1 /\ h \in Int /\ n \in Int
    OBVIOUS
  <2>3. Cardinality((h + 1)..(n - 1)) =
          IF h + 1 > n - 1 THEN 0 ELSE (n - 1) - (h + 1) + 1
    BY <2>2, FS_Interval
  <2>4. (IF h + 1 > n - 1 THEN 0 ELSE (n - 1) - (h + 1) + 1) = n - 1 - h
    BY <2>2
  <2> QED BY <2>1, <2>3, <2>4
<1>2. Offset(p, HomePageSize) = (p - 1) * HomePageSize /\ Offset(p, HomePageSize) \in Nat
  BY PagingAssumption DEF Offset
<1>3. p * HomePageSize = (p - 1) * HomePageSize + HomePageSize
  BY PagingAssumption
<1>4. HomePageSize \in Nat \ {0}
  BY PagingAssumption
<1>5. ASSUME NEW h \in 0..(n - 1)
      PROVE  n - 1 - h \in Offset(p, HomePageSize)..(Offset(p, HomePageSize) + HomePageSize - 1)
             <=> n - p * HomePageSize <= h /\ h < n - (p - 1) * HomePageSize
  BY <1>2, <1>3, <1>4
<1> QED BY <1>1, <1>5 DEF Listed

\* A list that was not cut short adds all rows.
LEMMA FetchedAll ==
    ASSUME NEW rows, NEW before, Fetch(rows, before)
    PROVE  /\ seen' \subseteq before \cup rows
           /\ "cut" \notin mishaps' => seen' = before \cup rows /\ mishaps' = mishaps
BY DEF Fetch

\* The part of the state that the walk is about.
WalkTypes ==
    /\ index \in Seq(Block)
    /\ home \in 0..Len(index)
    /\ start \in 0..Len(index)
    /\ page \in Nat
    /\ total \in Nat
    /\ older \in Nat
    /\ seen \in SUBSET Heights
    /\ vpc = "shown" => page >= 1 /\ older \in {0, page + 1}
    /\ vpc = "list" => page >= 2

\* How many pages have been listed.
Turned == IF vpc = "list" THEN page - 1 ELSE page

\* What is listed reaches from the newest block that the homepage knew down to
\* some height m, and the page that comes next begins right below m or above:
\* blocks that arrive only push it up.
Covered ==
    \E m \in Int :
        /\ m <= Len(index) - Turned * HomePageSize
        /\ \A h \in seen : m <= h
        /\ \A h \in 0..(start - 1) : m <= h => h \in seen

\* A walk that has listed anything has listed something of the homepage, or
\* goes on to a page that is not empty.
NextNotEmpty ==
    \/ start >= 1
    \/ seen = {}
    \/ Len(index) > Turned * HomePageSize

WalkInv ==
    /\ WalkTypes
    /\ vpc \in {"shown", "list"} /\ "cut" \notin mishaps => Covered
    /\ vpc = "list" /\ "added" \notin mishaps => total = Len(index)
    /\ vpc = "list" \/ (vpc = "shown" /\ older # 0) => (mishaps = {} => NextNotEmpty)
    /\ WalkReachesGenesis

LEMMA WalkInit == Init => WalkInv
BY DEF Init, IndexInit, WalkInv, WalkTypes, WalkReachesGenesis, Walking, Heights

\* More blocks do not disturb what is listed.
LEMMA WalkGrows ==
    ASSUME WalkInv, IndexGrows
    PROVE  WalkInv'
<1>1. /\ index' \in Seq(Block) /\ Len(index') >= Len(index)
      /\ Len(index) \in Nat /\ Len(index') \in Nat
  BY IndexGrowth DEF IndexGrows, WalkInv, WalkTypes, NumbersOK
<1>2. /\ UNCHANGED <<home, vpc, page, total, older, start, seen>>
      /\ mishaps \subseteq mishaps'
      /\ vpc = "list" => "added" \in mishaps'
      /\ vpc # "list" => mishaps' = mishaps
  BY DEF IndexGrows
<1>3. WalkTypes'
  BY <1>1, <1>2 DEF WalkInv, WalkTypes, Heights
<1>4. Turned' = Turned /\ Turned * HomePageSize \in Int
  BY <1>2, PagingAssumption DEF Turned, WalkInv, WalkTypes
<1>5. Covered => Covered'
  BY <1>1, <1>2, <1>4 DEF Covered
<1>6. NextNotEmpty => NextNotEmpty'
  BY <1>1, <1>2, <1>4 DEF NextNotEmpty
<1>7. WalkReachesGenesis'
  BY <1>2 DEF WalkInv, WalkReachesGenesis, Walking
<1> QED BY <1>2, <1>3, <1>5, <1>6, <1>7 DEF WalkInv

\* The homepage lists the newest blocks it knows.
LEMMA WalkOpens ==
    ASSUME WalkInv, OpenHomepage
    PROVE  WalkInv'
<1> DEFINE rows == Listed(0..(home - 1), 1, HomePageSize)
<1>1. /\ vpc' = "shown" /\ page' = 1 /\ start' = home /\ older' = 2
      /\ Fetch(rows, {}) /\ UNCHANGED <<index, home, total>>
  BY DEF OpenHomepage
<1>2. index \in Seq(Block) /\ home \in 0..Len(index) /\ Len(index) \in Nat /\ total \in Nat
  BY DEF WalkInv, WalkTypes
<1>3. rows = {h \in 0..(home - 1) : home - HomePageSize <= h}
  <2>1. rows = {h \in 0..(home - 1) : home - 1 * HomePageSize <= h /\ h < home - 0 * HomePageSize}
    BY <1>2, ListedInterval
  <2>2. 1 * HomePageSize = HomePageSize /\ 0 * HomePageSize = 0
    BY PagingAssumption
  <2>3. HomePageSize \in Nat /\ home \in Nat
    BY <1>2, PagingAssumption
  <2>4. rows = {h \in 0..(home - 1) : home - HomePageSize <= h /\ h < home - 0}
    BY <2>1, <2>2
  <2> HIDE DEF rows
  <2> QED BY <2>3, <2>4
<1> HIDE DEF rows
<1>4. seen' \subseteq rows /\ ("cut" \notin mishaps' => seen' = rows)
  BY <1>1, FetchedAll
<1>5. WalkTypes'
  <2>1. rows \subseteq Heights
    BY <1>2, <1>3 DEF Heights
  <2> QED BY <1>1, <1>2, <1>4, <2>1 DEF WalkTypes, Heights
<1>6. Turned' * HomePageSize = HomePageSize /\ HomePageSize \in Nat
  BY <1>1, PagingAssumption DEF Turned
<1>7. "cut" \notin mishaps' => Covered'
  <2> SUFFICES ASSUME "cut" \notin mishaps' PROVE Covered'
    OBVIOUS
  <2>1. /\ home - HomePageSize \in Int /\ home - HomePageSize <= Len(index') - Turned' * HomePageSize
    BY <1>1, <1>2, <1>6
  <2>2. /\ \A h \in seen' : home - HomePageSize <= h
        /\ \A h \in 0..(start' - 1) : home - HomePageSize <= h => h \in seen'
    BY <1>1, <1>3, <1>4
  <2> QED BY <2>1, <2>2 DEF Covered
<1>8. mishaps' = {} => NextNotEmpty'
  BY <1>1, <1>2, <1>3, <1>4 DEF NextNotEmpty
<1>9. WalkReachesGenesis'
  BY <1>1 DEF WalkReachesGenesis
<1> QED BY <1>1, <1>5, <1>7, <1>8, <1>9 DEF WalkInv

\* A page that is counted goes with the page before it.
LEMMA WalkCounts ==
    ASSUME WalkInv, CountBlocks
    PROVE  WalkInv'
<1>1. /\ vpc = "shown" /\ older # 0 /\ page' = older /\ total' = Len(index) /\ vpc' = "list"
      /\ UNCHANGED <<index, home, older, start, seen, mishaps>>
  BY DEF CountBlocks
<1>2. older = page + 1 /\ page \in Nat /\ page >= 1 /\ Len(index) \in Nat
  BY <1>1 DEF WalkInv, WalkTypes
<1>3. Turned' = Turned
  BY <1>1, <1>2 DEF Turned
<1>4. WalkTypes'
  BY <1>1, <1>2 DEF WalkInv, WalkTypes, Heights
<1>5. /\ Covered => Covered'
      /\ NextNotEmpty => NextNotEmpty'
  BY <1>1, <1>3 DEF Covered, NextNotEmpty
<1> QED BY <1>1, <1>4, <1>5 DEF WalkInv, WalkReachesGenesis, Walking

\* A page that is listed begins at or above the end of what was listed before.
LEMMA WalkLists ==
    ASSUME WalkInv, ListBlocks
    PROVE  WalkInv'
<1> DEFINE n    == Len(index)
           rows == Listed(Heights, page, HomePageSize)
<1>1. /\ vpc = "list" /\ vpc' = "shown" /\ Fetch(rows, seen)
      /\ older' = (IF page < PageCount(total, HomePageSize) THEN page + 1 ELSE 0)
      /\ UNCHANGED <<index, home, page, total, start>>
  BY DEF ListBlocks
<1>2. /\ index \in Seq(Block) /\ n \in Nat /\ page \in Nat /\ page >= 2 /\ total \in Nat
      /\ start \in 0..n /\ seen \subseteq Heights
  BY <1>1 DEF WalkInv, WalkTypes
<1>3. rows = {h \in 0..(n - 1) : n - page * HomePageSize <= h /\ h < n - (page - 1) * HomePageSize}
  BY <1>2, ListedInterval DEF Heights
<1>4. /\ HomePageSize \in Nat \ {0} /\ page * HomePageSize \in Nat /\ (page - 1) * HomePageSize \in Nat
      /\ page * HomePageSize = (page - 1) * HomePageSize + HomePageSize
  BY <1>2, PagingAssumption
<1>5. Turned = page - 1 /\ Turned' = page
  BY <1>1 DEF Turned
<1>6. page < PageCount(total, HomePageSize) <=> page * HomePageSize < total
  BY <1>2, PageCountExact
<1> DEFINE a == page * HomePageSize
           b == (page - 1) * HomePageSize
<1> HIDE DEF n, rows
<1>7. /\ seen' \subseteq seen \cup rows
      /\ "cut" \notin mishaps' => seen' = seen \cup rows /\ mishaps' = mishaps
  BY <1>1, FetchedAll
<1>8. WalkTypes'
  <2>1. rows \subseteq Heights
    BY <1>3 DEF Heights, n
  <2>2. older' \in {0, page' + 1} /\ older' \in Nat /\ page' >= 1
    BY <1>1, <1>2
  <2> QED BY <1>1, <1>2, <1>7, <2>1, <2>2 DEF WalkInv, WalkTypes, Heights, n
<1>9. "cut" \notin mishaps' => Covered'
  <2> SUFFICES ASSUME "cut" \notin mishaps' PROVE Covered'
    OBVIOUS
  <2>1. PICK m \in Int : /\ m <= n - b
                         /\ \A h \in seen : m <= h
                         /\ \A h \in 0..(start - 1) : m <= h => h \in seen
    BY <1>1, <1>5, <1>7 DEF WalkInv, Covered, n
  <2> DEFINE m2 == IF m <= n - a THEN m ELSE n - a
  <2>2. m2 \in Int /\ m2 <= n - a /\ m2 <= m
    BY <1>2, <1>4
  <2>3. seen' = seen \cup rows
    BY <1>7
  <2>4. \A h \in seen' : m2 <= h
    BY <1>2, <1>3, <1>4, <2>1, <2>2, <2>3 DEF Heights, n
  <2>5. ASSUME NEW h \in 0..(start - 1), m2 <= h PROVE h \in seen'
    <3>1. h \in 0..(n - 1)
      BY <1>2
    <3>2. CASE m <= h
      BY <2>1, <2>3, <3>2
    <3>3. CASE h < m
      <4>1. n - a <= h /\ h < n - b
        BY <1>2, <1>4, <2>1, <2>5, <3>1, <3>3
      <4> QED BY <1>3, <2>3, <3>1, <4>1
    <3> QED BY <2>1, <3>1, <3>2, <3>3
  <2>6. Len(index') - Turned' * HomePageSize = n - a /\ start' = start
    BY <1>1, <1>5 DEF n
  <2> HIDE DEF a, m2
  <2> QED BY <2>2, <2>4, <2>5, <2>6 DEF Covered
<1>10. ASSUME mishaps' = {} PROVE mishaps = {} /\ total = n /\ seen' = seen \cup rows
  BY <1>1, <1>7, <1>10 DEF WalkInv, n
<1>11. ASSUME older' # 0, mishaps' = {} PROVE NextNotEmpty'
  BY <1>1, <1>2, <1>5, <1>6, <1>10, <1>11 DEF NextNotEmpty, n
<1>12. WalkReachesGenesis'
  <2> SUFFICES ASSUME older' = 0, mishaps' = {}, seen' # {} PROVE 0 \in seen'
    BY DEF WalkReachesGenesis
  <2>1. n - a <= 0
    BY <1>1, <1>2, <1>4, <1>6, <1>10
  <2>2. CASE start >= 1
    <3>1. PICK m \in Int : /\ m <= n - a
                           /\ \A h \in 0..(start - 1) : m <= h => h \in seen'
      BY <1>1, <1>5, <1>9 DEF Covered, n
    <3> QED BY <1>2, <1>4, <2>1, <2>2, <3>1
  <2>3. CASE n > b
    BY <1>2, <1>3, <1>4, <1>10, <2>1, <2>3
  <2>4. CASE start < 1 /\ ~(n > b)
    <3>1. seen = {}
      BY <1>1, <1>2, <1>4, <1>5, <1>10, <2>4 DEF WalkInv, NextNotEmpty, n
    <3>2. rows = {}
      BY <1>2, <1>3, <1>4, <2>4
    <3> QED BY <1>10, <3>1, <3>2
  <2> QED BY <1>2, <2>2, <2>3, <2>4
<1> QED BY <1>1, <1>8, <1>9, <1>11, <1>12 DEF WalkInv

\* The other pages leave the walk alone.
LEMMA WalkElsewhere ==
    ASSUME WalkInv, Second \/ Generate \/ Leave \/ FindBlock \/ FindNext
                    \/ CountConfirmations \/ GetBlockExtra \/ CountMulti \/ ListMulti \/ UNCHANGED vars
    PROVE  WalkInv'
<1> USE DEF WalkInv, WalkTypes, WalkReachesGenesis, Walking, Heights
<1>1. index' = index /\ Len(index) \in Nat
  BY DEF Second, Generate, Leave, FindBlock, FindNext, CountConfirmations,
         GetBlockExtra, CountMulti,
         ListMulti, vars
<1>2. CASE UNCHANGED visitVars /\ home' \in {home, Len(index)}
  BY <1>1, <1>2 DEF visitVars, Covered, NextNotEmpty, Turned
<1>3. CASE Leave
  BY <1>1, <1>3 DEF Leave
<1>4. CASE FindBlock
  BY <1>1, <1>4 DEF FindBlock
<1>5. CASE FindNext
  BY <1>1, <1>5 DEF FindNext
<1>6. CASE CountConfirmations
  BY <1>1, <1>6 DEF CountConfirmations
<1>7. CASE CountMulti
  <2>1. Cardinality(Several \cap Heights) \in Nat
    <3>1. IsFiniteSet(Heights)
      BY <1>1, FS_Interval
    <3> QED BY <3>1, FS_Intersection, FS_CardinalityType
  <2> QED BY <1>1, <1>7, <2>1 DEF CountMulti
<1>8. CASE ListMulti
  <2>1. seen' \subseteq Several \cap Heights
    <3>1. Fetch(Listed(Several \cap Heights, page, MultiTxPageSize), {})
      BY <1>8 DEF ListMulti
    <3>2. seen' \subseteq {} \cup Listed(Several \cap Heights, page, MultiTxPageSize)
      BY <3>1, FetchedAll
    <3> QED BY <3>2 DEF Listed
  <2> QED BY <1>1, <1>8, <2>1 DEF ListMulti
<1>9. CASE GetBlockExtra
  BY <1>1, <1>9 DEF GetBlockExtra
<1> QED
  BY <1>1, <1>2, <1>3, <1>4, <1>5, <1>6, <1>7, <1>8, <1>9 DEF Second, Generate, visitVars, vars

LEMMA WalkInvariance == Spec => []WalkInv
<1>1. WalkInv /\ [Next]_vars => WalkInv'
  BY WalkGrows, WalkOpens, WalkCounts, WalkLists, WalkElsewhere DEF Next
<1> QED BY WalkInit, <1>1, PTL DEF Spec

\* PagedBlocks (blocks.go) counts OFFSET from a top that moves: still no block
\* is skipped, for every page size and however many blocks arrive in between.
THEOREM WalkSkipsNothing == Spec => []WalkHasNoGap
<1>1. WalkInv => WalkHasNoGap
  <2> SUFFICES ASSUME WalkInv, vpc = "shown", "cut" \notin mishaps,
                      NEW h \in 0..(start - 1), NEW lo \in seen, lo < h
               PROVE  h \in seen
    BY DEF WalkHasNoGap, Walking
  <2>1. PICK m \in Int : /\ \A g \in seen : m <= g
                         /\ \A g \in 0..(start - 1) : m <= g => g \in seen
    BY DEF WalkInv, Covered
  <2>2. lo \in Int /\ h \in Int
    BY DEF WalkInv, WalkTypes, Heights
  <2> QED BY <2>1, <2>2
<1> QED BY <1>1, WalkInvariance, PTL

\* The last page, the one without an Older link, ends with the first block.
THEOREM WalkEndsAtGenesis == Spec => []WalkReachesGenesis
<1>1. WalkInv => WalkReachesGenesis
  BY DEF WalkInv
<1> QED BY <1>1, WalkInvariance, PTL

-----------------------------------------------------------------------------
(* The circuit breaker.                                                    *)

\* The last entry of the table is its longest.
LEMMA LongestDelayIsLast ==
    LongestDelay \in Nat /\ \A k \in 1..Len(Delays) : Delays[k] <= LongestDelay
<1> DEFINE Table == {Delays[k] : k \in DOMAIN Delays}
<1>1. DOMAIN Delays = 1..Len(Delays) /\ Len(Delays) \in DOMAIN Delays
  BY BreakerAssumption
<1>2. \A k \in DOMAIN Delays : Delays[k] \in Nat /\ Delays[k] <= Delays[Len(Delays)]
  BY <1>1, BreakerAssumption
<1>3. \E d \in Table : \A k \in DOMAIN Delays : Delays[k] <= d
  BY <1>1, <1>2
<1>4. LongestDelay \in Table /\ \A k \in DOMAIN Delays : Delays[k] <= LongestDelay
  BY <1>3 DEF LongestDelay
<1> QED BY <1>1, <1>2, <1>4

\* The delay set is an entry of the table.
LEMMA DelayFacts ==
    ASSUME NEW n \in Nat
    PROVE  /\ DelayAfter(n) \in Nat
           /\ DelayAfter(n) <= LongestDelay
<1> DEFINE a == IF n >= Len(Delays) THEN Len(Delays) ELSE n + 1
<1>1. a \in 1..Len(Delays)
  BY BreakerAssumption
<1>2. DelayAfter(n) = Delays[a]
  BY DEF DelayAfter
<1> HIDE DEF a
<1>3. \A k \in 1..Len(Delays) : Delays[k] \in Nat
  BY BreakerAssumption
<1> QED BY <1>1, <1>2, <1>3, LongestDelayIsLast, BreakerAssumption

\* While failures last, the time waited and the time still to wait make up the
\* delay that was set.
BreakerInv ==
    /\ BreakerTypeOK
    /\ failures >= 1 => wait + since >= DelayAfter(failures)

LEMMA BreakerInvInit == Init => BreakerInv
BY LongestDelayIsLast, BreakerAssumption
DEF Init, BreakerInit, BreakerInv, BreakerTypeOK

LEMMA BreakerInvStep == BreakerInv /\ [Next]_vars => BreakerInv'
<1> SUFFICES ASSUME BreakerInv, [Next]_vars PROVE BreakerInv'
  OBVIOUS
<1> USE DEF BreakerInv, BreakerTypeOK
<1>1. LongestDelay \in Nat /\ MaxFailures \in Nat
  BY LongestDelayIsLast, BreakerAssumption
<1>2. CASE UNCHANGED breakerVars
  BY <1>2 DEF breakerVars, DelayAfter
<1>3. CASE CallFails
  <2>1. failures' \in 0..MaxFailures /\ wait' = DelayAfter(failures') /\ since' = 0
    BY <1>1, <1>3 DEF CallFails
  <2> QED BY <1>1, <2>1, DelayFacts
<1>4. CASE CallSucceeds
  BY <1>1, <1>4 DEF CallSucceeds
<1>5. CASE Tick
  <2>1. DelayAfter(failures) \in Nat /\ DelayAfter(failures) <= LongestDelay
    BY <1>1, DelayFacts
  <2>2. failures' = failures /\ DelayAfter(failures') = DelayAfter(failures)
    BY <1>5 DEF Tick
  <2>3. wait' \in 0..LongestDelay /\ since' \in 0..LongestDelay
    BY <1>1, <1>5 DEF Tick
  <2>4. failures >= 1 => wait' + since' >= DelayAfter(failures)
    BY <1>1, <1>5, <2>1 DEF Tick
  <2> QED BY <2>2, <2>3, <2>4
<1> QED
  BY <1>2, <1>3, <1>4, <1>5
  DEF Next, Second, Generate, CallSkipped, IndexGrows, Leave, OpenHomepage, CountBlocks,
      ListBlocks, FindBlock, FindNext, CountConfirmations, GetBlockExtra, CountMulti, ListMulti, vars

\* rpcBreaker.query keeps the delay it has set before it calls the node again,
\* for every table of delays that never get shorter and however the ticks, the
\* pages generated and the failures fall.
THEOREM CallsAreSpaced == Spec => SpacedCalls
<1>1. BreakerInv => ((CallFails \/ CallSucceeds) /\ failures >= 1 => since >= DelayAfter(failures))
  BY DelayFacts, LongestDelayIsLast, BreakerAssumption
  DEF BreakerInv, BreakerTypeOK, CallFails, CallSucceeds
<1>2. Spec => []BreakerInv
  BY BreakerInvInit, BreakerInvStep, PTL DEF Spec
<1> QED BY <1>1, <1>2, PTL DEF SpacedCalls

-----------------------------------------------------------------------------
(* Types.                                                                  *)

OtherTypes ==
    /\ IndexTypeOK
    /\ vpc \in {"away", "home", "older", "list", "shown",
                "next", "tip", "extra", "block", "multi", "window"}
    /\ total \in 0..Len(index)
    /\ mishaps \in SUBSET {"added", "cut"}
    /\ block \in [height : Heights \cup {-1}, next : BOOLEAN, confirmations : Nat]
    /\ nums \in SUBSET Int

LEMMA OtherTypesInit == Init => OtherTypes
BY DEF Init, IndexInit, OtherTypes, IndexTypeOK, NoBlock

\* A batch goes on where the index ends.
LEMMA IndexTypeKept ==
    ASSUME IndexTypeOK, AppendBatch
    PROVE  IndexTypeOK' /\ Len(index') >= Len(index)
<1>1. PICK n \in 1..BatchBlocks : \E batch \in Batches(n) : index' = index \o batch
  BY DEF AppendBatch
<1>2. PICK batch \in Batches(n) : index' = index \o batch
  BY <1>1
<1>3. /\ batch \in Seq(Block) /\ Len(batch) = n /\ n \in Nat
      /\ \A k \in 1..n : HeightOf[batch[k]] = Len(index) + k - 1
  BY <1>2, IndexAssumption DEF Batches
<1>4. index \in Seq(Block) /\ \A k \in 1..Len(index) : HeightOf[index[k]] = k - 1
  BY DEF IndexTypeOK
<1>5. index' \in Seq(Block) /\ Len(index') = Len(index) + n /\ Len(index) \in Nat
  BY <1>2, <1>3, <1>4
<1>6. ASSUME NEW k \in 1..Len(index') PROVE HeightOf[index'[k]] = k - 1
  <2>1. CASE k <= Len(index)
    BY <1>2, <1>3, <1>4, <1>5, <2>1
  <2>2. CASE k > Len(index)
    <3>1. k - Len(index) \in 1..n /\ index'[k] = batch[k - Len(index)]
      BY <1>2, <1>3, <1>4, <1>5, <2>2
    <3> QED BY <1>3, <1>5, <3>1
  <2> QED BY <1>5, <2>1, <2>2
<1> QED BY <1>3, <1>5, <1>6 DEF IndexTypeOK

LEMMA OtherTypesStep == OtherTypes /\ IInv /\ [Next]_vars => OtherTypes'
<1> SUFFICES ASSUME OtherTypes, IInv, [Next]_vars PROVE OtherTypes'
  OBVIOUS
<1> USE DEF OtherTypes
<1>0. Len(index) \in Nat
  BY DEF IndexTypeOK
<1>1. ASSUME UNCHANGED <<index, visitVars>> PROVE OtherTypes'
  BY <1>1 DEF visitVars, IndexTypeOK, Heights
<1>2. CASE IndexGrows
  <2>1. IndexTypeOK' /\ Len(index') >= Len(index) /\ Len(index') \in Nat
    <3>1. IndexTypeOK' /\ Len(index') >= Len(index)
      BY <1>2, IndexTypeKept DEF IndexGrows
    <3> QED BY <3>1 DEF IndexTypeOK
  <2>2. UNCHANGED <<vpc, total, block, nums>> /\ mishaps' \subseteq mishaps \cup {"added"}
    BY <1>2 DEF IndexGrows
  <2>3. Heights \subseteq Heights'
    BY <1>0, <2>1 DEF Heights
  <2> QED BY <1>0, <2>1, <2>2, <2>3
<1>3. CASE Leave
  BY <1>0, <1>3 DEF Leave, IndexTypeOK, Heights, NoBlock
<1>4. CASE OpenHomepage
  <2>1. mishaps' \in SUBSET {"added", "cut"}
    BY <1>4 DEF OpenHomepage, Fetch
  <2> QED BY <1>4, <2>1 DEF OpenHomepage, IndexTypeOK, Heights
<1>5. CASE CountBlocks
  BY <1>0, <1>5 DEF CountBlocks, IndexTypeOK, Heights
<1>6. CASE ListBlocks
  <2>1. mishaps' \in SUBSET {"added", "cut"}
    BY <1>6 DEF ListBlocks, Fetch
  <2> QED BY <1>6, <2>1 DEF ListBlocks, IndexTypeOK, Heights
<1>7. CASE FindBlock
  <2>1. PICK k \in Heights : block' = [NoBlock EXCEPT !.height = k]
    BY <1>7 DEF FindBlock
  <2>2. block' = [height |-> k, next |-> FALSE, confirmations |-> 0]
    BY <2>1 DEF NoBlock
  <2> QED BY <1>7, <2>2 DEF FindBlock, IndexTypeOK, Heights
<1>8. CASE FindNext
  <2>1. (block.height < Best) \in BOOLEAN
    OBVIOUS
  <2>2. block' = block \/ block' = [block EXCEPT !.next = block.height < Best]
    BY <1>8 DEF FindNext
  <2>3. block' \in [height : Heights \cup {-1}, next : BOOLEAN, confirmations : Nat]
    BY <2>1, <2>2
  <2> QED BY <1>8, <2>3 DEF FindNext, IndexTypeOK, Heights
<1>9. CASE CountConfirmations
  <2>1. block \in [height : Heights, next : BOOLEAN, confirmations : Nat]
    BY <1>9 DEF CountConfirmations, IInv, BlockPageOK
  <2>2. Best - block.height + 1 \in Nat
    BY <1>0, <2>1 DEF Heights, Best
  <2>3. block' \in [height : Heights \cup {-1}, next : BOOLEAN, confirmations : Nat]
    BY <1>9, <2>1, <2>2 DEF CountConfirmations
  <2> QED BY <1>9, <2>3 DEF CountConfirmations, IndexTypeOK, Heights
<1>10. CASE CountMulti
  <2>1. IsFiniteSet(Heights) /\ Cardinality(Heights) = Len(index)
    <3>1. 0 \in Int /\ Len(index) - 1 \in Int /\ (0 > Len(index) - 1 <=> Len(index) = 0)
      BY <1>0
    <3>2. /\ IsFiniteSet(0..(Len(index) - 1))
          /\ Cardinality(0..(Len(index) - 1)) =
               IF 0 > Len(index) - 1 THEN 0 ELSE (Len(index) - 1) - 0 + 1
      BY <3>1, FS_Interval
    <3> QED BY <1>0, <3>1, <3>2 DEF Heights
  <2>2. Cardinality(Several \cap Heights) \in 0..Len(index)
    <3>1. Several \cap Heights \subseteq Heights
      OBVIOUS
    <3> HIDE DEF Heights
    <3> QED BY <1>0, <2>1, <3>1, FS_Subset, FS_CardinalityType
  <2> QED BY <1>10, <2>2 DEF CountMulti, IndexTypeOK, Heights
<1>11. CASE ListMulti
  <2>1. mishaps' \in SUBSET {"added", "cut"}
    BY <1>11 DEF ListMulti, Fetch
  <2>2. nums' \in SUBSET Int
    <3>1. page \in Nat /\ PageCount(total, MultiTxPageSize) \in Nat
      BY <1>0, PageCountNat, PagingAssumption DEF IInv, NumbersOK
    <3>2. PageWindow(page, PageCount(total, MultiTxPageSize)) \subseteq 1..PageCount(total, MultiTxPageSize)
      BY <3>1, WindowExact
    <3> QED BY <1>11, <3>1, <3>2 DEF ListMulti
  <2> QED BY <1>11, <2>1, <2>2 DEF ListMulti, IndexTypeOK, Heights
<1>12. CASE GetBlockExtra
  BY <1>12 DEF GetBlockExtra, IndexTypeOK, Heights
<1> QED
  BY <1>1, <1>2, <1>3, <1>4, <1>5, <1>6, <1>7, <1>8, <1>9, <1>10, <1>11, <1>12
  DEF Next, Second, Generate, vars

\* Every variable keeps its type: pages, counts and heights are never negative
\* or past the index they were read from.
THEOREM TypeCorrect == Spec => []TypeOK
<1>1. OtherTypes /\ WalkInv /\ BreakerInv => TypeOK
  BY DEF OtherTypes, WalkInv, WalkTypes, BreakerInv, TypeOK
<1>2. Spec => []BreakerInv
  BY BreakerInvInit, BreakerInvStep, PTL DEF Spec
<1>3. Spec => []OtherTypes
  BY OtherTypesInit, OtherTypesStep, Invariance, PTL DEF Spec
<1> QED BY <1>1, <1>2, <1>3, WalkInvariance, PTL
=============================================================================

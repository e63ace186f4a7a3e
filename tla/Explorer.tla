------------------------------ MODULE Explorer ------------------------------
(***************************************************************************)
(* The explorer pages that startHTTPServer of                              *)
(* generator/cmd/bitmark-hp-gen/main.go builds on request, each from a few *)
(* queries with no transaction around them, while the indexer keeps        *)
(* committing: the block page, the pages of older blocks one reaches from  *)
(* the homepage, and the list of blocks with several transactions.  The    *)
(* requests only read, so one visitor who makes one at a time will do.     *)
(***************************************************************************)
EXTENDS BlockIndex, RpcBreaker, Paging

CONSTANT Several   \* heights whose block has more than one transaction

VARIABLES
    home,         \* blocks indexed when the homepage was generated
    vpc,          \* what the visitor's request is doing
    page,         \* page asked for
    total,        \* rows counted
    older,        \* page that the Older link leads to, 0 if there is none
    start,        \* history: blocks indexed when the homepage he opened was made
    seen,         \* heights listed since the homepage
    mishaps,      \* history: a block was added between count and list, or a
                  \* list was cut short
    block,        \* the block page under way
    nums          \* page numbers offered

visitVars == <<vpc, page, total, older, start, seen, mishaps, block, nums>>
vars      == <<index, breakerVars, home, visitVars>>

Heights == 0..(Len(index) - 1)
Best    == Len(index) - 1

NoBlock == [height |-> -1, next |-> FALSE, confirmations |-> 0]

TypeOK ==
    /\ IndexTypeOK
    /\ BreakerTypeOK
    /\ home \in 0..Len(index)
    /\ vpc \in {"away", "home", "older", "list", "shown",
                "next", "tip", "extra", "block", "multi", "window"}
    /\ page \in Int
    /\ total \in 0..Len(index)
    /\ older \in Nat
    /\ start \in 0..Len(index)
    /\ seen \in SUBSET Heights
    /\ mishaps \in SUBSET {"added", "cut"}
    /\ block \in [height : Heights \cup {-1}, next : BOOLEAN, confirmations : Nat]
    /\ nums \in SUBSET Int

Init ==
    /\ IndexInit
    /\ BreakerInit
    /\ home = 0
    /\ vpc = "away"
    /\ page = 0
    /\ total = 0
    /\ older = 0
    /\ start = 0
    /\ seen = {}
    /\ mishaps = {}
    /\ block = NoBlock
    /\ nums = {}

-----------------------------------------------------------------------------
\* The indexer commits a batch.
IndexGrows ==
    /\ AppendBatch
    /\ mishaps' = IF vpc = "list" THEN mishaps \cup {"added"} ELSE mishaps
    /\ UNCHANGED <<breakerVars, home, vpc, page, total, older, start, seen, block, nums>>

Second == Tick /\ UNCHANGED <<index, home, visitVars>>

\* doGenerate asks the node for its height and writes a new homepage, unless
\* the database or the disk fails.
Generate ==
    /\ CallFails \/ CallSucceeds \/ CallSkipped
    /\ home' \in {home, Len(index)}
    /\ UNCHANGED <<index, visitVars>>

-----------------------------------------------------------------------------
(* The homepage and the older pages.                                       *)

\* A loop over rows.Next adds rows to those listed before.  It takes them from
\* the newest down and ends early when the connection breaks: nothing looks at
\* rows.Err.
Fetch(rows, before) ==
    \E n \in 0..Cardinality(rows) :
        LET got == {k \in rows : Cardinality({g \in rows : g > k}) < n} IN
        /\ seen' = before \cup got
        /\ mishaps' = IF got = rows THEN mishaps ELSE mishaps \cup {"cut"}

\* The page in place: the newest blocks when generate listed them, and an Older
\* link to page 2 in any case.
OpenHomepage ==
    /\ vpc = "away"
    /\ vpc' = "shown"
    /\ page' = 1
    /\ start' = home
    /\ Fetch(Listed(0..(home - 1), 1, HomePageSize), {})
    /\ older' = 2
    /\ UNCHANGED <<index, breakerVars, home, total, block, nums>>

\* PagedBlocks: COUNT, and the pages that makes.
CountBlocks ==
    /\ vpc = "shown"
    /\ older # 0
    /\ page' = older
    /\ total' = Len(index)
    /\ vpc' = "list"
    /\ UNCHANGED <<index, breakerVars, home, older, start, seen, mishaps, block, nums>>

\* PagedBlocks: the rows, and the link to the next page.
ListBlocks ==
    /\ vpc = "list"
    /\ Fetch(Listed(Heights, page, HomePageSize), seen)
    /\ older' = IF page < PageCount(total, HomePageSize) THEN page + 1 ELSE 0
    /\ vpc' = "shown"
    /\ UNCHANGED <<index, breakerVars, home, page, total, start, block, nums>>

-----------------------------------------------------------------------------
(* The block page.                                                         *)

\* loadBlock finds the row; the page of an unknown height is an error page.
FindBlock ==
    /\ vpc = "away"
    /\ \E h \in Heights : block' = [NoBlock EXCEPT !.height = h]
    /\ vpc' = "next"
    /\ UNCHANGED <<index, breakerVars, home, page, total, older, start, seen, mishaps, nums>>

\* The hash of the next block; an error looks like a block without successor.
FindNext ==
    /\ vpc = "next"
    /\ block' \in {block, [block EXCEPT !.next = block.height < Best]}
    /\ vpc' = "tip"
    /\ UNCHANGED <<index, breakerVars, home, page, total, older, start, seen, mishaps, nums>>

\* Variant: confirmations are counted from the tip of the homepage.
CountConfirmationsHome ==
    /\ vpc = "tip"
    /\ block' = [block EXCEPT !.confirmations = home - block.height]
    /\ vpc' = "extra"
    /\ UNCHANGED <<index, breakerVars, home, page, total, older, start, seen, mishaps, nums>>

\* MAX(height) - height + 1, or 0 after an error.
CountConfirmations ==
    /\ vpc = "tip"
    /\ block' \in {block, [block EXCEPT !.confirmations = Best - block.height + 1]}
    /\ vpc' = "extra"
    /\ UNCHANGED <<index, breakerVars, home, page, total, older, start, seen, mishaps, nums>>

\* The proof-of-work fields, asked of the node: not through the breaker, so the
\* node is called whatever time is left to wait.  Without an answer, and with
\* no RPC configured, they stay empty.
GetBlockExtra ==
    /\ vpc = "extra"
    /\ vpc' = "block"
    /\ UNCHANGED <<index, breakerVars, home, page, total, older, start, seen, mishaps, block, nums>>

-----------------------------------------------------------------------------
(* The list of blocks with several transactions.                           *)

\* Any page number may be asked for; COUNT.
CountMulti ==
    /\ vpc = "away"
    /\ \E p \in 0..(Len(index) + 1) : page' = p
    /\ total' = Cardinality(Several \cap Heights)
    /\ vpc' = "multi"
    /\ UNCHANGED <<index, breakerVars, home, older, start, seen, mishaps, block, nums>>

\* The rows and the page numbers.
ListMulti ==
    /\ vpc = "multi"
    /\ Fetch(Listed(Several \cap Heights, page, MultiTxPageSize), {})
    /\ nums' = PageWindow(page, PageCount(total, MultiTxPageSize))
    /\ vpc' = "window"
    /\ UNCHANGED <<index, breakerVars, home, page, total, older, start, block>>

\* The visitor leaves.
Leave ==
    /\ vpc \in {"shown", "block", "window"}
    /\ vpc' = "away"
    /\ page' = 0
    /\ total' = 0
    /\ older' = 0
    /\ start' = 0
    /\ seen' = {}
    /\ mishaps' = {}
    /\ block' = NoBlock
    /\ nums' = {}
    /\ UNCHANGED <<index, breakerVars, home>>

-----------------------------------------------------------------------------
Next == IndexGrows \/ Second \/ Generate \/ Leave
        \/ OpenHomepage \/ CountBlocks \/ ListBlocks
        \/ FindBlock \/ FindNext \/ CountConfirmations \/ GetBlockExtra
        \/ CountMulti \/ ListMulti

Spec == Init /\ [][Next]_vars

-----------------------------------------------------------------------------
(* Properties.                                                             *)

Walking == vpc = "shown"

\* Going from page to page while blocks arrive may show a block twice, and
\* never skips one: of the blocks the homepage knew, none that is newer than
\* the oldest one listed is missing, unless a list was cut short.
WalkHasNoGap ==
    Walking /\ "cut" \notin mishaps => \A h \in 0..(start - 1) : (\E lo \in seen : lo < h) => h \in seen

\* A page without an Older link is the last one: a walk that has shown anything
\* has shown all blocks down to the first, unless a list was cut short or a block
\* was added between the count and the list of a page, which can push the first
\* blocks off it.
WalkReachesGenesis == Walking /\ older = 0 /\ mishaps = {} /\ seen # {} => 0 \in seen

\* A block with a successor on its page has two confirmations or more, in
\* whatever state the index was for each of the queries.
SuccessorConfirms ==
    vpc = "block" /\ block.next /\ block.confirmations # 0 => block.confirmations >= 2

\* The page numbers offered are pages that exist, as many as fit, and among them
\* the page shown with its neighbours on either side, half a window of each.
WindowFits ==
    vpc = "window" =>
        LET pages == PageCount(total, MultiTxPageSize) IN
        /\ nums \subseteq 1..pages
        /\ Cardinality(nums) = IF pages < Window THEN pages ELSE Window
        /\ page \in 1..pages =>
             (page - Window \div 2)..(page + (Window - 1) \div 2) \cap 1..pages \subseteq nums
=============================================================================

------------------------------- MODULE Paging -------------------------------
(***************************************************************************)
(* How a table of blocks is cut into pages: PagedBlocks and MultiTxBlocks  *)
(* of generator/internal/db/blocks.go, the page counts of main.go and the  *)
(* page numbers of generator/internal/render/multitx.go.                   *)
(***************************************************************************)
EXTENDS Integers, FiniteSets

CONSTANTS
    HomePageSize,     \* 24 in the code
    MultiTxPageSize,  \* 50 in the code
    Window            \* how many page numbers PageWindow shows, 15 in the code

ASSUME PagingAssumption ==
    /\ HomePageSize \in Nat \ {0}
    /\ MultiTxPageSize \in Nat \ {0}
    /\ Window \in Nat \ {0}

\* Variant: full pages only.
PageCountRoundedDown(total, size) == total \div size

PageCount(total, size) == (total + size - 1) \div size

\* Variant: pages are counted from 0.
OffsetFromZero(page, size) == page * size

\* A page below 1 is served as page 1.
Offset(page, size) == ((IF page < 1 THEN 1 ELSE page) - 1) * size

\* ORDER BY height DESC LIMIT size OFFSET Offset(page, size).
Listed(heights, page, size) ==
    {h \in heights :
        Cardinality({g \in heights : g > h})
            \in Offset(page, size)..(Offset(page, size) + size - 1)}

\* Where PageWindow starts before it looks at the last page.
FirstStart(current) ==
    IF current - Window \div 2 < 1 THEN 1 ELSE current - Window \div 2

\* Variant: the end is cut off, the start stays.
PageWindowCut(current, total) ==
    FirstStart(current)..(IF FirstStart(current) + Window - 1 > total
                          THEN total ELSE FirstStart(current) + Window - 1)

PageWindow(current, total) ==
    IF FirstStart(current) + Window - 1 <= total
    THEN FirstStart(current)..(FirstStart(current) + Window - 1)
    ELSE (IF total - Window + 1 < 1 THEN 1 ELSE total - Window + 1)..total
=============================================================================

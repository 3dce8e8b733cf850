------------------------------ MODULE MCPaging ------------------------------
(* Instances of Paging with tables of two entries: sixteen pages, the last   *)
(* four in pinion's large pages.                                            *)
EXTENDS PagingRefinement

MCFrame == {100}
\* Regions within a table, across a table of each level, across the border of
\* the large pages, and page 0; those that overlap differ in the frames.
MCRegion == {<<0, 2>>, <<1, 3>>, <<7, 2>>, <<10, 3>>, <<13, 1>>}
\* The cache flag falls into the frame numbers.
MCFlags == {{}, {PAGE_VALID, PAGE_READ, PAGE_USER, PAGE_CACHE_DISABLE}}
MCNone == -1
=============================================================================

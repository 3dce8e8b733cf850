-------------------------- MODULE PagingRefinement --------------------------
(***************************************************************************)
(* Paging implements PageMap.  The history variable map records what       *)
(* pcx_get_trans returns for every page; the tables that page_set builds   *)
(* on the way are invisible in it.                                         *)
(***************************************************************************)
EXTENDS Paging

VARIABLE map

InitMap == Init /\ map = Translation(mem)
NextMap == Next /\ \E m \in {mem'} : map' = Translation(m)
SpecMap == InitMap /\ [][NextMap]_<<vars, map>>

Abstract == INSTANCE PageMap WITH
    Page <- Va, UNMAPPED <- NONE, VALID <- PAGE_VALID, Entered <- OrBits

\* page_set changes the translation of its region and of nothing else, from the
\* lowest page on, to consecutive frames (page_set.c:36), into which the cache
\* flags are or-ed, and returns true exactly when it changed it all; until an
\* exhausted allocator's null pointer leads into mapped memory.
RefinesPageMap == Abstract!Spec
=============================================================================

------------------------------- MODULE Paging -------------------------------
(***************************************************************************)
(* The paging API (api/page_set.c, api/page_get.c) on the tables of page.c. *)
(* An API call runs with interrupts disabled, so it is one action.         *)
(***************************************************************************)
EXTENDS PageTable

CONSTANTS
    Region,     \* the pairs <<first page, pages>> that clients set
    Flags       \* the sets of flags they pass, as bit numbers of pinion.h

PAGE_VALID == 0
PAGE_READ  == 4
PAGE_WRITE == 5
PAGE_EXEC  == 6
PAGE_USER  == 7
PAGE_ACCESSED      == 8
PAGE_DIRTY         == 9
PAGE_CACHE_DISABLE == 12
PAGE_WRITE_THROUGH == 13

ASSUME RegionAssumption ==
    /\ \A r \in Region : r[1] \in Va /\ r[2] \in Nat /\ r[1] + r[2] - 1 \in Va
    /\ \A f \in Flags : f \subseteq Bit

VARIABLES
    pages, base,    \* as in PageTable
    null,           \* whether the processor may have a translation of page 0
    ret             \* how the last page_set ended

vars == <<pages, base, null, ret>>

mem == [pages |-> pages, base |-> base]

Init ==
    /\ pages = Booted.pages
    /\ base = Booted.base
    /\ null = FALSE
    /\ ret = "none"

\* A bug: page i of the region is mapped to the region's first frame.
SameFrame(m, v, p, flags, n) ==
    LET set[i \in 0..n] ==
            IF i = 0 THEN [m |-> m, st |-> "true"]
            ELSE LET s == set[i - 1]
                 IN  IF s.st # "true" THEN s
                     ELSE pcx_set_frame(s.m, v + i - 1, p, flags)
    IN  set[n]

\* page_set's loop.  The flags go into the entry as the caller passes them:
\* what their conversion computes is not used.
SetPages(m, v, p, flags, n) ==
    LET set[i \in 0..n] ==
            IF i = 0 THEN [m |-> m, st |-> "true"]
            ELSE LET s == set[i - 1]
                 IN  IF s.st # "true" THEN s
                     ELSE pcx_set_frame(s.m, v + i - 1, p + i - 1, flags)
    IN  set[n]

\* Unaligned arguments return false before anything is read.  A table at the null
\* pointer is a page fault, unless page 0 is or was mapped (no translation is
\* flushed), or its own tables are lost, so that the processor reads whatever
\* lies there: then the call clears and reads on in memory that is not pinion's,
\* and nothing more is said.
page_set(v, p, flags, n) ==
    LET r == SetPages(mem, v, p, flags, n)
    IN  /\ pages' = r.m.pages
        /\ base' = r.m.base
        /\ null' = (null \/ Translation(r.m)[0] # NONE)
        /\ \/ ret' = r.st
           \/ r.st = "fault" /\ null' /\ ret' = "wild"

\* The flags that page_get makes of the bits of an entry.
Cooked(raw) ==
    LET present(b, bit) == IF PF_PRES \in raw /\ b THEN {bit} ELSE {}
    IN  IF PF_VALID \notin raw THEN {}
        ELSE {PAGE_VALID}
             \cup present(PF_NREAD \notin raw, PAGE_READ)
             \cup present(PF_WRITE \in raw, PAGE_WRITE)
             \cup present(PF_NX \notin raw, PAGE_EXEC)
             \cup present(PF_USER \in raw, PAGE_USER)
             \cup present(PF_PWT \in raw, PAGE_WRITE_THROUGH)
             \cup present(PF_PCD \in raw, PAGE_CACHE_DISABLE)
             \cup (IF PF_ACCS \in raw THEN {PAGE_ACCESSED} ELSE {})
             \cup (IF PF_DIRTY \in raw THEN {PAGE_DIRTY} ELSE {})

page_get(m, v) == [paddr |-> pcx_get_trans(m, v),
                   flags |-> Cooked(pcx_get_flags(m, v))]

\* Some other part of pinion takes a page: TCBs, their table.
OtherAlloc ==
    /\ ~Exhausted(mem)
    /\ base' = pge_alloc(mem).base
    /\ UNCHANGED <<pages, null, ret>>

PageSet ==
    \E r \in Region, p \in Frame, f \in Flags : page_set(r[1], p, f, r[2])

Next == ret # "wild" /\ (PageSet \/ OtherAlloc)

Spec == Init /\ [][Next]_vars

-----------------------------------------------------------------------------
(* Properties.                                                             *)

\* The tables in use, with the addresses they serve.
Tree == UNION {{[table  |-> f.table, level |-> f.level,
                 serves |-> va \div (N * Size(f.level))] :
                   f \in {Walk(mem, va)[i] : i \in 1..4}} : va \in Va}

\* The tables form a tree: page.c never checks that the pages its entries lead
\* to are its own, that a page serves as one table only, or that a table was
\* cleared before it was linked (page.c:157-162).  That ends when an exhausted
\* allocator's null pointer leads into mapped memory.
TreeOK ==
    LET tree == {x \in Tree : x.table # Wild}
    IN  ret # "wild" =>
          /\ \A x, y \in tree : x.table = y.table => x = y
          /\ \A x \in tree :
                /\ x.table \in 0..base - 1
                /\ x.level > 1 => \A i \in Index :
                      LET e == pages[x.table][i]
                      IN  \/ e = Zero
                          \/ PF_LARGE \in e.bits
                          \/ e.to \in {Wild} \cup 1..base - 1

\* Pinion's own pages, in the large pages at the top, stay as pcx_init made them
\* whatever regions clients set: page_set has no check of its own, the walk ends
\* at the large page (page.c:150-153).  Here too a null table ends it.
PinionPages == N * N * N * N - N * N..N * N * N * N - 1
PinionKept  ==
    ret # "wild" => \A va \in PinionPages : page_get(mem, va) = page_get(Booted, va)
=============================================================================

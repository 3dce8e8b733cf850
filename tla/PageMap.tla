------------------------------ MODULE PageMap ------------------------------
(***************************************************************************)
(* What pinion.h and the comment of page_set.c promise of the page table,  *)
(* as far as the code keeps it: a function from virtual to physical pages, *)
(* changed only by page_set, one page after the other from the lowest.     *)
(***************************************************************************)
EXTENDS Integers

CONSTANTS
    Page,       \* the virtual pages
    Frame,      \* the physical pages that clients map
    Region,     \* the pairs <<first page, pages>> that they set
    Flags,      \* the sets of flags they pass,
    VALID,      \* and the one without which a page is unmapped
    Entered(_, _),  \* the page that a frame and flags make
    UNMAPPED,   \* what a page without a translation maps to
    BROKEN      \* the translation is lost: it is read through the null pointer

VARIABLES
    map,
    null,       \* page 0 has been mapped, or its translation is lost
    ret

vars == <<map, null, ret>>

Init ==
    /\ map \in [Page -> Int]
    /\ null = FALSE
    /\ ret = "none"

\* The first k pages of a region, the others as they were.
Changed(v, p, f, k) ==
    [u \in Page |-> IF u \notin v..v + k - 1 THEN map[u]
                    ELSE IF VALID \in f THEN Entered(p + (u - v), f)
                    ELSE UNMAPPED]

\* All of the region changes.
SetAll(v, p, f, n) ==
    /\ ret' = "true"
    /\ map' = Changed(v, p, f, n)

\* A page that belongs to a large page stops the call, and it returns false.
SetSome(v, p, f, n) ==
    /\ ret' = "false"
    /\ \E k \in 0..n - 1 : map' = Changed(v, p, f, k)

\* Memory runs out: the call never returns, and pages without a translation,
\* that of the page it had come to among them, can no longer be read.  If the
\* null pointer is no page fault, nothing holds from here on.
SetBroken(v, p, f, n) ==
    /\ ret' = "fault" \/ (ret' = "wild" /\ null')
    /\ \E k \in 0..n - 1 :
          LET old == Changed(v, p, f, k)
          IN  /\ map'[v + k] = BROKEN
              /\ \A u \in Page :
                    map'[u] # old[u] => old[u] = UNMAPPED /\ map'[u] = BROKEN

Next ==
    /\ ret # "wild"
    /\ null' = (null \/ map'[0] # UNMAPPED)
    /\ \E r \in Region, p \in Frame, f \in Flags :
          \/ SetAll(r[1], p, f, r[2])
          \/ SetSome(r[1], p, f, r[2])
          \/ SetBroken(r[1], p, f, r[2])

Spec == Init /\ [][Next]_vars
=============================================================================

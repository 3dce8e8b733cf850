---------------------------- MODULE ThreadTable ----------------------------
(***************************************************************************)
(* tcb.c and the tcb instance of alloc.s: frames move between memory that  *)
(* was never used, the allocator's free list and the table that names the  *)
(* live threads.  A frame given back has its first eight bytes (state and  *)
(* id) overwritten by the free list's link.                                *)
(***************************************************************************)
EXTENDS KernelTypes

VARIABLES
    id,         \* tcb->id of every frame
    table,      \* tcb_table
    freelist,   \* tcb_list of alloc.s, last freed first
    fresh       \* frames still to be handed out by pmm_alloc

tableVars == <<id, table, freelist, fresh>>

JunkId == -2    \* the id field of a freed frame: half of a link

tcb_get(i) == IF i \in Id THEN table[i] ELSE NULL

\* tcb_alloc: the free list first, then a frame no one has used.
Allocatable == IF freelist # << >> THEN {freelist[1]} ELSE fresh

\* Taking t leaves the lists so.
ListAfterAlloc == IF freelist # << >> THEN Tail(freelist) ELSE << >>
FreshAfterAlloc(t) == fresh \ {t}

\* What tcb_free(t) leaves in the id field of t.
LinkId(list) == IF list = << >> THEN 0 ELSE JunkId

EmptySlots == {i \in Id : table[i] = NULL}

\* tcb_new when a frame and a slot are found: the lowest slot is taken.
TcbNew(t) ==
    \E i \in EmptySlots :
        /\ \A j \in EmptySlots : i <= j
        /\ table' = [table EXCEPT ![i] = t]
        /\ id' = [id EXCEPT ![t] = i]
        /\ freelist' = ListAfterAlloc
        /\ fresh' = FreshAfterAlloc(t)

\* A bug: the frame for which there is no slot is not given back.
NoSlotLosing(t) ==
    /\ freelist' = ListAfterAlloc
    /\ fresh' = FreshAfterAlloc(t)
    /\ UNCHANGED <<id, table>>

\* tcb_new when the table (or the memory for its next part) is exhausted: the
\* frame is allocated and given back.
TcbNewNoSlot(t) ==
    /\ freelist' = <<t>> \o ListAfterAlloc
    /\ fresh' = FreshAfterAlloc(t)
    /\ id' = [id EXCEPT ![t] = LinkId(ListAfterAlloc)]
    /\ UNCHANGED table

\* A bug: the frame is freed while the table still names it.
DelKeepsEntry(t) ==
    /\ freelist' = <<t>> \o freelist
    /\ id' = [id EXCEPT ![t] = LinkId(freelist)]
    /\ UNCHANGED <<table, fresh>>

\* tcb_del of a thread of the table, tcb_free included.
TcbDel(t) ==
    /\ table' = [table EXCEPT ![id[t]] = NULL]
    /\ freelist' = <<t>> \o freelist
    /\ id' = [id EXCEPT ![t] = LinkId(freelist)]
    /\ UNCHANGED fresh
=============================================================================

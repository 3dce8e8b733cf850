----------------------------- MODULE PageTable -----------------------------
(***************************************************************************)
(* page.c: the four-level page table, as functions of a record             *)
(*   pages  the 4-Kbyte pages that pge_alloc can hand out, as tables       *)
(*   base   pmm_alloc_base, the next page to hand out                      *)
(* An address is a page number; a table has N entries instead of 512.      *)
(* Flags are sets of bit numbers.                                          *)
(***************************************************************************)
EXTENDS Integers

CONSTANTS
    N,          \* entries per table (even)
    Limit,      \* pmm_alloc_limit: pages 0 .. Limit - 1 are pinion's
    Frame,      \* physical page numbers that clients map
    NONE        \* no translation (-1)

\* What reading a translation through a lost table is taken for.
BROKEN == -2

ASSUME PagingAssumption ==
    /\ N \in Nat \ {0} /\ N % 2 = 0
    /\ Limit \in Nat /\ Limit > N \div 2 + 1
    /\ Frame \subseteq Nat
    /\ NONE \in Int \ Nat /\ NONE # BROKEN

PF_PRES  == 0
PF_WRITE == 1
PF_USER  == 2
PF_PWT   == 3
PF_PCD   == 4
PF_ACCS  == 5
PF_DIRTY == 6
PF_LARGE == 7
PF_GLOBL == 8
PF_VALID == 9
PF_NREAD == 10
PF_NX    == 63
Bit      == 0..13 \cup {PF_NX}
FlagBit  == 0..11 \cup {PF_NX}      \* PF_BITS

Index == 0..N - 1
Level == 1..4
Va    == 0..N * N * N * N - 1

\* Where pcx_init's tables lie: 0 is the root, 1 .. Half serve the upper half.
Half      == N \div 2
PinionPt2 == Half + 1

\* The word frame | flags: flag bits 12 and 13 fall into the page number.
SetBit(f, w)      == IF (f \div w) % 2 = 1 THEN f ELSE f + w
OrBits(f, flags)  ==
    LET g == IF 12 \in flags THEN SetBit(f, 1) ELSE f
    IN  IF 13 \in flags THEN SetBit(g, 2) ELSE g
Word(f, flags)    == [to |-> OrBits(f, flags), bits |-> flags \cap FlagBit]
Zero              == [to |-> 0, bits |-> {}]
Junk              == [to |-> 0, bits |-> {PF_PRES}]     \* RAM before use

\* 0 - base: where an entry points whose table could not be allocated.
Wild == -1

Size(level)    == CASE level = 1 -> 1 [] level = 2 -> N
                    [] level = 3 -> N * N [] level = 4 -> N * N * N
Idx(va, level) == (va \div Size(level)) % N

-----------------------------------------------------------------------------
(* Reading.                                                                *)

Stops(m, t, va, level) ==
    LET e == m.pages[t][Idx(va, level)]
    IN  PF_PRES \notin e.bits \/ PF_LARGE \in e.bits \/ level = 1

\* The walk of an address: one turn of the loop that pcx_get_trans and
\* pcx_get_flags share, and the entry it ends at.  With a table that could not
\* be allocated on the way they read on at the null pointer.
Step(m, va, f) ==
    IF f.table = Wild \/ Stops(m, f.table, va, f.level) THEN f
    ELSE [table |-> m.pages[f.table][Idx(va, f.level)].to,
          level |-> f.level - 1]

Root        == [table |-> 0, level |-> 4]
Walk(m, va) ==
    LET f3 == Step(m, va, Root)
        f2 == Step(m, va, f3)
        f1 == Step(m, va, f2)
    IN  <<Root, f3, f2, f1>>
Leaf(m, va) == Walk(m, va)[4]

Faults(m, va) == Leaf(m, va).table = Wild

pcx_get_flags(m, va) ==
    LET f == Leaf(m, va)
        e == m.pages[f.table][Idx(va, f.level)]
    IN  IF PF_PRES \in e.bits THEN e.bits ELSE {}

pcx_get_trans(m, va) ==
    LET f == Leaf(m, va)
        e == m.pages[f.table][Idx(va, f.level)]
    IN  IF PF_PRES \in e.bits THEN e.to + (va % Size(f.level)) ELSE NONE

\* The translation of every page, as pcx_get_trans reports it.
Translation(m) ==
    [va \in Va |-> IF Faults(m, va) THEN BROKEN ELSE pcx_get_trans(m, va)]

-----------------------------------------------------------------------------
(* Writing.                                                                *)

pge_alloc(m) == [m EXCEPT !.base = IF @ = Limit THEN @ ELSE @ + 1]
Exhausted(m) == m.base = Limit

TableBits == {PF_VALID, PF_PRES, PF_WRITE, PF_USER}

\* A bug: a new table keeps what the page held.
LinkUnzeroed(m, t, i) ==
    [pge_alloc(m) EXCEPT !.pages[t][i] = Word(m.base, TableBits)]

\* A new table at entry i of table t.
LinkTable(m, t, i) ==
    [pge_alloc(m) EXCEPT
        !.pages = [@ EXCEPT ![t][i] = Word(m.base, TableBits),
                            ![m.base] = [j \in Index |-> Zero]]]

Store(m, t, i, e) == [m EXCEPT !.pages[t][i] = e]

\* The walk of pcx_set_frame: w.t is pt, w.st how it stands.
Onward(m, t)    == [m |-> m, t |-> t, st |-> "walk"]
Ended(w, m, st) == [m |-> m, t |-> w.t, st |-> st]

\* A bug: a large page makes way for a table.
DescendReplacing(w, va, level) ==
    LET i == Idx(va, level)
        e == w.m.pages[w.t][i]
    IN  IF w.st # "walk" THEN w
        ELSE IF PF_PRES \in e.bits /\ PF_LARGE \notin e.bits THEN Onward(w.m, e.to)
        ELSE IF Exhausted(w.m) THEN Ended(w, w.m, "fault")
        ELSE Onward(LinkTable(w.m, w.t, i), w.m.base)

\* One turn of pcx_set_frame's loop, at entry i, which is e.
Turn(w, i, e) ==
    CASE PF_PRES \notin e.bits /\ Exhausted(w.m) ->
            \* the entry is written before the table is cleared
            Ended(w, Store(w.m, w.t, i, [to |-> Wild, bits |-> TableBits]), "fault")
      [] PF_PRES \notin e.bits /\ ~Exhausted(w.m) -> Onward(LinkTable(w.m, w.t, i), w.m.base)
      [] PF_PRES \in e.bits /\ PF_LARGE \in e.bits -> Ended(w, w.m, "false")
      [] PF_PRES \in e.bits /\ PF_LARGE \notin e.bits /\ e.to = Wild -> Ended(w, w.m, "fault")
      [] OTHER -> Onward(w.m, e.to)

Descend(w, va, level) ==
    LET i == Idx(va, level)
    IN  IF w.st # "walk" THEN w ELSE Turn(w, i, w.m.pages[w.t][i])

\* pcx_set_frame of one page: the memory and "true", "false" (a large page is
\* in the way) or "fault" (out of memory: the next access is through the null
\* pointer).
pcx_set_frame(m, va, frame, flags) ==
    LET w4 == Descend(Onward(m, 0), va, 4)
        w3 == Descend(w4, va, 3)
        w  == Descend(w3, va, 2)
    IN  IF w.st # "walk" THEN [m |-> w.m, st |-> w.st]
        ELSE [m |-> Store(w.m, w.t, Idx(va, 1), Word(frame, flags)), st |-> "true"]

-----------------------------------------------------------------------------
(* pcx_init: page 0 is the root, the next N / 2 are the tables of the upper *)
(* half, the one after them maps pinion at the top with large pages: first  *)
(* memory, then the devices below 4 GB.                                     *)

LargeBits == {PF_VALID, PF_PRES, PF_WRITE, PF_LARGE, PF_GLOBL}

Booted ==
    [base |-> Half + 2,
     pages |-> [p \in 0..Limit - 1 |-> [i \in Index |->
        CASE p = 0 /\ i >= Half -> Word(1 + i - Half, {PF_PRES, PF_WRITE})
          [] p = Half /\ i = N - 1 -> Word(PinionPt2, {PF_PRES, PF_WRITE})
          [] p = PinionPt2 /\ i < Half -> Word(i * N, LargeBits)
          [] p = PinionPt2 /\ i >= Half -> Word((i + 3 * N) * N, LargeBits \cup {PF_PCD})
          [] p > PinionPt2 -> Junk
          [] OTHER -> Zero]]]
=============================================================================

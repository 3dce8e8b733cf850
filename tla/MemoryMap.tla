----------------------------- MODULE MemoryMap -----------------------------
(***************************************************************************)
(* The way of the memory map from the boot loader to the client:           *)
(* init_multiboot and init_mmap of unfold collect the free regions,        *)
(* pmm_init cuts them at a boundary below which pinion keeps everything,   *)
(* pmm_alloc hands out pages below it and memory_map_read shows clients    *)
(* what lies above.  One action is one turn of a loop.                     *)
(*                                                                         *)
(* The arrays are static and smaller than their bounds checks assume:      *)
(* pmm_map_low_space has seven words, room for three entries (checked:     *)
(* six), pmm_map_high_space seventeen, room for eight (checked: sixteen),  *)
(* mboot_static_mmap 256 bytes, room for fifteen (not checked).  What the  *)
(* program does after it has passed the end of one is not modelled: pc is  *)
(* "overrun" for good.  Nor is a multiboot loader without a memory map:    *)
(* init_mmap then fails and unfold stops (unfold's mmap.c:27, init.c:48).  *)
(***************************************************************************)
EXTENDS Integers, Sequences, FiniteSets

CONSTANTS
    Map,            \* the memory maps that firmware may report
    Unit,           \* 8 MB
    Ratio,          \* 256
    PAGE,           \* 4 KB
    PinionEnd,      \* the end of pinion's image, from get_pinion_range
    MmapRoom,       \* entries that fit into mboot_static_mmap: 15
    LowRoom,        \* into pmm_map_low_space: 3
    HighRoom        \* into pmm_map_high_space: 8

Region == [base : Nat, size : Nat]
FREE   == 1         \* multiboot's type of usable memory
NoRegion == [base |-> 0, size |-> 0]

Stretch == [base : Nat, size : Nat, type : Nat]     \* struct multiboot_mmap

ASSUME MapAssumption == Map \subseteq Seq(Stretch)

ASSUME SizeAssumption ==
    /\ PinionEnd \in Nat /\ Unit \in Nat \ {0} /\ Ratio \in Nat \ {0} /\ PAGE \in Nat \ {0}
    /\ MmapRoom \in Nat /\ LowRoom \in Nat /\ HighRoom \in Nat

\* Both are whole numbers of pages.
ASSUME PageAssumption ==
    /\ \E k \in 1..Unit : Unit = k * PAGE
    /\ \E k \in 0..PinionEnd : PinionEnd = k * PAGE

VARIABLES
    pc,             \* the loop that runs
    i, j,           \* its counters
    firmware,       \* the map that multiboot passes on
    count, total,   \* mmap->count, mmap->total
    entry,          \* mmap->entry
    cutoff,         \* pmm_map_cutoff
    low, high,      \* pmm_map_low, pmm_map_high
    allocBase,      \* pmm_alloc_base; pmm_alloc_limit is the cutoff
    answer          \* the last region that memory_map_read returned

mmapVars == <<count, total, entry>>
pmmVars  == <<cutoff, low, high, allocBase>>
vars == <<pc, i, j, firmware, mmapVars, pmmVars, answer>>

Init ==
    /\ pc = "multiboot"
    /\ i = 0 /\ j = 0
    /\ firmware \in Map
    /\ count = 0 /\ total = 0
    /\ entry = [n \in 0..MmapRoom - 1 |-> NoRegion]
    /\ cutoff = 0 /\ allocBase = 0
    /\ low = [count |-> 0, entry |-> [n \in 0..LowRoom - 1 |-> NoRegion]]
    /\ high = [count |-> 0, entry |-> [n \in 0..HighRoom - 1 |-> NoRegion]]
    /\ answer = [base |-> 0, limit |-> 0]

Overrun ==
    /\ pc' = "overrun"
    /\ UNCHANGED <<i, j, firmware, mmapVars, pmmVars, answer>>

-----------------------------------------------------------------------------
(* unfold.                                                                 *)

Reported == firmware[i + 1]

\* A bug: the cursor advances with the entries that are kept.
MultibootStuck ==
    /\ pc = "multiboot" /\ i < Len(firmware)
    /\ Reported.type = FREE /\ count < MmapRoom
    /\ entry' = [entry EXCEPT
          ![count] = [base |-> Reported.base, size |-> Reported.size]]
    /\ count' = count + 1
    /\ total' = total + Reported.size
    /\ i' = i + 1
    /\ UNCHANGED <<pc, j, firmware, pmmVars, answer>>

\* One entry of the multiboot map.
init_multiboot ==
    /\ pc = "multiboot" /\ i < Len(firmware)
    /\ \/ /\ Reported.type = FREE /\ count < MmapRoom
          /\ entry' = [entry EXCEPT
                ![count] = [base |-> Reported.base, size |-> Reported.size]]
          /\ count' = count + 1
          /\ total' = total + Reported.size
          /\ i' = i + 1
          /\ UNCHANGED <<pc, j, firmware, pmmVars, answer>>
       \/ /\ Reported.type # FREE
          /\ i' = i + 1
          /\ UNCHANGED <<pc, j, firmware, mmapVars, pmmVars, answer>>
       \/ Reported.type = FREE /\ count >= MmapRoom /\ Overrun

\* init_mmap counts the total again.
StartTotal ==
    /\ pc = "multiboot" /\ i = Len(firmware)
    /\ pc' = "total"
    /\ i' = 0 /\ total' = 0
    /\ UNCHANGED <<j, firmware, count, entry, pmmVars, answer>>

init_mmap ==
    /\ pc = "total" /\ i < count
    /\ total' = total + entry[i].size
    /\ i' = i + 1
    /\ UNCHANGED <<pc, j, firmware, count, entry, pmmVars, answer>>

-----------------------------------------------------------------------------
(* pmm_init.                                                               *)

RoundUp(x) == ((x + Unit - 1) \div Unit) * Unit

StartLow ==
    /\ pc = "total" /\ i = count
    /\ pc' = "low"
    /\ i' = 0
    /\ cutoff' = RoundUp(total \div Ratio)
    /\ allocBase' = PinionEnd
    /\ UNCHANGED <<j, firmware, mmapVars, low, high, answer>>

End(r) == r.base + r.size

\* An entry below the cutoff is copied.
CopyLow ==
    /\ pc = "low" /\ i < count /\ i < LowRoom
    /\ entry[i].base < cutoff /\ End(entry[i]) <= cutoff
    /\ low' = [low EXCEPT !.entry[i] = entry[i]]
    /\ i' = i + 1
    /\ UNCHANGED <<pc, j, firmware, mmapVars, cutoff, high, allocBase, answer>>

\* A bug: the upper part starts where the entry starts.
SplitUncut ==
    /\ pc = "low" /\ i < count /\ i < LowRoom /\ HighRoom > 0
    /\ entry[i].base < cutoff /\ End(entry[i]) > cutoff
    /\ low' = [low EXCEPT !.count = i + 1, !.entry[i] = entry[i]]
    /\ high' = [high EXCEPT !.entry[0] = entry[i]]
    /\ i' = 1 /\ j' = i
    /\ pc' = "high"
    /\ UNCHANGED <<firmware, mmapVars, cutoff, allocBase, answer>>

\* One that spans the cutoff is divided between the maps.
SplitLow ==
    /\ pc = "low" /\ i < count /\ i < LowRoom /\ HighRoom > 0
    /\ entry[i].base < cutoff /\ End(entry[i]) > cutoff
    /\ low' = [low EXCEPT
          !.count = i + 1,
          !.entry[i] = [base |-> entry[i].base, size |-> cutoff - entry[i].base]]
    /\ high' = [high EXCEPT
          !.entry[0] = [base |-> cutoff, size |-> End(entry[i]) - cutoff]]
    /\ i' = 1 /\ j' = i
    /\ pc' = "high"
    /\ UNCHANGED <<firmware, mmapVars, cutoff, allocBase, answer>>

\* A bug: the counter starts at one here too.
CutSkips ==
    /\ pc = "low" /\ i < count
    /\ entry[i].base >= cutoff
    /\ low' = [low EXCEPT !.count = i]
    /\ i' = 1 /\ j' = i
    /\ pc' = "high"
    /\ UNCHANGED <<firmware, mmapVars, cutoff, high, allocBase, answer>>

\* A bug: the second loop starts over.
CutFromStart ==
    /\ pc = "low" /\ i < count
    /\ entry[i].base >= cutoff
    /\ low' = [low EXCEPT !.count = i]
    /\ i' = 0
    /\ pc' = "high"
    /\ UNCHANGED <<j, firmware, mmapVars, cutoff, high, allocBase, answer>>

\* The first one above it ends the loop.
CutLow ==
    /\ pc = "low" /\ i < count
    /\ entry[i].base >= cutoff
    /\ low' = [low EXCEPT !.count = i]
    /\ i' = 0 /\ j' = i
    /\ pc' = "high"
    /\ UNCHANGED <<firmware, mmapVars, cutoff, high, allocBase, answer>>

\* If there is none, the counters stay: the high map will have as many entries
\* as mmap, all of them still zero, and low->count is never set.
EndLow ==
    /\ pc = "low" /\ i = count
    /\ pc' = "high"
    /\ UNCHANGED <<i, j, firmware, mmapVars, pmmVars, answer>>

\* The check for six entries comes after the third has passed the end.
OverrunLow ==
    /\ pc = "low" /\ i < count /\ i >= LowRoom
    /\ entry[i].base < cutoff
    /\ Overrun

CopyHigh ==
    /\ pc = "high" /\ i + j < count /\ i < HighRoom
    /\ high' = [high EXCEPT !.entry[i] = entry[i + j]]
    /\ i' = i + 1
    /\ UNCHANGED <<pc, j, firmware, mmapVars, cutoff, low, allocBase, answer>>

OverrunHigh ==
    /\ pc = "high" /\ i + j < count /\ i >= HighRoom
    /\ Overrun

EndHigh ==
    /\ pc = "high" /\ i + j >= count
    /\ high' = [high EXCEPT !.count = i]
    /\ pc' = "run"
    /\ UNCHANGED <<i, j, firmware, mmapVars, cutoff, low, allocBase, answer>>

-----------------------------------------------------------------------------
(* The running system.                                                     *)

\* The page [allocBase, allocBase + PAGE).  When it is at the limit pmm_alloc
\* returns NULL and changes nothing.
pmm_alloc ==
    /\ pc = "run" /\ allocBase # cutoff
    /\ allocBase' = allocBase + PAGE
    /\ UNCHANGED <<pc, i, j, firmware, mmapVars, cutoff, low, high, answer>>

\* memory_map_read admits index = high->count.
memory_map_read(index) ==
    /\ pc = "run"
    /\ index > high.count \/ index < HighRoom
    /\ answer' = IF index > high.count THEN [base |-> 0, limit |-> 0]
                 ELSE [base |-> high.entry[index].base, limit |-> End(high.entry[index])]
    /\ UNCHANGED <<pc, i, j, firmware, mmapVars, pmmVars>>

ReadPast(index) == pc = "run" /\ index = HighRoom /\ index = high.count /\ Overrun

Index == 0..HighRoom + 1    \* bound: the API takes an 8-bit index

Boot ==
    \/ init_multiboot \/ StartTotal \/ init_mmap
    \/ StartLow \/ CopyLow \/ SplitLow \/ CutLow \/ EndLow \/ OverrunLow
    \/ CopyHigh \/ OverrunHigh \/ EndHigh

Next ==
    \/ Boot
    \/ pmm_alloc
    \/ \E index \in Index : memory_map_read(index) \/ ReadPast(index)

\* Nothing else runs until pmm_init has returned.
Spec == Init /\ [][Next]_vars /\ WF_vars(Boot)

-----------------------------------------------------------------------------
(* Properties.                                                             *)

\* Entries in ascending order, none overlapping another.  Multiboot does not
\* promise it and pmm_init does not sort.
Sorted ==
    \A m, n \in DOMAIN firmware :
        m < n => firmware[m].base + firmware[m].size <= firmware[n].base

\* Pinion keeps what lies below the cutoff: no region that memory_map_read
\* returns reaches below it (pinion.h:348: it "does appear as non-free in the
\* memory map"), and pmm_alloc does not reach above it.
Private ==
    /\ answer = [base |-> 0, limit |-> 0] \/ answer.base >= cutoff
    /\ pc = "run" /\ PinionEnd <= cutoff => allocBase <= cutoff

SortedPrivate == Sorted => Private

\* The regions a client finds when it reads from index 0 until it gets a null
\* region.
Readable ==
    {n \in 0..HighRoom - 1 : n <= high.count /\
        \A m \in 0..n : high.entry[m] # NoRegion}

Bytes(r) == r.base..End(r) - 1

\* The readable regions are the free memory above the cutoff, none of it lost
\* and nothing else (pmm.c:105-135: the entry at the cutoff, the shift by j, the
\* last index), and they are disjoint, in ascending order and no nearer to each
\* other than two free stretches of the firmware are.  The page of other memory
\* that pinion.h:356-358 puts between two regions is thus there if firmware
\* leaves it; a map with touching stretches merged would satisfy this as well.
AllOffered ==
    pc = "run" /\ Sorted =>
        LET free == {n \in DOMAIN firmware : firmware[n].type = FREE}
        IN  /\ UNION {Bytes(high.entry[m]) : m \in Readable} =
                  {a \in UNION {Bytes(firmware[n]) : n \in free} : a >= cutoff}
            /\ \A m, n \in Readable : m < n =>
                  \E x, y \in free :
                      /\ x < y
                      /\ firmware[y].base - End(firmware[x])
                            <= high.entry[n].base - End(high.entry[m])

\* The boot reaches the point where clients can be served.
BootEnds == <>(pc \in {"run", "overrun"})

\* An array is overrun only by a map with more regions than it has room for:
\* wherever the cut falls, the first loop writes one low entry for each region
\* that begins below it and the second one high entry for each that ends above
\* (pmm.c:98-135).  memory_map_read passes the end of a map that is just full,
\* and the high map has as many entries as there are regions if all are low.
OverrunOnlyIfMany ==
    pc = "overrun" /\ Sorted =>
        LET free  == {n \in DOMAIN firmware : firmware[n].type = FREE}
            below == {n \in free : firmware[n].base < cutoff}
            above == {n \in free : End(firmware[n]) > cutoff}
        IN  \/ Cardinality(free) > MmapRoom
            \/ Cardinality(below) > LowRoom
            \/ Cardinality(IF above = {} THEN free ELSE above) >= HighRoom
=============================================================================

-------------------------- MODULE MemoryMapProofs --------------------------
(***************************************************************************)
(* For every set of memory maps: no client is offered memory below the     *)
(* cutoff, and pmm_alloc never passes it.                                  *)
(***************************************************************************)
EXTENDS MemoryMap, FiniteSetTheorems, FunctionTheorems, TLAPS

TypeOK ==
    /\ pc \in {"multiboot", "total", "low", "high", "run", "overrun"}
    /\ i \in Nat /\ j \in Nat
    /\ firmware \in Map
    /\ count \in 0..MmapRoom /\ total \in Nat
    /\ entry \in [0..MmapRoom - 1 -> Region]
    /\ cutoff \in Nat /\ allocBase \in Nat
    /\ low \in [count : Nat, entry : [0..LowRoom - 1 -> Region]]
    /\ high \in [count : Nat, entry : [0..HighRoom - 1 -> Region]]
    /\ answer \in [base : Nat, limit : Nat]

Null == [base |-> 0, limit |-> 0]

\* Before the maps are filled the high map is zero and nothing was read.
Untouched ==
    pc \in {"multiboot", "total", "low"} =>
        /\ \A n \in 0..HighRoom - 1 : high.entry[n] = NoRegion
        /\ answer = Null

\* mmap is in the order of the firmware's map, and what is still to come from
\* the latter lies above it.
Ordered ==
    /\ \A m, n \in 0..count - 1 : m < n => End(entry[m]) <= entry[n].base
    /\ pc = "multiboot" =>
          \A m \in 0..count - 1, n \in DOMAIN firmware :
              i < n => End(entry[m]) <= firmware[n].base

\* What the second loop has still to copy lies above the cutoff.
RestAbove ==
    pc = "high" => \A m \in 0..count - 1 : i + j <= m => cutoff <= entry[m].base

Above ==
    /\ \A n \in 0..HighRoom - 1 :
          high.entry[n] = NoRegion \/ cutoff <= high.entry[n].base
    /\ answer = Null \/ cutoff <= answer.base

\* pmm_alloc moves towards the limit in steps that meet it.
Reaches ==
    PinionEnd <= cutoff => \E k \in Nat : cutoff = allocBase + k * PAGE

SortedInv == Untouched /\ Ordered /\ RestAbove /\ Above

IInv == TypeOK /\ Reaches /\ (Sorted => SortedInv)

-----------------------------------------------------------------------------
(* Arithmetic.                                                             *)

LEMMA RoundUpNat ==
    ASSUME NEW x \in Nat
    PROVE  /\ RoundUp(x) \in Nat
           /\ \E k \in Nat : RoundUp(x) = k * PAGE
<1>1. PICK u \in 1..Unit : Unit = u * PAGE
  BY PageAssumption
<1>2. Unit \in Nat /\ Unit # 0 /\ PAGE \in Nat
  BY SizeAssumption
<1> DEFINE q == (x + Unit - 1) \div Unit
<1>3. q \in Nat
  <2>1. x + Unit - 1 \in Nat
    BY <1>2
  <2> QED
    BY <2>1, <1>2
<1>4. RoundUp(x) = q * Unit
  BY DEF RoundUp
<1>5. q * Unit = (q * u) * PAGE
  BY <1>1, <1>2, <1>3
<1>6. q * Unit \in Nat /\ q * u \in Nat
  BY <1>1, <1>2, <1>3
<1> QED
  BY <1>4, <1>5, <1>6

-----------------------------------------------------------------------------
(* Types.                                                                  *)

LEMMA FirmwareEntry ==
    ASSUME TypeOK
    PROVE  /\ Len(firmware) \in Nat /\ DOMAIN firmware = 1..Len(firmware)
           /\ \A n \in DOMAIN firmware : firmware[n] \in Stretch
<1>1. firmware \in Seq(Stretch)
  BY MapAssumption DEF TypeOK
<1> QED
  BY <1>1

LEMMA InitInv == Init => IInv
<1> SUFFICES ASSUME Init PROVE IInv
  OBVIOUS
<1> USE SizeAssumption DEF Init
<1>1. TypeOK
  BY DEF TypeOK, Region, NoRegion
<1>2. Reaches
  <2>1. 0 \in Nat /\ cutoff = allocBase + 0 * PAGE
    OBVIOUS
  <2> QED
    BY <2>1 DEF Reaches
<1>3. SortedInv
  BY DEF SortedInv, Untouched, Ordered, RestAbove, Above, NoRegion, Null
<1> QED
  BY <1>1, <1>2, <1>3 DEF IInv


LEMMA EntryRegion ==
    ASSUME TypeOK, NEW n \in Nat, n < count
    PROVE  entry[n] \in Region /\ entry[n].base \in Nat /\ entry[n].size \in Nat
<1>1. n \in 0..MmapRoom - 1
  BY SizeAssumption DEF TypeOK
<1>2. entry[n] \in Region
  BY <1>1 DEF TypeOK
<1> QED
  BY <1>2 DEF Region

\* Writing a region at an index of a map.
LEMMA MapWrite ==
    ASSUME NEW room \in Nat, NEW n \in Nat, n < room, NEW r \in Region, NEW c \in Nat,
           NEW map \in [count : Nat, entry : [0..room - 1 -> Region]]
    PROVE  /\ [map EXCEPT !.entry[n] = r]
                  \in [count : Nat, entry : [0..room - 1 -> Region]]
           /\ [map EXCEPT !.count = c, !.entry[n] = r]
                  \in [count : Nat, entry : [0..room - 1 -> Region]]
           /\ [map EXCEPT !.count = c]
                  \in [count : Nat, entry : [0..room - 1 -> Region]]
<1>1. n \in 0..room - 1
  OBVIOUS
<1> QED
  BY <1>1

LEMMA TypeStep == TypeOK /\ [Next]_vars => TypeOK'
<1> SUFFICES ASSUME TypeOK, [Next]_vars PROVE TypeOK'
  OBVIOUS
<1> USE DEF mmapVars, pmmVars
<1>1. CASE init_multiboot
  <2>1. CASE Reported.type = FREE /\ count < MmapRoom
    <3>1. i + 1 \in DOMAIN firmware
      BY <1>1, FirmwareEntry DEF init_multiboot, TypeOK
    <3>2. Reported.base \in Nat /\ Reported.size \in Nat
      BY <3>1, FirmwareEntry DEF Reported, Stretch
    <3>3. [base |-> Reported.base, size |-> Reported.size] \in Region
      BY <3>2 DEF Region
    <3>4. count \in 0..MmapRoom - 1 /\ count + 1 \in 0..MmapRoom
      BY <2>1, SizeAssumption DEF TypeOK
    <3>. ~(count >= MmapRoom)
      BY <2>1, SizeAssumption DEF TypeOK
    <3>5. entry' = [entry EXCEPT ![count] =
                       [base |-> Reported.base, size |-> Reported.size]]
      BY <1>1, <2>1 DEF init_multiboot
    <3>6. entry' \in [0..MmapRoom - 1 -> Region]
      BY <3>3, <3>4, <3>5 DEF TypeOK
    <3>7. /\ count' = count + 1 /\ total' = total + Reported.size /\ i' = i + 1
          /\ UNCHANGED <<pc, j, firmware, pmmVars, answer>>
      BY <1>1, <2>1 DEF init_multiboot
    <3> QED
      BY <3>2, <3>4, <3>6, <3>7 DEF TypeOK
  <2>2. CASE Reported.type # FREE
    BY <1>1, <2>2, SMTT(30), ZenonT(40) DEF init_multiboot, TypeOK
  <2>3. CASE Reported.type = FREE /\ ~(count < MmapRoom)
    BY <1>1, <2>3 DEF init_multiboot, Overrun, TypeOK
  <2> QED
    BY <2>1, <2>2, <2>3
<1>2. CASE StartTotal
  BY <1>2 DEF StartTotal, TypeOK
<1>3. CASE init_mmap
  <2>1. entry[i].size \in Nat
    BY <1>3, EntryRegion DEF init_mmap, TypeOK
  <2> QED
    BY <1>3, <2>1, SMTT(30), ZenonT(40) DEF init_mmap, TypeOK
<1>4. CASE StartLow
  <2>1. total \in Nat /\ Ratio \in Nat /\ Ratio # 0
    BY SizeAssumption DEF TypeOK
  <2>2. total \div Ratio \in Nat
    BY <2>1
  <2>3. RoundUp(total \div Ratio) \in Nat
    BY <2>2, RoundUpNat
  <2> QED
    BY <1>4, <2>3, SizeAssumption DEF StartLow, TypeOK
<1>5. CASE CopyLow
  <2>1. entry[i] \in Region /\ i \in Nat /\ i < LowRoom
    BY <1>5, EntryRegion DEF CopyLow, TypeOK
  <2>2. low' \in [count : Nat, entry : [0..LowRoom - 1 -> Region]]
    BY <1>5, <2>1, MapWrite, SizeAssumption DEF CopyLow, TypeOK
  <2>3. /\ i' \in Nat
        /\ UNCHANGED <<pc, j, firmware, count, total, entry, cutoff, high, allocBase, answer>>
    BY <1>5, <2>1 DEF CopyLow
  <2> QED
    BY <2>2, <2>3 DEF TypeOK
<1>6. CASE SplitLow
  <2>1. i \in Nat /\ i < LowRoom /\ cutoff \in Nat /\ i + 1 \in Nat
    BY <1>6 DEF SplitLow, TypeOK
  <2>2. entry[i].base \in Nat /\ entry[i].size \in Nat
    BY <1>6, <2>1, EntryRegion DEF SplitLow
  <2>3. [base |-> entry[i].base, size |-> cutoff - entry[i].base] \in Region
    BY <1>6, <2>1, <2>2 DEF SplitLow, Region
  <2>4. [base |-> cutoff, size |-> End(entry[i]) - cutoff] \in Region
    BY <1>6, <2>1, <2>2 DEF SplitLow, Region, End
  <2>5. low' \in [count : Nat, entry : [0..LowRoom - 1 -> Region]]
    BY <1>6, <2>1, <2>3, MapWrite, SizeAssumption DEF SplitLow, TypeOK
  <2>6. high' \in [count : Nat, entry : [0..HighRoom - 1 -> Region]]
    BY <1>6, <2>4, MapWrite, SizeAssumption DEF SplitLow, TypeOK
  <2>7. /\ i' \in Nat /\ j' \in Nat /\ pc' = "high"
        /\ UNCHANGED <<firmware, count, total, entry, cutoff, allocBase, answer>>
    BY <1>6, <2>1 DEF SplitLow
  <2> QED
    BY <2>5, <2>6, <2>7 DEF TypeOK
<1>7. CASE CutLow
  BY <1>7 DEF CutLow, TypeOK
<1>8. CASE EndLow
  BY <1>8 DEF EndLow, TypeOK
<1>9. CASE OverrunLow
  BY <1>9 DEF OverrunLow, Overrun, TypeOK
<1>10. CASE CopyHigh
  <2>1. i \in Nat /\ i < HighRoom /\ i + j \in Nat /\ i + j < count
    BY <1>10 DEF CopyHigh, TypeOK
  <2>2. entry[i + j] \in Region
    BY <2>1, EntryRegion
  <2>3. high' \in [count : Nat, entry : [0..HighRoom - 1 -> Region]]
    BY <1>10, <2>1, <2>2, MapWrite, SizeAssumption DEF CopyHigh, TypeOK
  <2>4. /\ i' \in Nat
        /\ UNCHANGED <<pc, j, firmware, count, total, entry, cutoff, low, allocBase, answer>>
    BY <1>10, <2>1 DEF CopyHigh
  <2> QED
    BY <2>3, <2>4 DEF TypeOK
<1>11. CASE OverrunHigh
  BY <1>11 DEF OverrunHigh, Overrun, TypeOK
<1>12. CASE EndHigh
  BY <1>12 DEF EndHigh, TypeOK
<1>13. CASE pmm_alloc
  BY <1>13, SizeAssumption DEF pmm_alloc, TypeOK
<1>14. ASSUME NEW index \in Index, memory_map_read(index) PROVE TypeOK'
  <2>1. CASE index > high.count
    BY <1>14, <2>1 DEF memory_map_read, TypeOK
  <2>2. CASE ~(index > high.count)
    <3>1. index \in 0..HighRoom - 1
      BY <1>14, <2>2, SizeAssumption DEF memory_map_read, Index, TypeOK
    <3>2. high.entry[index] \in Region
      BY <3>1 DEF TypeOK
    <3>3. high.entry[index].base \in Nat /\ End(high.entry[index]) \in Nat
      BY <3>2 DEF Region, End
    <3> QED
      BY <1>14, <2>2, <3>3 DEF memory_map_read, TypeOK
  <2> QED
    BY <2>1, <2>2
<1>15. ASSUME NEW index \in Index, ReadPast(index) PROVE TypeOK'
  BY <1>15 DEF ReadPast, Overrun, TypeOK
<1>16. CASE UNCHANGED vars
  BY <1>16 DEF vars, TypeOK
<1> QED
  BY <1>1, <1>2, <1>3, <1>4, <1>5, <1>6, <1>7, <1>8, <1>9, <1>10, <1>11,
     <1>12, <1>13, <1>14, <1>15, <1>16 DEF Next, Boot

-----------------------------------------------------------------------------
(* The limit of pmm_alloc.                                                 *)

LEMMA ReachesStep == TypeOK /\ Reaches /\ [Next]_vars => Reaches'
<1> SUFFICES ASSUME TypeOK, Reaches, [Next]_vars PROVE Reaches'
  OBVIOUS
<1>1. CASE UNCHANGED <<cutoff, allocBase>>
  BY <1>1 DEF Reaches
<1>2. CASE StartLow
  <2> SUFFICES ASSUME PinionEnd <= cutoff'
               PROVE  \E k \in Nat : cutoff' = allocBase' + k * PAGE
    BY DEF Reaches
  <2>1. total \div Ratio \in Nat
    BY SizeAssumption DEF TypeOK
  <2>2. PICK c \in Nat : cutoff' = c * PAGE
    BY <1>2, <2>1, RoundUpNat DEF StartLow
  <2>3. PICK p \in 0..PinionEnd : PinionEnd = p * PAGE
    BY PageAssumption
  <2>4. PAGE \in Nat /\ PAGE # 0 /\ p \in Nat
    BY SizeAssumption
  <2>5. p <= c
    <3> SUFFICES ASSUME c < p PROVE FALSE
      BY <2>2, <2>4
    <3>1. p - c \in Nat /\ p - c # 0
      BY <2>2, <2>4
    <3>2. (p - c) * PAGE > 0
      BY <3>1, <2>4
    <3>3. (p - c) * PAGE = p * PAGE - c * PAGE
      BY <2>2, <2>4
    <3> QED
      BY <3>2, <3>3, <2>2, <2>3, <2>4
  <2>6. c - p \in Nat
    BY <2>2, <2>4, <2>5
  <2>7. cutoff' = PinionEnd + (c - p) * PAGE
    BY <2>2, <2>3, <2>4
  <2> QED
    BY <1>2, <2>6, <2>7 DEF StartLow
<1>3. CASE pmm_alloc
  <2> SUFFICES ASSUME PinionEnd <= cutoff'
               PROVE  \E k \in Nat : cutoff' = allocBase' + k * PAGE
    BY DEF Reaches
  <2>1. cutoff' = cutoff /\ allocBase # cutoff /\ allocBase' = allocBase + PAGE
    BY <1>3 DEF pmm_alloc
  <2>2. PICK k \in Nat : cutoff = allocBase + k * PAGE
    BY <2>1 DEF Reaches
  <2>3. PAGE \in Nat /\ allocBase \in Nat /\ cutoff \in Nat
    BY SizeAssumption DEF TypeOK
  <2>4. k # 0
    BY <2>1, <2>2, <2>3
  <2>5. k - 1 \in Nat /\ k * PAGE = PAGE + (k - 1) * PAGE
    BY <2>4, <2>3
  <2>6. cutoff' = allocBase' + (k - 1) * PAGE
    BY <2>1, <2>2, <2>3, <2>5
  <2> QED
    BY <2>5, <2>6
<1> QED
  BY <1>1, <1>2, <1>3 DEF Next, Boot, init_multiboot, StartTotal, init_mmap,
     CopyLow, SplitLow, CutLow, EndLow, OverrunLow, CopyHigh, OverrunHigh,
     EndHigh, memory_map_read, ReadPast, Overrun, pmmVars, vars


-----------------------------------------------------------------------------
(* The maps.                                                               *)

\* Everything SortedInv depends on stays.
LEMMA SortedSame ==
    ASSUME SortedInv,
           UNCHANGED <<firmware, count, entry, cutoff, high, answer>>,
           pc' \in {"multiboot", "total", "low"} => pc \in {"multiboot", "total", "low"},
           pc' = "multiboot" => pc = "multiboot" /\ i' = i,
           pc' = "high" => pc = "high" /\ UNCHANGED <<i, j>>
    PROVE  SortedInv'
BY DEF SortedInv, Untouched, Ordered, RestAbove, Above

LEMMA SortedStep ==
    ASSUME TypeOK, SortedInv, Sorted, [Next]_vars
    PROVE  SortedInv'
<1> USE DEF mmapVars, pmmVars
<1>1. CASE init_multiboot
  <2>1. CASE Reported.type = FREE /\ count < MmapRoom
    <3>1. ~(count >= MmapRoom) /\ count \in Nat /\ i \in Nat
      BY <2>1, SizeAssumption DEF TypeOK
    <3>2. /\ entry' = [entry EXCEPT ![count] =
                          [base |-> Reported.base, size |-> Reported.size]]
          /\ count' = count + 1 /\ i' = i + 1
          /\ UNCHANGED <<pc, j, firmware, pmmVars, answer>>
      BY <1>1, <2>1, <3>1 DEF init_multiboot
    <3>3. count \in 0..MmapRoom - 1
      BY <2>1, <3>1, SizeAssumption
    <3>4. i + 1 \in DOMAIN firmware /\ pc = "multiboot"
      BY <1>1, FirmwareEntry DEF init_multiboot, TypeOK
    <3>5. \A m \in 0..count - 1 : entry'[m] = entry[m]
      BY <3>1, <3>2, <3>3 DEF TypeOK
    <3>6. entry'[count] = [base |-> firmware[i + 1].base, size |-> firmware[i + 1].size]
      BY <3>2, <3>3 DEF TypeOK, Reported
    <3>7. End(entry'[count]) = firmware[i + 1].base + firmware[i + 1].size
      BY <3>6 DEF End
    <3>8. \A m, n \in 0..count' - 1 : m < n => End(entry'[m]) <= entry'[n].base
      <4> SUFFICES ASSUME NEW m \in 0..count' - 1, NEW n \in 0..count' - 1, m < n
                   PROVE  End(entry'[m]) <= entry'[n].base
        OBVIOUS
      <4>1. m \in 0..count - 1
        BY <3>1, <3>2
      <4>2. End(entry'[m]) = End(entry[m])
        BY <3>5, <4>1 DEF End
      <4>3. CASE n = count
        BY <3>1, <3>4, <3>6, <4>1, <4>2, <4>3 DEF SortedInv, Ordered
      <4>4. CASE n # count
        <5>1. n \in 0..count - 1
          BY <3>1, <3>2, <4>4
        <5> QED
          BY <3>5, <4>1, <4>2, <5>1 DEF SortedInv, Ordered
      <4> QED
        BY <4>3, <4>4
    <3>9. \A m \in 0..count' - 1, n \in DOMAIN firmware :
             i + 1 < n => End(entry'[m]) <= firmware[n].base
      <4> SUFFICES ASSUME NEW m \in 0..count' - 1, NEW n \in DOMAIN firmware, i + 1 < n
                   PROVE  End(entry'[m]) <= firmware[n].base
        OBVIOUS
      <4>1. CASE m = count
        BY <3>4, <3>7, <4>1 DEF Sorted
      <4>2. CASE m # count
        <5>1. m \in 0..count - 1
          BY <3>1, <3>2, <4>2
        <5>2. i < n
          BY <3>1, FirmwareEntry
        <5>3. End(entry'[m]) = End(entry[m])
          BY <3>5, <5>1 DEF End
        <5> QED
          BY <3>4, <5>1, <5>2, <5>3 DEF SortedInv, Ordered
      <4> QED
        BY <4>1, <4>2
    <3>10. Ordered'
      BY <3>2, <3>8, <3>9 DEF Ordered, End
    <3> QED
      BY <3>2, <3>4, <3>10 DEF SortedInv, Untouched, RestAbove, Above
  <2>2. CASE Reported.type # FREE
    <3>1. /\ i' = i + 1 /\ i \in Nat
          /\ UNCHANGED <<pc, j, firmware, mmapVars, pmmVars, answer>>
      BY <1>1, <2>2 DEF init_multiboot, TypeOK
    <3>2. Ordered'
      <4> SUFFICES ASSUME NEW m \in 0..count - 1, NEW n \in DOMAIN firmware, i + 1 < n,
                          pc = "multiboot"
                   PROVE  End(entry[m]) <= firmware[n].base
        BY <3>1 DEF SortedInv, Ordered
      <4>1. i < n
        BY <3>1, FirmwareEntry
      <4> QED
        BY <4>1 DEF SortedInv, Ordered
    <3>3. pc = "multiboot"
      BY <1>1 DEF init_multiboot
    <3> QED
      BY <3>1, <3>2, <3>3 DEF SortedInv, Untouched, RestAbove, Above
  <2>3. CASE Reported.type = FREE /\ ~(count < MmapRoom)
    <3>1. Overrun
      BY <1>1, <2>3 DEF init_multiboot
    <3> QED
      BY <3>1, SortedSame DEF Overrun
  <2> QED
    BY <2>1, <2>2, <2>3
<1>2. CASE StartTotal
  BY <1>2, SortedSame DEF StartTotal
<1>3. CASE init_mmap
  BY <1>3, SortedSame DEF init_mmap
<1>4. CASE StartLow
  BY <1>4 DEF StartLow, SortedInv, Untouched, Ordered, RestAbove, Above
<1>5. CASE CopyLow
  BY <1>5, SortedSame DEF CopyLow
<1>6. CASE SplitLow
  <2>1. /\ i \in Nat /\ i < count /\ cutoff \in Nat
        /\ cutoff < End(entry[i])
        /\ i' = 1 /\ j' = i /\ pc' = "high"
        /\ high' = [high EXCEPT !.entry[0] =
                       [base |-> cutoff, size |-> End(entry[i]) - cutoff]]
        /\ UNCHANGED <<firmware, count, entry, cutoff, answer>>
    <3>1. entry[i].base \in Nat /\ entry[i].size \in Nat
      BY <1>6, EntryRegion DEF SplitLow, TypeOK
    <3> QED
      BY <1>6, <3>1 DEF SplitLow, TypeOK, End
  <2>2. RestAbove'
    <3> SUFFICES ASSUME NEW m \in 0..count - 1, 1 + i <= m
                 PROVE  cutoff <= entry[m].base
      BY <2>1 DEF RestAbove
    <3>1. i \in 0..count - 1 /\ i < m /\ m \in Nat /\ m < count
      BY <2>1 DEF TypeOK
    <3>2. End(entry[i]) <= entry[m].base
      BY <3>1 DEF SortedInv, Ordered
    <3>3. entry[m].base \in Nat /\ End(entry[i]) \in Nat
      BY <2>1, <3>1, EntryRegion DEF End
    <3> QED
      BY <2>1, <3>2, <3>3
  <2>3. Above'
    <3>1. \A n \in 0..HighRoom - 1 : n # 0 => high'.entry[n] = high.entry[n]
      BY <2>1 DEF TypeOK
    <3>2. 0 \in 0..HighRoom - 1 => high'.entry[0].base = cutoff
      BY <2>1 DEF TypeOK
    <3> QED
      BY <2>1, <3>1, <3>2 DEF SortedInv, Above
  <2> QED
    BY <2>1, <2>2, <2>3 DEF SortedInv, Untouched, Ordered
<1>7. CASE CutLow
  <2>1. /\ i \in Nat /\ i < count /\ cutoff \in Nat
        /\ cutoff <= entry[i].base
        /\ i' = 0 /\ j' = i /\ pc' = "high"
        /\ UNCHANGED <<firmware, count, entry, cutoff, high, answer>>
    <3>1. entry[i].base \in Nat
      BY <1>7, EntryRegion DEF CutLow, TypeOK
    <3> QED
      BY <1>7, <3>1 DEF CutLow, TypeOK
  <2>2. RestAbove'
    <3> SUFFICES ASSUME NEW m \in 0..count - 1, i <= m
                 PROVE  cutoff <= entry[m].base
      BY <2>1 DEF RestAbove
    <3>1. CASE m = i
      BY <2>1, <3>1
    <3>2. CASE m # i
      <4>1. i \in 0..count - 1 /\ i < m /\ m \in Nat /\ m < count
        BY <2>1, <3>2 DEF TypeOK
      <4>2. End(entry[i]) <= entry[m].base
        BY <4>1 DEF SortedInv, Ordered
      <4>3. entry[m].base \in Nat /\ entry[i].base \in Nat /\ entry[i].size \in Nat
        BY <2>1, <4>1, EntryRegion
      <4> QED
        BY <2>1, <4>2, <4>3 DEF End
    <3> QED
      BY <3>1, <3>2
  <2> QED
    BY <2>1, <2>2 DEF SortedInv, Untouched, Ordered, Above
<1>8. CASE EndLow
  <2>1. /\ i = count /\ i \in Nat /\ j \in Nat /\ pc' = "high"
        /\ UNCHANGED <<i, j, firmware, count, entry, cutoff, high, answer>>
    BY <1>8 DEF EndLow, TypeOK
  <2>2. RestAbove'
    BY <2>1 DEF RestAbove
  <2> QED
    BY <2>1, <2>2 DEF SortedInv, Untouched, Ordered, Above
<1>9. CASE OverrunLow
  BY <1>9, SortedSame DEF OverrunLow, Overrun
<1>10. CASE CopyHigh
  <2>1. /\ i \in Nat /\ j \in Nat /\ i + j < count /\ pc = "high" /\ count \in Nat
        /\ i' = i + 1 /\ high' = [high EXCEPT !.entry[i] = entry[i + j]]
        /\ UNCHANGED <<pc, j, firmware, count, entry, cutoff, answer>>
    BY <1>10 DEF CopyHigh, TypeOK
  <2>2. cutoff <= entry[i + j].base
    BY <2>1 DEF SortedInv, RestAbove
  <2>3. Above'
    <3>1. \A n \in 0..HighRoom - 1 :
             high'.entry[n] = IF n = i THEN entry[i + j] ELSE high.entry[n]
      BY <2>1 DEF TypeOK
    <3> QED
      BY <2>1, <2>2, <3>1 DEF SortedInv, Above
  <2>4. RestAbove'
    BY <2>1 DEF SortedInv, RestAbove
  <2> QED
    BY <2>1, <2>3, <2>4 DEF SortedInv, Untouched, Ordered
<1>11. CASE OverrunHigh
  BY <1>11, SortedSame DEF OverrunHigh, Overrun
<1>12. CASE EndHigh
  <2>1. /\ high' = [high EXCEPT !.count = i] /\ pc' = "run"
        /\ UNCHANGED <<firmware, count, entry, cutoff, answer>>
    BY <1>12 DEF EndHigh
  <2>2. high'.entry = high.entry
    BY <2>1 DEF TypeOK
  <2> QED
    BY <2>1, <2>2 DEF SortedInv, Untouched, Ordered, RestAbove, Above
<1>13. CASE pmm_alloc
  BY <1>13, SortedSame DEF pmm_alloc
<1>14. ASSUME NEW index \in Index, memory_map_read(index) PROVE SortedInv'
  <2>1. pc = "run" /\ UNCHANGED <<pc, i, j, firmware, mmapVars, pmmVars>>
    BY <1>14 DEF memory_map_read
  <2>2. answer' = Null \/ cutoff <= answer'.base
    <3>1. CASE index > high.count
      BY <1>14, <3>1 DEF memory_map_read, Null
    <3>2. CASE ~(index > high.count)
      <4>1. index \in 0..HighRoom - 1
        BY <1>14, <3>2, SizeAssumption DEF memory_map_read, Index, TypeOK
      <4>2. answer' = [base |-> high.entry[index].base, limit |-> End(high.entry[index])]
        BY <1>14, <3>2 DEF memory_map_read
      <4>3. CASE high.entry[index] = NoRegion
        BY <4>2, <4>3 DEF Null, NoRegion, End
      <4>4. CASE cutoff <= high.entry[index].base
        BY <4>2, <4>4
      <4> QED
        BY <4>1, <4>3, <4>4 DEF SortedInv, Above
    <3> QED
      BY <3>1, <3>2
  <2> QED
    BY <2>1, <2>2 DEF SortedInv, Untouched, Ordered, RestAbove, Above
<1>15. ASSUME NEW index \in Index, ReadPast(index) PROVE SortedInv'
  BY <1>15, SortedSame DEF ReadPast, Overrun
<1>16. CASE UNCHANGED vars
  BY <1>16, SortedSame DEF vars
<1> QED
  BY <1>1, <1>2, <1>3, <1>4, <1>5, <1>6, <1>7, <1>8, <1>9, <1>10, <1>11,
     <1>12, <1>13, <1>14, <1>15, <1>16 DEF Next, Boot

-----------------------------------------------------------------------------
(* Nothing is lost.                                                        *)

\* No firmware reports an empty region.
NonEmpty == \A map \in Map : \A n \in DOMAIN map : map[n].size # 0

\* The free regions that the first loop has come to, and the regions in mmap:
\* one for each.
Kept ==
    {n \in DOMAIN firmware : firmware[n].type = FREE /\ (pc = "multiboot" => n <= i)}

Collected ==
    \E f \in [0..count - 1 -> Kept] :
        /\ \A m \in 0..count - 1 :
              entry[m] = [base |-> firmware[f[m]].base, size |-> firmware[f[m]].size]
        /\ \A m, n \in 0..count - 1 : f[m] = f[n] => m = n
        /\ \A n \in Kept : \E m \in 0..count - 1 : f[m] = n

\* The first loop of pmm_init has passed only what lies below the cutoff.
PassedLow ==
    /\ pc \in {"multiboot", "total", "low"} => j = 0
    /\ pc = "low" => i <= count /\ \A m \in 0..count - 1 : m < i => End(entry[m]) <= cutoff

\* A region's part above the cutoff.
Clipped(r) ==
    IF r.base < cutoff THEN [base |-> cutoff, size |-> End(r) - cutoff] ELSE r

\* The second loop: everything is low, or the entries from j on are high, and
\* those before j + i are in the high map.
AllLow ==
    /\ i = count /\ j = 0
    /\ \A m \in 0..count - 1 : End(entry[m]) <= cutoff
    /\ \A n \in 0..HighRoom - 1 : high.entry[n] = NoRegion
CutAt ==
    /\ i + j <= count /\ i <= HighRoom
    /\ \A m \in 0..count - 1 : End(entry[m]) > cutoff <=> j <= m
    /\ \A n \in 0..HighRoom - 1 :
          high.entry[n] = IF n < i THEN Clipped(entry[n + j]) ELSE NoRegion

Filled ==
    /\ pc \in {"high", "run"} => AllLow \/ CutAt
    /\ pc = "run" => high.count = i /\ i + j = count

CoverInv == pc # "overrun" => Collected /\ PassedLow /\ Filled

\* What Collected says of a witness.
Counts(f) ==
    /\ f \in [0..count - 1 -> Kept]
    /\ \A m \in 0..count - 1 :
          entry[m] = [base |-> firmware[f[m]].base, size |-> firmware[f[m]].size]
    /\ \A m, n \in 0..count - 1 : f[m] = f[n] => m = n
    /\ \A n \in Kept : \E m \in 0..count - 1 : f[m] = n

LEMMA FirmwareSizes ==
    ASSUME TypeOK, NonEmpty, NEW n \in DOMAIN firmware
    PROVE  /\ n \in Nat /\ n > 0
           /\ firmware[n].base \in Nat
           /\ firmware[n].size \in Nat /\ firmware[n].size # 0
<1>1. firmware[n] \in Stretch /\ n \in Nat /\ n > 0
  BY FirmwareEntry
<1>2. firmware[n].size # 0
  BY DEF NonEmpty, TypeOK
<1> QED
  BY <1>1, <1>2 DEF Stretch

\* No collected region is empty either.
LEMMA EntrySizes ==
    ASSUME TypeOK, NonEmpty, Collected, NEW m \in 0..count - 1
    PROVE  /\ entry[m].base \in Nat /\ entry[m].size \in Nat /\ entry[m].size # 0
           /\ End(entry[m]) \in Nat /\ entry[m].base < End(entry[m])
<1>1. PICK f : Counts(f)
  BY DEF Collected, Counts
<1>2. f[m] \in DOMAIN firmware
  BY <1>1 DEF Counts, Kept
<1>3. entry[m] = [base |-> firmware[f[m]].base, size |-> firmware[f[m]].size]
  BY <1>1 DEF Counts
<1>4. entry[m].base \in Nat /\ entry[m].size \in Nat /\ entry[m].size # 0
  BY <1>2, <1>3, FirmwareSizes
<1> QED
  BY <1>4 DEF End

\* init_multiboot keeps a region or passes one that is not free.
LEMMA CollectedStep ==
    ASSUME TypeOK, Collected, init_multiboot, pc' # "overrun"
    PROVE  Collected'
<1>1. PICK f : Counts(f)
  BY DEF Collected, Counts
<1>2. /\ i \in Nat /\ count \in Nat /\ pc = "multiboot"
      /\ i + 1 \in DOMAIN firmware /\ DOMAIN firmware \subseteq Nat
  BY FirmwareEntry DEF init_multiboot, TypeOK
<1>3. i' = i + 1 /\ firmware' = firmware /\ pc' = pc
  BY DEF init_multiboot, Overrun
<1>4. CASE Reported.type = FREE
  <2>1. /\ count' = count + 1 /\ count < MmapRoom
        /\ entry' = [entry EXCEPT
              ![count] = [base |-> Reported.base, size |-> Reported.size]]
    BY <1>4 DEF init_multiboot, Overrun, mmapVars
  <2>2. count \in 0..MmapRoom - 1
    BY <1>2, <2>1, SizeAssumption
  <2>3. Kept' = Kept \cup {i + 1} /\ i + 1 \notin Kept
    BY <1>2, <1>3, <1>4 DEF Kept, Reported
  <2> DEFINE g == [m \in 0..count' - 1 |-> IF m = count THEN i + 1 ELSE f[m]]
  <2>4. \A m \in 0..count' - 1 : m = count \/ m \in 0..count - 1
    BY <1>2, <2>1
  <2>5. 0..count - 1 \subseteq 0..count' - 1 /\ count \in 0..count' - 1 /\ count \notin 0..count - 1
    BY <1>2, <2>1
  <2>6. \A m \in 0..count - 1 : m # count /\ f[m] \in Kept /\ g[m] = f[m]
    BY <1>1, <2>5 DEF Counts
  <2>7. g[count] = i + 1
    BY <2>5
  <2>8. g \in [0..count' - 1 -> Kept']
    <3>1. \A m \in 0..count' - 1 : g[m] \in Kept'
      BY <2>3, <2>4, <2>6, <2>7
    <3> QED
      BY <3>1
  <2>9. \A m \in 0..count' - 1 :
           entry'[m] = [base |-> firmware[g[m]].base, size |-> firmware[g[m]].size]
    <3> SUFFICES ASSUME NEW m \in 0..count' - 1
                 PROVE  entry'[m] = [base |-> firmware[g[m]].base, size |-> firmware[g[m]].size]
      OBVIOUS
    <3>1. CASE m = count
      <4>1. entry'[count] = [base |-> Reported.base, size |-> Reported.size]
        BY <2>1, <2>2 DEF TypeOK
      <4> QED
        BY <3>1, <4>1, <2>7 DEF Reported
    <3>2. CASE m \in 0..count - 1
      <4>1. entry'[m] = entry[m]
        BY <2>1, <2>2, <2>6, <3>2 DEF TypeOK
      <4>2. entry[m] = [base |-> firmware[f[m]].base, size |-> firmware[f[m]].size]
        BY <1>1, <3>2 DEF Counts
      <4> QED
        BY <2>6, <3>2, <4>1, <4>2
    <3> QED
      BY <2>4, <3>1, <3>2
  <2>10. \A m, n \in 0..count' - 1 : g[m] = g[n] => m = n
    <3>1. \A m, n \in 0..count - 1 : g[m] = g[n] => m = n
      BY <1>1, <2>6 DEF Counts
    <3>2. \A m \in 0..count - 1 : g[m] # g[count]
      BY <2>3, <2>6, <2>7
    <3> QED
      BY <2>4, <3>1, <3>2
  <2>11. \A n \in Kept' : \E m \in 0..count' - 1 : g[m] = n
    <3>1. \A n \in Kept : \E m \in 0..count - 1 : g[m] = n
      BY <1>1, <2>6 DEF Counts
    <3> QED
      BY <2>3, <2>5, <2>7, <3>1
  <2> HIDE DEF g
  <2> QED
    BY <1>3, <2>8, <2>9, <2>10, <2>11 DEF Collected
<1>5. CASE Reported.type # FREE
  <2>1. UNCHANGED <<count, entry>>
    BY <1>5 DEF init_multiboot, Overrun, mmapVars
  <2>2. Kept' = Kept
    BY <1>2, <1>3, <1>5 DEF Kept, Reported
  <2>3. Counts(f)'
    BY <1>1, <1>3, <2>1, <2>2 DEF Counts
  <2> QED
    BY <2>3 DEF Collected, Counts
<1> QED
  BY <1>4, <1>5

\* No other step changes what is kept; the loop has then seen every region.
LEMMA CollectedSame ==
    ASSUME TypeOK, Collected, UNCHANGED <<firmware, count, entry>>,
           \/ pc = "multiboot" /\ pc' = "multiboot" /\ i' = i
           \/ pc # "multiboot" /\ pc' # "multiboot"
           \/ pc = "multiboot" /\ i = Len(firmware) /\ pc' # "multiboot"
    PROVE  Collected'
<1>1. PICK f : Counts(f)
  BY DEF Collected, Counts
<1>2. Kept' = Kept
  BY FirmwareEntry DEF Kept
<1>3. Counts(f)'
  BY <1>1, <1>2 DEF Counts
<1> QED
  BY <1>3 DEF Collected, Counts

\* A step that leaves the maps and the counters alone.
LEMMA CoverSame ==
    ASSUME TypeOK, CoverInv, pc # "overrun", pc' # "overrun",
           UNCHANGED <<i, j, firmware, count, entry, cutoff, high>>,
           pc' = pc
    PROVE  CoverInv'
<1>1. Collected'
  BY CollectedSame DEF CoverInv
<1>2. PassedLow'
  BY DEF CoverInv, PassedLow, End
<1>3. Filled'
  <2>1. (AllLow => AllLow') /\ (CutAt => CutAt')
    BY DEF AllLow, CutAt, Clipped, End
  <2> QED
    BY <2>1 DEF CoverInv, Filled
<1> QED
  BY <1>1, <1>2, <1>3 DEF CoverInv

\* The end of the first loop at an entry that ends above the cutoff: all entries
\* before it are low, all after it high.
LEMMA CutPlace ==
    ASSUME TypeOK, NonEmpty, SortedInv, CoverInv, pc = "low", i < count,
           End(entry[i]) > cutoff
    PROVE  \A m \in 0..count - 1 : End(entry[m]) > cutoff <=> i <= m
<1> SUFFICES ASSUME NEW m \in 0..count - 1
             PROVE  End(entry[m]) > cutoff <=> i <= m
  OBVIOUS
<1>1. /\ i \in Nat /\ i \in 0..count - 1 /\ m \in Nat /\ cutoff \in Nat
      /\ Collected /\ PassedLow
  BY DEF TypeOK, CoverInv
<1>2. CASE m < i
  BY <1>1, <1>2, EntrySizes DEF PassedLow
<1>3. CASE m = i
  BY <1>1, <1>3
<1>4. CASE i < m
  <2>1. End(entry[i]) <= entry[m].base
    BY <1>1, <1>4 DEF SortedInv, Ordered
  <2>2. End(entry[i]) \in Nat /\ entry[m].base \in Nat /\ End(entry[m]) \in Nat
        /\ entry[m].base < End(entry[m])
    BY <1>1, EntrySizes
  <2> QED
    BY <1>1, <1>4, <2>1, <2>2
<1> QED
  BY <1>1, <1>2, <1>3, <1>4

LEMMA CoverStep ==
    ASSUME TypeOK, NonEmpty, SortedInv, CoverInv, [Next]_vars
    PROVE  CoverInv'
<1> SUFFICES ASSUME pc' # "overrun" PROVE CoverInv'
  BY DEF CoverInv
<1> USE DEF mmapVars, pmmVars
<1>0. pc # "overrun" /\ Collected /\ PassedLow /\ Filled /\ i \in Nat /\ j \in Nat
      /\ count \in Nat /\ cutoff \in Nat
  BY DEF CoverInv, Next, Boot, init_multiboot, StartTotal, init_mmap, StartLow, CopyLow,
     SplitLow, CutLow, EndLow, OverrunLow, CopyHigh, OverrunHigh, EndHigh,
     pmm_alloc, memory_map_read, ReadPast, Overrun, vars, TypeOK
<1>1. CASE init_multiboot
  <2>1. pc = "multiboot" /\ pc' = pc /\ j' = j
    BY <1>1 DEF init_multiboot, Overrun
  <2>2. Collected'
    BY <1>0, <1>1, CollectedStep
  <2> QED
    BY <1>0, <2>1, <2>2 DEF CoverInv, PassedLow, Filled
<1>2. CASE StartTotal
  <2>1. Collected'
    BY <1>0, <1>2, CollectedSame DEF StartTotal
  <2> QED
    BY <1>0, <1>2, <2>1 DEF StartTotal, CoverInv, PassedLow, Filled
<1>3. CASE init_mmap
  <2>1. Collected'
    BY <1>0, <1>3, CollectedSame DEF init_mmap
  <2> QED
    BY <1>0, <1>3, <2>1 DEF init_mmap, CoverInv, PassedLow, Filled
<1>4. CASE StartLow
  <2>1. Collected'
    BY <1>0, <1>4, CollectedSame DEF StartLow
  <2> QED
    BY <1>0, <1>4, <2>1 DEF StartLow, CoverInv, PassedLow, Filled
<1>5. CASE CopyLow
  <2>1. Collected'
    BY <1>0, <1>5, CollectedSame DEF CopyLow
  <2>2. PassedLow'
    <3>1. /\ i' = i + 1 /\ pc = "low" /\ pc' = "low" /\ i < count /\ End(entry[i]) <= cutoff
          /\ UNCHANGED <<j, count, entry, cutoff>>
      BY <1>5 DEF CopyLow
    <3>2. \A m \in 0..count - 1 : m < i + 1 => m < i \/ m = i
      BY <1>0
    <3> QED
      BY <1>0, <3>1, <3>2 DEF PassedLow, End
  <2> QED
    BY <1>5, <2>1, <2>2 DEF CopyLow, CoverInv, Filled
<1>6. CASE SplitLow
  <2>1. /\ pc = "low" /\ i < count /\ HighRoom > 0 /\ End(entry[i]) > cutoff
        /\ entry[i].base < cutoff
        /\ high' = [high EXCEPT !.entry[0] =
                       [base |-> cutoff, size |-> End(entry[i]) - cutoff]]
        /\ i' = 1 /\ j' = i /\ pc' = "high"
        /\ UNCHANGED <<firmware, count, entry, cutoff>>
    BY <1>6 DEF SplitLow
  <2>2. Collected'
    BY <1>0, <2>1, CollectedSame
  <2>3. \A m \in 0..count - 1 : End(entry[m]) > cutoff <=> i <= m
    BY <2>1, CutPlace
  <2>4. \A n \in 0..HighRoom - 1 :
           high'.entry[n] = IF n < 1 THEN Clipped(entry[n + i]) ELSE NoRegion
    <3>1. \A n \in 0..HighRoom - 1 : high.entry[n] = NoRegion
      BY <2>1 DEF SortedInv, Untouched
    <3>2. \A n \in 0..HighRoom - 1 :
             high'.entry[n] = IF n = 0 THEN Clipped(entry[i]) ELSE high.entry[n]
      BY <2>1 DEF TypeOK, Clipped
    <3>3. \A n \in 0..HighRoom - 1 : (n < 1 <=> n = 0) /\ 0 + i = i
      BY <1>0
    <3> QED
      BY <3>1, <3>2, <3>3
  <2>5. CutAt'
    BY <1>0, <2>1, <2>3, <2>4, SizeAssumption DEF CutAt, Clipped, End
  <2> QED
    BY <2>1, <2>2, <2>5 DEF CoverInv, PassedLow, Filled
<1>7. CASE CutLow
  <2>1. /\ pc = "low" /\ i < count /\ entry[i].base >= cutoff
        /\ i' = 0 /\ j' = i /\ pc' = "high"
        /\ UNCHANGED <<firmware, count, entry, cutoff, high>>
    BY <1>7 DEF CutLow
  <2>2. Collected'
    BY <1>0, <2>1, CollectedSame
  <2>3. End(entry[i]) > cutoff
    <3>1. i \in 0..count - 1
      BY <1>0, <2>1
    <3>2. entry[i].base \in Nat /\ End(entry[i]) \in Nat /\ entry[i].base < End(entry[i])
      BY <1>0, <3>1, EntrySizes
    <3> QED
      BY <1>0, <2>1, <3>2
  <2>4. \A m \in 0..count - 1 : End(entry[m]) > cutoff <=> i <= m
    BY <2>1, <2>3, CutPlace
  <2>5. \A n \in 0..HighRoom - 1 : high.entry[n] = NoRegion /\ ~(n < 0)
    BY <2>1, SizeAssumption DEF SortedInv, Untouched
  <2>6. CutAt'
    BY <1>0, <2>1, <2>4, <2>5, SizeAssumption DEF CutAt, End
  <2> QED
    BY <2>1, <2>2, <2>6 DEF CoverInv, PassedLow, Filled
<1>8. CASE EndLow
  <2>1. /\ pc = "low" /\ i = count /\ pc' = "high"
        /\ UNCHANGED <<i, j, firmware, count, entry, cutoff, high>>
    BY <1>8 DEF EndLow
  <2>2. Collected'
    BY <1>0, <2>1, CollectedSame
  <2>3. \A n \in 0..HighRoom - 1 : high.entry[n] = NoRegion
    BY <2>1 DEF SortedInv, Untouched
  <2>4. AllLow'
    BY <1>0, <2>1, <2>3 DEF AllLow, PassedLow, End
  <2> QED
    BY <2>1, <2>2, <2>4 DEF CoverInv, PassedLow, Filled
<1>9. CASE CopyHigh
  <2>1. /\ pc = "high" /\ i + j < count /\ i < HighRoom
        /\ high' = [high EXCEPT !.entry[i] = entry[i + j]] /\ i' = i + 1 /\ pc' = "high"
        /\ UNCHANGED <<j, firmware, count, entry, cutoff>>
    BY <1>9 DEF CopyHigh
  <2>2. Collected'
    BY <1>0, <2>1, CollectedSame
  <2>3. CutAt
    BY <1>0, <2>1 DEF Filled, AllLow
  <2>4. Clipped(entry[i + j]) = entry[i + j]
    <3>1. i + j \in 0..count - 1 /\ i + j <= i + j
      BY <1>0, <2>1
    <3>2. cutoff <= entry[i + j].base /\ entry[i + j].base \in Nat
      BY <1>0, <2>1, <3>1, EntrySizes DEF SortedInv, RestAbove
    <3> QED
      BY <1>0, <3>2 DEF Clipped
  <2>5. \A n \in 0..HighRoom - 1 :
           high'.entry[n] = IF n < i + 1 THEN Clipped(entry[n + j]) ELSE NoRegion
    <3>1. \A n \in 0..HighRoom - 1 :
             high'.entry[n] = IF n = i THEN entry[i + j] ELSE high.entry[n]
      BY <2>1 DEF TypeOK
    <3>2. \A n \in 0..HighRoom - 1 : n < i + 1 <=> n < i \/ n = i
      BY <1>0
    <3>3. \A n \in 0..HighRoom - 1 : n < i => n # i
      BY <1>0
    <3> QED
      BY <2>3, <2>4, <3>1, <3>2, <3>3 DEF CutAt
  <2>6. CutAt'
    BY <1>0, <2>1, <2>3, <2>5, SizeAssumption DEF CutAt, Clipped, End
  <2> QED
    BY <2>1, <2>2, <2>6 DEF CoverInv, PassedLow, Filled
<1>10. CASE EndHigh
  <2>1. /\ pc = "high" /\ i + j >= count /\ pc' = "run"
        /\ high' = [high EXCEPT !.count = i]
        /\ UNCHANGED <<i, j, firmware, count, entry, cutoff>>
    BY <1>10 DEF EndHigh
  <2>2. Collected'
    BY <1>0, <2>1, CollectedSame
  <2>3. high'.entry = high.entry /\ high'.count = i
    BY <2>1 DEF TypeOK
  <2>4. AllLow \/ CutAt
    BY <1>0, <2>1 DEF Filled
  <2>5. i + j = count
    BY <1>0, <2>1, <2>4 DEF AllLow, CutAt
  <2>6. AllLow' \/ CutAt'
    BY <2>1, <2>3, <2>4 DEF AllLow, CutAt, Clipped, End
  <2> QED
    BY <2>1, <2>2, <2>3, <2>5, <2>6 DEF CoverInv, PassedLow, Filled
<1>11. CASE pmm_alloc
  BY <1>0, <1>11, CoverSame DEF pmm_alloc
<1>12. CASE \E index \in Index : memory_map_read(index)
  BY <1>0, <1>12, CoverSame DEF memory_map_read
<1>13. CASE UNCHANGED vars
  BY <1>0, <1>13, CoverSame DEF vars
<1> QED
  BY <1>1, <1>2, <1>3, <1>4, <1>5, <1>6, <1>7, <1>8, <1>9, <1>10, <1>11,
     <1>12, <1>13 DEF Next, Boot, OverrunLow, OverrunHigh, ReadPast, Overrun

\* A free region is one of mmap when the loops over mmap run.
LEMMA FreeInMmap ==
    ASSUME TypeOK, Collected, pc # "multiboot", NEW n \in DOMAIN firmware,
           firmware[n].type = FREE
    PROVE  \E m \in 0..count - 1 :
              entry[m].base = firmware[n].base /\ End(entry[m]) = End(firmware[n])
<1>1. PICK f : Counts(f)
  BY DEF Collected, Counts
<1>2. n \in Kept
  BY DEF Kept
<1>3. PICK m \in 0..count - 1 : f[m] = n
  BY <1>1, <1>2 DEF Counts
<1>4. entry[m] = [base |-> firmware[n].base, size |-> firmware[n].size]
  BY <1>1, <1>3 DEF Counts
<1> QED
  BY <1>3, <1>4 DEF End

LEMMA MmapIsFree ==
    ASSUME TypeOK, Collected, NEW m \in 0..count - 1
    PROVE  \E n \in DOMAIN firmware :
              /\ firmware[n].type = FREE
              /\ entry[m].base = firmware[n].base /\ End(entry[m]) = End(firmware[n])
<1>1. PICK f : Counts(f)
  BY DEF Collected, Counts
<1>2. f[m] \in Kept
  BY <1>1 DEF Counts
<1>3. f[m] \in DOMAIN firmware /\ firmware[f[m]].type = FREE
  BY <1>2 DEF Kept
<1>4. entry[m] = [base |-> firmware[f[m]].base, size |-> firmware[f[m]].size]
  BY <1>1 DEF Counts
<1> QED
  BY <1>3, <1>4 DEF End

\* A client finds exactly the regions that the second loop has written.
LEMMA ReadHigh ==
    ASSUME TypeOK, NonEmpty, CoverInv, CutAt, pc = "run"
    PROVE  /\ Readable = 0..i - 1
           /\ \A n \in 0..i - 1 :
                 /\ n + j \in 0..count - 1
                 /\ high.entry[n].base = IF entry[n + j].base < cutoff
                                         THEN cutoff ELSE entry[n + j].base
                 /\ End(high.entry[n]) = End(entry[n + j])
                 /\ high.entry[n].base \in Nat /\ End(high.entry[n]) \in Nat
                 /\ high.entry[n].base < End(high.entry[n])
<1>1. /\ i \in Nat /\ j \in Nat /\ count \in Nat /\ cutoff \in Nat /\ HighRoom \in Nat
      /\ i + j = count /\ high.count = i /\ i <= HighRoom /\ Collected
  BY SizeAssumption DEF TypeOK, CoverInv, Filled, CutAt
<1>2. ASSUME NEW n \in 0..i - 1
      PROVE  /\ n + j \in 0..count - 1
             /\ high.entry[n].base = IF entry[n + j].base < cutoff
                                     THEN cutoff ELSE entry[n + j].base
             /\ End(high.entry[n]) = End(entry[n + j])
             /\ high.entry[n].base \in Nat /\ End(high.entry[n]) \in Nat
             /\ high.entry[n].base < End(high.entry[n])
  <2>1. n + j \in 0..count - 1 /\ j <= n + j /\ n \in 0..HighRoom - 1 /\ n < i
    BY <1>1
  <2>2. high.entry[n] = Clipped(entry[n + j]) /\ End(entry[n + j]) > cutoff
    BY <2>1 DEF CutAt
  <2>3. /\ entry[n + j].base \in Nat /\ End(entry[n + j]) \in Nat
        /\ entry[n + j].base < End(entry[n + j])
    BY <1>1, <2>1, EntrySizes
  <2>4. CASE entry[n + j].base < cutoff
    <3>1. high.entry[n] = [base |-> cutoff, size |-> End(entry[n + j]) - cutoff]
      BY <2>2, <2>4 DEF Clipped
    <3>2. high.entry[n].base = cutoff /\ End(high.entry[n]) = End(entry[n + j])
      BY <1>1, <2>3, <3>1 DEF End
    <3> QED
      BY <1>1, <2>1, <2>2, <2>3, <2>4, <3>2
  <2>5. CASE ~(entry[n + j].base < cutoff)
    <3>1. high.entry[n] = entry[n + j]
      BY <2>2, <2>5 DEF Clipped
    <3> QED
      BY <2>1, <2>3, <2>5, <3>1
  <2> QED
    BY <2>4, <2>5
<1>3. \A n \in 0..i - 1 : high.entry[n] # NoRegion
  BY <1>2 DEF NoRegion, End
<1>4. ASSUME NEW n \in Readable PROVE n \in 0..i - 1
  <2>1. n \in 0..HighRoom - 1 /\ high.entry[n] # NoRegion
    BY DEF Readable
  <2> QED
    BY <1>1, <2>1 DEF CutAt
<1>5. ASSUME NEW n \in 0..i - 1 PROVE n \in Readable
  <2>1. n \in 0..HighRoom - 1 /\ n <= high.count
    BY <1>1
  <2>2. \A m \in 0..n : m \in 0..i - 1
    BY <1>1
  <2> QED
    BY <1>3, <2>1, <2>2 DEF Readable
<1> QED
  BY <1>2, <1>4, <1>5

FreeRegions == {n \in DOMAIN firmware : firmware[n].type = FREE}
Below       == {n \in FreeRegions : firmware[n].base < cutoff}
AboveCutoff == {n \in FreeRegions : End(firmware[n]) > cutoff}

Covers(r, a) == r.base <= a /\ a < End(r)

\* Both ends of what a free region has above the cutoff are in a readable one,
\* which ends where it ends.
LEMMA RegionsOffered ==
    ASSUME TypeOK, NonEmpty, SortedInv, CoverInv, pc = "run"
    PROVE  /\ \A n \in AboveCutoff : \E m \in Readable :
                 /\ Covers(high.entry[m], End(firmware[n]) - 1)
                 /\ Covers(high.entry[m],
                       IF firmware[n].base < cutoff THEN cutoff ELSE firmware[n].base)
           /\ \A m \in Readable : \E n \in AboveCutoff :
                 /\ End(high.entry[m]) = End(firmware[n])
                 /\ high.entry[m].base >= firmware[n].base
           /\ \A m, n \in Readable :
                 m < n => End(high.entry[m]) <= high.entry[n].base
           /\ \A m \in Readable :
                 /\ high.entry[m].base \in Nat /\ End(high.entry[m]) \in Nat
                 /\ high.entry[m].base >= cutoff
                 /\ high.entry[m].base < End(high.entry[m])
<1> DEFINE above == AboveCutoff
<1>1. /\ Collected /\ (AllLow \/ CutAt) /\ i + j = count /\ SortedInv /\ CoverInv
      /\ i \in Nat /\ j \in Nat /\ count \in Nat /\ cutoff \in Nat
  BY DEF CoverInv, Filled, TypeOK
<1>2. ASSUME NEW n \in above
      PROVE  \E m \in 0..count - 1 : /\ entry[m].base = firmware[n].base
                                     /\ End(entry[m]) = End(firmware[n])
                                     /\ End(entry[m]) > cutoff
  BY <1>1, FreeInMmap DEF AboveCutoff, FreeRegions
<1>3. CASE AllLow
  <2>1. Readable = {}
    <3> SUFFICES ASSUME NEW n \in Readable PROVE FALSE
      OBVIOUS
    <3>1. n \in 0..HighRoom - 1 /\ n \in 0..n /\ \A m \in 0..n : high.entry[m] # NoRegion
      BY SizeAssumption DEF Readable
    <3> QED
      BY <1>3, <3>1 DEF AllLow
  <2>2. above = {}
    <3> SUFFICES ASSUME NEW n \in above PROVE FALSE
      OBVIOUS
    <3>1. PICK m \in 0..count - 1 : End(entry[m]) > cutoff
      BY <1>2
    <3>2. End(entry[m]) \in Nat /\ End(entry[m]) <= cutoff
      BY <1>1, <1>3, EntrySizes DEF AllLow
    <3> QED
      BY <1>1, <3>1, <3>2
  <2> QED
    BY <2>1, <2>2
<1>4. CASE CutAt
  <2>1. Readable = 0..i - 1
    BY <1>1, <1>4, ReadHigh
  <2>2. \A n \in 0..i - 1 :
           /\ n + j \in 0..count - 1
           /\ high.entry[n].base = IF entry[n + j].base < cutoff
                                   THEN cutoff ELSE entry[n + j].base
           /\ End(high.entry[n]) = End(entry[n + j])
           /\ high.entry[n].base \in Nat /\ End(high.entry[n]) \in Nat
           /\ high.entry[n].base < End(high.entry[n])
    BY <1>1, <1>4, ReadHigh
  <2>3. ASSUME NEW n \in above
        PROVE  \E m \in Readable :
                  /\ Covers(high.entry[m], End(firmware[n]) - 1)
                  /\ Covers(high.entry[m],
                        IF firmware[n].base < cutoff THEN cutoff ELSE firmware[n].base)
    <3>1. PICK m \in 0..count - 1 : /\ entry[m].base = firmware[n].base
                                    /\ End(entry[m]) = End(firmware[n])
                                    /\ End(entry[m]) > cutoff
      BY <1>2
    <3>2. j <= m
      BY <1>4, <3>1 DEF CutAt
    <3>3. m - j \in 0..i - 1 /\ (m - j) + j = m
      BY <1>1, <3>1, <3>2
    <3>4. /\ high.entry[m - j].base = IF entry[m].base < cutoff THEN cutoff
                                                                ELSE entry[m].base
          /\ End(high.entry[m - j]) = End(entry[m])
          /\ high.entry[m - j].base \in Nat /\ End(high.entry[m - j]) \in Nat
          /\ high.entry[m - j].base < End(high.entry[m - j])
      BY <2>2, <3>3
    <3>5. Covers(high.entry[m - j], End(firmware[n]) - 1)
      BY <3>1, <3>4 DEF Covers
    <3>6. Covers(high.entry[m - j],
                 IF firmware[n].base < cutoff THEN cutoff ELSE firmware[n].base)
      BY <3>1, <3>4 DEF Covers
    <3> QED
      BY <2>1, <3>3, <3>5, <3>6
  <2>4. ASSUME NEW m \in Readable
        PROVE  \E n \in above : /\ End(high.entry[m]) = End(firmware[n])
                                /\ high.entry[m].base >= firmware[n].base
    <3>1. /\ m + j \in 0..count - 1 /\ m \in Nat
          /\ high.entry[m].base = IF entry[m + j].base < cutoff
                                  THEN cutoff ELSE entry[m + j].base
          /\ End(high.entry[m]) = End(entry[m + j])
      BY <2>1, <2>2
    <3>2. PICK n \in DOMAIN firmware :
             /\ firmware[n].type = FREE
             /\ entry[m + j].base = firmware[n].base /\ End(entry[m + j]) = End(firmware[n])
      BY <1>1, <3>1, MmapIsFree
    <3>3. End(entry[m + j]) > cutoff
      BY <1>1, <1>4, <3>1 DEF CutAt
    <3>4. n \in above
      BY <3>2, <3>3 DEF AboveCutoff, FreeRegions
    <3>5. entry[m + j].base \in Nat
      BY <1>1, <3>1, EntrySizes
    <3> QED
      BY <1>1, <3>1, <3>2, <3>4, <3>5
  <2>5. ASSUME NEW m \in Readable, NEW n \in Readable, m < n
        PROVE  End(high.entry[m]) <= high.entry[n].base
    <3>1. /\ m \in 0..i - 1 /\ n \in 0..i - 1
          /\ m + j \in 0..count - 1 /\ n + j \in 0..count - 1 /\ m + j < n + j
      BY <1>1, <2>1, <2>2, <2>5
    <3>2. End(entry[m + j]) <= entry[n + j].base
      BY <1>1, <3>1 DEF SortedInv, Ordered
    <3>3. entry[n + j].base \in Nat /\ End(entry[m + j]) \in Nat
      BY <1>1, <3>1, EntrySizes
    <3>4. /\ End(high.entry[m]) = End(entry[m + j])
          /\ high.entry[n].base = IF entry[n + j].base < cutoff
                                  THEN cutoff ELSE entry[n + j].base
      BY <2>2, <3>1
    <3> QED
      BY <1>1, <3>2, <3>3, <3>4
  <2>6. ASSUME NEW m \in Readable
        PROVE  /\ high.entry[m].base \in Nat /\ End(high.entry[m]) \in Nat
               /\ high.entry[m].base >= cutoff
               /\ high.entry[m].base < End(high.entry[m])
    <3>1. /\ m \in 0..i - 1 /\ m + j \in 0..count - 1
          /\ high.entry[m].base = IF entry[m + j].base < cutoff
                                  THEN cutoff ELSE entry[m + j].base
          /\ high.entry[m].base \in Nat /\ End(high.entry[m]) \in Nat
          /\ high.entry[m].base < End(high.entry[m])
      BY <2>1, <2>2
    <3>2. entry[m + j].base \in Nat
      BY <1>1, <3>1, EntrySizes
    <3> QED
      BY <1>1, <3>1, <3>2
  <2> QED
    BY <2>3, <2>4, <2>5, <2>6
<1> QED
  BY <1>1, <1>3, <1>4

LEMMA InvOffered ==
    ASSUME TypeOK, NonEmpty, Sorted => SortedInv /\ CoverInv
    PROVE  AllOffered
<1> DEFINE offered == UNION {Bytes(high.entry[m]) : m \in Readable}
           usable  == {a \in UNION {Bytes(firmware[n]) : n \in FreeRegions} : a >= cutoff}
<1> SUFFICES ASSUME pc = "run", Sorted
             PROVE  /\ offered = usable
                    /\ \A m, n \in Readable : m < n =>
                          \E x, y \in FreeRegions :
                              /\ x < y
                              /\ firmware[y].base - End(firmware[x])
                                    <= high.entry[n].base - End(high.entry[m])
  BY DEF AllOffered, FreeRegions
<1>1. cutoff \in Nat /\ SortedInv /\ CoverInv
  BY DEF TypeOK
<1>2. \A n \in AboveCutoff : \E m \in Readable :
         /\ Covers(high.entry[m], End(firmware[n]) - 1)
         /\ Covers(high.entry[m],
               IF firmware[n].base < cutoff THEN cutoff ELSE firmware[n].base)
  BY <1>1, RegionsOffered
<1>3. \A m \in Readable : \E n \in AboveCutoff :
         /\ End(high.entry[m]) = End(firmware[n])
         /\ high.entry[m].base >= firmware[n].base
  BY <1>1, RegionsOffered
<1>4. \A m, n \in Readable : m < n => End(high.entry[m]) <= high.entry[n].base
  BY <1>1, RegionsOffered
<1>5. \A m \in Readable :
         /\ high.entry[m].base \in Nat /\ End(high.entry[m]) \in Nat
         /\ high.entry[m].base >= cutoff
         /\ high.entry[m].base < End(high.entry[m])
  BY <1>1, RegionsOffered
<1>6. \A n \in FreeRegions :
         /\ n \in DOMAIN firmware /\ n \in Nat /\ firmware[n].base \in Nat
         /\ End(firmware[n]) \in Nat
  BY FirmwareSizes DEF FreeRegions, End
<1>7. ASSUME NEW a \in offered PROVE a \in usable
  <2>1. PICK m \in Readable : a \in Bytes(high.entry[m])
    OBVIOUS
  <2>2. PICK n \in AboveCutoff : /\ End(high.entry[m]) = End(firmware[n])
                                 /\ high.entry[m].base >= firmware[n].base
    BY <1>3
  <2>3. n \in FreeRegions
    BY DEF AboveCutoff
  <2>4. a \in Nat /\ high.entry[m].base <= a /\ a <= End(high.entry[m]) - 1
    BY <1>5, <2>1 DEF Bytes
  <2>5. a >= cutoff /\ a \in Bytes(firmware[n])
    BY <1>1, <1>5, <1>6, <2>2, <2>3, <2>4 DEF Bytes
  <2> QED
    BY <2>3, <2>5
<1>8. ASSUME NEW a \in usable PROVE a \in offered
  <2>1. PICK n \in FreeRegions : a \in Bytes(firmware[n])
    OBVIOUS
  <2>2. a \in Nat /\ firmware[n].base <= a /\ a <= End(firmware[n]) - 1 /\ a >= cutoff
    BY <1>6, <2>1 DEF Bytes
  <2>3. n \in AboveCutoff
    BY <1>1, <1>6, <2>2 DEF AboveCutoff
  <2>4. PICK m \in Readable :
           /\ Covers(high.entry[m], End(firmware[n]) - 1)
           /\ Covers(high.entry[m],
                 IF firmware[n].base < cutoff THEN cutoff ELSE firmware[n].base)
    BY <1>2, <2>3
  <2>5. high.entry[m].base \in Nat /\ End(high.entry[m]) \in Nat
    BY <1>5
  <2>6. high.entry[m].base <= a
    <3>1. high.entry[m].base <= IF firmware[n].base < cutoff THEN cutoff
                                                             ELSE firmware[n].base
      BY <2>4 DEF Covers
    <3> QED
      BY <1>1, <1>6, <2>2, <2>5, <3>1
  <2>7. End(firmware[n]) - 1 < End(high.entry[m])
    BY <2>4 DEF Covers
  <2>8. a \in Bytes(high.entry[m])
    BY <1>6, <2>2, <2>5, <2>6, <2>7 DEF Bytes
  <2> QED
    BY <2>8
<1>9. ASSUME NEW m \in Readable, NEW n \in Readable, m < n
      PROVE  \E x, y \in FreeRegions :
                 /\ x < y
                 /\ firmware[y].base - End(firmware[x])
                       <= high.entry[n].base - End(high.entry[m])
  <2>1. PICK x \in AboveCutoff : /\ End(high.entry[m]) = End(firmware[x])
                                 /\ high.entry[m].base >= firmware[x].base
    BY <1>3
  <2>2. PICK y \in AboveCutoff : /\ End(high.entry[n]) = End(firmware[y])
                                 /\ high.entry[n].base >= firmware[y].base
    BY <1>3
  <2>3. x \in FreeRegions /\ y \in FreeRegions
    BY DEF AboveCutoff
  <2>4. End(firmware[x]) < End(firmware[y])
    BY <1>4, <1>5, <1>9, <2>1, <2>2
  <2>5. x < y
    <3>1. x \in Nat /\ y \in Nat /\ End(firmware[x]) \in Nat /\ End(firmware[y]) \in Nat
          /\ firmware[x].base \in Nat /\ firmware[x].base <= End(firmware[x])
      BY <1>6, <2>3, FirmwareSizes DEF End
    <3>2. x # y
      BY <2>4, <3>1
    <3>3. ~(y < x)
      <4> SUFFICES ASSUME y < x PROVE FALSE
        OBVIOUS
      <4>1. End(firmware[y]) <= firmware[x].base
        BY <1>6, <2>3 DEF Sorted, End
      <4> QED
        BY <2>4, <3>1, <4>1
    <3> QED
      BY <3>1, <3>2, <3>3
  <2>6. firmware[y].base - End(firmware[x]) <= high.entry[n].base - End(high.entry[m])
    BY <1>5, <1>6, <2>1, <2>2, <2>3
  <2> QED
    BY <2>3, <2>5, <2>6
<1> QED
  BY <1>7, <1>8, <1>9

-----------------------------------------------------------------------------
(* The ends of the arrays.                                                 *)

TooMany ==
    \/ Cardinality(FreeRegions) > MmapRoom
    \/ Cardinality(Below) > LowRoom
    \/ Cardinality(IF AboveCutoff = {} THEN FreeRegions ELSE AboveCutoff) >= HighRoom

LEMMA OverrunSaid == OverrunOnlyIfMany <=> (pc = "overrun" /\ Sorted => TooMany)
BY DEF OverrunOnlyIfMany, TooMany, FreeRegions, Below, AboveCutoff

LEMMA FirmwareFinite ==
    ASSUME TypeOK, NEW S \in SUBSET DOMAIN firmware
    PROVE  IsFiniteSet(S) /\ Cardinality(S) \in Nat
<1>1. DOMAIN firmware = 1..Len(firmware) /\ Len(firmware) \in Int
  BY FirmwareEntry
<1>2. IsFiniteSet(DOMAIN firmware)
  BY <1>1, FS_Interval
<1>3. IsFiniteSet(S)
  BY <1>2, FS_Subset
<1> QED
  BY <1>3, FS_CardinalityType

\* Entries a to b of mmap stand for as many regions.
LEMMA AtLeast ==
    ASSUME TypeOK, NEW f, Counts(f), NEW a \in Nat, NEW b \in Int, a <= b + 1, b < count,
           NEW S \in SUBSET DOMAIN firmware, \A m \in a..b : f[m] \in S
    PROVE  Cardinality(S) \in Nat /\ b - a + 1 <= Cardinality(S)
<1> DEFINE g == [m \in a..b |-> f[m]]
<1>1. a..b \subseteq 0..count - 1
  BY DEF TypeOK
<1>2. g \in [a..b -> S]
  OBVIOUS
<1>3. \A m, n \in a..b : g[m] = g[n] => m = n
  BY <1>1 DEF Counts
<1>4. g \in Injection(a..b, S)
  BY <1>2, <1>3, Fun_IsInj
<1>5. IsFiniteSet(S) /\ Cardinality(S) \in Nat
  BY FirmwareFinite
<1>6. Cardinality(a..b) <= Cardinality(S)
  BY <1>4, <1>5, FS_Injection
<1>7. Cardinality(a..b) = IF a > b THEN 0 ELSE b - a + 1
  BY FS_Interval
<1> QED
  BY <1>5, <1>6, <1>7

\* The entries of mmap from a on end above the cutoff: as many regions do.
LEMMA ManyAbove ==
    ASSUME TypeOK, Collected, NEW a \in 0..count,
           \A m \in a..count - 1 : End(entry[m]) > cutoff
    PROVE  /\ Cardinality(AboveCutoff) \in Nat /\ count - a <= Cardinality(AboveCutoff)
           /\ AboveCutoff = {} => count = a
<1>1. PICK f : Counts(f)
  BY DEF Collected, Counts
<1>2. AboveCutoff \in SUBSET DOMAIN firmware /\ count \in Nat /\ a \in Nat
  BY DEF AboveCutoff, FreeRegions, TypeOK
<1>3. ASSUME NEW m \in a..count - 1 PROVE f[m] \in AboveCutoff
  <2>1. m \in 0..count - 1
    BY <1>2
  <2>2. f[m] \in Kept
    BY <1>1, <2>1 DEF Counts
  <2>3. entry[m] = [base |-> firmware[f[m]].base, size |-> firmware[f[m]].size]
    BY <1>1, <2>1 DEF Counts
  <2>4. End(firmware[f[m]]) > cutoff
    BY <1>3, <2>3 DEF End
  <2> QED
    BY <2>2, <2>4 DEF AboveCutoff, FreeRegions, Kept
<1>4. Cardinality(AboveCutoff) \in Nat /\ (count - 1) - a + 1 <= Cardinality(AboveCutoff)
  <2>1. a <= (count - 1) + 1 /\ count - 1 < count /\ count - 1 \in Int
    BY <1>2
  <2> QED
    BY <1>1, <1>2, <1>3, <2>1, AtLeast
<1>5. AboveCutoff = {} => Cardinality(AboveCutoff) = 0
  BY FS_EmptySet
<1> QED
  BY <1>2, <1>4, <1>5

\* All regions of mmap: as many are free.
LEMMA ManyFree ==
    ASSUME TypeOK, Collected
    PROVE  Cardinality(FreeRegions) \in Nat /\ count <= Cardinality(FreeRegions)
<1>1. PICK f : Counts(f)
  BY DEF Collected, Counts
<1>2. FreeRegions \in SUBSET DOMAIN firmware /\ count \in Nat
  BY DEF FreeRegions, TypeOK
<1>3. \A m \in 0..count - 1 : f[m] \in FreeRegions
  BY <1>1 DEF Counts, FreeRegions, Kept
<1>4. 0 <= (count - 1) + 1 /\ count - 1 < count /\ count - 1 \in Int
  BY <1>2
<1>5. Cardinality(FreeRegions) \in Nat /\ (count - 1) - 0 + 1 <= Cardinality(FreeRegions)
  BY <1>1, <1>2, <1>3, <1>4, AtLeast
<1> QED
  BY <1>2, <1>5

\* mboot_static_mmap: a further free region than those kept.
LEMMA OverrunMmap ==
    ASSUME TypeOK, Collected, pc = "multiboot", i < Len(firmware),
           Reported.type = FREE, count >= MmapRoom
    PROVE  TooMany
<1>1. PICK f : Counts(f)
  BY DEF Collected, Counts
<1>2. /\ i + 1 \in DOMAIN firmware /\ i \in Nat /\ count \in Nat /\ MmapRoom \in Nat
      /\ count = MmapRoom
  BY FirmwareEntry, SizeAssumption DEF TypeOK
<1>3. Kept \in SUBSET DOMAIN firmware /\ i + 1 \notin Kept
  BY <1>2 DEF Kept
<1>4. Kept \cup {i + 1} \in SUBSET FreeRegions /\ FreeRegions \in SUBSET DOMAIN firmware
  BY <1>2 DEF Kept, FreeRegions, Reported
<1>5. Cardinality(Kept) \in Nat /\ (count - 1) - 0 + 1 <= Cardinality(Kept)
  <2>1. 0 <= (count - 1) + 1 /\ count - 1 < count /\ count - 1 \in Int
    BY <1>2
  <2>2. \A m \in 0..count - 1 : f[m] \in Kept
    BY <1>1 DEF Counts
  <2> QED
    BY <1>1, <1>3, <2>1, <2>2, AtLeast
<1>6. Cardinality(Kept \cup {i + 1}) = Cardinality(Kept) + 1
  BY <1>3, FirmwareFinite, FS_AddElement
<1>7. /\ Cardinality(FreeRegions) \in Nat
      /\ Cardinality(Kept \cup {i + 1}) <= Cardinality(FreeRegions)
  BY <1>4, FirmwareFinite, FS_Subset
<1> QED
  BY <1>2, <1>5, <1>6, <1>7 DEF TooMany

\* pmm_map_low_space: the regions up to the one at i all begin below the cutoff.
LEMMA OverrunLowMany ==
    ASSUME TypeOK, NonEmpty, SortedInv, CoverInv, OverrunLow
    PROVE  TooMany
<1>1. /\ pc = "low" /\ i < count /\ i >= LowRoom /\ entry[i].base < cutoff
      /\ i \in Nat /\ count \in Nat /\ LowRoom \in Nat /\ cutoff \in Nat
      /\ i \in 0..count - 1 /\ Collected
  BY SizeAssumption DEF OverrunLow, TypeOK, CoverInv
<1>2. PICK f : Counts(f)
  BY <1>1 DEF Collected, Counts
<1>3. ASSUME NEW m \in 0..i PROVE f[m] \in Below
  <2>1. m \in 0..count - 1
    BY <1>1
  <2>2. f[m] \in Kept
    BY <1>2, <2>1 DEF Counts
  <2>3. entry[m] = [base |-> firmware[f[m]].base, size |-> firmware[f[m]].size]
    BY <1>2, <2>1 DEF Counts
  <2>4. entry[m].base < cutoff
    <3>1. CASE m = i
      BY <1>1, <3>1
    <3>2. CASE m < i
      <4>1. End(entry[m]) <= entry[i].base
        BY <1>1, <2>1, <3>2 DEF SortedInv, Ordered
      <4>2. /\ entry[m].base \in Nat /\ End(entry[m]) \in Nat /\ entry[i].base \in Nat
            /\ entry[m].base < End(entry[m])
        BY <1>1, <2>1, EntrySizes
      <4> QED
        BY <1>1, <4>1, <4>2
    <3> QED
      BY <1>1, <3>1, <3>2
  <2> QED
    BY <2>2, <2>3, <2>4 DEF Below, FreeRegions, Kept
<1>4. Below \in SUBSET DOMAIN firmware
  BY DEF Below, FreeRegions
<1>5. Cardinality(Below) \in Nat /\ i - 0 + 1 <= Cardinality(Below)
  <2>1. 0 <= i + 1 /\ i \in Int
    BY <1>1
  <2> QED
    BY <1>1, <1>2, <1>3, <1>4, <2>1, AtLeast
<1> QED
  BY <1>1, <1>5 DEF TooMany

\* pmm_map_high_space: the regions from j on end above the cutoff.
LEMMA OverrunHighMany ==
    ASSUME TypeOK, CoverInv, OverrunHigh
    PROVE  TooMany
<1>1. /\ pc = "high" /\ i + j < count /\ i >= HighRoom
      /\ i \in Nat /\ j \in Nat /\ count \in Nat /\ HighRoom \in Nat
      /\ Collected /\ CutAt
  BY SizeAssumption DEF OverrunHigh, TypeOK, CoverInv, Filled, AllLow
<1>2. j \in 0..count /\ \A m \in j..count - 1 : End(entry[m]) > cutoff
  BY <1>1 DEF CutAt
<1>3. /\ Cardinality(AboveCutoff) \in Nat /\ count - j <= Cardinality(AboveCutoff)
      /\ AboveCutoff # {}
  BY <1>1, <1>2, ManyAbove
<1> QED
  BY <1>1, <1>3 DEF TooMany

\* memory_map_read at the index after the last, of a full map.
LEMMA ReadPastMany ==
    ASSUME TypeOK, NonEmpty, CoverInv, NEW index \in Index, ReadPast(index)
    PROVE  TooMany
<1>1. /\ pc = "run" /\ index = HighRoom /\ high.count = HighRoom
      /\ i = HighRoom /\ i + j = count /\ Collected /\ (AllLow \/ CutAt)
      /\ i \in Nat /\ j \in Nat /\ count \in Nat /\ HighRoom \in Nat /\ cutoff \in Nat
  BY SizeAssumption DEF ReadPast, TypeOK, CoverInv, Filled
<1>2. Cardinality(FreeRegions) \in Nat /\ count <= Cardinality(FreeRegions)
  BY <1>1, ManyFree
<1>3. CASE AllLow
  <2>1. AboveCutoff = {}
    <3> SUFFICES ASSUME NEW n \in AboveCutoff PROVE FALSE
      OBVIOUS
    <3>1. PICK m \in 0..count - 1 : End(entry[m]) = End(firmware[n])
      BY <1>1, FreeInMmap DEF AboveCutoff, FreeRegions
    <3>2. End(entry[m]) \in Nat /\ End(entry[m]) <= cutoff /\ End(entry[m]) > cutoff
      BY <1>1, <1>3, <3>1, EntrySizes DEF AllLow, AboveCutoff
    <3> QED
      BY <1>1, <3>2
  <2> QED
    BY <1>1, <1>2, <1>3, <2>1 DEF AllLow, TooMany
<1>4. CASE CutAt
  <2>1. j \in 0..count /\ \A m \in j..count - 1 : End(entry[m]) > cutoff
    BY <1>1, <1>4 DEF CutAt
  <2>2. /\ Cardinality(AboveCutoff) \in Nat /\ count - j <= Cardinality(AboveCutoff)
        /\ AboveCutoff = {} => count = j
    BY <1>1, <2>1, ManyAbove
  <2> QED
    BY <1>1, <1>2, <2>2 DEF TooMany
<1> QED
  BY <1>1, <1>3, <1>4

LEMMA OverrunStep ==
    ASSUME TypeOK, NonEmpty, Sorted => SortedInv /\ CoverInv, OverrunOnlyIfMany,
           [Next]_vars
    PROVE  OverrunOnlyIfMany'
<1> SUFFICES ASSUME pc' = "overrun", Sorted' PROVE TooMany'
  BY OverrunSaid DEF OverrunOnlyIfMany, TooMany, FreeRegions, Below, AboveCutoff
<1> USE DEF mmapVars, pmmVars
<1>1. UNCHANGED <<firmware, cutoff>>
  BY DEF Next, Boot, init_multiboot, StartTotal, init_mmap, StartLow, CopyLow,
     SplitLow, CutLow, EndLow, OverrunLow, CopyHigh, OverrunHigh, EndHigh,
     pmm_alloc, memory_map_read, ReadPast, Overrun, vars
<1>2. Sorted /\ SortedInv /\ CoverInv
  BY <1>1 DEF Sorted
<1>3. SUFFICES TooMany
  BY <1>1 DEF TooMany, FreeRegions, Below, AboveCutoff, End
<1>4. CASE pc = "overrun"
  BY <1>2, <1>4, OverrunSaid
<1>5. CASE pc # "overrun"
  <2>1. \/ init_multiboot \/ OverrunLow \/ OverrunHigh
        \/ \E index \in Index : ReadPast(index)
    BY <1>5 DEF Next, Boot, StartTotal, init_mmap, StartLow, CopyLow, SplitLow,
       CutLow, EndLow, CopyHigh, EndHigh, pmm_alloc, memory_map_read, vars
  <2>2. CASE init_multiboot
    <3>1. /\ pc = "multiboot" /\ i < Len(firmware)
          /\ Reported.type = FREE /\ count >= MmapRoom
      BY <1>5, <2>2 DEF init_multiboot
    <3> QED
      BY <1>2, <1>5, <3>1, OverrunMmap DEF CoverInv
  <2> QED
    BY <1>2, <2>1, <2>2, OverrunLowMany, OverrunHighMany, ReadPastMany
<1> QED
  BY <1>4, <1>5

-----------------------------------------------------------------------------
(* The theorems.                                                           *)

LEMMA StepInv == IInv /\ [Next]_vars => IInv'
<1> SUFFICES ASSUME IInv, [Next]_vars PROVE IInv'
  OBVIOUS
<1>1. TypeOK' /\ Reaches'
  BY TypeStep, ReachesStep DEF IInv
<1>2. firmware' = firmware
  BY DEF Next, Boot, init_multiboot, StartTotal, init_mmap, StartLow, CopyLow,
     SplitLow, CutLow, EndLow, OverrunLow, CopyHigh, OverrunHigh, EndHigh,
     pmm_alloc, memory_map_read, ReadPast, Overrun, vars
<1>3. Sorted' => Sorted
  BY <1>2 DEF Sorted
<1>4. Sorted' => SortedInv'
  BY <1>3, SortedStep DEF IInv
<1> QED
  BY <1>1, <1>4 DEF IInv

LEMMA InvPrivate == IInv => SortedPrivate
<1> SUFFICES ASSUME IInv, Sorted PROVE Private
  BY DEF SortedPrivate
<1>1. answer = Null \/ answer.base >= cutoff
  BY DEF IInv, SortedInv, Above, TypeOK
<1>2. PinionEnd <= cutoff => allocBase <= cutoff
  <2> SUFFICES ASSUME PinionEnd <= cutoff PROVE allocBase <= cutoff
    OBVIOUS
  <2>1. PICK k \in Nat : cutoff = allocBase + k * PAGE
    BY DEF IInv, Reaches
  <2>2. k * PAGE \in Nat
    BY <2>1, SizeAssumption
  <2> QED
    BY <2>1, <2>2 DEF IInv, TypeOK
<1> QED
  BY <1>1, <1>2 DEF Private, Null

\* The invariant holds throughout, whatever maps the firmware reports.
THEOREM MapInvariance == Spec => []IInv
<1> QED
  BY InitInv, StepInv, PTL DEF Spec

\* If firmware reports its map in ascending order, memory_map_read (pmm.c:35)
\* never shows a client memory below the cutoff, and pmm_alloc (pmm.c:58), which
\* stops only when it meets the limit exactly, does not pass it.
THEOREM ClientsPrivate == Spec => []SortedPrivate
<1> QED
  BY MapInvariance, InvPrivate, PTL

\* What the two loops of pmm_init have done so far, kept by every step.
LEMMA StepCover ==
    ASSUME NonEmpty, IInv, Sorted => CoverInv, OverrunOnlyIfMany, [Next]_vars
    PROVE  (Sorted' => CoverInv') /\ OverrunOnlyIfMany'
<1>1. firmware' = firmware
  BY DEF Next, Boot, init_multiboot, StartTotal, init_mmap, StartLow, CopyLow,
     SplitLow, CutLow, EndLow, OverrunLow, CopyHigh, OverrunHigh, EndHigh,
     pmm_alloc, memory_map_read, ReadPast, Overrun, vars
<1>2. Sorted' => Sorted
  BY <1>1 DEF Sorted
<1>3. Sorted' => CoverInv'
  BY <1>2, CoverStep DEF IInv
<1>4. OverrunOnlyIfMany'
  BY OverrunStep DEF IInv
<1> QED
  BY <1>3, <1>4

LEMMA InitCover == Init => CoverInv /\ OverrunOnlyIfMany
<1> SUFFICES ASSUME Init PROVE CoverInv /\ OverrunOnlyIfMany
  OBVIOUS
<1> USE DEF Init
<1>1. TypeOK
  BY InitInv DEF IInv
<1>2. Collected
  <2>1. 0..count - 1 = {}
    OBVIOUS
  <2>2. Kept = {}
    BY <1>1, FirmwareEntry DEF Kept
  <2> DEFINE f == [m \in {} |-> 0]
  <2>3. f \in [0..count - 1 -> Kept]
    BY <2>1
  <2> QED
    BY <2>1, <2>2, <2>3 DEF Collected
<1> QED
  BY <1>2 DEF CoverInv, PassedLow, Filled, OverrunOnlyIfMany

\* If no region of the firmware's map is empty, what pmm_init (pmm.c:98-135) offers
\* is exactly the free memory above the cutoff, in disjoint ascending regions no
\* nearer to each other than the firmware's, wherever the cutoff falls and however
\* many regions there are on either side.
THEOREM MemoryOffered ==
    ASSUME NonEmpty
    PROVE  Spec => []AllOffered
<1> DEFINE Inv == IInv /\ (Sorted => CoverInv) /\ OverrunOnlyIfMany
<1>1. Init => Inv
  BY InitInv, InitCover
<1>2. Inv /\ [Next]_vars => Inv'
  BY StepInv, StepCover
<1>3. Inv => AllOffered
  BY InvOffered DEF IInv
<1> QED
  BY <1>1, <1>2, <1>3, PTL DEF Spec

\* And none of the three arrays is overrun by a map that has no more regions than
\* they have room for (multiboot.c:37-43, pmm.c:98-135; memory_map_read, pmm.c:35).
THEOREM ArraysHold ==
    ASSUME NonEmpty
    PROVE  Spec => []OverrunOnlyIfMany
<1> DEFINE Inv == IInv /\ (Sorted => CoverInv) /\ OverrunOnlyIfMany
<1>1. Init => Inv
  BY InitInv, InitCover
<1>2. Inv /\ [Next]_vars => Inv'
  BY StepInv, StepCover
<1> QED
  BY <1>1, <1>2, PTL DEF Spec
=============================================================================

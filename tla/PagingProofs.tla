---------------------------- MODULE PagingProofs ----------------------------
(***************************************************************************)
(* For every size of the tables, every amount of memory and every region,  *)
(* frame and flags: the page tables are a tree, and pinion's own mapping   *)
(* is never touched.                                                       *)
(***************************************************************************)
EXTENDS Paging, WellFoundedInduction, TLAPS

-----------------------------------------------------------------------------
(* The inductive invariant.                                                *)

EntryType == [to : Int, bits : SUBSET Bit]
Memory    == [pages : [0..Limit - 1 -> [Index -> EntryType]], base : 0..Limit]

\* A page's place in the tree: its level, and which of the tables of that level it
\* is.  At level 0 it is no table.
Owner == [level : 0..4, serves : Nat]

\* What an entry of a table of a level above 1 may be.
Linked(m, own, t, i) ==
    LET e == m.pages[t][i]
    IN  \/ e = Zero
        \/ PF_PRES \in e.bits /\ PF_LARGE \in e.bits
        \/ /\ PF_PRES \in e.bits /\ PF_LARGE \notin e.bits
           /\ \/ e.to = Wild
              \/ /\ e.to \in 1..m.base - 1
                 /\ own[e.to] = [level |-> own[t].level - 1, serves |-> own[t].serves * N + i]

\* The tables that lead to pinion's large pages, as pcx_init left them.
PinionTables(m, own) ==
    /\ own[Half] = [level |-> 3, serves |-> N - 1]
    /\ own[PinionPt2] = [level |-> 2, serves |-> N * N - 1]
    /\ m.pages[0][N - 1] = Booted.pages[0][N - 1]
    /\ m.pages[Half][N - 1] = Booted.pages[Half][N - 1]
    /\ m.pages[PinionPt2] = Booted.pages[PinionPt2]

Sound(m, own) ==
    /\ m \in Memory /\ PinionPt2 < m.base
    /\ own \in [0..m.base - 1 -> Owner]
    /\ own[0] = [level |-> 4, serves |-> 0]
    /\ \A t \in 0..m.base - 1, i \in Index : own[t].level > 1 => Linked(m, own, t, i)
    /\ PinionTables(m, own)

-----------------------------------------------------------------------------
(* The constants.                                                          *)

LEMMA Sizes ==
    /\ N \in Nat /\ N >= 2 /\ Half \in Nat /\ Half >= 1 /\ N = Half + Half
    /\ PinionPt2 = Half + 1 /\ PinionPt2 # 0 /\ PinionPt2 # Half /\ Half # 0
    /\ Limit \in Nat /\ PinionPt2 < Limit
    /\ N - 1 \in Index /\ N - 1 >= Half
BY PagingAssumption DEF Half, PinionPt2, Index

LEMMA BitSets ==
    /\ TableBits \subseteq FlagBit /\ FlagBit \subseteq Bit
    /\ PF_PRES \in TableBits /\ PF_LARGE \notin TableBits
    /\ 12 \notin TableBits /\ 13 \notin TableBits
BY DEF TableBits, FlagBit, Bit, PF_VALID, PF_PRES, PF_WRITE, PF_USER, PF_LARGE, PF_NX

LEMMA WordType ==
    ASSUME NEW f \in Int, NEW flags
    PROVE  Word(f, flags) \in EntryType
<1>1. \A g \in Int : SetBit(g, 1) \in Int /\ SetBit(g, 2) \in Int
  BY DEF SetBit
<1>2. OrBits(f, flags) \in Int
  BY <1>1 DEF OrBits
<1>3. flags \cap FlagBit \in SUBSET Bit
  BY BitSets
<1> QED
  BY <1>2, <1>3 DEF Word, EntryType

LEMMA TableWord ==
    ASSUME NEW f \in Int
    PROVE  Word(f, TableBits) = [to |-> f, bits |-> TableBits]
BY BitSets DEF Word, OrBits

LEMMA ZeroType == Zero \in EntryType
BY DEF Zero, EntryType

\* The entries of pcx_init on the way to pinion are present.
LEMMA BootedPinion ==
    /\ Booted.pages[0][N - 1] = [to |-> Half, bits |-> {PF_PRES, PF_WRITE}]
    /\ Booted.pages[Half][N - 1] = [to |-> PinionPt2, bits |-> {PF_PRES, PF_WRITE}]
    /\ \A i \in Index :
          /\ PF_PRES \in Booted.pages[PinionPt2][i].bits
          /\ PF_LARGE \in Booted.pages[PinionPt2][i].bits
<1> USE Sizes
<1>1. /\ 0 \in 0..Limit - 1 /\ Half \in 0..Limit - 1 /\ PinionPt2 \in 0..Limit - 1
      /\ N - 1 \in Index
  OBVIOUS
<1>2. {PF_PRES, PF_WRITE} \cap FlagBit = {PF_PRES, PF_WRITE}
      /\ 12 \notin {PF_PRES, PF_WRITE} /\ 13 \notin {PF_PRES, PF_WRITE}
  BY DEF FlagBit, PF_PRES, PF_WRITE
<1>3. \A f : Word(f, {PF_PRES, PF_WRITE}) = [to |-> f, bits |-> {PF_PRES, PF_WRITE}]
  BY <1>2 DEF Word, OrBits
<1>4. Booted.pages[0][N - 1] = Word(1 + (N - 1) - Half, {PF_PRES, PF_WRITE})
  BY <1>1 DEF Booted
<1>5. 1 + (N - 1) - Half = Half
  OBVIOUS
<1>6. Booted.pages[Half][N - 1] = Word(PinionPt2, {PF_PRES, PF_WRITE})
  BY <1>1 DEF Booted
<1>7. ASSUME NEW i \in Index
      PROVE  \/ Booted.pages[PinionPt2][i] = Word(i * N, LargeBits)
             \/ Booted.pages[PinionPt2][i] = Word((i + 3 * N) * N, LargeBits \cup {PF_PCD})
  <2>1. i < Half \/ i >= Half
    BY DEF Index
  <2> QED
    BY <1>1, <2>1 DEF Booted
<1>8. PF_PRES \in LargeBits \cap FlagBit /\ PF_LARGE \in LargeBits \cap FlagBit
  BY DEF LargeBits, FlagBit, PF_PRES, PF_LARGE
<1>9. \A i \in Index : /\ PF_PRES \in Booted.pages[PinionPt2][i].bits
                       /\ PF_LARGE \in Booted.pages[PinionPt2][i].bits
  <2> SUFFICES ASSUME NEW i \in Index
               PROVE  LargeBits \cap FlagBit \subseteq Booted.pages[PinionPt2][i].bits
    BY <1>8
  <2>1. \A f, flags : Word(f, flags).bits = flags \cap FlagBit
    BY DEF Word
  <2> QED
    BY <1>7, <2>1
<1> QED
  BY <1>3, <1>4, <1>5, <1>6, <1>9

-----------------------------------------------------------------------------
(* Writing.                                                                *)

Tables == [0..Limit - 1 -> [Index -> EntryType]]

LEMMA StoreType ==
    ASSUME NEW P \in Tables, NEW t \in 0..Limit - 1, NEW i \in Index, NEW e \in EntryType
    PROVE  /\ [P EXCEPT ![t][i] = e] \in Tables
           /\ [P EXCEPT ![t][i] = e][t][i] = e
           /\ \A u \in 0..Limit - 1, j \in Index :
                 u # t \/ j # i => [P EXCEPT ![t][i] = e][u][j] = P[u][j]
           /\ \A u \in 0..Limit - 1 : u # t => [P EXCEPT ![t][i] = e][u] = P[u]
<1>1. [P[t] EXCEPT ![i] = e] \in [Index -> EntryType]
  BY DEF Tables
<1>2. [P EXCEPT ![t] = [P[t] EXCEPT ![i] = e]] \in Tables
  BY <1>1 DEF Tables
<1>3. [P EXCEPT ![t][i] = e] = [P EXCEPT ![t] = [P[t] EXCEPT ![i] = e]]
  BY DEF Tables
<1> QED
  BY <1>1, <1>2, <1>3 DEF Tables

LEMMA ClearType ==
    ASSUME NEW P \in Tables, NEW t \in 0..Limit - 1
    PROVE  /\ [P EXCEPT ![t] = [j \in Index |-> Zero]] \in Tables
           /\ [P EXCEPT ![t] = [j \in Index |-> Zero]][t] = [j \in Index |-> Zero]
           /\ \A u \in 0..Limit - 1 : u # t => [P EXCEPT ![t] = [j \in Index |-> Zero]][u] = P[u]
BY ZeroType DEF Tables

LEMMA MemoryIs ==
    ASSUME NEW p \in Tables, NEW b \in 0..Limit
    PROVE  [pages |-> p, base |-> b] \in Memory
BY DEF Memory, Tables

\* An entry of a table of the lowest level may become anything, and an absent
\* entry of another the one of a table that could not be allocated.
LEMMA SoundStore ==
    ASSUME NEW m, NEW own, Sound(m, own),
           NEW t \in 0..m.base - 1, NEW i \in Index, NEW e \in EntryType,
           \/ own[t].level = 1
           \/ PF_PRES \notin m.pages[t][i].bits /\ e = [to |-> Wild, bits |-> TableBits]
    PROVE  Sound([m EXCEPT !.pages[t][i] = e], own)
<1> DEFINE n == [m EXCEPT !.pages[t][i] = e]
<1> USE Sizes
<1>1. /\ m \in Memory /\ t \in 0..Limit - 1 /\ m.base \in 0..Limit
      /\ m.pages \in [0..Limit - 1 -> [Index -> EntryType]]
  BY DEF Sound, Memory
<1>2. /\ n.base = m.base
      /\ n.pages = [m.pages EXCEPT ![t][i] = e]
  BY <1>1 DEF Memory
<1>3. /\ n.pages[t][i] = e
      /\ \A u \in 0..Limit - 1, j \in Index :
            u # t \/ j # i => n.pages[u][j] = m.pages[u][j]
      /\ \A u \in 0..Limit - 1 : u # t => n.pages[u] = m.pages[u]
      /\ n.pages \in Tables
  BY <1>1, <1>2, StoreType, SMTT(30), ZenonT(40) DEF Tables
<1>5. n \in Memory
  BY <1>1, <1>2, <1>3 DEF Memory, Tables
<1> HIDE DEF n
<1>6. ASSUME NEW u \in 0..m.base - 1, NEW j \in Index, own[u].level > 1
      PROVE  Linked(n, own, u, j)
  <2>1. u \in 0..Limit - 1 /\ Linked(m, own, u, j)
    BY <1>1, <1>6 DEF Sound
  <2>2. CASE u # t \/ j # i
    <3>1. n.pages[u][j] = m.pages[u][j]
      BY <1>3, <2>1, <2>2
    <3> QED
      BY <1>2, <2>1, <3>1 DEF Linked
  <2>3. CASE u = t /\ j = i
    <3>1. e = [to |-> Wild, bits |-> TableBits]
      BY <1>6, <2>3
    <3> QED
      BY <1>3, <2>3, <3>1, BitSets DEF Linked
  <2> QED
    BY <2>2, <2>3
<1>7. PinionTables(n, own)
  <2>1. PinionTables(m, own) /\ PinionPt2 < m.base /\ own[0].level = 4
    BY DEF Sound
  <2>2. 0 \in 0..Limit - 1 /\ Half \in 0..Limit - 1 /\ PinionPt2 \in 0..Limit - 1
    OBVIOUS
  <2>3. /\ PF_PRES \in Booted.pages[0][N - 1].bits
        /\ PF_PRES \in Booted.pages[Half][N - 1].bits
        /\ \A j \in Index : PF_PRES \in Booted.pages[PinionPt2][j].bits
    BY BootedPinion
  <2>4. n.pages[0][N - 1] = m.pages[0][N - 1]
    BY <1>3, <2>1, <2>2, <2>3 DEF PinionTables
  <2>5. n.pages[Half][N - 1] = m.pages[Half][N - 1]
    BY <1>3, <2>1, <2>2, <2>3 DEF PinionTables
  <2>6. n.pages[PinionPt2] = m.pages[PinionPt2]
    BY <1>3, <2>1, <2>2, <2>3 DEF PinionTables
  <2> QED
    BY <2>1, <2>4, <2>5, <2>6 DEF PinionTables
<1> QED
  BY <1>2, <1>5, <1>6, <1>7 DEF Sound, n

\* What the new table changes.
LEMMA LinkIs ==
    ASSUME NEW m \in Memory, m.base # Limit, NEW t \in 0..m.base - 1, NEW i \in Index
    PROVE  LET n == LinkTable(m, t, i)
           IN  /\ n = [pages |-> n.pages, base |-> n.base]
               /\ n.base = m.base + 1
               /\ n.pages \in Tables
               /\ n.pages[t][i] = [to |-> m.base, bits |-> TableBits]
               /\ n.pages[m.base] = [j \in Index |-> Zero]
               /\ \A u \in 0..Limit - 1, j \in Index :
                     (u # t \/ j # i) /\ u # m.base => n.pages[u][j] = m.pages[u][j]
               /\ \A u \in 0..Limit - 1 : u # t /\ u # m.base => n.pages[u] = m.pages[u]
<1> DEFINE n == LinkTable(m, t, i)
           word == [to |-> m.base, bits |-> TableBits]
           p == [m.pages EXCEPT ![t][i] = word]
           q == [p EXCEPT ![m.base] = [j \in Index |-> Zero]]
<1> USE Sizes
<1>1. /\ m.pages \in Tables
      /\ m = [pages |-> m.pages, base |-> m.base]
  BY DEF Memory, Tables
<1>2. t \in 0..Limit - 1 /\ m.base \in 0..Limit - 1 /\ t # m.base /\ m.base \in Nat
  BY DEF Memory
<1>3. Word(m.base, TableBits) = word
  BY <1>2, TableWord
<1>4. /\ n.base = m.base + 1
      /\ n.pages = q
      /\ n = [pages |-> n.pages, base |-> n.base]
  <2>1. pge_alloc(m) = [pages |-> m.pages, base |-> m.base + 1]
    BY <1>1, <1>2 DEF pge_alloc
  <2> QED
    BY <1>3, <2>1 DEF LinkTable
<1>5. word \in EntryType
  BY <1>2, BitSets DEF EntryType
<1>6. /\ p \in Tables /\ p[t][i] = word
      /\ \A u \in 0..Limit - 1, j \in Index : u # t \/ j # i => p[u][j] = m.pages[u][j]
      /\ \A u \in 0..Limit - 1 : u # t => p[u] = m.pages[u]
  BY <1>1, <1>2, <1>5, StoreType
<1> HIDE DEF p, n, word
<1>7. p \in Tables /\ m.base \in 0..Limit - 1
  BY <1>2, <1>6
<1>8. /\ q \in Tables
      /\ q[m.base] = [j \in Index |-> Zero]
      /\ \A u \in 0..Limit - 1 : u # m.base => q[u] = p[u]
  BY <1>7, ClearType
<1> HIDE DEF q
<1>9. /\ n.pages \in Tables
      /\ n.pages[m.base] = [j \in Index |-> Zero]
      /\ \A u \in 0..Limit - 1 : u # m.base => n.pages[u] = p[u]
  BY <1>4, <1>8
<1>10. /\ n.pages[t][i] = word
       /\ \A u \in 0..Limit - 1, j \in Index :
             (u # t \/ j # i) /\ u # m.base => n.pages[u][j] = m.pages[u][j]
       /\ \A u \in 0..Limit - 1 : u # t /\ u # m.base => n.pages[u] = m.pages[u]
  BY <1>2, <1>6, <1>9
<1> QED
  BY <1>4, <1>9, <1>10 DEF n, word

\* The page that pge_alloc hands out becomes the table below an absent entry.
Adopt(m, own, t, i) ==
    [u \in 0..m.base |->
        IF u = m.base THEN [level |-> own[t].level - 1, serves |-> own[t].serves * N + i]
        ELSE own[u]]

LEMMA SoundLink ==
    ASSUME NEW m, NEW own, Sound(m, own), m.base # Limit,
           NEW t \in 0..m.base - 1, NEW i \in Index, own[t].level > 1,
           PF_PRES \notin m.pages[t][i].bits
    PROVE  /\ Sound(LinkTable(m, t, i), Adopt(m, own, t, i))
           /\ LinkTable(m, t, i).base = m.base + 1
<1> DEFINE n == LinkTable(m, t, i)
           o == Adopt(m, own, t, i)
           word == [to |-> m.base, bits |-> TableBits]
<1> USE Sizes
<1>1. t \in 0..Limit - 1 /\ m.base \in 0..Limit - 1 /\ t # m.base /\ m.base \in Nat
  BY DEF Sound, Memory
<1>2. /\ n = [pages |-> n.pages, base |-> n.base]
      /\ n.base = m.base + 1
  <2>1. m \in Memory
    BY DEF Sound
  <2> QED
    BY <2>1, LinkIs, SMTT(30), ZenonT(40)
<1>3. /\ n.pages[t][i] = word
      /\ n.pages[m.base] = [j \in Index |-> Zero]
      /\ \A u \in 0..Limit - 1, j \in Index :
            (u # t \/ j # i) /\ u # m.base => n.pages[u][j] = m.pages[u][j]
      /\ \A u \in 0..Limit - 1 : u # t /\ u # m.base => n.pages[u] = m.pages[u]
      /\ n.pages \in Tables
  <2>1. m \in Memory
    BY DEF Sound
  <2> QED
    BY <2>1, LinkIs
<1>4. n.base = m.base + 1 /\ n.base \in 1..Limit
  BY <1>1, <1>2
<1>5. n \in Memory
  <2>1. m.base + 1 \in 0..Limit
    BY <1>1
  <2> HIDE DEF n
  <2> QED
    BY <1>2, <1>3, <2>1, MemoryIs
<1>6. own \in [0..m.base - 1 -> Owner] /\ own[t] \in Owner
  BY DEF Sound
<1>7. /\ o[m.base] = [level |-> own[t].level - 1, serves |-> own[t].serves * N + i]
      /\ \A u \in 0..m.base - 1 : o[u] = own[u]
  BY <1>1 DEF Adopt
<1>8. o[m.base] \in Owner
  BY <1>6, <1>7, SMTT(30), ZenonT(40) DEF Owner, Index
<1>9. o \in [0..n.base - 1 -> Owner]
  <2>1. n.base - 1 = m.base
    BY <1>1, <1>4
  <2>2. \A u \in 0..m.base : u # m.base => u \in 0..m.base - 1
    BY <1>1
  <2>3. \A u \in 0..m.base : o[u] \in Owner
    BY <1>6, <1>7, <1>8, <2>2
  <2>4. o = [u \in 0..m.base |-> o[u]]
    BY DEF Adopt
  <2> HIDE DEF o, n
  <2> QED
    BY <2>1, <2>3, <2>4
<1> HIDE DEF n, o, word
<1>10. /\ PinionTables(m, own) /\ PinionPt2 < m.base /\ own[0] = [level |-> 4, serves |-> 0]
       /\ 0 \in 0..m.base - 1 /\ Half \in 0..m.base - 1 /\ PinionPt2 \in 0..m.base - 1
  BY <1>1 DEF Sound
<1>11. ASSUME NEW u \in 0..n.base - 1, NEW j \in Index, o[u].level > 1
       PROVE  Linked(n, o, u, j)
  <2>1. CASE u = m.base
    BY <1>3, <2>1 DEF Linked
  <2>2. CASE u # m.base
    <3>4. u \in 0..m.base - 1 /\ u \in 0..Limit - 1
      BY <1>1, <1>4, <2>2
    <3>5. o[u] = own[u] /\ own[u].level > 1
      BY <1>7, <1>11, <3>4
    <3>6. Linked(m, own, u, j)
      BY <3>4, <3>5 DEF Sound
    <3>1. u \in 0..m.base - 1 /\ u \in 0..Limit - 1 /\ o[u] = own[u] /\ Linked(m, own, u, j)
      BY <3>4, <3>5, <3>6
    <3>2. CASE u = t /\ j = i
      <4>1. n.pages[u][j] = [to |-> m.base, bits |-> TableBits] /\ m.base \in 1..n.base - 1
        BY <1>1, <1>4, <1>3, <1>10, <3>2 DEF word
      <4>2. o[m.base] = [level |-> o[u].level - 1, serves |-> o[u].serves * N + j]
        BY <1>7, <3>1, <3>2
      <4> QED
        BY <4>1, <4>2, BitSets DEF Linked
    <3>3. CASE u # t \/ j # i
      <4>1. n.pages[u][j] = m.pages[u][j]
        BY <1>3, <2>2, <3>1, <3>3
      <4>2. 1..m.base - 1 \subseteq 1..n.base - 1 /\ 1..m.base - 1 \subseteq 0..m.base - 1
        BY <1>1, <1>4
      <4> QED
        BY <1>7, <3>1, <4>1, <4>2 DEF Linked
    <3> QED
      BY <3>2, <3>3
  <2> QED
    BY <2>1, <2>2
<1>12. PinionTables(n, o)
  <2>1. o[Half] = own[Half] /\ o[PinionPt2] = own[PinionPt2]
    BY <1>7, <1>10
  <2>2. /\ PF_PRES \in Booted.pages[0][N - 1].bits
        /\ PF_PRES \in Booted.pages[Half][N - 1].bits
        /\ \A j \in Index : PF_PRES \in Booted.pages[PinionPt2][j].bits
    BY BootedPinion
  <2>3. n.pages[0][N - 1] = m.pages[0][N - 1]
    BY <1>1, <1>3, <1>10, <2>2 DEF PinionTables
  <2>4. n.pages[Half][N - 1] = m.pages[Half][N - 1]
    BY <1>1, <1>3, <1>10, <2>2 DEF PinionTables
  <2>5. n.pages[PinionPt2] = m.pages[PinionPt2]
    BY <1>1, <1>3, <1>10, <2>2 DEF PinionTables
  <2> QED
    BY <1>10, <2>1, <2>3, <2>4, <2>5 DEF PinionTables
<1>13. Sound(n, o)
  <2>1. PinionPt2 < n.base /\ o[0] = [level |-> 4, serves |-> 0]
    BY <1>1, <1>4, <1>7, <1>10
  <2> QED
    BY <1>5, <1>9, <1>11, <1>12, <2>1 DEF Sound
<1> QED
  BY <1>2, <1>13 DEF n, o

-----------------------------------------------------------------------------
(* pcx_init.                                                               *)

LEMMA BootedEntries ==
    ASSUME NEW i \in Index
    PROVE  /\ i >= Half => Booted.pages[0][i] = [to |-> 1 + i - Half, bits |-> {PF_PRES, PF_WRITE}]
           /\ i < Half => Booted.pages[0][i] = Zero
           /\ \A t \in 1..Half : t # Half \/ i # N - 1 => Booted.pages[t][i] = Zero
<1> USE Sizes
<1>1. \A f : Word(f, {PF_PRES, PF_WRITE}) = [to |-> f, bits |-> {PF_PRES, PF_WRITE}]
  <2>1. {PF_PRES, PF_WRITE} \cap FlagBit = {PF_PRES, PF_WRITE}
        /\ 12 \notin {PF_PRES, PF_WRITE} /\ 13 \notin {PF_PRES, PF_WRITE}
    BY DEF FlagBit, PF_PRES, PF_WRITE
  <2> QED
    BY <2>1 DEF Word, OrBits
<1>2. 0 \in 0..Limit - 1 /\ \A t \in 1..Half : t \in 0..Limit - 1 /\ t # 0 /\ t < PinionPt2
  OBVIOUS
<1>3. i >= Half => Booted.pages[0][i] = Word(1 + i - Half, {PF_PRES, PF_WRITE})
  BY <1>2 DEF Booted
<1>4. i < Half => Booted.pages[0][i] = Zero
  BY <1>2 DEF Booted, Index
<1>5. ASSUME NEW t \in 1..Half, t # Half \/ i # N - 1 PROVE Booted.pages[t][i] = Zero
  BY <1>2, <1>5 DEF Booted
<1> QED
  BY <1>1, <1>3, <1>4, <1>5

LEMMA BootedType == Booted \in Memory
<1> USE Sizes
<1>1. \A flags : \A f \in Int : Word(f, flags) \in EntryType
  BY WordType
<1>2. Zero \in EntryType /\ Junk \in EntryType
  BY ZeroType DEF Junk, EntryType, Bit, PF_PRES
<1>3. ASSUME NEW p \in 0..Limit - 1, NEW i \in Index
      PROVE  Booted.pages[p][i] \in EntryType
  <2>1. /\ 1 + i - Half \in Int /\ i * N \in Int /\ PinionPt2 \in Int
        /\ (i + 3 * N) * N \in Int
    BY DEF Index
  <2>2. /\ Word(1 + i - Half, {PF_PRES, PF_WRITE}) \in EntryType
        /\ Word(PinionPt2, {PF_PRES, PF_WRITE}) \in EntryType
        /\ Word(i * N, LargeBits) \in EntryType
        /\ Word((i + 3 * N) * N, LargeBits \cup {PF_PCD}) \in EntryType
    BY <1>1, <2>1
  <2> QED
    BY <1>2, <2>2 DEF Booted
<1>4. Booted.pages = [p \in 0..Limit - 1 |-> [i \in Index |-> Booted.pages[p][i]]]
  BY DEF Booted
<1>5. Booted.pages \in Tables
  <2>1. [p \in 0..Limit - 1 |-> [i \in Index |-> Booted.pages[p][i]]] \in Tables
    BY <1>3 DEF Tables
  <2> QED
    BY <1>4, <2>1
<1>6. Booted.base = Half + 2 /\ Half + 2 \in 0..Limit
  BY DEF Booted
<1>7. Booted = [pages |-> Booted.pages, base |-> Booted.base]
  BY DEF Booted
<1> QED
  BY <1>5, <1>6, <1>7, MemoryIs

BootedOwner ==
    [t \in 0..Half + 1 |->
        IF t = 0 THEN [level |-> 4, serves |-> 0]
        ELSE IF t = PinionPt2 THEN [level |-> 2, serves |-> N * N - 1]
        ELSE [level |-> 3, serves |-> Half + t - 1]]

LEMMA BootedSound == Sound(Booted, BootedOwner)
<1> USE Sizes
<1> DEFINE own == BootedOwner
<1>1. Booted.base = Half + 2 /\ Booted.base - 1 = Half + 1
  BY DEF Booted
<1>2. N * N - 1 \in Nat /\ (N - 1) * N + (N - 1) = N * N - 1
  <2>1. N * N >= 1
    OBVIOUS
  <2> QED
    BY <2>1
<1>3. /\ own[0] = [level |-> 4, serves |-> 0]
      /\ own[PinionPt2] = [level |-> 2, serves |-> N * N - 1]
      /\ \A t \in 1..Half : own[t] = [level |-> 3, serves |-> Half + t - 1]
  BY DEF BootedOwner
<1>4. own \in [0..Booted.base - 1 -> Owner]
  <2>1. \A t \in 0..Half + 1 : own[t] \in Owner
    <3>1. \A t \in 0..Half + 1 : t = 0 \/ t = PinionPt2 \/ t \in 1..Half
      OBVIOUS
    <3>2. \A t \in 1..Half : [level |-> 3, serves |-> Half + t - 1] \in Owner
      BY DEF Owner
    <3>3. [level |-> 4, serves |-> 0] \in Owner /\ [level |-> 2, serves |-> N * N - 1] \in Owner
      BY <1>2 DEF Owner
    <3> HIDE DEF own
    <3> QED
      BY <1>3, <3>1, <3>2, <3>3
  <2>2. own = [t \in 0..Half + 1 |-> own[t]]
    BY DEF BootedOwner
  <2> HIDE DEF own
  <2> QED
    BY <1>1, <2>1, <2>2
<1> HIDE DEF own
<1>5. own[Half] = [level |-> 3, serves |-> N - 1]
  BY <1>3
<1>6. ASSUME NEW t \in 0..Booted.base - 1, NEW i \in Index PROVE Linked(Booted, own, t, i)
  <2>1. CASE t = 0 /\ i < Half
    BY <2>1, BootedEntries DEF Linked
  <2>2. CASE t = 0 /\ i >= Half
    <3>1. Booted.pages[t][i] = [to |-> 1 + i - Half, bits |-> {PF_PRES, PF_WRITE}]
      BY <2>2, BootedEntries
    <3>2. 1 + i - Half \in 1..Half /\ 1 + i - Half \in 1..Booted.base - 1
          /\ Half + (1 + i - Half) - 1 = i /\ 0 * N + i = i
      BY <1>1, <2>2 DEF Index
    <3>3. own[1 + i - Half] = [level |-> 3, serves |-> i]
      BY <1>3, <3>2
    <3>4. own[1 + i - Half] = [level |-> own[t].level - 1, serves |-> own[t].serves * N + i]
      BY <1>3, <2>2, <3>2, <3>3
    <3>5. PF_LARGE \notin {PF_PRES, PF_WRITE}
      BY DEF PF_PRES, PF_WRITE, PF_LARGE
    <3> QED
      BY <3>1, <3>2, <3>4, <3>5 DEF Linked
  <2>3. CASE t \in 1..Half /\ (t # Half \/ i # N - 1)
    BY <2>3, BootedEntries DEF Linked
  <2>4. CASE t = Half /\ i = N - 1
    <3>1. Booted.pages[t][i] = [to |-> PinionPt2, bits |-> {PF_PRES, PF_WRITE}]
      BY <2>4, BootedPinion
    <3>2. PinionPt2 \in 1..Booted.base - 1
      BY <1>1
    <3>3. own[PinionPt2] = [level |-> own[t].level - 1, serves |-> own[t].serves * N + i]
      BY <1>2, <1>3, <1>5, <2>4
    <3>4. PF_LARGE \notin {PF_PRES, PF_WRITE}
      BY DEF PF_PRES, PF_WRITE, PF_LARGE
    <3> QED
      BY <3>1, <3>2, <3>3, <3>4 DEF Linked
  <2>5. CASE t = PinionPt2
    BY <2>5, BootedPinion DEF Linked
  <2>6. t = 0 \/ t \in 1..Half \/ t = PinionPt2
    BY <1>1
  <2> QED
    BY <2>1, <2>2, <2>3, <2>4, <2>5, <2>6 DEF Index
<1>7. PinionTables(Booted, own)
  BY <1>3, <1>5 DEF PinionTables
<1>8. PinionPt2 < Booted.base
  BY <1>1
<1> QED
  BY <1>3, <1>4, <1>6, <1>7, <1>8, BootedType DEF Sound, own

-----------------------------------------------------------------------------
(* pcx_set_frame.                                                          *)

\* Memory whose tables form a tree.
Tidy(m) == \E own : Sound(m, own)

\* The walk stands at a table of a level of such memory, or has ended.
Walking(w, level) ==
    \E own : /\ Sound(w.m, own)
             /\ w.st = "walk" => w.t \in 0..w.m.base - 1 /\ own[w.t].level = level

LEMMA IdxIn ==
    ASSUME NEW va \in Va, NEW level \in Level
    PROVE  Idx(va, level) \in Index
<1>1. N \in Nat /\ N >= 2 /\ va \in Int
  BY Sizes DEF Va
<1>2. Size(level) \in Nat \ {0}
  <2>1. N * N \in Nat \ {0}
    BY <1>1
  <2>2. N * N * N \in Nat \ {0}
    BY <1>1, <2>1
  <2> QED
    BY <1>1, <2>1, <2>2 DEF Size, Level
<1>3. va \div Size(level) \in Int
  BY <1>1, <1>2
<1>4. \A a \in Int : a % N \in 0..N - 1
  BY <1>1
<1> QED
  BY <1>3, <1>4 DEF Idx, Index

\* The arms of a turn are exclusive.
LEMMA TurnIs ==
    ASSUME NEW w, NEW i, NEW e
    PROVE  /\ PF_PRES \notin e.bits /\ Exhausted(w.m) =>
                 Turn(w, i, e) = Ended(w, Store(w.m, w.t, i, [to |-> Wild, bits |-> TableBits]),
                                       "fault")
           /\ PF_PRES \notin e.bits /\ ~Exhausted(w.m) =>
                 Turn(w, i, e) = Onward(LinkTable(w.m, w.t, i), w.m.base)
           /\ PF_PRES \in e.bits /\ PF_LARGE \in e.bits => Turn(w, i, e) = Ended(w, w.m, "false")
           /\ PF_PRES \in e.bits /\ PF_LARGE \notin e.bits /\ e.to = Wild =>
                 Turn(w, i, e) = Ended(w, w.m, "fault")
           /\ PF_PRES \in e.bits /\ PF_LARGE \notin e.bits /\ e.to # Wild =>
                 Turn(w, i, e) = Onward(w.m, e.to)
BY DEF Turn

LEMMA DescendIs ==
    ASSUME NEW w, NEW va, NEW level
    PROVE  /\ w.st # "walk" => Descend(w, va, level) = w
           /\ w.st = "walk" => Descend(w, va, level)
                                   = Turn(w, Idx(va, level), w.m.pages[w.t][Idx(va, level)])
BY DEF Descend

LEMMA EndedIs ==
    ASSUME NEW w, NEW m, NEW st, NEW own, Sound(m, own), st # "walk", NEW level
    PROVE  Walking(Ended(w, m, st), level)
BY DEF Walking, Ended

LEMMA OnwardIs ==
    ASSUME NEW m, NEW t, NEW own, Sound(m, own), t \in 0..m.base - 1, NEW level, own[t].level = level
    PROVE  Walking(Onward(m, t), level)
BY DEF Walking, Onward

LEMMA DescendWalking ==
    ASSUME NEW w, NEW va \in Va, NEW level \in 2..4, Walking(w, level)
    PROVE  Walking(Descend(w, va, level), level - 1)
<1> DEFINE m == w.m
           t == w.t
           i == Idx(va, level)
           e == m.pages[t][i]
           d == Descend(w, va, level)
           x == [to |-> Wild, bits |-> TableBits]
<1>1. PICK own : /\ Sound(m, own)
                 /\ w.st = "walk" => t \in 0..m.base - 1 /\ own[t].level = level
  BY DEF Walking
<1>2. CASE w.st # "walk"
  <2>1. d = w
    BY <1>2, DescendIs
  <2> QED
    BY <1>1, <1>2, <2>1 DEF Walking
<1>3. CASE w.st = "walk"
  <2>1. /\ PF_PRES \notin e.bits /\ Exhausted(m) => d = Ended(w, Store(m, t, i, x), "fault")
        /\ PF_PRES \notin e.bits /\ ~Exhausted(m) => d = Onward(LinkTable(m, t, i), m.base)
        /\ PF_PRES \in e.bits /\ PF_LARGE \in e.bits => d = Ended(w, m, "false")
        /\ PF_PRES \in e.bits /\ PF_LARGE \notin e.bits /\ e.to = Wild => d = Ended(w, m, "fault")
        /\ PF_PRES \in e.bits /\ PF_LARGE \notin e.bits /\ e.to # Wild => d = Onward(m, e.to)
    <3>1. d = Turn(w, i, e)
      BY <1>3, DescendIs
    <3> HIDE DEF i, e, d
    <3> QED
      BY <3>1, TurnIs
  <2>2. i \in Index
    <3>1. level \in Level
      BY DEF Level
    <3> QED
      BY <3>1, IdxIn
  <2>3. t \in 0..m.base - 1 /\ own[t].level = level /\ own[t].level > 1
    BY <1>1, <1>3
  <2> SUFFICES Walking(d, level - 1)
    OBVIOUS
  <2> HIDE DEF m, t, i, d
  <2>4. Linked(m, own, t, i)
    BY <1>1, <2>2, <2>3 DEF Sound
  <2>5. CASE PF_PRES \notin e.bits /\ Exhausted(m)
    <3>1. x \in EntryType
      BY BitSets DEF EntryType, Wild
    <3>2. Sound(Store(m, t, i, x), own)
      BY <1>1, <2>2, <2>3, <2>5, <3>1, SoundStore DEF Store
    <3> QED
      BY <2>1, <2>5, <3>2, EndedIs
  <2>6. CASE PF_PRES \notin e.bits /\ ~Exhausted(m)
    <3> DEFINE n == LinkTable(m, t, i)
               o == Adopt(m, own, t, i)
    <3>1. m.base # Limit
      BY <2>6 DEF Exhausted
    <3>2. Sound(n, o) /\ n.base = m.base + 1
      BY <1>1, <2>2, <2>3, <2>6, <3>1, SoundLink
    <3>3. m.base \in Nat
      BY <1>1 DEF Sound, Memory
    <3>4. m.base \in 0..n.base - 1 /\ m.base \in 0..m.base
      BY <3>2, <3>3
    <3>5. o[m.base].level = level - 1
      BY <2>3, <3>4 DEF Adopt
    <3> HIDE DEF n, o
    <3>6. Walking(Onward(n, m.base), level - 1)
      BY <3>2, <3>4, <3>5, OnwardIs
    <3> QED
      BY <2>1, <2>6, <3>6 DEF n
  <2>7. CASE PF_PRES \in e.bits /\ PF_LARGE \in e.bits
    BY <1>1, <2>1, <2>7, EndedIs
  <2>8. CASE PF_PRES \in e.bits /\ PF_LARGE \notin e.bits /\ e.to = Wild
    BY <1>1, <2>1, <2>8, EndedIs
  <2>9. CASE PF_PRES \in e.bits /\ PF_LARGE \notin e.bits /\ e.to # Wild
    <3>1. e # Zero
      BY <2>9 DEF Zero
    <3>2. e.to \in 1..m.base - 1 /\ own[e.to].level = own[t].level - 1
      BY <2>4, <2>9, <3>1 DEF Linked
    <3>3. e.to \in 0..m.base - 1 /\ own[e.to].level = level - 1
      BY <2>3, <3>2
    <3>4. d = Onward(m, e.to)
      BY <2>1, <2>9
    <3> HIDE DEF e
    <3> QED
      BY <1>1, <3>3, <3>4, OnwardIs
  <2> QED
    BY <2>5, <2>6, <2>7, <2>8, <2>9
<1> QED
  BY <1>2, <1>3

LEMMA SetFrameTidy ==
    ASSUME NEW m, Tidy(m), NEW va \in Va, NEW frame \in Int, NEW flags
    PROVE  Tidy(pcx_set_frame(m, va, frame, flags).m)
<1> DEFINE w0 == Onward(m, 0)
           w4 == Descend(w0, va, 4)
           w3 == Descend(w4, va, 3)
           w  == Descend(w3, va, 2)
           i  == Idx(va, 1)
<1>1. Walking(w0, 4)
  <2>1. PICK own : Sound(m, own)
    BY DEF Tidy
  <2>2. own[0].level = 4 /\ 0 \in 0..m.base - 1
    BY <2>1, Sizes DEF Sound, Memory
  <2> QED
    BY <2>1, <2>2, OnwardIs
<1>2. Walking(w4, 3)
  BY <1>1, DescendWalking
<1> HIDE DEF w4
<1>3. Walking(w3, 2)
  BY <1>2, DescendWalking
<1> HIDE DEF w3
<1>4. Walking(w, 1)
  BY <1>3, DescendWalking
<1>5. i \in Index
  BY IdxIn DEF Level
<1>6. pcx_set_frame(m, va, frame, flags) =
         IF w.st # "walk" THEN [m |-> w.m, st |-> w.st]
         ELSE [m |-> Store(w.m, w.t, i, Word(frame, flags)), st |-> "true"]
  BY DEF pcx_set_frame, w4, w3
<1> HIDE DEF w, i
<1>7. PICK own : /\ Sound(w.m, own)
                 /\ w.st = "walk" => w.t \in 0..w.m.base - 1 /\ own[w.t].level = 1
  BY <1>4 DEF Walking
<1>8. CASE w.st # "walk"
  BY <1>6, <1>7, <1>8 DEF Tidy
<1>9. CASE w.st = "walk"
  <2>1. Word(frame, flags) \in EntryType
    BY WordType
  <2>2. Sound(Store(w.m, w.t, i, Word(frame, flags)), own)
    BY <1>5, <1>7, <1>9, <2>1, SoundStore DEF Store
  <2> QED
    BY <1>6, <1>9, <2>2 DEF Tidy
<1> QED
  BY <1>8, <1>9

-----------------------------------------------------------------------------
(* page_set.                                                               *)

LEMMA Least ==
    ASSUME NEW S \in SUBSET Nat, S # {}
    PROVE  \E k \in S : \A j \in S : k <= j
<1>1. PICK k \in S : \A j \in S : ~(<<j, k>> \in OpToRel(<, Nat))
  BY NatLessThanWellFounded, WFMin
<1>2. ASSUME NEW j \in S PROVE k <= j
  <2> SUFFICES ASSUME j < k PROVE FALSE
    OBVIOUS
  <2>1. <<j, k>> \in Nat \X Nat /\ <<j, k>>[1] < <<j, k>>[2]
    OBVIOUS
  <2>2. <<j, k>> \in OpToRel(<, Nat)
    BY <2>1 DEF OpToRel
  <2> QED
    BY <1>1, <2>2
<1> QED
  BY <1>2

\* One turn of page_set's loop.
Page(s, v, p, flags, i) ==
    IF s.st # "true" THEN s ELSE pcx_set_frame(s.m, v + i - 1, p + i - 1, flags)

Loop(h, first, v, p, flags, n) ==
    h = [i \in 0..n |-> IF i = 0 THEN first ELSE Page(h[i - 1], v, p, flags, i)]

\* The states of the loop exist, one after the other.
LEMMA LoopExists ==
    ASSUME NEW first, NEW v, NEW p, NEW flags, NEW n \in Nat
    PROVE  \E h : Loop(h, first, v, p, flags, n)
<1> DEFINE Upto(h, k) == Loop(h, first, v, p, flags, k)
           S == {k \in Nat : ~ \E h : Upto(h, k)}
<1> SUFFICES ASSUME S # {} PROVE FALSE
  OBVIOUS
<1>1. PICK k \in S : \A j \in S : k <= j
  <2> HIDE DEF Upto
  <2> QED
    BY Least
<1>2. CASE k = 0
  <2> DEFINE h == [i \in 0..0 |-> first]
  <2>1. h = [i \in 0..0 |-> IF i = 0 THEN first ELSE Page(h[i - 1], v, p, flags, i)]
    OBVIOUS
  <2>2. Upto(h, 0)
    BY <2>1 DEF Loop
  <2> QED
    BY <1>1, <1>2, <2>2
<1>3. CASE k # 0
  <2>0. k \in Nat
    BY <1>1
  <2>1. k - 1 \in Nat /\ k - 1 \notin S
    <3>1. k - 1 \in Nat /\ ~(k <= k - 1)
      BY <1>3, <2>0
    <3> HIDE DEF S
    <3> QED
      BY <1>1, <3>1
  <2>2. PICK h : Upto(h, k - 1)
    BY <2>1
  <2> DEFINE g == [i \in 0..k |-> IF i = k THEN Page(h[k - 1], v, p, flags, k) ELSE h[i]]
  <2>3. \A i \in 0..k - 1 : h[i] = IF i = 0 THEN first ELSE Page(h[i - 1], v, p, flags, i)
    BY <2>2 DEF Loop
  <2>4. \A i \in 0..k - 1 : i \in 0..k /\ i # k /\ g[i] = h[i]
    BY <1>1
  <2>5. g[k] = Page(h[k - 1], v, p, flags, k)
    BY <1>1
  <2>6. ASSUME NEW i \in 0..k
        PROVE  g[i] = IF i = 0 THEN first ELSE Page(g[i - 1], v, p, flags, i)
    <3>1. CASE i = k
      <4>1. g[k - 1] = h[k - 1]
        BY <1>3, <2>1, <2>4
      <4> HIDE DEF g
      <4> QED
        BY <1>3, <2>5, <3>1, <4>1
    <3>2. CASE i # k
      <4>1. i \in 0..k - 1 /\ g[i] = h[i]
        BY <1>1, <2>4, <3>2
      <4>2. i # 0 => i - 1 \in 0..k - 1 /\ g[i - 1] = h[i - 1]
        BY <1>1, <2>4, <4>1
      <4> HIDE DEF g
      <4> QED
        BY <2>3, <4>1, <4>2
    <3> QED
      BY <3>1, <3>2
  <2>7. Upto(g, k)
    <3>1. g = [i \in 0..k |-> g[i]]
      OBVIOUS
    <3> HIDE DEF g
    <3> QED
      BY <2>6, <3>1 DEF Loop
  <2> QED
    BY <1>1, <2>7
<1> QED
  BY <1>2, <1>3

LEMMA SetPagesIs ==
    ASSUME NEW m, NEW v, NEW p, NEW flags, NEW n \in Nat
    PROVE  \E h : /\ Loop(h, [m |-> m, st |-> "true"], v, p, flags, n)
                  /\ SetPages(m, v, p, flags, n) = h[n]
<1> DEFINE first == [m |-> m, st |-> "true"]
           set == CHOOSE h : h = [i \in 0..n |->
                     IF i = 0 THEN first ELSE Page(h[i - 1], v, p, flags, i)]
<1>1. SetPages(m, v, p, flags, n) = set[n]
  BY DEF SetPages, Page
<1>2. \E h : Loop(h, first, v, p, flags, n)
  BY LoopExists
<1>3. Loop(set, first, v, p, flags, n)
  <2> HIDE DEF first
  <2> QED
    BY <1>2 DEF Loop
<1> QED
  BY <1>1, <1>3

LEMMA VaDown ==
    ASSUME NEW a \in Va, NEW b \in Nat, b <= a
    PROVE  b \in Va
<1> DEFINE top == N * N * N * N - 1
<1>1. top \in Int /\ a \in 0..top
  BY Sizes DEF Va
<1> HIDE DEF top
<1>2. b \in 0..top
  BY <1>1
<1> QED
  BY <1>2 DEF Va, top

LEMMA SetPagesTidy ==
    ASSUME NEW m, Tidy(m), NEW n \in Nat, NEW v \in Nat, v + n - 1 \in Va, NEW p \in Nat, NEW flags
    PROVE  Tidy(SetPages(m, v, p, flags, n).m)
<1>1. PICK h : /\ Loop(h, [m |-> m, st |-> "true"], v, p, flags, n)
               /\ SetPages(m, v, p, flags, n) = h[n]
  BY SetPagesIs
<1> DEFINE S == {i \in 0..n : ~Tidy(h[i].m)}
<1>2. h[0] = [m |-> m, st |-> "true"]
  BY <1>1 DEF Loop
<1>3. \A i \in 1..n : h[i] = Page(h[i - 1], v, p, flags, i)
  BY <1>1 DEF Loop
<1>4. S = {}
  <2> SUFFICES ASSUME S # {} PROVE FALSE
    OBVIOUS
  <2>1. S \in SUBSET Nat
    OBVIOUS
  <2>2. PICK i \in S : \A j \in S : i <= j
    BY <2>1, Least
  <2>3. i # 0
    BY <1>2, <2>2
  <2>4. i \in 1..n /\ i - 1 \in 0..n /\ i - 1 \notin S
    BY <2>2, <2>3
  <2>5. Tidy(h[i - 1].m)
    BY <2>4
  <2>6. v + i - 1 \in Va /\ p + i - 1 \in Int
    <3>1. v + i - 1 \in Nat /\ v + i - 1 <= v + n - 1 /\ p + i - 1 \in Int
      BY <2>4
    <3> QED
      BY <3>1, VaDown
  <2>7. Tidy(pcx_set_frame(h[i - 1].m, v + i - 1, p + i - 1, flags).m)
    BY <2>5, <2>6, SetFrameTidy
  <2>8. Tidy(h[i].m)
    BY <1>3, <2>4, <2>5, <2>7 DEF Page
  <2> QED
    BY <2>2, <2>8
<1>5. n \in 0..n /\ n \notin S
  BY <1>4
<1>6. Tidy(h[n].m)
  BY <1>5
<1> QED
  BY <1>1, <1>6

\* pge_alloc for another part of pinion: the page is no table.
LEMMA OtherTidy ==
    ASSUME NEW m, Tidy(m), ~Exhausted(m)
    PROVE  Tidy([pages |-> m.pages, base |-> pge_alloc(m).base])
<1> USE Sizes
<1>1. PICK own : Sound(m, own)
  BY DEF Tidy
<1>2. /\ m = [pages |-> m.pages, base |-> m.base] /\ m.pages \in Tables
      /\ m.base \in 0..Limit - 1
  BY <1>1 DEF Sound, Memory, Tables, Exhausted
<1> DEFINE n == [pages |-> m.pages, base |-> m.base + 1]
           o == [u \in 0..m.base |-> IF u = m.base THEN [level |-> 0, serves |-> 0] ELSE own[u]]
<1>3. pge_alloc(m).base = m.base + 1
  BY <1>2 DEF pge_alloc
<1>4. n.base = m.base + 1 /\ n.pages = m.pages /\ n.base - 1 = m.base
  BY <1>2
<1>5. n \in Memory
  <2>1. m.base + 1 \in 0..Limit
    BY <1>2
  <2> QED
    BY <1>2, <2>1, MemoryIs
<1> HIDE DEF n
<1>6. /\ o[m.base] = [level |-> 0, serves |-> 0]
      /\ \A u \in 0..m.base - 1 : o[u] = own[u]
  BY <1>2
<1>7. o \in [0..n.base - 1 -> Owner]
  <2>1. own \in [0..m.base - 1 -> Owner]
    BY <1>1 DEF Sound
  <2>2. [level |-> 0, serves |-> 0] \in Owner
    BY DEF Owner
  <2>3. \A u \in 0..m.base : u # m.base => u \in 0..m.base - 1
    BY <1>2
  <2> QED
    BY <1>4, <2>1, <2>2, <2>3
<1> HIDE DEF o
<1>8. ASSUME NEW u \in 0..n.base - 1, NEW j \in Index, o[u].level > 1
      PROVE  Linked(n, o, u, j)
  <2>1. u # m.base
    BY <1>6, <1>8
  <2>2. u \in 0..m.base - 1
    BY <1>2, <1>4, <2>1
  <2>3. Linked(m, own, u, j) /\ o[u] = own[u]
    BY <1>1, <1>6, <1>8, <2>2 DEF Sound
  <2>4. 1..m.base - 1 \subseteq 1..n.base - 1 /\ 1..m.base - 1 \subseteq 0..m.base - 1
    BY <1>2, <1>4
  <2> QED
    BY <1>4, <1>6, <2>3, <2>4 DEF Linked
<1>9. /\ PinionTables(m, own) /\ PinionPt2 < m.base /\ own[0] = [level |-> 4, serves |-> 0]
      /\ 0 \in 0..m.base - 1 /\ Half \in 0..m.base - 1 /\ PinionPt2 \in 0..m.base - 1
  BY <1>1, <1>2 DEF Sound
<1>10. PinionTables(n, o) /\ o[0] = [level |-> 4, serves |-> 0] /\ PinionPt2 < n.base
  BY <1>2, <1>4, <1>6, <1>9 DEF PinionTables
<1>11. Sound(n, o)
  BY <1>5, <1>7, <1>8, <1>10 DEF Sound
<1> QED
  BY <1>3, <1>11 DEF Tidy, n

LEMMA TidyInit == Init => Tidy(mem)
<1> SUFFICES ASSUME Init PROVE Tidy(mem)
  OBVIOUS
<1>1. mem = [pages |-> Booted.pages, base |-> Booted.base]
  BY DEF Init, mem
<1>2. Booted = [pages |-> Booted.pages, base |-> Booted.base]
  BY DEF Booted
<1> QED
  BY <1>1, <1>2, BootedSound DEF Tidy

LEMMA TidyStep == Tidy(mem) /\ [Next]_vars => Tidy(mem)'
<1> SUFFICES ASSUME Tidy(mem), [Next]_vars PROVE Tidy(mem')
  BY DEF Tidy
<1>1. mem' = [pages |-> pages', base |-> base'] /\ mem = [pages |-> pages, base |-> base]
  BY DEF mem
<1>2. CASE PageSet
  <2>1. PICK r \in Region, p \in Frame, f \in Flags : page_set(r[1], p, f, r[2])
    BY <1>2 DEF PageSet
  <2>2. /\ r[1] \in Va /\ r[1] \in Nat /\ r[2] \in Nat /\ r[1] + r[2] - 1 \in Va /\ p \in Nat
    BY RegionAssumption, PagingAssumption DEF Va
  <2> DEFINE s == SetPages(mem, r[1], p, f, r[2])
  <2>3. Tidy(s.m)
    BY <2>2, SetPagesTidy
  <2>4. s.m = [pages |-> s.m.pages, base |-> s.m.base]
    BY <2>3 DEF Tidy, Sound, Memory
  <2>5. pages' = s.m.pages /\ base' = s.m.base
    BY <2>1 DEF page_set
  <2> HIDE DEF s
  <2> QED
    BY <1>1, <2>3, <2>4, <2>5
<1>3. CASE OtherAlloc
  <2>1. mem' = [pages |-> mem.pages, base |-> pge_alloc(mem).base] /\ ~Exhausted(mem)
    BY <1>1, <1>3 DEF OtherAlloc
  <2> QED
    BY <2>1, OtherTidy
<1>4. CASE UNCHANGED vars
  <2>1. mem' = mem
    BY <1>1, <1>4 DEF vars
  <2> QED
    BY <2>1
<1> QED
  BY <1>2, <1>3, <1>4 DEF Next

\* The memory is tidy in every state.
LEMMA TablesTidy == Spec => []Tidy(mem)
BY TidyInit, TidyStep, PTL DEF Spec

-----------------------------------------------------------------------------
(* Which addresses a table serves.                                         *)

LEMMA Quotient ==
    ASSUME NEW a \in Nat, NEW b \in Nat \ {0}, NEW q \in Nat, q * b <= a, a < q * b + b
    PROVE  a \div b = q
<1> DEFINE d == a \div b
           r == a % b
<1>1. d \in Int /\ r \in 0..b - 1 /\ a = b * d + r
  OBVIOUS
<1> HIDE DEF d, r
<1>2. CASE d < q
  <2>1. d + 1 <= q
    BY <1>1, <1>2
  <2>2. (d + 1) * b <= q * b
    BY <1>1, <2>1
  <2> QED
    BY <1>1, <2>2
<1>3. CASE d > q
  <2>1. q + 1 <= d
    BY <1>1, <1>3
  <2>2. (q + 1) * b <= d * b
    BY <1>1, <2>1
  <2> QED
    BY <1>1, <2>2
<1>4. CASE d = q
  BY <1>4 DEF d
<1> QED
  BY <1>1, <1>2, <1>3, <1>4

LEMMA Remainder ==
    ASSUME NEW a \in Nat, NEW b \in Nat \ {0}
    PROVE  /\ a \div b \in Nat /\ a % b \in 0..b - 1
           /\ a = (a \div b) * b + (a % b)
<1> DEFINE d == a \div b
           r == a % b
<1>1. d \in Int /\ r \in 0..b - 1 /\ a = d * b + r
  OBVIOUS
<1> HIDE DEF d, r
<1>2. ASSUME d <= -1 PROVE FALSE
  <2>1. d * b <= (-1) * b
    BY <1>1, <1>2
  <2> QED
    BY <1>1, <2>1
<1>3. d \in Nat
  BY <1>1, <1>2
<1> QED
  BY <1>1, <1>3 DEF d, r

LEMMA TwoQuotients ==
    ASSUME NEW a \in Nat, NEW b \in Nat \ {0}, NEW c \in Nat \ {0}
    PROVE  (a \div b) \div c = a \div (c * b)
<1> DEFINE x == a \div b
           r == a % b
           y == x \div c
           s == x % c
<1>1. x \in Nat /\ r \in 0..b - 1 /\ a = x * b + r
  BY Remainder
<1> HIDE DEF x, r
<1>2. y \in Nat /\ s \in 0..c - 1 /\ x = y * c + s
  BY <1>1, Remainder
<1> HIDE DEF y, s
<1>3. c * b \in Nat \ {0}
  OBVIOUS
<1>4. a = y * (c * b) + (s * b + r)
  <2>1. x * b = (y * c) * b + s * b
    BY <1>1, <1>2
  <2>2. (y * c) * b = y * (c * b)
    BY <1>2
  <2> QED
    BY <1>1, <1>2, <2>1, <2>2
<1>5. 0 <= s * b + r /\ s * b + r < c * b
  <2>1. s + 1 <= c /\ s \in Nat
    BY <1>2
  <2>2. (s + 1) * b <= c * b
    BY <2>1
  <2>3. s * b >= 0 /\ (s + 1) * b = s * b + b
    BY <2>1
  <2> QED
    BY <1>1, <2>1, <2>2, <2>3
<1>6. y * (c * b) <= a /\ a < y * (c * b) + c * b
  <2>1. y * (c * b) \in Int /\ s * b \in Int /\ c * b \in Int
    BY <1>2
  <2> QED
    BY <1>1, <1>4, <1>5, <2>1
<1>7. a \div (c * b) = y
  BY <1>2, <1>3, <1>6, Quotient
<1> QED
  BY <1>7 DEF y, x

LEMMA SizeType ==
    /\ \A level \in Level : Size(level) \in Nat \ {0}
    /\ \A level \in 2..4 : Size(level) = N * Size(level - 1)
<1>1. N \in Nat \ {0}
  BY Sizes
<1>2. N * N \in Nat \ {0}
  BY <1>1
<1>3. N * N * N \in Nat \ {0}
  BY <1>1, <1>2
<1>4. N * (N * N) = N * N * N
  BY <1>1
<1>5. Size(1) = 1 /\ Size(2) = N /\ Size(3) = N * N /\ Size(4) = N * N * N
  BY DEF Size
<1>6. \A level \in Level : level = 1 \/ level = 2 \/ level = 3 \/ level = 4
  BY DEF Level
<1>7. \A level \in 2..4 : (level = 2 \/ level = 3 \/ level = 4)
  OBVIOUS
<1>8. \A level \in Level : Size(level) \in Nat \ {0}
  BY <1>1, <1>2, <1>3, <1>5, <1>6
<1>9. ASSUME NEW level \in 2..4 PROVE Size(level) = N * Size(level - 1)
  <2>1. CASE level = 2
    BY <1>1, <1>5, <2>1
  <2>2. CASE level = 3
    BY <1>1, <1>5, <2>2
  <2>3. CASE level = 4
    <3>1. level - 1 = 3
      BY <2>3
    <3> QED
      BY <1>4, <1>5, <2>3, <3>1
  <2> QED
    BY <1>7, <2>1, <2>2, <2>3
<1> QED
  BY <1>8, <1>9

Serves(va, level) == va \div (N * Size(level))

\* The table below entry Idx(va, level) of the table that serves va serves va.
LEMMA ServesBelow ==
    ASSUME NEW va \in Va, NEW level \in 2..4
    PROVE  Serves(va, level) * N + Idx(va, level) = Serves(va, level - 1)
<1>1. va \in Nat /\ N \in Nat \ {0}
  BY Sizes DEF Va
<1>2. level \in Level /\ level - 1 \in Level
  BY DEF Level
<1>3. Size(level) \in Nat \ {0} /\ Size(level) = N * Size(level - 1)
  BY <1>2, SizeType
<1> DEFINE z == Size(level)
           q == va \div z
<1>4. q \div N = va \div (N * z)
  BY <1>1, <1>3, TwoQuotients
<1>5. q \in Nat
  BY <1>1, <1>3, Remainder
<1> DEFINE x == q \div N
           y == q % N
<1> HIDE DEF z, q
<1>10. x \in Nat /\ y \in Nat /\ q = x * N + y
  <2>1. /\ q \div N \in Nat /\ q % N \in 0..N - 1
        /\ q = (q \div N) * N + (q % N)
    BY <1>1, <1>5, Remainder
  <2> QED
    BY <1>1, <2>1
<1>7. Serves(va, level) = q \div N
  BY <1>4 DEF Serves, z
<1>8. Serves(va, level - 1) = q
  BY <1>3 DEF Serves, q, z
<1>9. Idx(va, level) = q % N
  BY DEF Idx, q, z
<1> HIDE DEF x, y
<1>12. Serves(va, level) = x /\ Idx(va, level) = y
  BY <1>7, <1>9 DEF x, y
<1> QED
  BY <1>10, <1>8, <1>12

LEMMA ServesRoot ==
    ASSUME NEW va \in Va
    PROVE  Serves(va, 4) = 0
<1> DEFINE z == N * (N * N * N)
<1>1. N \in Nat \ {0}
  BY Sizes
<1>2. N * N * N \in Nat \ {0}
  BY <1>1
<1>3. z \in Nat \ {0} /\ z = N * N * N * N
  BY <1>1, <1>2
<1>4. va \in Nat /\ va < z
  <2> DEFINE top == N * N * N * N
  <2>1. va \in 0..top - 1 /\ top = z
    BY <1>3 DEF Va
  <2> HIDE DEF top, z
  <2> QED
    BY <1>3, <2>1
<1> HIDE DEF z
<1>5. va \div z = 0
  BY <1>3, <1>4, Quotient
<1> QED
  BY <1>5 DEF Serves, Size, z

-----------------------------------------------------------------------------
(* The tables are a tree.                                                  *)

\* A turn of the walk of va stands at the table of its level that serves va, or at
\* one that could not be allocated.
Stands(m, own, va, f) ==
    /\ f.level \in Level
    /\ \/ f.table = Wild
       \/ /\ f.table \in 0..m.base - 1
          /\ own[f.table] = [level |-> f.level, serves |-> Serves(va, f.level)]

LEMMA StepStands ==
    ASSUME NEW m, NEW own, Sound(m, own), NEW va \in Va, NEW f, Stands(m, own, va, f)
    PROVE  Stands(m, own, va, Step(m, va, f))
<1> DEFINE i == Idx(va, f.level)
           e == m.pages[f.table][i]
<1>1. CASE f.table = Wild \/ Stops(m, f.table, va, f.level)
  BY <1>1 DEF Step
<1>2. CASE ~(f.table = Wild \/ Stops(m, f.table, va, f.level))
  <2>1. PF_PRES \in e.bits /\ PF_LARGE \notin e.bits /\ f.level # 1
    BY <1>2 DEF Stops
  <2>2. /\ f.level \in 2..4 /\ f.table \in 0..m.base - 1
        /\ own[f.table] = [level |-> f.level, serves |-> Serves(va, f.level)]
    BY <1>2, <2>1 DEF Stands, Level
  <2>3. i \in Index
    BY IdxIn DEF Stands
  <2>4. Step(m, va, f) = [table |-> e.to, level |-> f.level - 1]
    BY <1>2 DEF Step
  <2>5. Linked(m, own, f.table, i)
    <3>1. own[f.table].level > 1
      BY <2>2
    <3> HIDE DEF i
    <3> QED
      BY <2>2, <2>3, <3>1 DEF Sound
  <2>6. e # Zero
    BY <2>1 DEF Zero
  <2>7. \/ e.to = Wild
        \/ /\ e.to \in 1..m.base - 1
           /\ own[e.to] = [level |-> f.level - 1, serves |-> Serves(va, f.level) * N + i]
    <3>1. /\ own[f.table].level - 1 = f.level - 1
          /\ own[f.table].serves * N + i = Serves(va, f.level) * N + i
      BY <2>2
    <3>2. \/ e = Zero
          \/ PF_PRES \in e.bits /\ PF_LARGE \in e.bits
          \/ /\ PF_PRES \in e.bits /\ PF_LARGE \notin e.bits
             /\ \/ e.to = Wild
                \/ /\ e.to \in 1..m.base - 1
                   /\ own[e.to] = [level |-> own[f.table].level - 1,
                                   serves |-> own[f.table].serves * N + i]
      BY <2>5 DEF Linked
    <3> HIDE DEF e, i
    <3> QED
      BY <2>1, <2>6, <3>1, <3>2
  <2>8. Serves(va, f.level) * N + i = Serves(va, f.level - 1)
    BY <2>2, ServesBelow
  <2>9. f.level - 1 \in Level
    BY <2>2 DEF Level
  <2>10. e.to \in 1..m.base - 1 => e.to \in 0..m.base - 1
    OBVIOUS
  <2> HIDE DEF e, i
  <2> QED
    BY <2>4, <2>7, <2>8, <2>9, <2>10 DEF Stands
<1> QED
  BY <1>1, <1>2

LEMMA WalkStands ==
    ASSUME NEW m, NEW own, Sound(m, own), NEW va \in Va, NEW i \in 1..4
    PROVE  Stands(m, own, va, Walk(m, va)[i])
<1> DEFINE f3 == Step(m, va, Root)
           f2 == Step(m, va, f3)
           f1 == Step(m, va, f2)
<1>1. Stands(m, own, va, Root)
  <2>1. 0 \in 0..m.base - 1 /\ own[0] = [level |-> 4, serves |-> 0]
    BY Sizes DEF Sound, Memory
  <2> QED
    BY <2>1, ServesRoot DEF Stands, Root, Level
<1>2. Stands(m, own, va, f3)
  BY <1>1, StepStands
<1> HIDE DEF f3
<1>3. Stands(m, own, va, f2)
  BY <1>2, StepStands
<1> HIDE DEF f2
<1>4. Stands(m, own, va, f1)
  BY <1>3, StepStands
<1>5. Walk(m, va) = <<Root, f3, f2, f1>>
  BY DEF Walk, f2, f3
<1> HIDE DEF f1
<1>6. i = 1 \/ i = 2 \/ i = 3 \/ i = 4
  OBVIOUS
<1> QED
  BY <1>1, <1>2, <1>3, <1>4, <1>5, <1>6

\* In every state that calls of page_set for any regions (page 0 among them), frames
\* and flags lead to, no page serves as a table in two places, and no entry of a
\* table leads to a page that was not allocated or that pinion has not written:
\* page.c trusts its entries for this in every walk.  The one end of it is an
\* exhausted allocator whose null pointer leads into mapped memory (page.c:157).
THEOREM TreesSound == Spec => []TreeOK
<1>1. Tidy(mem) => TreeOK
  <2> SUFFICES ASSUME NEW own, Sound(mem, own) PROVE TreeOK
    BY DEF Tidy
  <2> DEFINE tree == {x \in Tree : x.table # Wild}
  <2>1. mem.pages = pages /\ mem.base = base
    BY DEF mem
  <2>2. ASSUME NEW x \in tree
        PROVE  /\ x = [table |-> x.table, level |-> x.level, serves |-> x.serves]
               /\ x.table \in 0..base - 1
               /\ own[x.table] = [level |-> x.level, serves |-> x.serves]
    <3>1. PICK va \in Va, i \in 1..4 :
             x = [table  |-> Walk(mem, va)[i].table, level |-> Walk(mem, va)[i].level,
                  serves |-> va \div (N * Size(Walk(mem, va)[i].level))]
      BY DEF Tree
    <3> DEFINE f == Walk(mem, va)[i]
    <3>2. Stands(mem, own, va, f)
      BY WalkStands
    <3>3. x.table = f.table /\ x.level = f.level /\ x.serves = Serves(va, f.level)
      BY <3>1 DEF Serves
    <3>4. x.table # Wild
      OBVIOUS
    <3>5. x = [table |-> x.table, level |-> x.level, serves |-> x.serves]
      BY <3>1
    <3> HIDE DEF f
    <3> QED
      BY <2>1, <3>2, <3>3, <3>4, <3>5 DEF Stands
  <2>3. \A x, y \in tree : x.table = y.table => x = y
    <3> SUFFICES ASSUME NEW x \in tree, NEW y \in tree, x.table = y.table PROVE x = y
      OBVIOUS
    <3>1. own[x.table] = [level |-> x.level, serves |-> x.serves]
      BY <2>2
    <3>2. own[y.table] = [level |-> y.level, serves |-> y.serves]
      BY <2>2
    <3>3. x.level = y.level /\ x.serves = y.serves
      BY <3>1, <3>2
    <3>4. x = [table |-> x.table, level |-> x.level, serves |-> x.serves]
      BY <2>2
    <3>5. y = [table |-> y.table, level |-> y.level, serves |-> y.serves]
      BY <2>2
    <3> QED
      BY <3>3, <3>4, <3>5
  <2>4. ASSUME NEW x \in tree, x.level > 1, NEW i \in Index
        PROVE  LET e == pages[x.table][i]
               IN  \/ e = Zero
                   \/ PF_LARGE \in e.bits
                   \/ e.to \in {Wild} \cup 1..base - 1
    <3>3. x.table \in 0..base - 1 /\ own[x.table] = [level |-> x.level, serves |-> x.serves]
      BY <2>2
    <3>1. x.table \in 0..mem.base - 1 /\ own[x.table].level > 1
      BY <2>1, <2>4, <3>3
    <3>2. Linked(mem, own, x.table, i)
      BY <3>1 DEF Sound
    <3> QED
      BY <2>1, <3>2 DEF Linked
  <2> HIDE DEF tree
  <2>5. /\ \A x, y \in tree : x.table = y.table => x = y
        /\ \A x \in tree :
              /\ x.table \in 0..base - 1
              /\ x.level > 1 => \A i \in Index :
                    LET e == pages[x.table][i]
                    IN  \/ e = Zero
                        \/ PF_LARGE \in e.bits
                        \/ e.to \in {Wild} \cup 1..base - 1
    BY <2>2, <2>3, <2>4
  <2> QED
    BY <2>5 DEF TreeOK, tree
<1> QED
  BY <1>1, TablesTidy, PTL

-----------------------------------------------------------------------------
(* Pinion's own pages.                                                     *)

\* The walk of an address of pinion goes through the last entry of the root and of
\* its last table, and ends at the large pages.
LEMMA PinionIdx ==
    ASSUME NEW va \in PinionPages
    PROVE  va \in Va /\ Idx(va, 4) = N - 1 /\ Idx(va, 3) = N - 1
<1> DEFINE n2 == N * N
           n3 == N * N * N
           n4 == N * N * N * N
<1>1. N \in Nat \ {0} /\ N >= 2
  BY Sizes
<1>2. n2 \in Nat \ {0} /\ n2 = N * N /\ n2 >= N
  <2>1. N * N >= 1 * N
    BY <1>1
  <2> QED
    BY <1>1, <2>1
<1> HIDE DEF n2
<1>3. n3 \in Nat \ {0} /\ n3 = n2 * N /\ n3 >= n2
  <2>1. n3 = n2 * N
    BY DEF n2
  <2>2. n2 * N >= n2 * 1
    BY <1>1, <1>2
  <2> HIDE DEF n3
  <2> QED
    BY <1>1, <1>2, <2>1, <2>2
<1>4. n4 = n3 * N /\ n4 = n2 * n2
  <2>1. n4 = n3 * N
    OBVIOUS
  <2>2. n3 * N = (n2 * N) * N
    BY <1>3
  <2>3. (n2 * N) * N = n2 * (N * N)
    BY <1>1, <1>2
  <2> QED
    BY <1>2, <2>1, <2>2, <2>3
<1>5. va \in n4 - n2..n4 - 1
  BY DEF PinionPages, n2
<1>6. Size(4) = n3 /\ Size(3) = n2
  BY DEF Size, n2
<1>7. Va = 0..n4 - 1
  BY DEF Va
<1> HIDE DEF n3, n4
<1>8. n4 \in Nat /\ n4 >= n2
  <2>1. n2 * n2 >= 1 * n2
    BY <1>2
  <2> QED
    BY <1>2, <1>4, <2>1
<1>9. va \in Nat /\ va >= n4 - n2 /\ va < n4
  BY <1>2, <1>5, <1>8
<1>10. va \div n3 = N - 1
  <2>1. (N - 1) * n3 = n4 - n3
    BY <1>1, <1>3, <1>4
  <2>2. N - 1 \in Nat /\ (N - 1) * n3 <= va /\ va < (N - 1) * n3 + n3
    BY <1>1, <1>2, <1>3, <1>8, <1>9, <2>1
  <2> QED
    BY <1>3, <1>9, <2>2, Quotient
<1>11. va \div n2 = n2 - 1
  <2>1. (n2 - 1) * n2 = n4 - n2
    BY <1>2, <1>4
  <2>2. n2 - 1 \in Nat /\ (n2 - 1) * n2 <= va /\ va < (n2 - 1) * n2 + n2
    BY <1>2, <1>8, <1>9, <2>1
  <2> QED
    BY <1>2, <1>9, <2>2, Quotient
<1>12. (N - 1) % N = N - 1
  BY <1>1
<1>13. (n2 - 1) % N = N - 1
  <2> DEFINE a == n2 - 1
             d == a \div N
             r == a % N
  <2>1. a \in Nat
    BY <1>2
  <2>2. (N - 1) * N = n2 - N
    BY <1>1, <1>2
  <2>3. N - 1 \in Nat /\ (N - 1) * N <= a /\ a < (N - 1) * N + N
    BY <1>1, <1>2, <2>2
  <2> HIDE DEF a
  <2>4. d = N - 1
    BY <1>1, <2>1, <2>3, Quotient
  <2>5. a = d * N + r /\ r \in 0..N - 1
    BY <1>1, <2>1, Remainder
  <2> HIDE DEF d, r
  <2>6. r = N - 1
    BY <1>1, <1>2, <2>2, <2>4, <2>5 DEF a
  <2> QED
    BY <2>6 DEF r, a
<1>14. va \in Va
  BY <1>7, <1>8, <1>9
<1> QED
  BY <1>6, <1>10, <1>11, <1>12, <1>13, <1>14 DEF Idx

\* The three entries decide what page_get reports.
LEMMA PinionLeaf ==
    ASSUME NEW m, NEW va \in PinionPages,
           m.pages[0][N - 1] = Booted.pages[0][N - 1],
           m.pages[Half][N - 1] = Booted.pages[Half][N - 1],
           m.pages[PinionPt2] = Booted.pages[PinionPt2]
    PROVE  Leaf(m, va) = [table |-> PinionPt2, level |-> 2]
<1> DEFINE f3 == Step(m, va, Root)
           f2 == Step(m, va, f3)
           f1 == Step(m, va, f2)
<1>1. va \in Va /\ Idx(va, 4) = N - 1 /\ Idx(va, 3) = N - 1
  BY PinionIdx
<1>2. /\ m.pages[0][N - 1] = [to |-> Half, bits |-> {PF_PRES, PF_WRITE}]
      /\ m.pages[Half][N - 1] = [to |-> PinionPt2, bits |-> {PF_PRES, PF_WRITE}]
      /\ PF_LARGE \notin {PF_PRES, PF_WRITE}
  BY BootedPinion DEF PF_PRES, PF_WRITE, PF_LARGE
<1>3. 0 # Wild /\ Half # Wild /\ PinionPt2 # Wild
  BY Sizes DEF Wild
<1>4. f3 = [table |-> Half, level |-> 3]
  BY <1>1, <1>2, <1>3 DEF Step, Stops, Root
<1> HIDE DEF f3
<1>5. f2 = [table |-> PinionPt2, level |-> 2]
  BY <1>1, <1>2, <1>3, <1>4 DEF Step, Stops
<1> HIDE DEF f2
<1>6. f1 = f2
  <2>1. Idx(va, 2) \in Index
    BY <1>1, IdxIn DEF Level
  <2>2. PF_LARGE \in m.pages[PinionPt2][Idx(va, 2)].bits
    BY <2>1, BootedPinion
  <2> QED
    BY <1>5, <2>2 DEF Step, Stops
<1>7. Walk(m, va) = <<Root, f3, f2, f1>>
  BY DEF Walk, f2, f3
<1> HIDE DEF f1
<1> QED
  BY <1>5, <1>6, <1>7 DEF Leaf

\* No page_set, whatever the region, frame and flags, changes what page_get reports
\* of the pages that pinion itself runs in: the walk ends at the large pages, and the
\* tables that lead to them are never those it writes to.  Nor does an exhausted
\* allocator, as long as its null pointer is a page fault: with page 0 mapped the
\* call would clear whatever page 0 leads to (page.c:159-161).
THEOREM PinionUntouched == Spec => []PinionKept
<1>1. Tidy(mem) => PinionKept
  <2> SUFFICES ASSUME NEW own, Sound(mem, own), NEW va \in PinionPages
               PROVE  page_get(mem, va) = page_get(Booted, va)
    BY DEF Tidy, PinionKept
  <2>1. /\ mem.pages[0][N - 1] = Booted.pages[0][N - 1]
        /\ mem.pages[Half][N - 1] = Booted.pages[Half][N - 1]
        /\ mem.pages[PinionPt2] = Booted.pages[PinionPt2]
    BY DEF Sound, PinionTables
  <2>2. Leaf(mem, va) = [table |-> PinionPt2, level |-> 2]
    BY <2>1, PinionLeaf
  <2>3. Leaf(Booted, va) = [table |-> PinionPt2, level |-> 2]
    BY PinionLeaf
  <2>4. pcx_get_flags(mem, va) = pcx_get_flags(Booted, va)
    BY <2>1, <2>2, <2>3 DEF pcx_get_flags
  <2>5. pcx_get_trans(mem, va) = pcx_get_trans(Booted, va)
    BY <2>1, <2>2, <2>3 DEF pcx_get_trans
  <2> QED
    BY <2>4, <2>5 DEF page_get
<1> QED
  BY <1>1, TablesTidy, PTL
=============================================================================

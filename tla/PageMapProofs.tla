--------------------------- MODULE PageMapProofs ---------------------------
(***************************************************************************)
(* Paging implements PageMap, for every size of the tables, every amount   *)
(* of memory and every region, frame and flags.                            *)
(***************************************************************************)
EXTENDS PagingRefinement, PagingProofs

-----------------------------------------------------------------------------
(* The walk.                                                               *)

\* What pcx_get_trans makes of the entry that a walk ends at.
Reported(m, va, f) ==
    IF f.table = Wild THEN BROKEN
    ELSE LET e == m.pages[f.table][Idx(va, f.level)]
         IN  IF PF_PRES \in e.bits THEN e.to + (va % Size(f.level)) ELSE NONE

Trans(m, va) == Reported(m, va, Leaf(m, va))

LEMMA TranslationIs ==
    ASSUME NEW m
    PROVE  /\ Translation(m) = [va \in Va |-> Trans(m, va)]
           /\ \A va \in Va : Translation(m)[va] = Trans(m, va)
<1>1. \A va : Trans(m, va) = IF Faults(m, va) THEN BROKEN ELSE pcx_get_trans(m, va)
  BY DEF Trans, Reported, Faults, pcx_get_trans
<1> QED
  BY <1>1 DEF Translation

LEMMA WalkIs ==
    ASSUME NEW m, NEW va
    PROVE  /\ Walk(m, va)[1] = Root
           /\ \A k \in 1..3 : Walk(m, va)[k + 1] = Step(m, va, Walk(m, va)[k])
           /\ Leaf(m, va) = Walk(m, va)[4]
<1> DEFINE f3 == Step(m, va, Root)
           f2 == Step(m, va, f3)
           f1 == Step(m, va, f2)
<1>1. Walk(m, va) = <<Root, f3, f2, f1>>
  BY DEF Walk
<1>2. /\ Walk(m, va)[1] = Root /\ Walk(m, va)[2] = f3
      /\ Walk(m, va)[3] = f2 /\ Walk(m, va)[4] = f1
  <2> HIDE DEF f1, f2, f3
  <2> QED
    BY <1>1
<1>3. \A k \in 1..3 : k = 1 \/ k = 2 \/ k = 3
  OBVIOUS
<1>4. /\ Walk(m, va)[1 + 1] = Step(m, va, Walk(m, va)[1])
      /\ Walk(m, va)[2 + 1] = Step(m, va, Walk(m, va)[2])
      /\ Walk(m, va)[3 + 1] = Step(m, va, Walk(m, va)[3])
  BY <1>2
<1> QED
  BY <1>2, <1>3, <1>4 DEF Leaf

\* A turn that does not move is the last.
LEMMA Stay ==
    ASSUME NEW m, NEW va, NEW k \in 1..4, Step(m, va, Walk(m, va)[k]) = Walk(m, va)[k]
    PROVE  Leaf(m, va) = Walk(m, va)[k]
<1> DEFINE w == Walk(m, va)
<1>1. w[2] = Step(m, va, w[1]) /\ w[3] = Step(m, va, w[2]) /\ w[4] = Step(m, va, w[3])
  <2>1. \A j \in 1..3 : w[j + 1] = Step(m, va, w[j])
    BY WalkIs
  <2> HIDE DEF w
  <2>2. 1 \in 1..3 /\ 2 \in 1..3 /\ 3 \in 1..3 /\ 1 + 1 = 2 /\ 2 + 1 = 3 /\ 3 + 1 = 4
    OBVIOUS
  <2>3. w[1 + 1] = Step(m, va, w[1]) /\ w[2 + 1] = Step(m, va, w[2]) /\ w[3 + 1] = Step(m, va, w[3])
    BY <2>1, <2>2
  <2> QED
    BY <2>3
<1>2. k = 1 \/ k = 2 \/ k = 3 \/ k = 4
  OBVIOUS
<1>3. Step(m, va, w[k]) = w[k]
  OBVIOUS
<1> HIDE DEF w
<1>4. w[4] = w[k]
  BY <1>1, <1>2, <1>3
<1> QED
  BY <1>4, WalkIs DEF w

\* The level falls by one with every turn, or less.
LEMMA WalkLevel ==
    ASSUME NEW m, NEW own, Sound(m, own), NEW va \in Va, NEW k \in 1..4
    PROVE  Walk(m, va)[k].level \in Level /\ Walk(m, va)[k].level >= 5 - k
<1> DEFINE w == Walk(m, va)
<1>1. \A j \in 1..4 : w[j].level \in Level
  BY WalkStands DEF Stands
<1>2. w[1].level = 4
  BY WalkIs DEF Root
<1>3. \A j \in 1..3 : w[j + 1].level >= w[j].level - 1
  <2> SUFFICES ASSUME NEW j \in 1..3 PROVE w[j + 1].level >= w[j].level - 1
    OBVIOUS
  <2>1. w[j + 1] = Step(m, va, w[j])
    BY WalkIs
  <2>2. w[j].level \in Level
    BY <1>1
  <2> HIDE DEF w
  <2>3. w[j + 1].level = w[j].level \/ w[j + 1].level = w[j].level - 1
    BY <2>1 DEF Step
  <2> QED
    BY <2>2, <2>3 DEF Level
<1> HIDE DEF w
<1>4. w[1].level \in Int /\ w[2].level \in Int /\ w[3].level \in Int /\ w[4].level \in Int
  BY <1>1 DEF Level
<1>5. w[2].level >= w[1].level - 1 /\ w[3].level >= w[2].level - 1 /\ w[4].level >= w[3].level - 1
  <2>1. w[1 + 1].level >= w[1].level - 1 /\ w[2 + 1].level >= w[2].level - 1
        /\ w[3 + 1].level >= w[3].level - 1
    BY <1>3
  <2> QED
    BY <2>1
<1>6. k = 1 \/ k = 2 \/ k = 3 \/ k = 4
  OBVIOUS
<1>7. w[k].level >= 5 - k
  BY <1>2, <1>4, <1>5, <1>6
<1> QED
  BY <1>1, <1>7 DEF w

\* Memories with the same entries on the way make the same walk.
LEMMA SameStep ==
    ASSUME NEW m, NEW n, NEW va, NEW f,
           f.table # Wild =>
              n.pages[f.table][Idx(va, f.level)] = m.pages[f.table][Idx(va, f.level)]
    PROVE  Step(n, va, f) = Step(m, va, f) /\ Reported(n, va, f) = Reported(m, va, f)
BY DEF Step, Stops, Reported

LEMMA SameWalk ==
    ASSUME NEW m, NEW n, NEW va, NEW last \in 1..4,
           \A k \in 1..last - 1 : LET f == Walk(m, va)[k] IN Step(n, va, f) = Step(m, va, f)
    PROVE  \A k \in 1..last : Walk(n, va)[k] = Walk(m, va)[k]
<1> DEFINE w == Walk(m, va)
           x == Walk(n, va)
<1>1. w[1] = x[1]
  BY WalkIs
<1>2. \A k \in 1..3 : x[k] = w[k] /\ k < last => x[k + 1] = w[k + 1]
  <2> SUFFICES ASSUME NEW k \in 1..3, x[k] = w[k], k < last PROVE x[k + 1] = w[k + 1]
    OBVIOUS
  <2>1. w[k + 1] = Step(m, va, w[k]) /\ x[k + 1] = Step(n, va, x[k])
    BY WalkIs
  <2>2. Step(n, va, w[k]) = Step(m, va, w[k])
    OBVIOUS
  <2> QED
    BY <2>1, <2>2
<1> HIDE DEF w, x
<1>3. /\ x[1] = w[1] /\ 1 < last => x[1 + 1] = w[1 + 1]
      /\ x[2] = w[2] /\ 2 < last => x[2 + 1] = w[2 + 1]
      /\ x[3] = w[3] /\ 3 < last => x[3 + 1] = w[3 + 1]
  BY <1>2
<1>4. \A k \in 1..last : k = 1 \/ (k = 2 /\ 1 < last) \/ (k = 3 /\ 2 < last) \/ (k = 4 /\ 3 < last)
  OBVIOUS
<1>5. /\ x[1] = w[1]
      /\ 1 < last => x[2] = w[2]
      /\ 2 < last => x[3] = w[3]
      /\ 3 < last => x[4] = w[4]
  BY <1>1, <1>3
<1> QED
  BY <1>4, <1>5 DEF w, x

-----------------------------------------------------------------------------
(* One entry changes.                                                      *)

\* The tables of m are the same in n but for entry i of table t.
Apart(m, n, t, i) ==
    \A u \in 0..m.base - 1, j \in Index :
        u # t \/ j # i => n.pages[u][j] = m.pages[u][j]

\* Entry i of table t lies on the way of va.
Below(own, t, i, va) ==
    Serves(va, own[t].level) = own[t].serves /\ Idx(va, own[t].level) = i

LEMMA Elsewhere ==
    ASSUME NEW m, NEW own, Sound(m, own), NEW n, NEW t, NEW i, Apart(m, n, t, i),
           NEW va \in Va, ~Below(own, t, i, va)
    PROVE  Trans(n, va) = Trans(m, va)
<1>1. ASSUME NEW k \in 1..4
      PROVE  LET f == Walk(m, va)[k]
             IN  Step(n, va, f) = Step(m, va, f) /\ Reported(n, va, f) = Reported(m, va, f)
  <2> DEFINE f == Walk(m, va)[k]
             j == Idx(va, f.level)
  <2>1. Stands(m, own, va, f)
    BY WalkStands
  <2> HIDE DEF f
  <2>2. j \in Index
    BY <2>1, IdxIn DEF Stands
  <2>3. f.table # Wild => /\ f.table \in 0..m.base - 1
                          /\ own[f.table].level = f.level
                          /\ own[f.table].serves = Serves(va, f.level)
    BY <2>1 DEF Stands
  <2>4. f.table # Wild => n.pages[f.table][j] = m.pages[f.table][j]
    <3> SUFFICES ASSUME f.table # Wild PROVE f.table # t \/ j # i
      BY <2>2, <2>3 DEF Apart
    <3> QED
      BY <2>3 DEF Below
  <2> QED
    BY <2>4, SameStep DEF f
<1>2. \A k \in 1..4 : Walk(n, va)[k] = Walk(m, va)[k]
  <2>1. \A k \in 1..4 - 1 : LET f == Walk(m, va)[k] IN Step(n, va, f) = Step(m, va, f)
    <3>1. \A k \in 1..4 - 1 : k \in 1..4
      OBVIOUS
    <3> QED
      BY <1>1, <3>1
  <2>2. 4 \in 1..4
    OBVIOUS
  <2> QED
    BY <2>1, <2>2, SameWalk
<1>3. Leaf(n, va) = Leaf(m, va) /\ Leaf(m, va) = Walk(m, va)[4]
  BY <1>2, WalkIs
<1>4. Reported(n, va, Walk(m, va)[4]) = Reported(m, va, Walk(m, va)[4])
  BY <1>1
<1> QED
  BY <1>3, <1>4 DEF Trans

\* The walk to a table does not depend on the table.
LEMMA Prefix ==
    ASSUME NEW m, NEW own, Sound(m, own), NEW n, NEW t, NEW i, Apart(m, n, t, i),
           NEW va \in Va, NEW level \in Level, own[t].level = level
    PROVE  \A k \in 1..5 - level : Walk(n, va)[k] = Walk(m, va)[k]
<1>1. ASSUME NEW k \in 1..4 - level
      PROVE  LET f == Walk(m, va)[k] IN Step(n, va, f) = Step(m, va, f)
  <2> DEFINE f == Walk(m, va)[k]
             j == Idx(va, f.level)
  <2>0. k \in 1..4
    BY DEF Level
  <2>1. Stands(m, own, va, f) /\ f.level \in Level /\ f.level >= 5 - k
    BY <2>0, WalkStands, WalkLevel
  <2> HIDE DEF f
  <2>2. f.level > level
    BY <2>1 DEF Level
  <2>3. j \in Index
    BY <2>1, IdxIn
  <2>4. f.table # Wild => f.table \in 0..m.base - 1 /\ own[f.table].level = f.level
    BY <2>1 DEF Stands
  <2>5. f.table # Wild => f.table # t
    BY <2>2, <2>4 DEF Level
  <2>6. f.table # Wild => n.pages[f.table][j] = m.pages[f.table][j]
    BY <2>3, <2>4, <2>5 DEF Apart
  <2> QED
    BY <2>6, SameStep DEF f
<1>2. 5 - level \in 1..4 /\ (5 - level) - 1 = 4 - level
  BY DEF Level
<1> HIDE DEF Apart
<1> QED
  BY <1>1, <1>2, SameWalk

LEMMA ServesUp ==
    ASSUME NEW va \in Va, NEW level \in 2..4
    PROVE  /\ Serves(va, level) = Serves(va, level - 1) \div N
           /\ Idx(va, level) = Serves(va, level - 1) % N
<1>1. va \in Nat /\ N \in Nat \ {0}
  BY Sizes DEF Va
<1>2. level \in Level
  BY DEF Level
<1>3. Size(level) \in Nat \ {0} /\ Size(level) = N * Size(level - 1)
  BY <1>2, SizeType
<1>4. Serves(va, level - 1) = va \div Size(level)
  BY <1>3 DEF Serves
<1>5. (va \div Size(level)) \div N = va \div (N * Size(level))
  BY <1>1, <1>3, TwoQuotients
<1> QED
  BY <1>4, <1>5 DEF Serves, Idx

\* Addresses that one table serves make the same walk to it.
LEMMA Together ==
    ASSUME NEW m, NEW own, Sound(m, own), NEW va \in Va, NEW u \in Va,
           NEW level \in Level, Serves(va, level) = Serves(u, level)
    PROVE  \A k \in 1..5 - level : Walk(m, va)[k] = Walk(m, u)[k]
<1> DEFINE S(l) == Serves(va, l) = Serves(u, l)
           I(l) == Idx(va, l) = Idx(u, l)
<1>1. \A l \in 2..4 : S(l - 1) => S(l) /\ I(l)
  BY ServesUp
<1>2. (S(1) => S(2) /\ I(2)) /\ (S(2) => S(3) /\ I(3)) /\ (S(3) => S(4) /\ I(4))
  <2> HIDE DEF S, I
  <2>1. (S(2 - 1) => S(2) /\ I(2)) /\ (S(3 - 1) => S(3) /\ I(3)) /\ (S(4 - 1) => S(4) /\ I(4))
    BY <1>1
  <2> QED
    BY <2>1
<1>3. \A l \in Level : l > level => I(l)
  <2>1. S(level)
    OBVIOUS
  <2> HIDE DEF S, I
  <2>2. level = 1 \/ level = 2 \/ level = 3 \/ level = 4
    BY DEF Level
  <2>3. \A l \in Level : l = 1 \/ l = 2 \/ l = 3 \/ l = 4
    BY DEF Level
  <2> QED
    BY <1>2, <2>1, <2>2, <2>3
<1> DEFINE w == Walk(m, va)
           x == Walk(m, u)
<1>4. ASSUME NEW k \in 1..4 - level, w[k] = x[k] PROVE w[k + 1] = x[k + 1]
  <2>0. k \in 1..4 /\ k \in 1..3
    BY DEF Level
  <2>1. w[k].level \in Level /\ w[k].level >= 5 - k
    BY <2>0, WalkLevel
  <2>2. w[k].level > level
    <3> HIDE DEF w
    <3> QED
      BY <2>1 DEF Level
  <2>3. Idx(va, w[k].level) = Idx(u, w[k].level)
    BY <1>3, <2>1, <2>2
  <2>4. w[k + 1] = Step(m, va, w[k]) /\ x[k + 1] = Step(m, u, x[k])
    BY <2>0, WalkIs
  <2> HIDE DEF w, x
  <2>5. Step(m, va, w[k]) = Step(m, u, w[k])
    BY <2>3 DEF Step, Stops
  <2> QED
    BY <1>4, <2>4, <2>5
<1>5. w[1] = x[1]
  BY WalkIs
<1> HIDE DEF w, x
<1>6. /\ 1 <= 4 - level /\ w[1] = x[1] => w[1 + 1] = x[1 + 1]
      /\ 2 <= 4 - level /\ w[2] = x[2] => w[2 + 1] = x[2 + 1]
      /\ 3 <= 4 - level /\ w[3] = x[3] => w[3 + 1] = x[3 + 1]
  <2>1. \A k \in 1..3 : k <= 4 - level => k \in 1..4 - level
    BY DEF Level
  <2> QED
    BY <1>4, <2>1
<1>7. /\ w[1] = x[1]
      /\ level <= 3 => w[2] = x[2]
      /\ level <= 2 => w[3] = x[3]
      /\ level <= 1 => w[4] = x[4]
  BY <1>5, <1>6 DEF Level
<1>8. \A k \in 1..5 - level :
         k = 1 \/ (k = 2 /\ level <= 3) \/ (k = 3 /\ level <= 2) \/ (k = 4 /\ level <= 1)
  BY DEF Level
<1> QED
  BY <1>7, <1>8 DEF w, x

\* The walk of va0 stands at table t of a level.
At(m, va, t, level) ==
    t \in 0..m.base - 1 /\ Walk(m, va)[5 - level] = [table |-> t, level |-> level]

LEMMA AtOwner ==
    ASSUME NEW m, NEW own, Sound(m, own), NEW va \in Va, NEW level \in Level, NEW t, At(m, va, t, level)
    PROVE  own[t] = [level |-> level, serves |-> Serves(va, level)] /\ t # Wild
<1>1. 5 - level \in 1..4
  BY DEF Level
<1>2. Stands(m, own, va, [table |-> t, level |-> level])
  BY <1>1, WalkStands DEF At
<1>3. t # Wild
  <2>1. t \in 0..m.base - 1 /\ m.base \in Int
    BY DEF At, Sound, Memory
  <2> QED
    BY <2>1 DEF Wild
<1> QED
  BY <1>2, <1>3 DEF Stands

\* At an absent entry the walk ends, and there is no translation.
LEMMA Absent ==
    ASSUME NEW m, NEW va, NEW level \in Level, NEW t, t # Wild,
           Walk(m, va)[5 - level] = [table |-> t, level |-> level],
           PF_PRES \notin m.pages[t][Idx(va, level)].bits
    PROVE  Trans(m, va) = NONE
<1> DEFINE f == [table |-> t, level |-> level]
<1>1. Step(m, va, f) = f
  BY DEF Step, Stops
<1>2. 5 - level \in 1..4
  BY DEF Level
<1>3. Leaf(m, va) = f
  BY <1>1, <1>2, Stay
<1>4. Reported(m, va, f) = NONE
  BY DEF Reported
<1> QED
  BY <1>3, <1>4 DEF Trans

\* Nor does it go on from the table that could not be allocated.
LEMMA Broken ==
    ASSUME NEW m, NEW va, NEW k \in 1..4, Walk(m, va)[k].table = Wild
    PROVE  Trans(m, va) = BROKEN
<1>1. Step(m, va, Walk(m, va)[k]) = Walk(m, va)[k]
  BY DEF Step
<1>2. Leaf(m, va) = Walk(m, va)[k]
  BY <1>1, Stay
<1> QED
  BY <1>2 DEF Trans, Reported

\* The addresses below the entry of one that the walk has come to.
LEMMA BelowWalk ==
    ASSUME NEW m, NEW own, Sound(m, own), NEW va \in Va, NEW level \in Level, NEW t,
           At(m, va, t, level), NEW u \in Va, Below(own, t, Idx(va, level), u),
           NEW n, Apart(m, n, t, Idx(va, level))
    PROVE  /\ Idx(u, level) = Idx(va, level)
           /\ Walk(m, u)[5 - level] = [table |-> t, level |-> level]
           /\ Walk(n, u)[5 - level] = [table |-> t, level |-> level]
<1>1. own[t] = [level |-> level, serves |-> Serves(va, level)]
  BY AtOwner
<1>2. Serves(u, level) = Serves(va, level) /\ Idx(u, level) = Idx(va, level)
  BY <1>1 DEF Below
<1>3. 5 - level \in 1..5 - level
  BY DEF Level
<1>4. Walk(m, u)[5 - level] = Walk(m, va)[5 - level]
  BY <1>2, <1>3, Together
<1>5. Walk(n, u)[5 - level] = Walk(m, u)[5 - level]
  BY <1>1, <1>3, Prefix
<1> QED
  BY <1>2, <1>4, <1>5 DEF At

LEMMA BelowSelf ==
    ASSUME NEW m, NEW own, Sound(m, own), NEW va \in Va, NEW level \in Level, NEW t, At(m, va, t, level)
    PROVE  Below(own, t, Idx(va, level), va)
<1>1. own[t] = [level |-> level, serves |-> Serves(va, level)]
  BY AtOwner
<1> QED
  BY <1>1 DEF Below

-----------------------------------------------------------------------------
(* The three ways pcx_set_frame changes an entry.                          *)

\* A new table changes no translation.
LEMMA LinkTrans ==
    ASSUME NEW m, NEW own, Sound(m, own), m.base # Limit, NEW va \in Va, NEW level \in 2..4,
           NEW t, At(m, va, t, level), NEW i, i = Idx(va, level),
           PF_PRES \notin m.pages[t][i].bits
    PROVE  LET n == LinkTable(m, t, i)
           IN  (\A u \in Va : Trans(n, u) = Trans(m, u)) /\ At(n, va, m.base, level - 1)
<1> DEFINE n == LinkTable(m, t, i)
           below == [table |-> m.base, level |-> level - 1]
<1>1. level \in Level /\ level - 1 \in Level /\ 5 - level \in 1..3 /\ 5 - (level - 1) = (5 - level) + 1
  BY DEF Level
<1>2. i \in Index
  BY <1>1, IdxIn
<1>3. t \in 0..m.base - 1 /\ m \in Memory
  BY DEF At, Sound
<1>4. m.base \in 0..Limit - 1 /\ t \in 0..Limit - 1 /\ t # m.base /\ m.base # Wild
  BY <1>3, Sizes DEF Memory, Wild
<1>5. /\ n.pages[t][i] = [to |-> m.base, bits |-> TableBits]
      /\ n.pages[m.base] = [j \in Index |-> Zero]
      /\ \A u \in 0..Limit - 1, j \in Index :
            (u # t \/ j # i) /\ u # m.base => n.pages[u][j] = m.pages[u][j]
  BY <1>2, <1>3, LinkIs
<1> HIDE DEF n
<1>6. Apart(m, n, t, i)
  <2>1. \A u \in 0..m.base - 1 : u \in 0..Limit - 1 /\ u # m.base
    BY <1>4, Sizes
  <2> QED
    BY <1>5, <2>1 DEF Apart
<1>7. own[t] = [level |-> level, serves |-> Serves(va, level)] /\ t # Wild
  BY <1>1, AtOwner
<1>8. ASSUME NEW u \in Va, Below(own, t, i, u)
      PROVE  /\ Walk(n, u)[5 - (level - 1)] = below
             /\ Trans(n, u) = NONE /\ Trans(m, u) = NONE
  <2>1. /\ Idx(u, level) = i
        /\ Walk(m, u)[5 - level] = [table |-> t, level |-> level]
        /\ Walk(n, u)[5 - level] = [table |-> t, level |-> level]
    BY <1>1, <1>6, <1>8, BelowWalk
  <2>2. Trans(m, u) = NONE
    BY <1>1, <1>7, <2>1, Absent
  <2>3. Walk(n, u)[(5 - level) + 1] = Step(n, u, Walk(n, u)[5 - level])
    BY <1>1, WalkIs
  <2>4. Step(n, u, [table |-> t, level |-> level]) = below
    <3>1. ~Stops(n, t, u, level)
      BY <1>5, <2>1, BitSets DEF Stops
    <3> QED
      BY <1>5, <1>7, <2>1, <3>1 DEF Step
  <2>5. Walk(n, u)[5 - (level - 1)] = below
    BY <1>1, <2>1, <2>3, <2>4
  <2>6. Idx(u, level - 1) \in Index
    BY <1>1, IdxIn
  <2>7. PF_PRES \notin n.pages[m.base][Idx(u, level - 1)].bits
    BY <1>5, <2>6 DEF Zero
  <2>8. Trans(n, u) = NONE
    BY <1>1, <1>4, <2>5, <2>7, Absent
  <2> QED
    BY <2>2, <2>5, <2>8
<1>9. ASSUME NEW u \in Va PROVE Trans(n, u) = Trans(m, u)
  <2>1. CASE Below(own, t, i, u)
    BY <1>8, <2>1
  <2>2. CASE ~Below(own, t, i, u)
    BY <1>6, <2>2, Elsewhere
  <2> QED
    BY <2>1, <2>2
<1>10. Walk(n, va)[5 - (level - 1)] = below
  <2>1. Below(own, t, i, va)
    BY <1>1, BelowSelf
  <2> QED
    BY <1>8, <2>1
<1>11. m.base \in 0..n.base - 1
  <2>1. n.base = m.base + 1
    BY <1>2, <1>3, LinkIs DEF n
  <2> QED
    BY <1>4, <2>1
<1>12. At(n, va, m.base, level - 1)
  BY <1>10, <1>11 DEF At
<1> QED
  BY <1>9, <1>12 DEF n

\* What a stored entry changes.
LEMMA StoreApart ==
    ASSUME NEW m, NEW own, Sound(m, own), NEW t \in 0..m.base - 1, NEW i \in Index, NEW e \in EntryType
    PROVE  Apart(m, Store(m, t, i, e), t, i) /\ Store(m, t, i, e).pages[t][i] = e
<1> DEFINE p == [m.pages EXCEPT ![t][i] = e]
<1>1. m.pages \in Tables /\ m.base \in 0..Limit
  BY DEF Sound, Memory, Tables
<1>2. t \in 0..Limit - 1 /\ \A u \in 0..m.base - 1 : u \in 0..Limit - 1
  BY <1>1, Sizes
<1>3. Store(m, t, i, e).pages = p
  <2>1. m = [pages |-> m.pages, base |-> m.base]
    BY DEF Sound, Memory
  <2> QED
    BY <2>1 DEF Store
<1>4. /\ p \in Tables /\ p[t][i] = e
      /\ \A u \in 0..Limit - 1, j \in Index : u # t \/ j # i => p[u][j] = m.pages[u][j]
      /\ \A u \in 0..Limit - 1 : u # t => p[u] = m.pages[u]
  BY <1>1, <1>2, StoreType
<1> HIDE DEF p
<1> QED
  BY <1>2, <1>3, <1>4 DEF Apart

\* A table that could not be allocated: the pages below it had no translation, and
\* can no longer be read.
LEMMA WildTrans ==
    ASSUME NEW m, NEW own, Sound(m, own), NEW va \in Va, NEW level \in 2..4,
           NEW t, At(m, va, t, level), NEW i, i = Idx(va, level),
           PF_PRES \notin m.pages[t][i].bits
    PROVE  LET n == Store(m, t, i, [to |-> Wild, bits |-> TableBits])
           IN  /\ \A u \in Va : \/ Trans(n, u) = Trans(m, u)
                                \/ Trans(m, u) = NONE /\ Trans(n, u) = BROKEN
               /\ Trans(n, va) = BROKEN
<1> DEFINE e == [to |-> Wild, bits |-> TableBits]
           n == Store(m, t, i, e)
<1>1. level \in Level /\ 5 - level \in 1..3 /\ (5 - level) + 1 \in 1..4
  BY DEF Level
<1>2. i \in Index /\ e \in EntryType
  BY <1>1, IdxIn, BitSets DEF EntryType, Wild
<1>3. t \in 0..m.base - 1
  BY DEF At
<1>4. Apart(m, n, t, i) /\ n.pages[t][i] = e
  BY <1>2, <1>3, StoreApart
<1> HIDE DEF n
<1>5. t # Wild
  BY <1>1, AtOwner
<1>6. ASSUME NEW u \in Va, Below(own, t, i, u)
      PROVE  Trans(m, u) = NONE /\ Trans(n, u) = BROKEN
  <2>1. /\ Idx(u, level) = i
        /\ Walk(m, u)[5 - level] = [table |-> t, level |-> level]
        /\ Walk(n, u)[5 - level] = [table |-> t, level |-> level]
    BY <1>1, <1>4, <1>6, BelowWalk
  <2>2. Trans(m, u) = NONE
    BY <1>1, <1>5, <2>1, Absent
  <2>3. Walk(n, u)[(5 - level) + 1] = Step(n, u, Walk(n, u)[5 - level])
    BY <1>1, WalkIs
  <2>4. Step(n, u, [table |-> t, level |-> level]) = [table |-> Wild, level |-> level - 1]
    <3>1. ~Stops(n, t, u, level)
      BY <1>4, <2>1, BitSets DEF Stops
    <3> QED
      BY <1>4, <1>5, <2>1, <3>1 DEF Step
  <2>5. Walk(n, u)[(5 - level) + 1].table = Wild
    BY <2>1, <2>3, <2>4
  <2>6. Trans(n, u) = BROKEN
    BY <1>1, <2>5, Broken
  <2> QED
    BY <2>2, <2>6
<1>7. ASSUME NEW u \in Va
      PROVE  Trans(n, u) = Trans(m, u) \/ (Trans(m, u) = NONE /\ Trans(n, u) = BROKEN)
  <2>1. CASE Below(own, t, i, u)
    BY <1>6, <2>1
  <2>2. CASE ~Below(own, t, i, u)
    BY <1>4, <2>2, Elsewhere
  <2> QED
    BY <2>1, <2>2
<1>8. Trans(n, va) = BROKEN
  <2>1. Below(own, t, i, va)
    BY <1>1, BelowSelf
  <2> QED
    BY <1>6, <2>1
<1> QED
  BY <1>7, <1>8 DEF n

\* What page_set maps a page to.
Mapped(frame, flags) == IF PF_PRES \in flags THEN OrBits(frame, flags) ELSE NONE

\* The entry of the page itself: only its own translation changes.
LEMMA LeafTrans ==
    ASSUME NEW m, NEW own, Sound(m, own), NEW va \in Va,
           NEW t, At(m, va, t, 1), NEW i, i = Idx(va, 1),
           NEW frame \in Int, NEW flags
    PROVE  LET n == Store(m, t, i, Word(frame, flags))
           IN  \A u \in Va : Trans(n, u) = IF u = va THEN Mapped(frame, flags) ELSE Trans(m, u)
<1> DEFINE e == Word(frame, flags)
           n == Store(m, t, i, e)
<1>1. 1 \in Level /\ 5 - 1 = 4 /\ 4 \in 1..4
  BY DEF Level
<1>2. i \in Index /\ e \in EntryType
  BY <1>1, IdxIn, WordType
<1>3. t \in 0..m.base - 1
  BY DEF At
<1>4. Apart(m, n, t, i) /\ n.pages[t][i] = e
  <2> HIDE DEF e
  <2> QED
    BY <1>2, <1>3, StoreApart
<1> HIDE DEF n
<1>5. own[t] = [level |-> 1, serves |-> Serves(va, 1)] /\ t # Wild
  BY <1>1, AtOwner
<1>6. e.to = OrBits(frame, flags) /\ (PF_PRES \in e.bits <=> PF_PRES \in flags)
  <2>1. PF_PRES \in FlagBit
    BY DEF PF_PRES, FlagBit
  <2> QED
    BY <2>1 DEF Word
<1>10. e.to \in Int
  BY <1>2 DEF EntryType
<1> HIDE DEF e
<1>7. Trans(n, va) = Mapped(frame, flags)
  <2>1. Below(own, t, i, va)
    BY <1>1, BelowSelf
  <2>2. Walk(n, va)[4] = [table |-> t, level |-> 1]
    BY <1>1, <1>4, <2>1, BelowWalk
  <2>3. Leaf(n, va) = [table |-> t, level |-> 1]
    BY <2>2, WalkIs
  <2>4. va % Size(1) = 0
    <3>1. Size(1) = 1 /\ va \in Nat
      BY DEF Size, Va
    <3> QED
      BY <3>1
  <2>5. Trans(n, va) = IF PF_PRES \in e.bits THEN e.to + 0 ELSE NONE
    BY <1>4, <1>5, <2>3, <2>4 DEF Trans, Reported
  <2> QED
    BY <1>6, <1>10, <2>5 DEF Mapped
<1>8. ASSUME NEW u \in Va, u # va PROVE Trans(n, u) = Trans(m, u)
  <2>1. ~Below(own, t, i, u)
    <3> SUFFICES ASSUME Below(own, t, i, u) PROVE FALSE
      OBVIOUS
    <3>1. Serves(u, 1) = Serves(va, 1) /\ Idx(u, 1) = Idx(va, 1)
      BY <1>5 DEF Below
    <3>2. N \in Nat \ {0} /\ u \in Nat /\ va \in Nat
      BY Sizes DEF Va
    <3>3. \A a \in Nat : Serves(a, 1) = a \div N /\ Idx(a, 1) = a % N
      BY <3>2 DEF Serves, Idx, Size
    <3>4. u \div N = va \div N /\ u % N = va % N
      BY <3>1, <3>2, <3>3
    <3>5. u = (u \div N) * N + (u % N) /\ va = (va \div N) * N + (va % N)
      BY <3>2, Remainder
    <3> QED
      BY <1>8, <3>4, <3>5, Zenon
  <2> QED
    BY <1>4, <2>1, Elsewhere
<1> QED
  BY <1>7, <1>8 DEF n, e

-----------------------------------------------------------------------------
(* pcx_set_frame.                                                          *)

Same(m, n)        == \A u \in Va : Trans(n, u) = Trans(m, u)
Damaged(m, n, va) ==
    /\ \A u \in Va : \/ Trans(n, u) = Trans(m, u)
                     \/ Trans(m, u) = NONE /\ Trans(n, u) = BROKEN
    /\ Trans(n, va) = BROKEN

\* What the walk for va has changed when it comes to a level.
Tracks(m, w, va, level) ==
    /\ w.st \in {"walk", "false", "fault"}
    /\ w.st = "walk" => At(w.m, va, w.t, level)
    /\ w.st \in {"walk", "false"} => Same(m, w.m)
    /\ w.st = "fault" => Damaged(m, w.m, va)

LEMMA OnwardTracks ==
    ASSUME NEW m, NEW n, NEW t, NEW va, NEW level, At(n, va, t, level), Same(m, n)
    PROVE  Tracks(m, Onward(n, t), va, level)
BY DEF Tracks, Onward

LEMMA FalseTracks ==
    ASSUME NEW m, NEW w, NEW n, NEW va, NEW level, Same(m, n)
    PROVE  Tracks(m, Ended(w, n, "false"), va, level)
BY DEF Tracks, Ended

LEMMA FaultTracks ==
    ASSUME NEW m, NEW w, NEW n, NEW va, NEW level, Damaged(m, n, va)
    PROVE  Tracks(m, Ended(w, n, "fault"), va, level)
BY DEF Tracks, Ended

LEMMA DescendTracks ==
    ASSUME NEW m0, NEW w, NEW va \in Va, NEW level \in 2..4,
           Walking(w, level), Tracks(m0, w, va, level)
    PROVE  Tracks(m0, Descend(w, va, level), va, level - 1)
<1> DEFINE m == w.m
           t == w.t
           i == Idx(va, level)
           e == m.pages[t][i]
           d == Descend(w, va, level)
           x == [to |-> Wild, bits |-> TableBits]
<1>1. CASE w.st # "walk"
  <2>1. d = w
    BY <1>1, DescendIs
  <2> QED
    BY <1>1, <2>1 DEF Tracks
<1>2. CASE w.st = "walk"
  <2>1. PICK own : Sound(m, own)
    BY DEF Walking
  <2>2. At(m, va, t, level) /\ Same(m0, m)
    BY <1>2 DEF Tracks
  <2>3. /\ PF_PRES \notin e.bits /\ Exhausted(m) => d = Ended(w, Store(m, t, i, x), "fault")
        /\ PF_PRES \notin e.bits /\ ~Exhausted(m) => d = Onward(LinkTable(m, t, i), m.base)
        /\ PF_PRES \in e.bits /\ PF_LARGE \in e.bits => d = Ended(w, m, "false")
        /\ PF_PRES \in e.bits /\ PF_LARGE \notin e.bits /\ e.to = Wild => d = Ended(w, m, "fault")
        /\ PF_PRES \in e.bits /\ PF_LARGE \notin e.bits /\ e.to # Wild => d = Onward(m, e.to)
    <3>1. d = Turn(w, i, e)
      BY <1>2, DescendIs
    <3> HIDE DEF i, e, d
    <3> QED
      BY <3>1, TurnIs
  <2>4. level \in Level /\ 5 - level \in 1..3 /\ 5 - (level - 1) = (5 - level) + 1
        /\ 5 - (level - 1) \in 1..4
    BY DEF Level
  <2>5. i \in Index
    BY <2>4, IdxIn
  <2>6. i = Idx(va, level)
    OBVIOUS
  <2> SUFFICES Tracks(m0, d, va, level - 1)
    OBVIOUS
  <2> HIDE DEF m, t, i, d
  <2>7. own[t] = [level |-> level, serves |-> Serves(va, level)] /\ t # Wild
    BY <2>1, <2>2, <2>4, AtOwner
  <2>8. CASE PF_PRES \notin e.bits /\ Exhausted(m)
    <3>1. /\ \A u \in Va : \/ Trans(Store(m, t, i, x), u) = Trans(m, u)
                           \/ Trans(m, u) = NONE /\ Trans(Store(m, t, i, x), u) = BROKEN
          /\ Trans(Store(m, t, i, x), va) = BROKEN
      BY <2>1, <2>2, <2>6, <2>8, WildTrans
    <3>2. Damaged(m0, Store(m, t, i, x), va)
      BY <2>2, <3>1 DEF Damaged, Same
    <3> QED
      BY <2>3, <2>8, <3>2, FaultTracks
  <2>9. CASE PF_PRES \notin e.bits /\ ~Exhausted(m)
    <3> DEFINE n == LinkTable(m, t, i)
    <3>1. m.base # Limit
      BY <2>9 DEF Exhausted
    <3>2. (\A u \in Va : Trans(n, u) = Trans(m, u)) /\ At(n, va, m.base, level - 1)
      <4>1. PF_PRES \notin m.pages[t][i].bits /\ At(m, va, t, level)
        BY <2>2, <2>9
      <4> HIDE DEF e
      <4> QED
        BY <2>1, <2>6, <3>1, <4>1, LinkTrans
    <3> HIDE DEF n
    <3>3. Same(m0, n)
      BY <2>2, <3>2 DEF Same
    <3>4. d = Onward(n, m.base)
      BY <2>3, <2>9 DEF n
    <3> QED
      BY <3>2, <3>3, <3>4, OnwardTracks
  <2>10. CASE PF_PRES \in e.bits /\ PF_LARGE \in e.bits
    BY <2>2, <2>3, <2>10, FalseTracks
  <2>11. Walk(m, va)[5 - (level - 1)] = Step(m, va, [table |-> t, level |-> level])
    <3>1. Walk(m, va)[(5 - level) + 1] = Step(m, va, Walk(m, va)[5 - level])
      BY <2>4, WalkIs
    <3> QED
      BY <2>2, <2>4, <3>1 DEF At
  <2>12. PF_PRES \in e.bits /\ PF_LARGE \notin e.bits =>
            Walk(m, va)[5 - (level - 1)] = [table |-> e.to, level |-> level - 1]
    <3>1. level # 1
      OBVIOUS
    <3> QED
      BY <2>6, <2>7, <2>11, <3>1 DEF Step, Stops
  <2>13. CASE PF_PRES \in e.bits /\ PF_LARGE \notin e.bits /\ e.to = Wild
    <3>1. Walk(m, va)[5 - (level - 1)].table = Wild
      BY <2>12, <2>13
    <3>2. Trans(m, va) = BROKEN
      BY <2>4, <3>1, Broken
    <3>3. Damaged(m0, m, va)
      BY <2>2, <3>2 DEF Damaged, Same
    <3> QED
      BY <2>3, <2>13, <3>3, FaultTracks
  <2>14. CASE PF_PRES \in e.bits /\ PF_LARGE \notin e.bits /\ e.to # Wild
    <3>1. Linked(m, own, t, i)
      <4>1. own[t].level > 1 /\ t \in 0..m.base - 1
        BY <2>2, <2>7 DEF At
      <4> QED
        BY <2>1, <2>5, <4>1 DEF Sound
    <3>2. e # Zero
      BY <2>14 DEF Zero
    <3>3. e.to \in 1..m.base - 1
      BY <2>14, <3>1, <3>2 DEF Linked
    <3>4. e.to \in 0..m.base - 1
      BY <3>3
    <3>5. At(m, va, e.to, level - 1)
      BY <2>12, <2>14, <3>4 DEF At
    <3>6. d = Onward(m, e.to)
      BY <2>3, <2>14
    <3> HIDE DEF e
    <3> QED
      BY <2>2, <3>5, <3>6, OnwardTracks
  <2> QED
    BY <2>8, <2>9, <2>10, <2>13, <2>14
<1> QED
  BY <1>1, <1>2

\* One page: its translation changes, or none, or memory ran out.
LEMMA SetFrameTrans ==
    ASSUME NEW m, Tidy(m), NEW va \in Va, NEW frame \in Int,
           NEW flags
    PROVE  LET r == pcx_set_frame(m, va, frame, flags)
           IN  /\ r.st \in {"true", "false", "fault"}
               /\ r.st = "true" =>
                     \A u \in Va : Trans(r.m, u) = IF u = va THEN Mapped(frame, flags) ELSE Trans(m, u)
               /\ r.st = "false" => Same(m, r.m)
               /\ r.st = "fault" => Damaged(m, r.m, va)
<1> DEFINE w0 == Onward(m, 0)
           w4 == Descend(w0, va, 4)
           w3 == Descend(w4, va, 3)
           w  == Descend(w3, va, 2)
           i  == Idx(va, 1)
           r  == pcx_set_frame(m, va, frame, flags)
<1>1. Walking(w0, 4) /\ Tracks(m, w0, va, 4)
  <2>1. PICK own : Sound(m, own)
    BY DEF Tidy
  <2>2. own[0].level = 4 /\ 0 \in 0..m.base - 1
    BY <2>1, Sizes DEF Sound, Memory
  <2>3. At(m, va, 0, 4)
    <3>1. Walk(m, va)[1] = [table |-> 0, level |-> 4]
      BY WalkIs DEF Root
    <3>2. 5 - 4 = 1
      OBVIOUS
    <3> QED
      BY <2>2, <3>1, <3>2 DEF At
  <2>4. Same(m, m)
    BY DEF Same
  <2> QED
    BY <2>1, <2>2, <2>3, <2>4, OnwardIs, OnwardTracks
<1> HIDE DEF w0
<1>2. Walking(w4, 3) /\ Tracks(m, w4, va, 3)
  <2>1. Walking(w4, 4 - 1) /\ Tracks(m, w4, va, 4 - 1)
    BY <1>1, DescendWalking, DescendTracks
  <2> QED
    BY <2>1
<1> HIDE DEF w4
<1>3. Walking(w3, 2) /\ Tracks(m, w3, va, 2)
  <2>1. Walking(w3, 3 - 1) /\ Tracks(m, w3, va, 3 - 1)
    BY <1>2, DescendWalking, DescendTracks
  <2> QED
    BY <2>1
<1> HIDE DEF w3
<1>4. Walking(w, 1) /\ Tracks(m, w, va, 1)
  <2>1. Walking(w, 2 - 1) /\ Tracks(m, w, va, 2 - 1)
    BY <1>3, DescendWalking, DescendTracks
  <2> QED
    BY <2>1
<1>5. r = IF w.st # "walk" THEN [m |-> w.m, st |-> w.st]
          ELSE [m |-> Store(w.m, w.t, i, Word(frame, flags)), st |-> "true"]
  BY DEF pcx_set_frame, w0, w4, w3
<1> SUFFICES /\ r.st \in {"true", "false", "fault"}
             /\ r.st = "true" =>
                   \A u \in Va : Trans(r.m, u) = IF u = va THEN Mapped(frame, flags) ELSE Trans(m, u)
             /\ r.st = "false" => Same(m, r.m)
             /\ r.st = "fault" => Damaged(m, r.m, va)
  OBVIOUS
<1>6. i = Idx(va, 1)
  OBVIOUS
<1> HIDE DEF w, i, r
<1>7. CASE w.st # "walk"
  <2>1. r.m = w.m /\ r.st = w.st
    BY <1>5, <1>7
  <2> QED
    BY <1>4, <1>7, <2>1 DEF Tracks
<1>8. CASE w.st = "walk"
  <2>1. PICK own : Sound(w.m, own)
    BY <1>4 DEF Walking
  <2>2. At(w.m, va, w.t, 1) /\ Same(m, w.m)
    BY <1>4, <1>8 DEF Tracks
  <2> DEFINE n == Store(w.m, w.t, i, Word(frame, flags))
  <2>3. \A u \in Va : Trans(n, u) = IF u = va THEN Mapped(frame, flags) ELSE Trans(w.m, u)
    BY <1>6, <2>1, <2>2, LeafTrans
  <2>4. r.m = n /\ r.st = "true"
    BY <1>5, <1>8
  <2> HIDE DEF n
  <2>5. \A u \in Va : Trans(r.m, u) = IF u = va THEN Mapped(frame, flags) ELSE Trans(m, u)
    BY <2>2, <2>3, <2>4 DEF Same
  <2> QED
    BY <2>4, <2>5
<1> QED
  BY <1>7, <1>8

-----------------------------------------------------------------------------
(* page_set.                                                               *)

\* The translation of u when the first k pages of a region are set.
Due(m, v, p, flags, k, u) ==
    IF u \notin v..v + k - 1 THEN Trans(m, u) ELSE Mapped(p + (u - v), flags)

\* The loop has come past page i of the region.
AllSet(m, n, v, p, flags, k) == \A u \in Va : Trans(n, u) = Due(m, v, p, flags, k, u)
Torn(m, n, v, p, flags, k)   ==
    /\ Trans(n, v + k) = BROKEN
    /\ \A u \in Va : Trans(n, u) # Due(m, v, p, flags, k, u) =>
          Due(m, v, p, flags, k, u) = NONE /\ Trans(n, u) = BROKEN
Progress(m, s, v, p, flags, i) ==
    /\ s.st \in {"true", "false", "fault"}
    /\ s.st = "true" => AllSet(m, s.m, v, p, flags, i)
    /\ s.st = "false" => \E k \in 0..i - 1 : AllSet(m, s.m, v, p, flags, k)
    /\ s.st = "fault" => \E k \in 0..i - 1 : Torn(m, s.m, v, p, flags, k)

LEMMA DueNext ==
    ASSUME NEW m, NEW v \in Nat, NEW p \in Nat, NEW flags, NEW i \in Nat, i # 0, NEW u \in Va
    PROVE  Due(m, v, p, flags, i, u) =
              IF u = v + i - 1 THEN Mapped(p + i - 1, flags) ELSE Due(m, v, p, flags, i - 1, u)
<1>1. u \in Nat
  BY DEF Va
<1>2. CASE u = v + i - 1
  <2>1. u \in v..v + i - 1 /\ p + (u - v) = p + i - 1
    BY <1>1, <1>2
  <2> QED
    BY <1>2, <2>1 DEF Due
<1>3. CASE u # v + i - 1
  <2>1. u \in v..v + i - 1 <=> u \in v..v + (i - 1) - 1
    BY <1>1, <1>3
  <2> QED
    BY <1>3, <2>1 DEF Due
<1> QED
  BY <1>2, <1>3

LEMMA PageProgress ==
    ASSUME NEW m, NEW s, Tidy(s.m), NEW v \in Nat, NEW p \in Nat,
           NEW flags,
           NEW i \in Nat, i # 0, v + i - 1 \in Va, Progress(m, s, v, p, flags, i - 1)
    PROVE  Progress(m, Page(s, v, p, flags, i), v, p, flags, i)
<1> DEFINE r == Page(s, v, p, flags, i)
           va == v + i - 1
<1>1. CASE s.st # "true"
  <2>1. r = s
    BY <1>1 DEF Page
  <2>2. \A k \in 0..(i - 1) - 1 : k \in 0..i - 1
    OBVIOUS
  <2> HIDE DEF r
  <2>3. s.st \in {"false", "fault"}
    BY <1>1 DEF Progress
  <2>4. s.st = "false" => \E k \in 0..i - 1 : AllSet(m, s.m, v, p, flags, k)
    BY <2>2 DEF Progress
  <2>5. s.st = "fault" => \E k \in 0..i - 1 : Torn(m, s.m, v, p, flags, k)
    BY <2>2 DEF Progress
  <2>6. Progress(m, r, v, p, flags, i)
    BY <2>1, <2>3, <2>4, <2>5 DEF Progress
  <2> QED
    BY <2>6 DEF r
<1>2. CASE s.st = "true"
  <2>1. r = pcx_set_frame(s.m, va, p + i - 1, flags)
    BY <1>2 DEF Page
  <2>2. p + i - 1 \in Int /\ va \in Va /\ i - 1 \in 0..i - 1 /\ v + (i - 1) = va
    OBVIOUS
  <2>3. AllSet(m, s.m, v, p, flags, i - 1)
    BY <1>2 DEF Progress
  <2> HIDE DEF r, va
  <2>4. /\ r.st \in {"true", "false", "fault"}
        /\ r.st = "true" =>
              \A u \in Va : Trans(r.m, u) = IF u = va THEN Mapped(p + i - 1, flags) ELSE Trans(s.m, u)
        /\ r.st = "false" => Same(s.m, r.m)
        /\ r.st = "fault" => Damaged(s.m, r.m, va)
    BY <2>1, <2>2, SetFrameTrans
  <2>5. CASE r.st = "true"
    <3>1. \A u \in Va : Due(m, v, p, flags, i, u) =
             IF u = va THEN Mapped(p + i - 1, flags) ELSE Due(m, v, p, flags, i - 1, u)
      BY DueNext DEF va
    <3>2. AllSet(m, r.m, v, p, flags, i)
      BY <2>3, <2>4, <2>5, <3>1 DEF AllSet
    <3> QED
      BY <2>5, <3>2 DEF Progress, r
  <2>6. CASE r.st = "false"
    <3>1. AllSet(m, r.m, v, p, flags, i - 1)
      BY <2>3, <2>4, <2>6 DEF AllSet, Same
    <3>2. Progress(m, r, v, p, flags, i)
      BY <2>2, <2>6, <3>1 DEF Progress
    <3> QED
      BY <3>2 DEF r
  <2>7. CASE r.st = "fault"
    <3>1. Torn(m, r.m, v, p, flags, i - 1)
      BY <2>2, <2>3, <2>4, <2>7 DEF AllSet, Damaged, Torn
    <3>2. Progress(m, r, v, p, flags, i)
      BY <2>2, <2>7, <3>1 DEF Progress
    <3> QED
      BY <3>2 DEF r
  <2> QED
    BY <2>4, <2>5, <2>6, <2>7
<1> QED
  BY <1>1, <1>2

\* The loop as a whole.
LEMMA SetPagesProgress ==
    ASSUME NEW m, Tidy(m), NEW n \in Nat, NEW v \in Nat, v + n - 1 \in Va, NEW p \in Nat,
           NEW flags
    PROVE  Progress(m, SetPages(m, v, p, flags, n), v, p, flags, n)
<1>1. PICK h : /\ Loop(h, [m |-> m, st |-> "true"], v, p, flags, n)
               /\ SetPages(m, v, p, flags, n) = h[n]
  BY SetPagesIs
<1> DEFINE Good(i) == Tidy(h[i].m) /\ Progress(m, h[i], v, p, flags, i)
           S == {i \in 0..n : ~Good(i)}
<1>2. h[0] = [m |-> m, st |-> "true"]
  BY <1>1 DEF Loop
<1>3. \A i \in 1..n : h[i] = Page(h[i - 1], v, p, flags, i)
  BY <1>1 DEF Loop
<1>4. Good(0)
  <2>1. AllSet(m, m, v, p, flags, 0)
    <3>1. \A u \in Va : u \notin v..v + 0 - 1
      BY DEF Va
    <3> QED
      BY <3>1 DEF AllSet, Due
  <2> QED
    BY <1>2, <2>1 DEF Progress
<1>5. S = {}
  <2> SUFFICES ASSUME S # {} PROVE FALSE
    OBVIOUS
  <2> HIDE DEF Good
  <2>1. S \in SUBSET Nat
    OBVIOUS
  <2>2. PICK i \in S : \A j \in S : i <= j
    BY <2>1, Least
  <2>3. i # 0
    BY <1>4, <2>2
  <2>4. i \in 1..n /\ i - 1 \in 0..n /\ i - 1 \notin S /\ i \in Nat
    BY <2>2, <2>3
  <2>5. Good(i - 1)
    BY <2>4
  <2>6. v + i - 1 \in Va /\ p + i - 1 \in Int
    <3>1. v + i - 1 \in Nat /\ v + i - 1 <= v + n - 1 /\ p + i - 1 \in Int
      BY <2>4
    <3> QED
      BY <3>1, VaDown
  <2>7. Tidy(h[i - 1].m) /\ Progress(m, h[i - 1], v, p, flags, i - 1)
    BY <2>5 DEF Good
  <2>8. h[i] = Page(h[i - 1], v, p, flags, i)
    BY <1>3, <2>4
  <2>9. Progress(m, h[i], v, p, flags, i)
    BY <2>3, <2>4, <2>6, <2>7, <2>8, PageProgress
  <2>10. Tidy(h[i].m)
    <3>1. Tidy(pcx_set_frame(h[i - 1].m, v + i - 1, p + i - 1, flags).m)
      BY <2>6, <2>7, SetFrameTidy
    <3> QED
      BY <2>7, <2>8, <3>1 DEF Page
  <2>11. Good(i)
    BY <2>9, <2>10 DEF Good
  <2> QED
    BY <2>2, <2>11
<1>6. n \in 0..n /\ n \notin S
  BY <1>5
<1>7. Good(n)
  BY <1>6
<1> QED
  BY <1>1, <1>7

-----------------------------------------------------------------------------
(* The abstract map.                                                       *)

MapInv == Tidy(mem) /\ map = Translation(mem)

LEMMA ChangedIs ==
    ASSUME map = Translation(mem), NEW v \in Nat, NEW p \in Nat, NEW f, NEW k \in Nat
    PROVE  /\ Abstract!Changed(v, p, f, k) = [u \in Va |-> Due(mem, v, p, f, k, u)]
           /\ \A u \in Va : Abstract!Changed(v, p, f, k)[u] = Due(mem, v, p, f, k, u)
<1>1. \A u \in Va : map[u] = Trans(mem, u)
  BY TranslationIs
<1>2. \A u \in Va : Due(mem, v, p, f, k, u) =
         IF u \notin v..v + k - 1 THEN map[u]
         ELSE IF PAGE_VALID \in f THEN OrBits(p + (u - v), f) ELSE NONE
  BY <1>1 DEF Due, Mapped, PAGE_VALID, PF_PRES
<1>3. Abstract!Changed(v, p, f, k) = [u \in Va |-> Due(mem, v, p, f, k, u)]
  BY <1>2 DEF Abstract!Changed
<1> QED
  BY <1>3

LEMMA TransType ==
    ASSUME NEW m, Tidy(m), NEW va \in Va
    PROVE  Trans(m, va) \in Int
<1> DEFINE f == Leaf(m, va)
           j == Idx(va, f.level)
<1>1. PICK own : Sound(m, own)
  BY DEF Tidy
<1>2. Stands(m, own, va, f)
  <2>1. f = Walk(m, va)[4] /\ 4 \in 1..4
    BY WalkIs
  <2> HIDE DEF f
  <2> QED
    BY <1>1, <2>1, WalkStands
<1> HIDE DEF f
<1>3. f.level \in Level /\ j \in Index /\ (f.table # Wild => f.table \in 0..m.base - 1)
  BY <1>2, IdxIn DEF Stands
<1>4. f.table # Wild => m.pages[f.table][j] \in EntryType
  <2>1. m.pages \in [0..Limit - 1 -> [Index -> EntryType]] /\ m.base \in 0..Limit
    BY <1>1 DEF Sound, Memory
  <2>2. f.table # Wild => f.table \in 0..Limit - 1
    BY <1>3, <2>1, Sizes
  <2> HIDE DEF j
  <2> QED
    BY <1>3, <2>1, <2>2
<1>5. va % Size(f.level) \in Int
  <2>1. Size(f.level) \in Nat \ {0} /\ va \in Nat
    BY <1>3, SizeType DEF Va
  <2> QED
    BY <2>1, Remainder
<1>6. Trans(m, va) = Reported(m, va, f)
  BY DEF Trans, f
<1>7. Reported(m, va, f) = IF f.table = Wild THEN BROKEN
         ELSE IF PF_PRES \in m.pages[f.table][j].bits
              THEN m.pages[f.table][j].to + (va % Size(f.level)) ELSE NONE
  BY DEF Reported
<1>8. NONE \in Int /\ BROKEN \in Int
  BY PagingAssumption DEF BROKEN
<1>9. f.table # Wild => m.pages[f.table][j].to \in Int
  BY <1>4 DEF EntryType
<1> HIDE DEF j
<1> QED
  BY <1>5, <1>6, <1>7, <1>8, <1>9

LEMMA MapInit == InitMap => MapInv /\ Abstract!Init
<1> SUFFICES ASSUME InitMap PROVE MapInv /\ Abstract!Init
  OBVIOUS
<1>1. Tidy(mem) /\ map = Translation(mem)
  BY TidyInit DEF InitMap
<1>2. map \in [Va -> Int]
  BY <1>1, TranslationIs, TransType
<1> QED
  BY <1>1, <1>2 DEF MapInv, InitMap, Init, Abstract!Init

\* page_set, in the three ways it can end.
LEMMA SetMap ==
    ASSUME MapInv, NEW r \in Region, NEW p \in Frame, NEW f \in Flags,
           page_set(r[1], p, f, r[2]), map' = Translation(mem')
    PROVE  \/ Abstract!SetAll(r[1], p, f, r[2])
           \/ Abstract!SetSome(r[1], p, f, r[2])
           \/ Abstract!SetBroken(r[1], p, f, r[2])
<1> DEFINE v == r[1]
           n == r[2]
           s == SetPages(mem, v, p, f, n)
<1>1. /\ v \in Va /\ v \in Nat /\ n \in Nat /\ v + n - 1 \in Va /\ p \in Nat
      /\ Tidy(mem)
  BY RegionAssumption, PagingAssumption DEF Va, MapInv
<1>2. mem' = s.m /\ (ret' = s.st \/ (s.st = "fault" /\ null' /\ ret' = "wild"))
  <2>1. Tidy(s.m)
    BY <1>1, SetPagesTidy
  <2>2. s.m = [pages |-> s.m.pages, base |-> s.m.base]
    BY <2>1 DEF Tidy, Sound, Memory
  <2>3. mem' = [pages |-> pages', base |-> base']
    BY DEF mem
  <2>4. pages' = s.m.pages /\ base' = s.m.base
        /\ (ret' = s.st \/ (s.st = "fault" /\ null' /\ ret' = "wild"))
    BY DEF page_set
  <2> HIDE DEF s
  <2> QED
    BY <2>2, <2>3, <2>4
<1>3. Progress(mem, s, v, p, f, n)
  BY <1>1, SetPagesProgress
<1> HIDE DEF s, v, n
<1>4. map' = [u \in Va |-> Trans(s.m, u)] /\ \A u \in Va : map'[u] = Trans(s.m, u)
  BY <1>2, TranslationIs
<1>5. \A k \in Nat : /\ Abstract!Changed(v, p, f, k) = [u \in Va |-> Due(mem, v, p, f, k, u)]
                     /\ \A u \in Va : Abstract!Changed(v, p, f, k)[u] = Due(mem, v, p, f, k, u)
  BY <1>1, ChangedIs DEF MapInv
<1>6. \A k \in 0..n - 1 : k \in Nat
  OBVIOUS
<1>7. \A k \in Nat : AllSet(mem, s.m, v, p, f, k) => map' = Abstract!Changed(v, p, f, k)
  BY <1>4, <1>5 DEF AllSet
<1>8. CASE s.st = "true"
  BY <1>1, <1>2, <1>3, <1>7, <1>8 DEF Progress, Abstract!SetAll, v, n
<1>9. CASE s.st = "false"
  <2>1. ret' = "false" /\ \E k \in 0..n - 1 : map' = Abstract!Changed(v, p, f, k)
    BY <1>2, <1>3, <1>6, <1>7, <1>9 DEF Progress
  <2> QED
    BY <2>1 DEF Abstract!SetSome, v, n
<1>10. CASE s.st = "fault"
  <2>1. PICK k \in 0..n - 1 : Torn(mem, s.m, v, p, f, k)
    BY <1>3, <1>10 DEF Progress
  <2>2. v + k \in Va
    <3>1. v + k \in Nat /\ v + k <= v + n - 1
      BY <1>1
    <3> QED
      BY <1>1, <3>1, VaDown
  <2>3. map'[v + k] = BROKEN
    BY <1>4, <2>1, <2>2 DEF Torn
  <2>4. ASSUME NEW u \in Va, map'[u] # Abstract!Changed(v, p, f, k)[u]
        PROVE  Abstract!Changed(v, p, f, k)[u] = NONE /\ map'[u] = BROKEN
    <3>1. map'[u] = Trans(s.m, u) /\ Abstract!Changed(v, p, f, k)[u] = Due(mem, v, p, f, k, u)
      BY <1>4, <1>5, <1>6
    <3> QED
      BY <2>1, <2>4, <3>1 DEF Torn
  <2>5. ret' = "fault" \/ (ret' = "wild" /\ null')
    BY <1>2, <1>10
  <2>6. Abstract!SetBroken(v, p, f, n)
    BY <2>3, <2>4, <2>5 DEF Abstract!SetBroken
  <2> QED
    BY <2>6 DEF v, n
<1> QED
  BY <1>3, <1>8, <1>9, <1>10 DEF Progress

\* Whether page 0 may be in reach, in the words of the abstract map.
LEMMA NullIs ==
    ASSUME MapInv, NEW r \in Region, NEW p \in Frame, NEW f \in Flags,
           page_set(r[1], p, f, r[2]), map' = Translation(mem')
    PROVE  null' = (null \/ map'[0] # NONE)
<1> DEFINE s == SetPages(mem, r[1], p, f, r[2])
<1>1. /\ r[1] \in Va /\ r[1] \in Nat /\ r[2] \in Nat /\ r[1] + r[2] - 1 \in Va /\ p \in Nat
      /\ Tidy(mem)
  BY RegionAssumption, PagingAssumption DEF Va, MapInv
<1>2. Tidy(s.m)
  BY <1>1, SetPagesTidy
<1>3. s.m = [pages |-> s.m.pages, base |-> s.m.base]
  BY <1>2 DEF Tidy, Sound, Memory
<1>4. pages' = s.m.pages /\ base' = s.m.base /\ null' = (null \/ Translation(s.m)[0] # NONE)
  BY DEF page_set
<1>5. mem' = [pages |-> pages', base |-> base']
  BY DEF mem
<1> HIDE DEF s
<1>6. mem' = s.m
  BY <1>3, <1>4, <1>5
<1> QED
  BY <1>4, <1>6

\* A page that another part takes changes no translation.
LEMMA OtherMap ==
    ASSUME MapInv, OtherAlloc, map' = Translation(mem')
    PROVE  UNCHANGED <<map, null, ret>>
<1>1. mem'.pages = mem.pages /\ UNCHANGED <<null, ret>>
  BY DEF OtherAlloc, mem
<1> DEFINE n == mem'
<1>2. map = Translation(mem) /\ map' = Translation(n) /\ n.pages = mem.pages
  BY <1>1 DEF MapInv
<1> HIDE DEF n
<1>3. \A va : Trans(n, va) = Trans(mem, va)
  <2>1. \A va, f : Step(n, va, f) = Step(mem, va, f) /\ Reported(n, va, f) = Reported(mem, va, f)
    BY <1>2 DEF Step, Stops, Reported
  <2>2. \A va : Walk(n, va) = Walk(mem, va)
    BY <2>1 DEF Walk
  <2> QED
    BY <2>1, <2>2 DEF Trans, Leaf
<1>4. Translation(n) = Translation(mem)
  BY <1>3, TranslationIs
<1> QED
  BY <1>1, <1>2, <1>4

LEMMA MapStep == MapInv /\ [NextMap]_<<vars, map>> => MapInv' /\ [Abstract!Next]_(Abstract!vars)
<1> SUFFICES ASSUME MapInv, [NextMap]_<<vars, map>>
             PROVE  MapInv' /\ [Abstract!Next]_(Abstract!vars)
  OBVIOUS
<1>1. CASE UNCHANGED <<vars, map>>
  BY <1>1 DEF vars, mem, MapInv, Abstract!vars
<1>2. CASE NextMap
  <2>1. (PageSet \/ OtherAlloc) /\ ret # "wild" /\ map' = Translation(mem')
    BY <1>2 DEF NextMap, Next
  <2>2. MapInv'
    <3>1. Tidy(mem)'
      BY <1>2, TidyStep DEF MapInv, NextMap
    <3>2. (map = Translation(mem))'
      BY <2>1
    <3> QED
      BY <3>1, <3>2 DEF MapInv
  <2>3. CASE PageSet
    <3>1. PICK r \in Region, p \in Frame, f \in Flags : page_set(r[1], p, f, r[2])
      BY <2>3 DEF PageSet
    <3>2. \/ Abstract!SetAll(r[1], p, f, r[2])
          \/ Abstract!SetSome(r[1], p, f, r[2])
          \/ Abstract!SetBroken(r[1], p, f, r[2])
      BY <2>1, <3>1, SetMap
    <3>3. null' = (null \/ map'[0] # NONE)
      BY <2>1, <3>1, NullIs
    <3>4. Abstract!Next
      BY <2>1, <3>2, <3>3 DEF Abstract!Next
    <3> QED
      BY <2>2, <3>4
  <2>4. CASE OtherAlloc
    <3>1. UNCHANGED <<map, null, ret>>
      BY <2>1, <2>4, OtherMap
    <3> QED
      BY <2>2, <3>1 DEF Abstract!vars
  <2> QED
    BY <2>1, <2>3, <2>4
<1> QED
  BY <1>1, <1>2

\* For every size of the tables and of memory and all regions (page 0 among them),
\* frames and flags: a call changes the translations of its region and of no other
\* page, from the lowest page on, whatever tables it builds on the way
\* (page.c:157-173), returns true exactly when it changed them all, and a page that
\* can no longer be read after memory ran out had no translation before.  The cache
\* flags are or-ed into the frame numbers (OrBits).  Nothing is said any more once
\* an exhausted allocator's null pointer leads into memory that is not pinion's,
\* which takes that page 0 was mapped or that its own tables are lost.
THEOREM PageMapImplemented == SpecMap => RefinesPageMap
<1>1. InitMap => MapInv /\ Abstract!Init
  BY MapInit
<1>2. MapInv /\ [NextMap]_<<vars, map>> => MapInv' /\ [Abstract!Next]_(Abstract!vars)
  BY MapStep
<1> QED
  BY <1>1, <1>2, PTL DEF SpecMap, RefinesPageMap, Abstract!Spec
=============================================================================

---------------------------- MODULE KernelProofs ----------------------------
(***************************************************************************)
(* Proofs about Kernel, for every value of its constants.                  *)
(***************************************************************************)
EXTENDS Kernel, SequenceTheorems, TLAPS

RunQ(k) == QueueLinked(k) /\ QueuedOnce(k) /\ QueuedIffInQueue(k)

\* k and m agree on which frames are free.
SameFree(k, m) ==
    \A t \in Tcb : m.state[t] = "FREE" <=> k.state[t] = "FREE"

\* What changes in a Memory and what does not, field by field.
LEMMA MakeReadyFields ==
    ASSUME NEW k \in Memory, NEW t \in Thread
    PROVE  LET m == MakeReady(k, t)
           IN  /\ m \in Memory
               /\ m.state = [k.state EXCEPT ![t] = "QUEUED"]
               /\ m.next = [u \in Thread |->
                    IF k.runq # << >> /\ u = k.runq[Len(k.runq)] THEN t
                    ELSE IF u = t THEN NULL
                    ELSE k.next[u]]
               /\ m.tap = k.tap
               /\ m.runq = Append(k.runq, t)
               /\ m.qhead = k.qhead
               /\ m.route = k.route
               /\ m.active = k.active
  <1>1. /\ k.runq \in Seq(Thread)
        /\ k.next \in [Thread -> Thread \cup {NULL}]
        /\ k.state \in [Thread -> State]
    BY DEF Memory
  <1>2. Append(k.runq, t) \in Seq(Thread)
    BY <1>1
  <1>3. [k.state EXCEPT ![t] = "QUEUED"] \in [Thread -> State]
    BY <1>1 DEF State
  <1> QED
    BY <1>1, <1>2, <1>3
    DEF MakeReady, scheduler_add_tcb, scheduler_push_tcb, Memory

\* A thread that is not queued joins the end of the run queue.
LEMMA MakeReadyRunQ ==
    ASSUME NEW k \in Memory, RunQ(k), NEW t \in Thread,
           k.state[t] # "QUEUED"
    PROVE  RunQ(MakeReady(k, t))
  <1> DEFINE m == MakeReady(k, t)
             n == Len(k.runq)
  <1>1. /\ k.runq \in Seq(Thread)
        /\ n \in Nat
        /\ k.next \in [Thread -> Thread \cup {NULL}]
        /\ k.state \in [Thread -> State]
    BY DEF Memory
  <1>2. /\ m.runq = Append(k.runq, t)
        /\ m.state = [k.state EXCEPT ![t] = "QUEUED"]
        /\ m.next = [u \in Thread |->
                    IF k.runq # << >> /\ u = k.runq[Len(k.runq)] THEN t
                    ELSE IF u = t THEN NULL
                    ELSE k.next[u]]
    BY MakeReadyFields
  <1>3. /\ Len(m.runq) = n + 1
        /\ DOMAIN m.runq = 1..(n + 1)
        /\ m.runq[n + 1] = t
        /\ \A i \in 1..n : m.runq[i] = k.runq[i] /\ k.runq[i] \in Thread
    BY <1>1, <1>2
  <1>4. t \notin Elements(k.runq)
    BY DEF RunQ, QueuedIffInQueue
  <1>5. \A i \in 1..n : k.runq[i] # t
    BY <1>1, <1>4 DEF Elements
  <1>6. QueuedOnce(m)
    BY <1>1, <1>3, <1>5, SMTT(30), ZenonT(40) DEF RunQ, QueuedOnce
  <1>7. QueueLinked(m)
    <2> SUFFICES ASSUME NEW i \in 1..(n + 1)
                 PROVE  m.next[m.runq[i]] =
                          IF i = n + 1 THEN NULL ELSE m.runq[i + 1]
      BY <1>3 DEF QueueLinked
    <2>1. CASE i = n + 1
      <3>1. k.runq = << >> \/ k.runq[n] # t
        BY <1>1, <1>5
      <3> QED BY <2>1, <3>1, <1>2, <1>3
    <2>2. CASE i = n
      <3>1. k.runq # << >> /\ m.runq[i] = k.runq[n] /\ k.runq[n] \in Thread
        BY <2>2, <1>1, <1>3
      <3>2. m.next[k.runq[n]] = t
        BY <3>1, <1>2
      <3> QED BY <2>2, <3>1, <3>2, <1>3, <1>1
    <2>3. CASE i < n
      <3>1. i \in DOMAIN k.runq /\ n \in DOMAIN k.runq /\ i + 1 \in 1..n
        BY <2>3, <1>1
      <3>2. k.runq[i] # k.runq[n]
        BY <2>3, <3>1 DEF RunQ, QueuedOnce
      <3>3. k.next[k.runq[i]] = k.runq[i + 1]
        BY <2>3, <3>1 DEF RunQ, QueueLinked
      <3>4. m.next[k.runq[i]] = k.next[k.runq[i]]
        BY <1>2, <1>3, <1>5, <3>1, <3>2, <1>1
      <3> QED BY <2>3, <1>3, <3>1, <3>3, <3>4, <1>1
    <2> QED BY <2>1, <2>2, <2>3, <1>1
  <1>8. QueuedIffInQueue(m)
    <2>1. DOMAIN k.runq = 1..n
      BY <1>1
    <2>2. ASSUME NEW u \in Elements(k.runq)
          PROVE  u \in Elements(m.runq)
      <3>1. PICK i \in 1..n : u = k.runq[i]
        BY <2>1, <2>2 DEF Elements
      <3>2. i \in 1..(n + 1) /\ m.runq[i] = u
        BY <3>1, <1>1, <1>3
      <3> QED BY <3>2, <1>3 DEF Elements
    <2>3. t \in Elements(m.runq)
      <3>1. n + 1 \in 1..(n + 1)
        BY <1>1
      <3> QED BY <3>1, <1>3 DEF Elements
    <2>4. ASSUME NEW u \in Elements(m.runq)
          PROVE  u \in Elements(k.runq) \cup {t}
      <3>1. PICK i \in 1..(n + 1) : u = m.runq[i]
        BY <2>4, <1>3 DEF Elements
      <3>2. i = n + 1 \/ i \in 1..n
        BY <1>1
      <3> QED BY <3>1, <3>2, <2>1, <1>3 DEF Elements
    <2> QED BY <2>2, <2>3, <2>4, <1>1, <1>2 DEF RunQ, QueuedIffInQueue
  <1> QED BY <1>6, <1>7, <1>8 DEF RunQ

\* A step that leaves the list, the links and the QUEUED threads alone.
LEMMA SameRunQ ==
    ASSUME NEW k, NEW m, RunQ(k),
           m.runq = k.runq, m.next = k.next,
           \A t \in Thread : m.state[t] = "QUEUED" <=> k.state[t] = "QUEUED"
    PROVE  RunQ(m)
  BY DEF RunQ, QueueLinked, QueuedOnce, QueuedIffInQueue

\* The head of the run queue leaves it and runs.
LEMMA PullRunQ ==
    ASSUME NEW k \in Memory, RunQ(k), k.runq # << >>
    PROVE  LET h == k.runq[1]
               m == [scheduler_pull_tcb(k) EXCEPT !.state[h] = "RUNNING"]
           IN  /\ h \in Thread /\ k.state[h] = "QUEUED"
               /\ m \in Memory
               /\ RunQ(m)
               /\ m.state = [k.state EXCEPT ![h] = "RUNNING"]
               /\ m.tap = k.tap /\ m.qhead = k.qhead /\ m.route = k.route
               /\ m.active = k.active
  <1> DEFINE h == k.runq[1]
             n == Len(k.runq)
             m == [scheduler_pull_tcb(k) EXCEPT !.state[h] = "RUNNING"]
  <1>1. /\ k.runq \in Seq(Thread)
        /\ n \in Nat /\ n >= 1
        /\ DOMAIN k.runq = 1..n
        /\ k.state \in [Thread -> State]
    BY DEF Memory
  <1>2. h \in Thread /\ k.state[h] = "QUEUED"
    <2>1. h \in Thread /\ 1 \in DOMAIN k.runq
      BY <1>1
    <2> QED BY <2>1 DEF RunQ, QueuedIffInQueue, Elements
  <1>3. [k.state EXCEPT ![h] = "RUNNING"] \in [Thread -> State]
    BY <1>1 DEF State
  <1>4. /\ Tail(k.runq) \in Seq(Thread)
        /\ Len(Tail(k.runq)) = n - 1
        /\ DOMAIN Tail(k.runq) = 1..(n - 1)
        /\ \A i \in 1..(n - 1) : Tail(k.runq)[i] = k.runq[i + 1]
    BY <1>1
  <1>5. /\ m \in Memory
        /\ m.state = [k.state EXCEPT ![h] = "RUNNING"]
        /\ m.runq = Tail(k.runq)
        /\ m.next = k.next
        /\ m.tap = k.tap /\ m.qhead = k.qhead /\ m.route = k.route
        /\ m.active = k.active
    BY <1>3, <1>4 DEF scheduler_pull_tcb, Memory
  <1> HIDE DEF m
  <1>6. QueueLinked(m)
    <2> SUFFICES ASSUME NEW i \in 1..(n - 1)
                 PROVE  m.next[m.runq[i]] =
                          IF i = n - 1 THEN NULL ELSE m.runq[i + 1]
      BY <1>1, <1>4, <1>5, SMTT(30), ZenonT(40) DEF QueueLinked
    <2>1. /\ i + 1 \in DOMAIN k.runq
          /\ m.runq[i] = k.runq[i + 1]
          /\ (i + 1 = n) <=> (i = n - 1)
      BY <1>1, <1>4, <1>5
    <2>2. i # n - 1 => m.runq[i + 1] = k.runq[(i + 1) + 1]
      BY <1>1, <1>4, <1>5
    <2> QED BY <2>1, <2>2, <1>5 DEF RunQ, QueueLinked
  <1>7. QueuedOnce(m)
    <2> SUFFICES ASSUME NEW i \in 1..(n - 1), NEW j \in 1..(n - 1),
                        m.runq[i] = m.runq[j]
                 PROVE  i = j
      BY <1>4, <1>5 DEF QueuedOnce
    <2>1. /\ i + 1 \in DOMAIN k.runq /\ j + 1 \in DOMAIN k.runq
          /\ k.runq[i + 1] = k.runq[j + 1]
      BY <1>1, <1>4, <1>5
    <2>2. i + 1 = j + 1
      BY <2>1 DEF RunQ, QueuedOnce
    <2> QED BY <2>2
  <1>8. QueuedIffInQueue(m)
    <2>1. ASSUME NEW t \in Elements(Tail(k.runq))
          PROVE  t \in Elements(k.runq) /\ t # h
      <3>1. PICK i \in 1..(n - 1) : t = k.runq[i + 1]
        BY <2>1, <1>4 DEF Elements
      <3>2. i + 1 \in DOMAIN k.runq /\ 1 \in DOMAIN k.runq /\ i + 1 # 1
        BY <1>1
      <3>3. k.runq[i + 1] # k.runq[1]
        BY <3>2 DEF RunQ, QueuedOnce
      <3> QED BY <3>1, <3>2, <3>3 DEF Elements
    <2>2. ASSUME NEW t \in Elements(k.runq), t # h
          PROVE  t \in Elements(Tail(k.runq))
      <3>1. PICK i \in 1..n : t = k.runq[i]
        BY <2>2, <1>1 DEF Elements
      <3>2. i - 1 \in 1..(n - 1) /\ (i - 1) + 1 = i
        BY <2>2, <3>1, <1>1
      <3> QED BY <3>1, <3>2, <1>4 DEF Elements
    <2> SUFFICES ASSUME NEW t \in Thread
                 PROVE  m.state[t] = "QUEUED" <=> t \in Elements(m.runq)
      BY DEF QueuedIffInQueue
    <2>3. k.state[t] = "QUEUED" <=> t \in Elements(k.runq)
      BY DEF RunQ, QueuedIffInQueue
    <2>4. CASE t = h
      BY <2>1, <2>4, <1>1, <1>2, <1>5
    <2>5. CASE t # h
      <3>1. m.state[t] = k.state[t]
        BY <2>5, <1>1, <1>5
      <3> QED BY <2>1, <2>2, <2>3, <2>5, <3>1, <1>5
    <2> QED BY <2>4, <2>5
  <1> QED BY <1>2, <1>5, <1>6, <1>7, <1>8 DEF RunQ, m

\* A queued thread is taken out of the middle, or an end, of the run queue.
LEMMA RemRunQ ==
    ASSUME NEW k \in Memory, RunQ(k), NEW t \in Thread,
           k.state[t] = "QUEUED"
    PROVE  LET m == [scheduler_rem_tcb(k, t) EXCEPT !.state[t] = "SUSPENDED"]
           IN  /\ m \in Memory
               /\ RunQ(m)
               /\ m.state = [k.state EXCEPT ![t] = "SUSPENDED"]
               /\ m.tap = k.tap /\ m.qhead = k.qhead /\ m.route = k.route
               /\ m.active = k.active
  <1> DEFINE q == k.runq
             n == Len(q)
             p == CHOOSE j \in DOMAIN q : q[j] = t
             r == SubSeq(q, 1, p - 1) \o SubSeq(q, p + 1, n)
             x == IF p = 1 THEN k.next
                  ELSE [k.next EXCEPT ![q[p - 1]] = k.next[t]]
             m == [scheduler_rem_tcb(k, t) EXCEPT !.state[t] = "SUSPENDED"]
  <1>1. /\ q \in Seq(Thread)
        /\ n \in Nat
        /\ DOMAIN q = 1..n
        /\ \A i \in 1..n : q[i] \in Thread
        /\ k.state \in [Thread -> State]
        /\ k.next \in [Thread -> Thread \cup {NULL}]
    BY DEF Memory
  <1>2. t \in Elements(q)
    BY DEF RunQ, QueuedIffInQueue
  <1>3. p \in 1..n /\ q[p] = t
    BY <1>1, <1>2 DEF Elements
  <1>4. \A i \in 1..n : q[i] = t => i = p
    BY <1>1, <1>3 DEF RunQ, QueuedOnce
  <1>5. m = [k EXCEPT !.next = x, !.runq = r,
                      !.state = [k.state EXCEPT ![t] = "SUSPENDED"]]
    BY <1>2 DEF scheduler_rem_tcb, Memory
  <1> HIDE DEF p
  <1>6. /\ r \in Seq(Thread)
        /\ Len(r) = n - 1
        /\ DOMAIN r = 1..(n - 1)
        /\ \A i \in 1..(n - 1) : r[i] = IF i < p THEN q[i] ELSE q[i + 1]
    <2>1. /\ SubSeq(q, 1, p - 1) \in Seq(Thread)
          /\ Len(SubSeq(q, 1, p - 1)) = p - 1
          /\ \A i \in 1..(p - 1) : SubSeq(q, 1, p - 1)[i] = q[i]
      BY <1>1, <1>3, SubSeqProperties
    <2>2. /\ SubSeq(q, p + 1, n) \in Seq(Thread)
          /\ Len(SubSeq(q, p + 1, n)) = n - p
          /\ \A i \in 1..(n - p) : SubSeq(q, p + 1, n)[i] = q[p + i]
      <3>1. \A i \in (p + 1)..n : q[i] \in Thread
        BY <1>1, <1>3
      <3>2. p + 1 \in Int /\ n \in Int /\ n - (p + 1) + 1 = n - p
        BY <1>1, <1>3
      <3>3. /\ SubSeq(q, p + 1, n) \in Seq(Thread)
            /\ Len(SubSeq(q, p + 1, n)) =
                  IF p + 1 <= n THEN n - (p + 1) + 1 ELSE 0
            /\ \A i \in 1..(n - (p + 1) + 1) :
                  SubSeq(q, p + 1, n)[i] = q[p + 1 + i - 1]
        BY <3>1, <3>2, SubSeqProperties
      <3> QED BY <3>2, <3>3, <1>1, <1>3
    <2> DEFINE a == SubSeq(q, 1, p - 1)
               b == SubSeq(q, p + 1, n)
    <2> HIDE DEF a, b
    <2>3. /\ a \o b \in Seq(Thread)
          /\ Len(a \o b) = Len(a) + Len(b)
          /\ \A i \in 1..(Len(a) + Len(b)) :
                (a \o b)[i] = IF i <= Len(a) THEN a[i] ELSE b[i - Len(a)]
      BY <2>1, <2>2, ConcatProperties DEF a, b
    <2>4. Len(a) = p - 1 /\ Len(b) = n - p /\ r = a \o b
      BY <2>1, <2>2 DEF a, b
    <2>7. /\ \A i \in 1..(p - 1) : a[i] = q[i]
          /\ \A i \in 1..(n - p) : b[i] = q[p + i]
      BY <2>1, <2>2 DEF a, b
    <2> HIDE DEF r
    <2>5. ASSUME NEW i \in 1..(n - 1)
          PROVE  r[i] = IF i < p THEN q[i] ELSE q[i + 1]
      <3>1. i \in 1..(Len(a) + Len(b)) /\ (i <= Len(a) <=> i < p)
        BY <2>4, <1>1, <1>3
      <3>2. CASE i < p
        <4>1. i \in 1..(p - 1)
          BY <3>2, <1>1, <1>3
        <4> QED BY <3>1, <3>2, <4>1, <2>3, <2>4, <2>7
      <3>3. CASE ~(i < p)
        <4>1. i - Len(a) \in 1..(n - p) /\ p + (i - Len(a)) = i + 1
          BY <3>3, <2>4, <1>1, <1>3
        <4> QED BY <3>1, <3>3, <4>1, <2>3, <2>4, <2>7
      <3> QED BY <3>2, <3>3
    <2>6. Len(a \o b) = n - 1
      BY <2>3, <2>4, <1>1, <1>3
    <2>8. r \in Seq(Thread) /\ Len(r) = n - 1
      BY <2>3, <2>4, <2>6
    <2>9. DOMAIN r = 1..(n - 1)
      BY <2>8
    <2> QED BY <2>5, <2>8, <2>9
  <1> HIDE DEF r
  <1>7. x \in [Thread -> Thread \cup {NULL}]
    BY <1>1, <1>3
  <1>8. /\ m \in Memory
        /\ m.state = [k.state EXCEPT ![t] = "SUSPENDED"]
        /\ m.next = x /\ m.runq = r
        /\ m.tap = k.tap /\ m.qhead = k.qhead /\ m.route = k.route
        /\ m.active = k.active
    <2>1. [k.state EXCEPT ![t] = "SUSPENDED"] \in [Thread -> State]
      BY <1>1 DEF State
    <2> HIDE DEF x, m
    <2> QED BY <2>1, <1>5, <1>6, <1>7 DEF Memory
  <1> HIDE DEF m
  <1>9. QueueLinked(m)
    <2> SUFFICES ASSUME NEW i \in 1..(n - 1)
                 PROVE  x[r[i]] = IF i = n - 1 THEN NULL ELSE r[i + 1]
      BY <1>6, <1>8 DEF QueueLinked
    <2>1. \A j \in 1..n : k.next[q[j]] = IF j = n THEN NULL ELSE q[j + 1]
      BY <1>1 DEF RunQ, QueueLinked
    <2>2. \A j, l \in 1..n : q[j] = q[l] => j = l
      BY <1>1 DEF RunQ, QueuedOnce
    <2>3. CASE i < p - 1
      <3>1. i \in 1..n /\ p - 1 \in 1..n /\ i # p - 1 /\ i # n - 1 /\ i # n
        BY <2>3, <1>1, <1>3
      <3>2. r[i] = q[i] /\ r[i + 1] = q[i + 1]
        BY <2>3, <1>1, <1>3, <1>6, SMTT(30), ZenonT(40)
      <3>3. q[i] # q[p - 1]
        BY <3>1, <2>2
      <3>4. x[q[i]] = k.next[q[i]]
        BY <3>1, <3>3, <1>1
      <3> QED BY <3>1, <3>2, <3>4, <2>1
    <2>4. CASE i = p - 1
      <3>1. p # 1 /\ r[i] = q[p - 1] /\ q[p - 1] \in Thread
        BY <2>4, <1>1, <1>3, <1>6
      <3>2. x[r[i]] = IF p = n THEN NULL ELSE q[p + 1]
        BY <3>1, <2>1, <1>1, <1>3
      <3>3. i # n - 1 => r[i + 1] = q[p + 1]
        BY <2>4, <1>1, <1>3, <1>6
      <3> QED BY <2>4, <3>2, <3>3, <1>1, <1>3
    <2>5. CASE i >= p
      <3>1. i + 1 \in 1..n /\ p - 1 # i + 1
        BY <2>5, <1>1, <1>3
      <3>2. (i = n - 1) <=> (i + 1 = n)
        BY <1>1
      <3>3. r[i] = q[i + 1]
        BY <2>5, <1>1, <1>3, <1>6, SMTT(30), ZenonT(40)
      <3>4. i # n - 1 => r[i + 1] = q[(i + 1) + 1]
        <4> SUFFICES ASSUME i # n - 1 PROVE r[i + 1] = q[(i + 1) + 1]
          OBVIOUS
        <4>1. i + 1 \in 1..(n - 1) /\ ~(i + 1 < p)
          BY <2>5, <1>1, <1>3
        <4> QED BY <4>1, <1>6
      <3>5. p # 1 => p - 1 \in 1..n
        BY <1>1, <1>3
      <3>6. p # 1 => q[i + 1] # q[p - 1]
        BY <3>1, <3>5, <2>2
      <3>7. x[q[i + 1]] = k.next[q[i + 1]]
        BY <3>1, <3>5, <3>6, <1>1
      <3> QED BY <3>1, <3>2, <3>3, <3>4, <3>7, <2>1
    <2> QED BY <2>3, <2>4, <2>5, <1>1, <1>3
  <1>10. QueuedOnce(m)
    <2> SUFFICES ASSUME NEW i \in 1..(n - 1), NEW j \in 1..(n - 1),
                        r[i] = r[j]
                 PROVE  i = j
      BY <1>6, <1>8 DEF QueuedOnce
    <2>1. \A a, b \in 1..n : q[a] = q[b] => a = b
      BY <1>1 DEF RunQ, QueuedOnce
    <2>2. \A a \in 1..(n - 1) : a \in 1..n /\ a + 1 \in 1..n
      BY <1>1
    <2> QED BY <2>1, <2>2, <1>1, <1>3, <1>6
  <1>11. QueuedIffInQueue(m)
    <2>1. ASSUME NEW u \in Elements(r)
          PROVE  u \in Elements(q) /\ u # t
      <3>1. PICK i \in 1..(n - 1) : u = r[i]
        BY <2>1, <1>6 DEF Elements
      <3>2. PICK j \in 1..n : u = q[j] /\ j # p
        BY <3>1, <1>1, <1>3, <1>6
      <3> QED BY <3>2, <1>1, <1>4 DEF Elements
    <2>2. ASSUME NEW u \in Elements(q), u # t
          PROVE  u \in Elements(r)
      <3>1. PICK i \in 1..n : u = q[i]
        BY <2>2, <1>1 DEF Elements
      <3>2. i < p \/ i > p
        BY <2>2, <3>1, <1>3
      <3>3. CASE i < p
        <4>1. i \in 1..(n - 1) /\ r[i] = u
          BY <3>1, <3>3, <1>1, <1>3, <1>6, SMTT(30), ZenonT(40)
        <4> QED BY <4>1, <1>6 DEF Elements
      <3>4. CASE i > p
        <4>1. i - 1 \in 1..(n - 1) /\ r[i - 1] = u
          BY <3>1, <3>4, <1>1, <1>3, <1>6
        <4> QED BY <4>1, <1>6 DEF Elements
      <3> QED BY <3>2, <3>3, <3>4
    <2> QED BY <2>1, <2>2, <1>1, <1>8 DEF RunQ, QueuedIffInQueue
  <1> QED BY <1>8, <1>9, <1>10, <1>11 DEF RunQ, m

-----------------------------------------------------------------------------
(* The functions that handlers are composed of.                            *)

\* scheduler_schedule: the incumbent goes to the end of the queue, and what
\* comes out is running, unless it is idle.
LEMMA ScheduleRunQ ==
    ASSUME NEW k \in Memory, RunQ(k),
           k.active # NULL => k.state[k.active] # "QUEUED"
    PROVE  LET m == scheduler_schedule(k)
           IN  /\ m \in Memory
               /\ RunQ(m)
               /\ m.active \in Thread
               /\ m.state[m.active] # "QUEUED"
               /\ m.active \in Tcb => m.state[m.active] = "RUNNING"
               /\ (k.active \in Tcb => k.state[k.active] # "FREE")
                    => SameFree(k, m)
               /\ m.tap = k.tap /\ m.qhead = k.qhead /\ m.route = k.route
  <1> DEFINE u == ccb_unload_tcb(k)
             q == IF k.active = NULL THEN u ELSE MakeReady(u, k.active)
             h == q.runq[1]
             l == [scheduler_pull_tcb(q) EXCEPT !.state[h] = "RUNNING"]
             m == scheduler_schedule(k)
  <1>1. /\ u \in Memory
        /\ u.active = NULL
        /\ u.state = k.state /\ u.next = k.next /\ u.runq = k.runq
        /\ u.tap = k.tap /\ u.qhead = k.qhead /\ u.route = k.route
    BY DEF ccb_unload_tcb, Memory
  <1> HIDE DEF u
  <1>2. RunQ(u)
    BY <1>1, SameRunQ
  <1>3. /\ q \in Memory
        /\ RunQ(q)
        /\ q.active = NULL
        /\ q.tap = k.tap /\ q.qhead = k.qhead /\ q.route = k.route
        /\ (k.active \in Tcb => k.state[k.active] # "FREE") => SameFree(k, q)
    <2>1. CASE k.active = NULL
      BY <2>1, <1>1, <1>2 DEF SameFree
    <2>2. CASE k.active # NULL
      <3>1. k.active \in Thread /\ u.state[k.active] # "QUEUED"
        BY <2>2, <1>1 DEF Memory
      <3>2. /\ q = MakeReady(u, k.active)
            /\ q \in Memory
            /\ q.state = [u.state EXCEPT ![k.active] = "QUEUED"]
            /\ q.tap = u.tap /\ q.qhead = u.qhead /\ q.route = u.route
            /\ q.active = u.active
        BY <2>2, <3>1, <1>1, MakeReadyFields
      <3>3. RunQ(q)
        BY <3>1, <3>2, <1>1, <1>2, MakeReadyRunQ
      <3>4. u.state \in [Thread -> State] /\ Tcb \subseteq Thread
        BY <1>1 DEF Memory, Thread
      <3> HIDE DEF q
      <3> QED BY <3>1, <3>2, <3>3, <3>4, <1>1 DEF SameFree
    <2> QED BY <2>1, <2>2
  <1>4. m = IF q.runq = << >> THEN ccb_load_tcb(q, Idle) ELSE ccb_load_tcb(l, h)
    BY DEF scheduler_schedule, u
  <1> HIDE DEF q, m
  <1>5. CASE q.runq = << >>
    <2>1. m = [q EXCEPT !.active = Idle]
      BY <1>3, <1>4, <1>5 DEF ccb_load_tcb
    <2>2. Idle \in Thread /\ Idle \notin Tcb
      BY FrameAssumption DEF Thread
    <2>3. /\ m \in Memory
          /\ m.active = Idle
          /\ m.state = q.state /\ m.next = q.next /\ m.runq = q.runq
          /\ m.tap = q.tap /\ m.qhead = q.qhead /\ m.route = q.route
      BY <2>1, <2>2, <1>3 DEF Memory
    <2>4. RunQ(m)
      BY <2>3, <1>3, SameRunQ
    <2>5. m.state[Idle] # "QUEUED"
      <3>1. Elements(q.runq) = {}
        BY <1>5 DEF Elements
      <3> QED BY <3>1, <2>2, <2>3, <1>3 DEF RunQ, QueuedIffInQueue
    <2> QED BY <2>2, <2>3, <2>4, <2>5, <1>3 DEF SameFree, m
  <1>6. CASE q.runq # << >>
    <2>1. /\ h \in Thread /\ q.state[h] = "QUEUED"
          /\ l \in Memory
          /\ RunQ(l)
          /\ l.state = [q.state EXCEPT ![h] = "RUNNING"]
          /\ l.tap = q.tap /\ l.qhead = q.qhead /\ l.route = q.route
          /\ l.active = NULL
      BY <1>3, <1>6, PullRunQ
    <2>2. q.state \in [Thread -> State] /\ Tcb \subseteq Thread
      BY <1>3 DEF Memory, Thread
    <2> HIDE DEF h, l
    <2>3. m = [l EXCEPT !.active = h]
      BY <2>1, <1>4, <1>6 DEF ccb_load_tcb
    <2>4. /\ m \in Memory
          /\ m.active = h
          /\ m.state = l.state /\ m.next = l.next /\ m.runq = l.runq
          /\ m.tap = l.tap /\ m.qhead = l.qhead /\ m.route = l.route
      BY <2>1, <2>3 DEF Memory
    <2>5. RunQ(m)
      BY <2>1, <2>4, SameRunQ
    <2>6. m.state[h] = "RUNNING"
      BY <2>1, <2>2, <2>4
    <2>7. SameFree(q, m)
      BY <2>1, <2>2, <2>4 DEF SameFree
    <2> QED BY <2>1, <2>4, <2>5, <2>6, <2>7, <1>3 DEF SameFree, m
  <1> QED BY <1>5, <1>6

\* The loops over taps and slots find a first match.
LEMMA LeastIndex ==
    ASSUME NEW J \in SUBSET (0..3), J # {}
    PROVE  \E x \in J : \A y \in J : x <= y
  <1>1. CASE 0 \in J
    BY <1>1
  <1>2. CASE 0 \notin J /\ 1 \in J
    BY <1>2
  <1>3. CASE 0 \notin J /\ 1 \notin J /\ 2 \in J
    BY <1>3
  <1>4. CASE 0 \notin J /\ 1 \notin J /\ 2 \notin J
    <2>1. \A y \in J : y = 3
      BY <1>4
    <2>2. PICK x \in J : x = 3
      BY <2>1
    <2>3. \A y \in J : x <= y
      BY <2>1, <2>2
    <2> QED BY <2>3
  <1> QED BY <1>1, <1>2, <1>3, <1>4

\* The first tap that names a vector is one of the four.
LEMMA FirstTapIsTap ==
    ASSUME NEW k, NEW t, NEW v, TapsOf(k, t, v) # {}
    PROVE  FirstTap(k, t, v) \in TapIndex
  <1>1. TapsOf(k, t, v) \in SUBSET (0..3)
    BY DEF TapsOf, TapIndex
  <1>2. \E x \in TapsOf(k, t, v) : \A y \in TapsOf(k, t, v) : x <= y
    BY <1>1, LeastIndex
  <1> QED BY <1>1, <1>2 DEF FirstTap, TapIndex

\* What firing a vector may do to a Memory whose active thread, if there is
\* one, is not waiting.
Fires(k, m) ==
    /\ m \in Memory
    /\ RunQ(m)
    /\ m.active = k.active /\ m.qhead = k.qhead /\ m.route = k.route
    /\ k.active # NULL => m.state[k.active] = k.state[k.active]
    /\ SameFree(k, m)

ActiveNotWaiting(k) ==
    k.active # NULL =>
        k.state[k.active] \notin {"WAITING", "SUSPENDEDWAITING"}

\* Firing twice is firing.
LEMMA FiresTransitive ==
    ASSUME NEW k, NEW l, NEW m, Fires(k, l), Fires(l, m)
    PROVE  Fires(k, m)
  BY DEF Fires, SameFree

\* Setting or clearing the fired bit of a tap.
LEMMA TapFiredFields ==
    ASSUME NEW k \in Memory, NEW t \in Thread, NEW j \in TapIndex,
           NEW b \in BOOLEAN
    PROVE  LET f == SetFired(k, t, j, b)
           IN  /\ f \in Memory
               /\ f.state = k.state /\ f.next = k.next /\ f.runq = k.runq
               /\ f.qhead = k.qhead /\ f.route = k.route
               /\ f.active = k.active
  <1> DEFINE y == [k.tap[t][j] EXCEPT !.fired = b]
             x == [k.tap EXCEPT ![t] = [k.tap[t] EXCEPT ![j] = y]]
             f == SetFired(k, t, j, b)
  <1>1. k.tap \in [Thread -> [TapIndex -> Tap]]
    BY DEF Memory
  <1>2. k.tap[t] \in [TapIndex -> Tap] /\ k.tap[t][j] \in Tap
    BY <1>1
  <1>3. y \in Tap
    BY <1>2 DEF Tap
  <1> HIDE DEF y
  <1>4. x \in [Thread -> [TapIndex -> Tap]]
    BY <1>1, <1>2, <1>3
  <1>5. f = [k EXCEPT !.tap = x]
    BY DEF y, SetFired
  <1> HIDE DEF x, f
  <1>6. f \in Memory
    BY <1>4, <1>5 DEF Memory
  <1> QED BY <1>5, <1>6 DEF Memory, f

\* A thread that was waiting is queued, or suspended if it was paused.
LEMMA StopWaitingFires ==
    ASSUME NEW k \in Memory, RunQ(k), ActiveNotWaiting(k), NEW t \in Thread
    PROVE  /\ Fires(k, StopWaiting(k, t))
           /\ ActiveNotWaiting(StopWaiting(k, t))
  <1> DEFINE m == StopWaiting(k, t)
  <1> SUFFICES Fires(k, m) /\ ActiveNotWaiting(m)
    OBVIOUS
  <1>1. k.state \in [Thread -> State] /\ Tcb \subseteq Thread
    BY DEF Memory, Thread
  <1>2. CASE k.state[t] = "WAITING"
    <2>1. m = MakeReady(k, t)
      BY <1>2 DEF StopWaiting
    <2> HIDE DEF m
    <2>2. /\ m \in Memory
          /\ m.state = [k.state EXCEPT ![t] = "QUEUED"]
          /\ m.qhead = k.qhead /\ m.route = k.route /\ m.active = k.active
      BY <2>1, MakeReadyFields
    <2>3. RunQ(m)
      BY <2>1, <1>2, MakeReadyRunQ
    <2>4. k.active # NULL => k.active # t
      BY <1>2 DEF ActiveNotWaiting
    <2>5. k.active # NULL => m.state[k.active] = k.state[k.active]
      BY <2>2, <2>4, <1>1 DEF Memory
    <2> QED BY <2>2, <2>3, <2>5, <1>1, <1>2
        DEF Fires, SameFree, ActiveNotWaiting
  <1>3. CASE k.state[t] = "SUSPENDEDWAITING"
    <2>1. m = [k EXCEPT !.state[t] = "SUSPENDED"]
      BY <1>3 DEF StopWaiting
    <2> HIDE DEF m
    <2>2. [k.state EXCEPT ![t] = "SUSPENDED"] \in [Thread -> State]
      BY <1>1 DEF State
    <2>3. /\ m \in Memory
          /\ m.state = [k.state EXCEPT ![t] = "SUSPENDED"]
          /\ m.next = k.next /\ m.runq = k.runq
          /\ m.qhead = k.qhead /\ m.route = k.route /\ m.active = k.active
      BY <2>1, <2>2 DEF Memory
    <2>4. RunQ(m)
      BY <2>3, <1>1, <1>3, SameRunQ
    <2>5. k.active # NULL => k.active # t
      BY <1>3 DEF ActiveNotWaiting
    <2>6. k.active # NULL => m.state[k.active] = k.state[k.active]
      BY <2>3, <2>5, <1>1 DEF Memory
    <2> QED BY <2>3, <2>4, <2>6, <1>1, <1>3
        DEF Fires, SameFree, ActiveNotWaiting
  <1>4. CASE k.state[t] \notin {"WAITING", "SUSPENDEDWAITING"}
    <2>1. m = k
      BY <1>4 DEF StopWaiting
    <2> QED BY <2>1 DEF Fires, SameFree
  <1> QED BY <1>2, <1>3, <1>4

\* One turn of interrupt_vector_fire's loop over the routes.
LEMMA NotifyFires ==
    ASSUME NEW k \in Memory, RunQ(k), ActiveNotWaiting(k),
           NEW v \in MappedVector, NEW i \in Slot
    PROVE  Fires(k, Notify(k, v, i)) /\ ActiveNotWaiting(Notify(k, v, i))
  <1> DEFINE t == k.route[v][i]
             f == SetFired(k, t, FirstTap(k, t, v), TRUE)
  <1>1. CASE t = NULL \/ TapsOf(k, t, v) = {}
    <2>1. Notify(k, v, i) = k
      BY <1>1 DEF Notify
    <2> QED BY <2>1 DEF Fires, SameFree
  <1>2. CASE t # NULL /\ TapsOf(k, t, v) # {}
    <2>1. Notify(k, v, i) = StopWaiting(f, t)
      BY <1>2 DEF Notify
    <2>2. t \in Thread
      BY <1>2 DEF Memory
    <2>3. FirstTap(k, t, v) \in TapIndex
      BY <1>2, FirstTapIsTap
    <2> HIDE DEF t
    <2>4. /\ f \in Memory
          /\ f.state = k.state /\ f.next = k.next /\ f.runq = k.runq
          /\ f.qhead = k.qhead /\ f.route = k.route /\ f.active = k.active
      BY <2>2, <2>3, TapFiredFields
    <2> HIDE DEF f
    <2>5. RunQ(f)
      BY <2>4, SameRunQ
    <2>6. Fires(k, f) /\ ActiveNotWaiting(f)
      BY <2>4, <2>5 DEF Fires, SameFree, ActiveNotWaiting
    <2>7. Fires(f, StopWaiting(f, t)) /\ ActiveNotWaiting(StopWaiting(f, t))
      BY <2>2, <2>4, <2>5, <2>6, StopWaitingFires
    <2> QED BY <2>1, <2>6, <2>7, FiresTransitive
  <1> QED BY <1>1, <1>2

\* interrupt_vector_fire keeps the run queue sound: what it wakes was waiting,
\* hence in no queue and not on the core.
LEMMA FireFires ==
    ASSUME NEW k \in Memory, RunQ(k), ActiveNotWaiting(k), NEW v
    PROVE  /\ Fires(k, interrupt_vector_fire(k, v))
           /\ ActiveNotWaiting(interrupt_vector_fire(k, v))
  <1>1. CASE v \in MappedVector
    <2> DEFINE a == Notify(k, v, 0)
               b == Notify(a, v, 1)
               c == Notify(b, v, 2)
               d == Notify(c, v, 3)
    <2>1. {0, 1, 2, 3} \subseteq Slot
      BY DEF Slot
    <2>2. Fires(k, a) /\ ActiveNotWaiting(a)
      BY <1>1, <2>1, NotifyFires
    <2>3. a \in Memory /\ RunQ(a)
      BY <2>2 DEF Fires
    <2> HIDE DEF a
    <2>4. Fires(a, b) /\ ActiveNotWaiting(b)
      BY <1>1, <2>1, <2>2, <2>3, NotifyFires
    <2>5. b \in Memory /\ RunQ(b)
      BY <2>4 DEF Fires
    <2> HIDE DEF b
    <2>6. Fires(b, c) /\ ActiveNotWaiting(c)
      BY <1>1, <2>1, <2>4, <2>5, NotifyFires
    <2>7. c \in Memory /\ RunQ(c)
      BY <2>6 DEF Fires
    <2> HIDE DEF c
    <2>8. Fires(c, d) /\ ActiveNotWaiting(d)
      BY <1>1, <2>1, <2>6, <2>7, NotifyFires
    <2> HIDE DEF d
    <2>9. Fires(k, d)
      BY <2>2, <2>4, <2>6, <2>8, FiresTransitive
    <2>10. interrupt_vector_fire(k, v) = d
      BY <1>1 DEF interrupt_vector_fire, a, b, c, d
    <2> QED BY <2>8, <2>9, <2>10
  <1>2. CASE v \notin MappedVector
    BY <1>2 DEF interrupt_vector_fire, Fires, SameFree
  <1> QED BY <1>1, <1>2

\* A reset fires or does nothing.
LEMMA ResetFires ==
    ASSUME NEW k \in Memory, RunQ(k), ActiveNotWaiting(k), NEW v
    PROVE  Fires(k, interrupt_vector_reset(k, v))
  <1>1. Fires(k, k)
    BY DEF Fires, SameFree
  <1> QED BY <1>1, FireFires DEF interrupt_vector_reset, pinion_on_reset

\* enqueue links a thread that is not in the run queue.
LEMMA EnqueueRunQ ==
    ASSUME NEW k \in Memory, RunQ(k), NEW v \in QueueVector,
           NEW t \in Thread, k.state[t] # "QUEUED"
    PROVE  LET m == enqueue(k, v, t)
           IN  /\ m \in Memory
               /\ RunQ(m)
               /\ m.state = k.state /\ m.active = k.active
               /\ SameFree(k, m)
  <1> DEFINE x == [k.next EXCEPT ![t] = k.qhead[v]]
             y == [k.qhead EXCEPT ![v] = t]
             m == enqueue(k, v, t)
  <1>1. /\ k.next \in [Thread -> Thread \cup {NULL}]
        /\ k.qhead \in [QueueVector -> Thread \cup {NULL}]
    BY DEF Memory
  <1>2. /\ x \in [Thread -> Thread \cup {NULL}]
        /\ y \in [QueueVector -> Thread \cup {NULL}]
    BY <1>1
  <1>3. m = [k EXCEPT !.next = x, !.qhead = y]
    BY DEF enqueue
  <1>4. t \notin Elements(k.runq)
    BY DEF RunQ, QueuedIffInQueue
  <1>5. \A u \in Elements(k.runq) : x[u] = k.next[u]
    <2>1. Elements(k.runq) \subseteq Thread
      BY DEF Memory, Elements
    <2> QED BY <2>1, <1>1, <1>4
  <1> HIDE DEF x, y, m
  <1>6. /\ m \in Memory
        /\ m.state = k.state /\ m.active = k.active /\ m.runq = k.runq
        /\ m.next = x
    BY <1>2, <1>3 DEF Memory
  <1>7. QueueLinked(m)
    BY <1>5, <1>6 DEF RunQ, QueueLinked, Elements
  <1>8. QueuedOnce(m) /\ QueuedIffInQueue(m)
    BY <1>6 DEF RunQ, QueuedOnce, QueuedIffInQueue
  <1> QED BY <1>6, <1>7, <1>8 DEF RunQ, SameFree, m

\* get_queued moves a head and writes no link.
LEMMA GetQueuedRunQ ==
    ASSUME NEW k \in Memory, RunQ(k), NEW v \in QueueVector, has_queued(k, v)
    PROVE  LET m == get_queued(k, v)
           IN  /\ m \in Memory
               /\ RunQ(m)
               /\ m.state = k.state /\ m.active = k.active
  <1> DEFINE y == [k.qhead EXCEPT ![v] = k.next[k.qhead[v]]]
             m == get_queued(k, v)
  <1>1. y \in [QueueVector -> Thread \cup {NULL}]
    BY DEF Memory, has_queued
  <1>2. m = [k EXCEPT !.qhead = y]
    BY DEF get_queued
  <1> HIDE DEF y, m
  <1>3. /\ m \in Memory
        /\ m.state = k.state /\ m.active = k.active
        /\ m.next = k.next /\ m.runq = k.runq
    BY <1>1, <1>2 DEF Memory
  <1>4. RunQ(m)
    BY <1>3, SameRunQ
  <1> QED BY <1>3, <1>4 DEF m

\* Routes come and go without touching the scheduler.
LEMMA RouteFields ==
    ASSUME NEW k \in Memory, NEW t \in Thread, NEW v
    PROVE  \A m \in {interrupt_add_route(k, t, v),
                     interrupt_remove_route(k, t, v)} :
               /\ m \in Memory
               /\ m.state = k.state /\ m.next = k.next /\ m.runq = k.runq
               /\ m.tap = k.tap /\ m.active = k.active
  <1>1. ASSUME v \in MappedVector, NEW u \in Thread \cup {NULL},
               NEW w \in Thread \cup {NULL}, u \in Routed(k, v)
        PROVE  LET m == [k EXCEPT !.route[v][FirstSlot(k, v, u)] = w]
               IN  /\ m \in Memory
                   /\ m.state = k.state /\ m.next = k.next /\ m.runq = k.runq
                   /\ m.tap = k.tap /\ m.active = k.active
    <2> DEFINE J == {i \in Slot : k.route[v][i] = u}
               x == [k.route EXCEPT ![v] =
                        [k.route[v] EXCEPT ![FirstSlot(k, v, u)] = w]]
               m == [k EXCEPT !.route[v][FirstSlot(k, v, u)] = w]
    <2>1. J \in SUBSET (0..3) /\ J # {}
      BY <1>1 DEF Routed, Slot
    <2>2. \E i \in J : \A j \in J : i <= j
      BY <2>1, LeastIndex
    <2>3. FirstSlot(k, v, u) \in Slot
      BY <2>2 DEF FirstSlot
    <2>4. /\ k.route \in [MappedVector -> [Slot -> Thread \cup {NULL}]]
          /\ k.route[v] \in [Slot -> Thread \cup {NULL}]
      BY <1>1 DEF Memory
    <2>5. x \in [MappedVector -> [Slot -> Thread \cup {NULL}]]
      BY <1>1, <2>3, <2>4
    <2>6. m = [k EXCEPT !.route = x]
      OBVIOUS
    <2> HIDE DEF x, m
    <2>7. m \in Memory
      BY <2>5, <2>6 DEF Memory
    <2> QED BY <2>6, <2>7 DEF Memory, m
  <1>2. t \in Thread \cup {NULL} /\ NULL \in Thread \cup {NULL}
    OBVIOUS
  <1>3. LET m == interrupt_add_route(k, t, v)
        IN  /\ m \in Memory
            /\ m.state = k.state /\ m.next = k.next /\ m.runq = k.runq
            /\ m.tap = k.tap /\ m.active = k.active
    BY <1>1, <1>2 DEF interrupt_add_route
  <1>4. LET m == interrupt_remove_route(k, t, v)
        IN  /\ m \in Memory
            /\ m.state = k.state /\ m.next = k.next /\ m.runq = k.runq
            /\ m.tap = k.tap /\ m.active = k.active
    BY <1>1, <1>2 DEF interrupt_remove_route
  <1> QED BY <1>3, <1>4

-----------------------------------------------------------------------------
(* The inductive invariant.                                                *)

\* A thread on the core is live, and RUNNING unless it stands between the sti
\* and the int 0xFF of a call that takes it off the core.
ActiveOK ==
    active \in Tcb =>
        /\ state[active] # "FREE"
        /\ pc[active] \notin {"pause_w", "exit_w", "wait_w"}
              => state[active] = "RUNNING"

IInv == TypeOK /\ RunQueueOK /\ TableOK /\ ActiveOK

\* After Become(k) the state of the kernel is k.
LEMMA BecomeNow ==
    ASSUME NEW k \in Memory, Become(k)
    PROVE  Now' = k
  BY DEF Become, Now, Memory

\* What a step that leaves the thread table alone has to show.
LEMMA StepInv ==
    ASSUME IInv, NEW k \in Memory, Become(k), UNCHANGED tableVars,
           RunQ(k), k.active \in Thread, k.state[k.active] # "QUEUED",
           SameFree(Now, k), pc' \in [Thread -> Location],
           k.active \in Tcb =>
             /\ k.state[k.active] # "FREE"
             /\ pc'[k.active] \notin {"pause_w", "exit_w", "wait_w"}
                   => k.state[k.active] = "RUNNING"
    PROVE  IInv'
  <1>1. Now' = k
    BY BecomeNow
  <1>2. state' = k.state /\ active' = k.active
    BY DEF Become
  <1>3. UNCHANGED <<id, table, freelist, fresh>>
    BY DEF tableVars
  <1>4. TypeOK'
    <2>1. active' # NULL
      BY <1>2, FrameAssumption DEF Thread
    <2> QED BY <1>1, <1>3, <2>1 DEF IInv, TypeOK
  <1>5. RunQueueOK'
    BY <1>1, <1>2 DEF RunQ, RunQueueOK
  <1>6. TableOK'
    <2>1. \A t \in Tcb : state'[t] = "FREE" <=> state[t] = "FREE"
      BY <1>2 DEF SameFree, Now
    <2>2. /\ \A i \in Id : table[i] # NULL => table[i] \in Tcb
          /\ Elements(freelist) \subseteq Tcb
          /\ fresh \subseteq Tcb
      BY DEF IInv, TypeOK, Elements
    <2> QED BY <1>3, <2>1, <2>2 DEF IInv, TableOK
  <1>7. ActiveOK'
    BY <1>2 DEF ActiveOK
  <1> QED BY <1>4, <1>5, <1>6, <1>7 DEF IInv

\* What the invariant says of the kernel as one Memory.
LEMMA NowOK ==
    ASSUME IInv
    PROVE  /\ Now \in Memory /\ RunQ(Now)
           /\ active \in Thread /\ Tcb \subseteq Thread
           /\ state \in [Thread -> State] /\ pc \in [Thread -> Location]
           /\ state[active] # "QUEUED"
           /\ Now.state = state /\ Now.active = active
           /\ Now.next = next /\ Now.runq = runq
  <1>1. Now.active = active /\ Now.state = state
    BY DEF Now
  <1>2. Now \in Memory /\ active # NULL /\ pc \in [Thread -> Location]
    BY DEF IInv, TypeOK
  <1>3. active \in Thread /\ state \in [Thread -> State]
    BY <1>1, <1>2 DEF Memory
  <1> QED BY <1>1, <1>2, <1>3 DEF IInv, RunQueueOK, RunQ, Thread, Now

\* The thread that enters a call runs.
LEMMA CallerRuns ==
    ASSUME IInv, NEW c, Call(c)
    PROVE  active \in Tcb /\ state[active] = "RUNNING"
  BY DEF Call, IInv, ActiveOK

\* A call leaves its caller at one of the locations.
LEMMA ReturnToFields ==
    ASSUME IInv, NEW loc \in Location, ReturnTo(loc)
    PROVE  pc' \in [Thread -> Location] /\ pc'[active] = loc
  BY NowOK DEF ReturnTo

\* An id names a live thread.
LEMMA NamedThread ==
    ASSUME IInv, NEW i, tcb_get(i) # NULL
    PROVE  tcb_get(i) \in Tcb /\ state[tcb_get(i)] # "FREE"
  BY DEF IInv, TypeOK, TableOK, tcb_get

\* A step that leaves the active thread on the core, running.
LEMMA CallStep ==
    ASSUME IInv, active \in Tcb, NEW k \in Memory, Become(k),
           UNCHANGED tableVars, RunQ(k), SameFree(Now, k),
           k.active = active, k.state[active] = "RUNNING",
           pc' \in [Thread -> Location]
    PROVE  IInv'
  <1>1. k.active \in Thread
    BY NowOK
  <1> QED BY <1>1, StepInv

\* Leaving the memory alone is becoming what it is.
LEMMA UnchangedMemory ==
    ASSUME UNCHANGED memoryVars
    PROVE  Become(Now)
  BY DEF memoryVars, Become, Now

\* thread_yield keeps the invariant.
LEMMA YieldInv == ASSUME IInv, thread_yield PROVE IInv'
  <1>1. active \in Tcb /\ state[active] = "RUNNING"
    BY CallerRuns DEF thread_yield
  <1>2. pc' \in [Thread -> Location]
    BY ReturnToFields DEF thread_yield, Location
  <1>3. Become(Now) /\ UNCHANGED tableVars
    BY UnchangedMemory DEF thread_yield
  <1>4. SameFree(Now, Now)
    BY DEF SameFree
  <1> QED BY <1>1, <1>2, <1>3, <1>4, NowOK, CallStep

\* thread_pause keeps the invariant: only a QUEUED thread leaves the queue.
LEMMA PauseInv ==
    ASSUME IInv, NEW th \in ThreadArg, thread_pause(th)
    PROVE  IInv'
  <1> DEFINE t == tcb_get(OrSelf(th))
             k == IF t = NULL THEN Now ELSE Paused(Now, t)
  <1>1. active \in Tcb /\ state[active] = "RUNNING"
    BY CallerRuns DEF thread_pause
  <1>2. pc' \in [Thread -> Location] /\ pc'[active] = "pause_w"
    BY ReturnToFields DEF thread_pause, Location
  <1>3. Become(k) /\ UNCHANGED tableVars
    BY DEF thread_pause
  <1>4. /\ k \in Memory /\ RunQ(k) /\ SameFree(Now, k)
        /\ k.active = active
        /\ k.state[active] \in {"RUNNING", "SUSPENDED"}
    <2>1. CASE t = NULL
      BY <2>1, <1>1, NowOK DEF SameFree
    <2>2. CASE t # NULL
      <3>1. k = Paused(Now, t)
        BY <2>2
      <3>2. t \in Thread /\ t \in Tcb /\ state[t] # "FREE"
        BY <2>2, NamedThread DEF Thread
      <3> HIDE DEF k, t
      <3>3. ASSUME NEW s \in {"SUSPENDED", "SUSPENDEDWAITING"},
                   k = [Now EXCEPT !.state[t] = s],
                   state[t] \in {"WAITING", "RUNNING"},
                   state[t] = "WAITING" \/ s = "SUSPENDED"
            PROVE  /\ k \in Memory /\ RunQ(k) /\ SameFree(Now, k)
                   /\ k.active = active
                   /\ k.state[active] \in {"RUNNING", "SUSPENDED"}
        <4>1. [state EXCEPT ![t] = s] \in [Thread -> State]
          BY <3>3, NowOK DEF State
        <4>2. k = [Now EXCEPT !.state = [state EXCEPT ![t] = s]]
          BY <3>3, NowOK
        <4>3. /\ k \in Memory
              /\ k.state = [state EXCEPT ![t] = s]
              /\ k.next = Now.next /\ k.runq = Now.runq
              /\ k.active = Now.active
          BY <4>1, <4>2, NowOK DEF Memory
        <4>4. \A u \in Thread :
              k.state[u] = "QUEUED" <=> Now.state[u] = "QUEUED"
          BY <4>3, <3>2, <3>3, NowOK
        <4>5. RunQ(k)
          <5>1. RunQ(Now)
            BY NowOK
          <5> QED BY <4>3, <4>4, <5>1, SameRunQ
        <4>6. SameFree(Now, k)
          BY <4>3, <3>2, <3>3, NowOK DEF SameFree
        <4>7. k.state[active] \in {"RUNNING", "SUSPENDED"}
          BY <4>3, <3>3, <1>1, NowOK
        <4> QED BY <4>3, <4>5, <4>6, <4>7, NowOK
      <3>4. CASE state[t] = "WAITING"
        <4>1. k = [Now EXCEPT !.state[t] = "SUSPENDEDWAITING"]
          BY <3>1, <3>4, NowOK DEF Paused
        <4> QED BY <4>1, <3>3, <3>4
      <3>5. CASE state[t] = "RUNNING"
        <4>1. k = [Now EXCEPT !.state[t] = "SUSPENDED"]
          BY <3>1, <3>5, NowOK DEF Paused
        <4> QED BY <4>1, <3>3, <3>5
      <3>6. CASE state[t] = "QUEUED"
        <4>1. k = [scheduler_rem_tcb(Now, t) EXCEPT !.state[t] = "SUSPENDED"]
          BY <3>1, <3>6, NowOK DEF Paused
        <4>2. /\ k \in Memory /\ RunQ(k)
              /\ k.state = [state EXCEPT ![t] = "SUSPENDED"]
              /\ k.active = active
          BY <4>1, <3>2, <3>6, NowOK, RemRunQ, SMTT(30), ZenonT(40)
        <4>3. SameFree(Now, k)
          BY <4>2, <3>2, <3>6, NowOK DEF SameFree
        <4> QED BY <4>2, <4>3, <1>1, <3>6, NowOK
      <3>7. CASE state[t] \notin {"WAITING", "RUNNING", "QUEUED"}
        <4>1. k = Now
          BY <3>1, <3>7, NowOK DEF Paused
        <4> QED BY <4>1, <1>1, NowOK DEF SameFree
      <3> QED BY <3>4, <3>5, <3>6, <3>7
    <2> QED BY <2>1, <2>2
  <1> HIDE DEF k
  <1> QED BY <1>1, <1>2, <1>3, <1>4, NowOK, StepInv

\* thread_resume keeps the invariant: only a SUSPENDED thread is queued.
LEMMA ResumeInv ==
    ASSUME IInv, NEW th \in ThreadArg, thread_resume(th)
    PROVE  IInv'
  <1> DEFINE t == tcb_get(OrSelf(th))
             k == IF t = NULL THEN Now ELSE Resumed(Now, t)
  <1>1. active \in Tcb /\ state[active] = "RUNNING"
    BY CallerRuns DEF thread_resume
  <1>2. pc' \in [Thread -> Location]
    BY ReturnToFields DEF thread_resume, Location
  <1>3. Become(k) /\ UNCHANGED tableVars
    BY DEF thread_resume
  <1>4. /\ k \in Memory /\ RunQ(k) /\ SameFree(Now, k)
        /\ k.active = active /\ k.state[active] = "RUNNING"
    <2>1. CASE t = NULL
      BY <2>1, <1>1, NowOK DEF SameFree
    <2>2. CASE t # NULL
      <3>1. k = Resumed(Now, t)
        BY <2>2
      <3>2. t \in Thread /\ t \in Tcb /\ state[t] # "FREE"
        BY <2>2, NamedThread DEF Thread
      <3> HIDE DEF k, t
      <3>3. CASE state[t] = "SUSPENDED"
        <4>1. k = MakeReady(Now, t)
          BY <3>1, <3>3, NowOK DEF Resumed
        <4>2. /\ k \in Memory
              /\ k.state = [state EXCEPT ![t] = "QUEUED"]
              /\ k.active = active
          <5>1. Now \in Memory /\ Now.state = state /\ Now.active = active
            BY NowOK
          <5>2. /\ MakeReady(Now, t) \in Memory
                /\ MakeReady(Now, t).state = [Now.state EXCEPT ![t] = "QUEUED"]
                /\ MakeReady(Now, t).active = Now.active
            BY <3>2, <5>1, MakeReadyFields
          <5> QED BY <4>1, <5>1, <5>2
        <4>3. RunQ(k)
          BY <4>1, <3>2, <3>3, NowOK, MakeReadyRunQ
        <4> QED BY <4>2, <4>3, <3>2, <3>3, <1>1, NowOK DEF SameFree
      <3>4. CASE state[t] = "SUSPENDEDWAITING"
        <4>1. [state EXCEPT ![t] = "WAITING"] \in [Thread -> State]
          BY NowOK DEF State
        <4>2. k = [Now EXCEPT !.state = [state EXCEPT ![t] = "WAITING"]]
          BY <3>1, <3>4, NowOK DEF Resumed
        <4>3. /\ k \in Memory
              /\ k.state = [state EXCEPT ![t] = "WAITING"]
              /\ k.next = Now.next /\ k.runq = Now.runq
              /\ k.active = Now.active
          BY <4>1, <4>2, NowOK DEF Memory
        <4>4. \A u \in Thread :
              k.state[u] = "QUEUED" <=> Now.state[u] = "QUEUED"
          BY <4>3, <3>2, <3>4, NowOK
        <4>5. RunQ(k)
          <5>1. RunQ(Now)
            BY NowOK
          <5> QED BY <4>3, <4>4, <5>1, SameRunQ
        <4> QED BY <4>3, <4>5, <3>2, <3>4, <1>1, NowOK DEF SameFree
      <3>5. CASE state[t] \notin {"SUSPENDED", "SUSPENDEDWAITING"}
        <4>1. k = Now
          BY <3>1, <3>5, NowOK DEF Resumed
        <4> QED BY <4>1, <1>1, NowOK DEF SameFree
      <3> QED BY <3>3, <3>4, <3>5
    <2> QED BY <2>1, <2>2
  <1> HIDE DEF k
  <1> QED BY <1>1, <1>2, <1>3, <1>4, CallStep

\* A running thread does not wait.
LEMMA ActiveNotWaitingNow ==
    ASSUME IInv, active \in Tcb, state[active] = "RUNNING"
    PROVE  ActiveNotWaiting(Now)
  BY NowOK DEF ActiveNotWaiting

\* thread_exit keeps the invariant: it links the caller, which is in no queue.
LEMMA ExitInv == ASSUME IInv, thread_exit PROVE IInv'
  <1> DEFINE s == [Now EXCEPT !.state[active] = "SUSPENDED"]
             e == enqueue(s, ZOMBIE, active)
             k == interrupt_vector_fire(e, ZOMBIE)
  <1>1. active \in Tcb /\ active \in Thread /\ state[active] = "RUNNING"
    BY CallerRuns, NowOK DEF thread_exit
  <1>2. pc' \in [Thread -> Location] /\ pc'[active] = "exit_w"
    BY ReturnToFields DEF thread_exit, Location
  <1>3. Become(k) /\ UNCHANGED tableVars
    BY DEF thread_exit
  <1>4. /\ s \in Memory /\ RunQ(s)
        /\ s.state = [state EXCEPT ![active] = "SUSPENDED"]
        /\ s.active = active
        /\ s.state[active] = "SUSPENDED"
        /\ SameFree(Now, s)
    <2>1. [state EXCEPT ![active] = "SUSPENDED"] \in [Thread -> State]
      BY NowOK DEF State
    <2>2. s = [Now EXCEPT !.state = [state EXCEPT ![active] = "SUSPENDED"]]
      BY NowOK
    <2>3. /\ s \in Memory
          /\ s.state = [state EXCEPT ![active] = "SUSPENDED"]
          /\ s.next = Now.next /\ s.runq = Now.runq
          /\ s.active = Now.active
      BY <2>1, <2>2, NowOK DEF Memory
    <2>4. \A u \in Thread :
              s.state[u] = "QUEUED" <=> Now.state[u] = "QUEUED"
      BY <2>3, <1>1, NowOK
    <2> HIDE DEF s
    <2>5. RunQ(s)
      <3>1. RunQ(Now)
        BY NowOK
      <3> QED BY <2>3, <2>4, <3>1, SameRunQ
    <2> QED BY <2>3, <2>5, <1>1, NowOK DEF SameFree
  <1> HIDE DEF s
  <1>5. /\ e \in Memory /\ RunQ(e) /\ e.state = s.state
        /\ e.active = active /\ SameFree(s, e)
    <2>1. ZOMBIE \in QueueVector
      BY DEF QueueVector
    <2> QED BY <2>1, <1>1, <1>4, EnqueueRunQ
  <1> HIDE DEF e
  <1>6. ActiveNotWaiting(e)
    BY <1>4, <1>5 DEF ActiveNotWaiting
  <1>7. Fires(e, k)
    BY <1>5, <1>6, FireFires
  <1> HIDE DEF k
  <1>8. /\ k \in Memory /\ RunQ(k) /\ k.active = active
        /\ k.state[active] = "SUSPENDED"
    <2>1. active # NULL
      BY <1>1, FrameAssumption
    <2> QED BY <2>1, <1>4, <1>5, <1>7 DEF Fires
  <1>9. SameFree(Now, k)
    BY <1>4, <1>5, <1>7 DEF SameFree, Fires
  <1> QED BY <1>1, <1>2, <1>3, <1>8, <1>9, StepInv

\* thread_push_state keeps the invariant.
LEMMA PushStateInv ==
    ASSUME IInv, NEW th \in ThreadArg, thread_push_state(th)
    PROVE  IInv'
  <1>1. active \in Tcb /\ state[active] = "RUNNING"
    BY CallerRuns DEF thread_push_state
  <1>2. pc' \in [Thread -> Location]
    BY NowOK DEF thread_push_state, Location
  <1>3. Become(Now) /\ UNCHANGED tableVars
    BY UnchangedMemory DEF thread_push_state
  <1>4. SameFree(Now, Now)
    BY DEF SameFree
  <1> QED BY <1>1, <1>2, <1>3, <1>4, NowOK, CallStep

\* A handler that fires what a reset finds queued, after changes that leave
\* the scheduler alone.
LEMMA ResetStep ==
    ASSUME IInv, active \in Tcb, state[active] = "RUNNING",
           NEW m \in Memory, m.state = state, m.next = next, m.runq = runq,
           m.active = active, NEW v, Become(interrupt_vector_reset(m, v)),
           UNCHANGED tableVars, UNCHANGED pc
    PROVE  IInv'
  <1> DEFINE k == interrupt_vector_reset(m, v)
  <1>1. RunQ(m)
    <2>1. RunQ(Now) /\ Now.runq = runq /\ Now.next = next /\ Now.state = state
      BY NowOK
    <2> QED BY <2>1, SameRunQ
  <1>2. ActiveNotWaiting(m)
    BY DEF ActiveNotWaiting
  <1>3. Fires(m, k)
    BY <1>1, <1>2, ResetFires
  <1>4. Become(k)
    OBVIOUS
  <1> HIDE DEF k
  <1>5. active # NULL
    BY FrameAssumption
  <1>6. /\ k \in Memory /\ RunQ(k) /\ k.active = active
        /\ k.state[active] = "RUNNING"
    BY <1>3, <1>5 DEF Fires
  <1>7. SameFree(Now, k)
    BY <1>3, NowOK DEF Fires, SameFree
  <1>8. pc' \in [Thread -> Location]
    BY NowOK
  <1> QED BY <1>4, <1>6, <1>7, <1>8, CallStep

\* interrupt_set_tap keeps the invariant.
LEMMA SetTapInv ==
    ASSUME IInv, NEW j \in TapIndex, NEW v \in Vector, interrupt_set_tap(j, v)
    PROVE  IInv'
  <1> DEFINE o == OldRouteRemoved(Now, active, j)
             t == [o EXCEPT !.tap[active][j] = [vec |-> v, fired |-> FALSE]]
             m == interrupt_add_route(t, active, v)
             x == [o.tap EXCEPT ![active] = [o.tap[active] EXCEPT
                                    ![j] = [vec |-> v, fired |-> FALSE]]]
  <1>1. active \in Tcb /\ active \in Thread /\ state[active] = "RUNNING"
    BY CallerRuns, NowOK DEF interrupt_set_tap
  <1>2. Become(interrupt_vector_reset(m, v)) /\ UNCHANGED tableVars
        /\ UNCHANGED pc
    BY DEF interrupt_set_tap
  <1>3. /\ o \in Memory
        /\ o.state = state /\ o.next = next /\ o.runq = runq
        /\ o.active = active
    <2>1. Now \in Memory
      BY NowOK
    <2>2. \A w : LET r == interrupt_remove_route(Now, active, w)
                 IN  /\ r \in Memory
                     /\ r.state = Now.state /\ r.next = Now.next
                     /\ r.runq = Now.runq /\ r.active = Now.active
      <3> TAKE w
      <3> QED BY <1>1, <2>1, RouteFields
    <2> QED BY <2>1, <2>2, NowOK DEF OldRouteRemoved
  <1> HIDE DEF o
  <1>4. x \in [Thread -> [TapIndex -> Tap]]
    <2>1. o.tap \in [Thread -> [TapIndex -> Tap]]
      BY <1>3 DEF Memory
    <2>2. o.tap[active] \in [TapIndex -> Tap]
      BY <1>1, <2>1
    <2>3. [vec |-> v, fired |-> FALSE] \in Tap
      BY DEF Tap
    <2> QED BY <1>1, <2>1, <2>2, <2>3
  <1>5. t = [o EXCEPT !.tap = x]
    OBVIOUS
  <1> HIDE DEF t, x
  <1>6. /\ t \in Memory
        /\ t.state = state /\ t.next = next /\ t.runq = runq
        /\ t.active = active
    BY <1>3, <1>4, <1>5 DEF Memory
  <1>7. /\ m \in Memory
        /\ m.state = state /\ m.next = next /\ m.runq = runq
        /\ m.active = active
    BY <1>1, <1>6, RouteFields
  <1> HIDE DEF m
  <1> QED BY <1>1, <1>2, <1>7, ResetStep

\* interrupt_reset keeps the invariant.
LEMMA ResetInv ==
    ASSUME IInv, NEW v \in Vector, interrupt_reset(v)
    PROVE  IInv'
  <1> DEFINE m == SetFired(Now, active, FirstTap(Now, active, v), FALSE)
  <1>1. active \in Tcb /\ active \in Thread /\ state[active] = "RUNNING"
    BY CallerRuns, NowOK DEF interrupt_reset
  <1>2. /\ Become(interrupt_vector_reset(m, v)) /\ UNCHANGED tableVars
        /\ UNCHANGED pc
    BY DEF interrupt_reset
  <1>3. FirstTap(Now, active, v) \in TapIndex
    BY FirstTapIsTap DEF interrupt_reset
  <1>4. /\ m \in Memory
        /\ m.state = Now.state /\ m.next = Now.next /\ m.runq = Now.runq
        /\ m.active = Now.active
    <2>1. Now \in Memory
      BY NowOK
    <2> QED BY <1>1, <1>3, <2>1, TapFiredFields
  <1> HIDE DEF m
  <1> QED BY <1>1, <1>2, <1>4, NowOK, ResetStep

\* interrupt_wait keeps the invariant.
LEMMA WaitInv == ASSUME IInv, interrupt_wait PROVE IInv'
  <1> DEFINE k == Waiting(Now)
  <1>1. active \in Tcb /\ active \in Thread /\ state[active] = "RUNNING"
    BY CallerRuns, NowOK DEF interrupt_wait
  <1>2. pc' \in [Thread -> Location] /\ pc'[active] = "wait_w"
    BY ReturnToFields DEF interrupt_wait, Location
  <1>3. Become(k) /\ UNCHANGED tableVars
    BY DEF interrupt_wait
  <1>4. k = Now \/ k = [Now EXCEPT !.state = [state EXCEPT ![active] = "WAITING"]]
    BY NowOK DEF Waiting
  <1> HIDE DEF k
  <1>5. CASE k = Now
    BY <1>1, <1>2, <1>3, <1>5, NowOK, CallStep DEF SameFree
  <1>6. CASE k = [Now EXCEPT !.state = [state EXCEPT ![active] = "WAITING"]]
    <2>1. [state EXCEPT ![active] = "WAITING"] \in [Thread -> State]
      BY NowOK DEF State
    <2>2. /\ k \in Memory
          /\ k.state = [state EXCEPT ![active] = "WAITING"]
          /\ k.next = Now.next /\ k.runq = Now.runq /\ k.active = active
      BY <2>1, <1>6, NowOK DEF Memory
    <2>3. \A u \in Thread :
              k.state[u] = "QUEUED" <=> Now.state[u] = "QUEUED"
      BY <2>2, <1>1, NowOK
    <2>4. RunQ(k)
      <3>1. RunQ(Now)
        BY NowOK
      <3> QED BY <2>2, <2>3, <3>1, SameRunQ
    <2>5. SameFree(Now, k) /\ k.state[active] = "WAITING"
      BY <2>2, <1>1, NowOK DEF SameFree
    <2> QED BY <1>1, <1>2, <1>3, <2>2, <2>4, <2>5, StepInv
  <1> QED BY <1>4, <1>5, <1>6

\* fault_get_* keeps the invariant.
LEMMA FaultGetInv ==
    ASSUME IInv, NEW v \in QueueVector, fault_get(v)
    PROVE  IInv'
  <1> DEFINE k == get_queued(Now, v)
  <1>1. active \in Tcb /\ state[active] = "RUNNING"
    BY CallerRuns DEF fault_get
  <1>2. Become(k) /\ UNCHANGED tableVars /\ UNCHANGED pc /\ has_queued(Now, v)
    BY DEF fault_get
  <1>3. k \in Memory /\ RunQ(k) /\ k.state = Now.state /\ k.active = Now.active
    <2>1. Now \in Memory /\ RunQ(Now)
      BY NowOK
    <2> QED BY <1>2, <2>1, GetQueuedRunQ
  <1> HIDE DEF k
  <1>4. SameFree(Now, k)
    BY <1>3 DEF SameFree
  <1> QED BY <1>1, <1>2, <1>3, <1>4, NowOK, CallStep

\* The return from a call keeps the invariant.
LEMMA RetInv == ASSUME IInv, api_ret PROVE IInv'
  <1>1. active \in Tcb /\ state[active] = "RUNNING"
    BY DEF api_ret, IInv, ActiveOK
  <1>2. pc' \in [Thread -> Location]
    BY ReturnToFields DEF api_ret, Location
  <1>3. Become(Now) /\ UNCHANGED tableVars
    BY UnchangedMemory DEF api_ret
  <1>4. SameFree(Now, Now)
    BY DEF SameFree
  <1> QED BY <1>1, <1>2, <1>3, <1>4, NowOK, CallStep

\* A handler that ends in scheduler_schedule.
LEMMA ScheduleStep ==
    ASSUME IInv, NEW k \in Memory, RunQ(k), SameFree(Now, k),
           k.active # NULL => k.state[k.active] # "QUEUED",
           k.active \in Tcb => k.state[k.active] # "FREE",
           Become(scheduler_schedule(k)), UNCHANGED tableVars,
           pc' \in [Thread -> Location]
    PROVE  IInv'
  <1> DEFINE m == scheduler_schedule(k)
  <1>1. /\ m \in Memory /\ RunQ(m)
        /\ m.active \in Thread
        /\ m.state[m.active] # "QUEUED"
        /\ m.active \in Tcb => m.state[m.active] = "RUNNING"
        /\ SameFree(k, m)
    BY ScheduleRunQ
  <1>2. Become(m)
    OBVIOUS
  <1> HIDE DEF m
  <1>3. SameFree(Now, m)
    BY <1>1 DEF SameFree
  <1> QED BY <1>1, <1>2, <1>3, StepInv

\* The timer keeps the invariant.
LEMMA TimerInv == ASSUME IInv, fault_timer PROVE IInv'
  <1>1. /\ Now.active # NULL => Now.state[Now.active] # "QUEUED"
        /\ Now.active \in Tcb => Now.state[Now.active] # "FREE"
    BY NowOK DEF IInv, ActiveOK
  <1>2. SameFree(Now, Now)
    BY DEF SameFree
  <1> QED BY <1>1, <1>2, NowOK, ScheduleStep DEF fault_timer

\* Taking the active thread off the core.
LEMMA UnloadFields ==
    ASSUME IInv
    PROVE  LET u == ccb_unload_tcb(Now)
           IN  /\ u \in Memory /\ RunQ(u) /\ SameFree(Now, u)
               /\ u.active = NULL /\ u.state = state
  <1> DEFINE u == ccb_unload_tcb(Now)
  <1>1. /\ u \in Memory
        /\ u.state = Now.state /\ u.next = Now.next /\ u.runq = Now.runq
        /\ u.active = NULL
    BY NowOK DEF ccb_unload_tcb, Memory
  <1> HIDE DEF u
  <1>2. RunQ(u)
    <2>1. RunQ(Now)
      BY NowOK
    <2> QED BY <1>1, <2>1, SameRunQ
  <1> QED BY <1>1, <1>2, NowOK DEF SameFree, u

\* int 0xFF keeps the invariant.
LEMMA YieldFaultInv == ASSUME IInv, fault_yield PROVE IInv'
  <1> DEFINE rdi == IF pc[active] = "yield_w" THEN 1 ELSE 0
             k == IF rdi = 0 /\ Now.state[Now.active] # "RUNNING"
                  THEN ccb_unload_tcb(Now) ELSE Now
  <1>1. Become(scheduler_schedule(k)) /\ UNCHANGED tableVars
    BY DEF fault_yield, PostYield
  <1>2. pc' \in [Thread -> Location]
    <2>1. ASSUME NEW loc \in {"exit_r", "wait_r", "user"}, ReturnTo(loc)
          PROVE  pc' \in [Thread -> Location]
      BY <2>1, ReturnToFields DEF Location
    <2>2. \E loc \in {"exit_r", "wait_r", "user"} : ReturnTo(loc)
      BY DEF fault_yield
    <2> QED BY <2>1, <2>2
  <1>3. /\ k \in Memory /\ RunQ(k) /\ SameFree(Now, k)
        /\ k.active # NULL => k.state[k.active] # "QUEUED"
        /\ k.active \in Tcb => k.state[k.active] # "FREE"
    <2>1. CASE k = Now
      <3> HIDE DEF k
      <3>1. /\ Now.active # NULL => Now.state[Now.active] # "QUEUED"
            /\ Now.active \in Tcb => Now.state[Now.active] # "FREE"
        BY NowOK DEF IInv, ActiveOK
      <3> QED BY <2>1, <3>1, NowOK DEF SameFree
    <2>2. CASE k = ccb_unload_tcb(Now)
      <3> HIDE DEF k
      <3>1. k.active = NULL /\ NULL \notin Tcb
        BY <2>2, UnloadFields, FrameAssumption
      <3> QED BY <2>2, <3>1, UnloadFields
    <2> QED BY <2>1, <2>2
  <1> HIDE DEF k
  <1> QED BY <1>1, <1>2, <1>3, ScheduleStep

\* An exception keeps the invariant: it links the thread it takes off the core.
LEMMA ExceptionInv ==
    ASSUME IInv, NEW v \in {PAGEFAULT, MISCFAULT}, fault_exception(v)
    PROVE  IInv'
  <1> DEFINE u == ccb_unload_tcb(Now)
             e == enqueue(u, v, active)
             k == interrupt_vector_fire(e, v)
  <1>1. active \in Tcb /\ active \in Thread /\ state[active] = "RUNNING"
    BY CallerRuns, NowOK DEF fault_exception
  <1>2. /\ Become(scheduler_schedule(k)) /\ UNCHANGED tableVars
        /\ UNCHANGED pc
    BY NowOK DEF fault_exception, TakeFault
  <1>3. /\ u \in Memory /\ RunQ(u) /\ SameFree(Now, u)
        /\ u.active = NULL /\ u.state = state
    BY UnloadFields
  <1> HIDE DEF u
  <1>4. /\ e \in Memory /\ RunQ(e) /\ e.active = NULL /\ SameFree(u, e)
    <2>1. v \in QueueVector
      BY DEF QueueVector
    <2> QED BY <2>1, <1>1, <1>3, EnqueueRunQ
  <1> HIDE DEF e
  <1>5. ActiveNotWaiting(e)
    BY <1>4 DEF ActiveNotWaiting
  <1>6. Fires(e, k)
    BY <1>4, <1>5, FireFires
  <1> HIDE DEF k
  <1>7. /\ k \in Memory /\ RunQ(k) /\ k.active = NULL /\ NULL \notin Tcb
    BY <1>4, <1>6, FrameAssumption DEF Fires
  <1>8. SameFree(Now, k)
    BY <1>3, <1>4, <1>6 DEF SameFree, Fires
  <1>9. pc' \in [Thread -> Location]
    BY <1>2, NowOK
  <1> QED BY <1>2, <1>7, <1>8, <1>9, ScheduleStep

-----------------------------------------------------------------------------
(* The steps that change the thread table.                                 *)

Distinct(s) == \A i, j \in DOMAIN s : s[i] = s[j] => i = j

\* Giving a frame back puts it at the front of the free list.
LEMMA FreeListCons ==
    ASSUME NEW s \in Seq(Tcb), Distinct(s), NEW t \in Tcb, t \notin Elements(s)
    PROVE  LET c == <<t>> \o s
           IN  c \in Seq(Tcb) /\ Distinct(c) /\ Elements(c) = {t} \cup Elements(s)
  <1> DEFINE c == <<t>> \o s
             n == Len(s)
  <1>1. /\ c \in Seq(Tcb) /\ n \in Nat
        /\ DOMAIN s = 1..n /\ DOMAIN c = 1..(n + 1)
        /\ c[1] = t
        /\ \A i \in 1..n : c[i + 1] = s[i]
    OBVIOUS
  <1> HIDE DEF c
  <1>2. \A i \in 1..(n + 1) : i = 1 \/ (i - 1 \in 1..n /\ c[i] = s[i - 1])
    <2> TAKE i \in 1..(n + 1)
    <2>1. CASE i # 1
      <3>1. i - 1 \in 1..n /\ (i - 1) + 1 = i
        BY <2>1, <1>1
      <3> QED BY <3>1, <1>1
    <2> QED BY <2>1
  <1>3. \A i \in 1..n : s[i] # t
    BY <1>1 DEF Elements
  <1>4. Distinct(c)
    <2> SUFFICES ASSUME NEW i \in 1..(n + 1), NEW j \in 1..(n + 1), c[i] = c[j]
                 PROVE  i = j
      BY <1>1 DEF Distinct
    <2>1. CASE i = 1 \/ j = 1
      BY <2>1, <1>1, <1>2, <1>3
    <2>2. CASE i # 1 /\ j # 1
      <3>1. i - 1 \in 1..n /\ j - 1 \in 1..n /\ s[i - 1] = s[j - 1]
        BY <2>2, <1>2
      <3>2. i - 1 = j - 1
        BY <3>1, <1>1 DEF Distinct
      <3> QED BY <3>2, <1>1
    <2> QED BY <2>1, <2>2
  <1>5. Elements(c) \subseteq {t} \cup Elements(s)
    BY <1>1, <1>2, SMTT(30), ZenonT(40) DEF Elements
  <1>6. t \in Elements(c)
    BY <1>1 DEF Elements
  <1>7. Elements(s) \subseteq Elements(c)
    <2> SUFFICES ASSUME NEW i \in 1..n PROVE s[i] \in Elements(c)
      BY <1>1 DEF Elements
    <2>1. i + 1 \in 1..(n + 1) /\ c[i + 1] = s[i]
      BY <1>1
    <2> QED BY <2>1, <1>1 DEF Elements
  <1> QED BY <1>1, <1>4, <1>5, <1>6, <1>7 DEF c

\* What tcb_alloc returns is free and is taken from the lists.
LEMMA AllocFields ==
    ASSUME IInv, NEW t \in Allocatable
    PROVE  /\ t \in Tcb /\ state[t] = "FREE"
           /\ ListAfterAlloc \in Seq(Tcb) /\ Distinct(ListAfterAlloc)
           /\ Elements(ListAfterAlloc) \subseteq Elements(freelist) \ {t}
           /\ FreshAfterAlloc(t) \subseteq fresh \ {t}
          /\ (Elements(freelist) \cup fresh) \ {t}
                \subseteq Elements(ListAfterAlloc) \cup FreshAfterAlloc(t)
           /\ (Elements(freelist) \cup fresh) \ {t}
                 \subseteq Elements(ListAfterAlloc) \cup FreshAfterAlloc(t)
  <1>1. /\ freelist \in Seq(Tcb) /\ fresh \subseteq Tcb
        /\ Distinct(freelist)
        /\ \A u \in Elements(freelist) : state[u] = "FREE"
        /\ \A u \in fresh : state[u] = "FREE"
    BY DEF IInv, TypeOK, TableOK, Distinct
  <1>2. CASE freelist = << >>
    <2>1. t \in fresh /\ ListAfterAlloc = << >>
      BY <1>2 DEF Allocatable, ListAfterAlloc
    <2>2. Distinct(<< >>) /\ Elements(<< >>) = {}
      BY DEF Distinct, Elements
    <2>3. Elements(freelist) = {}
      BY <1>2, <2>2
    <2> QED BY <1>1, <2>1, <2>2, <2>3 DEF FreshAfterAlloc
  <1>3. CASE freelist # << >>
    <2> DEFINE n == Len(freelist)
               l == Tail(freelist)
    <2>1. /\ t = freelist[1] /\ ListAfterAlloc = l
      BY <1>3 DEF Allocatable, ListAfterAlloc
    <2>2. /\ n \in Nat /\ n >= 1 /\ DOMAIN freelist = 1..n
          /\ l \in Seq(Tcb)
          /\ DOMAIN l = 1..(n - 1)
          /\ \A i \in 1..(n - 1) : l[i] = freelist[i + 1]
      BY <1>1, <1>3
    <2> HIDE DEF l
    <2>3. t \in Elements(freelist) /\ t \in Tcb
      BY <1>1, <2>1, <2>2 DEF Elements
    <2>4. Distinct(l)
      <3> SUFFICES ASSUME NEW i \in 1..(n - 1), NEW j \in 1..(n - 1), l[i] = l[j]
                   PROVE  i = j
        BY <2>2 DEF Distinct
      <3>1. /\ i + 1 \in 1..n /\ j + 1 \in 1..n
            /\ freelist[i + 1] = freelist[j + 1]
        BY <2>2
      <3>2. i + 1 = j + 1
        BY <3>1, <2>2, <1>1 DEF Distinct
      <3> QED BY <3>2
    <2>5. Elements(l) \subseteq Elements(freelist) \ {t}
      <3> SUFFICES ASSUME NEW i \in 1..(n - 1)
                   PROVE  l[i] \in Elements(freelist) /\ l[i] # t
        BY <2>2 DEF Elements
      <3>1. i + 1 \in 1..n /\ 1 \in 1..n /\ i + 1 # 1 /\ l[i] = freelist[i + 1]
        BY <2>2
      <3>2. freelist[i + 1] # freelist[1]
        BY <3>1, <2>2, <1>1 DEF Distinct
      <3> QED BY <3>1, <3>2, <2>1, <2>2 DEF Elements
    <2>6. Elements(freelist) \ {t} \subseteq Elements(l)
      <3> SUFFICES ASSUME NEW i \in 1..n, freelist[i] # t
                   PROVE  freelist[i] \in Elements(l)
        BY <2>2 DEF Elements
      <3>1. i # 1 /\ i - 1 \in 1..(n - 1) /\ (i - 1) + 1 = i
        BY <2>1, <2>2
      <3>2. l[i - 1] = freelist[i]
        BY <2>2, <3>1
      <3> QED BY <2>2, <3>1, <3>2 DEF Elements
    <2>7. Elements(ListAfterAlloc) = Elements(l) /\ FreshAfterAlloc(t) = fresh \ {t}
      BY <2>1 DEF FreshAfterAlloc
    <2> QED BY <1>1, <2>1, <2>2, <2>3, <2>4, <2>5, <2>6, <2>7
  <1> QED BY <1>2, <1>3

\* The part of the invariant that is not about the table.
LEMMA MemoryStep ==
    ASSUME IInv, active \in Tcb, state[active] = "RUNNING",
           NEW t \in Tcb, t # active, state[t] # "QUEUED",
           NEW s \in State \ {"QUEUED"},
           Become([Now EXCEPT !.state[t] = s]), pc' \in [Thread -> Location]
    PROVE  /\ Now' \in Memory /\ active' # NULL
           /\ RunQueueOK' /\ ActiveOK'
           /\ state' = [state EXCEPT ![t] = s]
  <1> DEFINE k == [Now EXCEPT !.state[t] = s]
  <1>1. [state EXCEPT ![t] = s] \in [Thread -> State]
    BY NowOK
  <1>2. k = [Now EXCEPT !.state = [state EXCEPT ![t] = s]]
    BY NowOK
  <1>3. Become(k)
    OBVIOUS
  <1> HIDE DEF k
  <1>4. /\ k \in Memory
        /\ k.state = [state EXCEPT ![t] = s]
        /\ k.next = Now.next /\ k.runq = Now.runq /\ k.active = active
    BY <1>1, <1>2, NowOK DEF Memory
  <1>5. \A u \in Thread : k.state[u] = "QUEUED" <=> Now.state[u] = "QUEUED"
    BY <1>4, NowOK
  <1>6. RunQ(k)
    <2>1. RunQ(Now)
      BY NowOK
    <2> QED BY <1>4, <1>5, <2>1, SameRunQ
  <1>7. Now' = k
    BY <1>3, <1>4, BecomeNow
  <1>8. state' = k.state /\ active' = active
    BY <1>3, <1>4 DEF Become
  <1>9. state'[active] = "RUNNING"
    BY <1>4, <1>8, NowOK
  <1>10. RunQueueOK'
    BY <1>6, <1>7, <1>8, <1>9 DEF RunQ, RunQueueOK
  <1>11. ActiveOK'
    BY <1>8, <1>9 DEF ActiveOK
  <1>12. active' # NULL
    BY <1>8, FrameAssumption
  <1> QED BY <1>4, <1>7, <1>8, <1>10, <1>11, <1>12

\* thread_create keeps the invariant, when tcb_new finds a slot and when not.
LEMMA CreateInv == ASSUME IInv, thread_create PROVE IInv'
  <1>1. active \in Tcb /\ state[active] = "RUNNING"
    BY CallerRuns DEF thread_create
  <1>2. pc' \in [Thread -> Location]
    BY ReturnToFields DEF thread_create, Location
  <1>3. CASE UNCHANGED <<memoryVars, tableVars>>
    <2>1. Become(Now) /\ UNCHANGED tableVars
      BY <1>3, UnchangedMemory
    <2>2. SameFree(Now, Now)
      BY DEF SameFree
    <2> QED BY <1>1, <1>2, <2>1, <2>2, NowOK, CallStep
  <1>4. ASSUME NEW t \in Allocatable, TcbNew(t),
               Become([Now EXCEPT !.state[t] = "SUSPENDED"])
        PROVE  IInv'
    <2>1. /\ t \in Tcb /\ state[t] = "FREE" /\ t # active
          /\ ListAfterAlloc \in Seq(Tcb) /\ Distinct(ListAfterAlloc)
          /\ Elements(ListAfterAlloc) \subseteq Elements(freelist) \ {t}
          /\ FreshAfterAlloc(t) \subseteq fresh \ {t}
          /\ (Elements(freelist) \cup fresh) \ {t}
                \subseteq Elements(ListAfterAlloc) \cup FreshAfterAlloc(t)
      BY <1>1, AllocFields
    <2>2. /\ Now' \in Memory /\ active' # NULL /\ RunQueueOK' /\ ActiveOK'
          /\ state' = [state EXCEPT ![t] = "SUSPENDED"]
      <3>1. "SUSPENDED" \in State \ {"QUEUED"}
        BY DEF State
      <3> QED BY <1>1, <1>2, <1>4, <2>1, <3>1, MemoryStep
    <2>3. PICK i \in EmptySlots :
             /\ table' = [table EXCEPT ![i] = t]
             /\ id' = [id EXCEPT ![t] = i]
             /\ freelist' = ListAfterAlloc
             /\ fresh' = FreshAfterAlloc(t)
      BY <1>4 DEF TcbNew
    <2>4. /\ i \in Id /\ table[i] = NULL
          /\ id \in [Thread -> {JunkId} \cup 0..MaxId]
          /\ table \in [Id -> Tcb \cup {NULL}]
          /\ fresh \subseteq Tcb /\ state \in [Thread -> State]
          /\ Tcb \subseteq Thread /\ NULL \notin Tcb
      BY <2>3, NowOK, FrameAssumption DEF EmptySlots, IInv, TypeOK
    <2>5. TypeOK'
      <3>1. i \in 0..MaxId
        BY <2>4, FrameAssumption DEF Id
      <3> QED BY <1>2, <2>1, <2>2, <2>3, <2>4, <3>1 DEF TypeOK
    <2>6. TableOK'
      <3>1. \A x \in Id : table'[x] # NULL =>
                id'[table'[x]] = x /\ state'[table'[x]] # "FREE"
        BY <2>1, <2>2, <2>3, <2>4 DEF IInv, TableOK
      <3>2. \A u \in Tcb : state'[u] # "FREE" =>
                id'[u] \in Id /\ table'[id'[u]] = u
        BY <2>1, <2>2, <2>3, <2>4 DEF IInv, TableOK
      <3>3. \A u \in Elements(freelist') : state'[u] = "FREE" /\ u \notin fresh'
        <4>0. /\ \A u \in Elements(freelist) : state[u] = "FREE" /\ u \notin fresh
              /\ Elements(freelist) \subseteq Tcb
          BY DEF IInv, TableOK, TypeOK, Elements
        <4>1. \A u \in Elements(ListAfterAlloc) :
                  u # t /\ state[u] = "FREE" /\ u \notin fresh /\ u \in Thread
          <5>1. Elements(ListAfterAlloc) \subseteq Elements(freelist) \ {t}
            BY <2>1
          <5> QED BY <2>4, <4>0, <5>1
        <4> QED BY <4>1, <2>1, <2>2, <2>3, <2>4
      <3>4. \A u \in fresh' : state'[u] = "FREE"
        BY <2>1, <2>2, <2>3, <2>4 DEF IInv, TableOK
      <3>5. \A x, y \in DOMAIN freelist' : freelist'[x] = freelist'[y] => x = y
        BY <2>1, <2>3 DEF Distinct
      <3>6. \A u \in Tcb : state'[u] = "FREE" => u \in Elements(freelist') \cup fresh'
        <4>0. state'[t] = "SUSPENDED" /\ \A u \in Thread \ {t} : state'[u] = state[u]
          BY <2>1, <2>2, <2>4
        <4>1. \A u \in Tcb : state'[u] = "FREE" => u # t /\ state[u] = "FREE"
          BY <2>4, <4>0
        <4>2. \A u \in Tcb : state[u] = "FREE" => u \in Elements(freelist) \cup fresh
          BY DEF IInv, TableOK
        <4>3. Elements(freelist') = Elements(ListAfterAlloc) /\ fresh' = FreshAfterAlloc(t)
          BY <2>3
        <4>4. (Elements(freelist) \cup fresh) \ {t} \subseteq Elements(freelist') \cup fresh'
          BY <2>1, <4>3
        <4> QED BY <4>1, <4>2, <4>4
      <3> QED BY <3>1, <3>2, <3>3, <3>4, <3>5, <3>6 DEF TableOK
    <2> QED BY <2>2, <2>5, <2>6 DEF IInv
  <1>5. ASSUME NEW t \in Allocatable, TcbNewNoSlot(t), UNCHANGED memoryVars
        PROVE  IInv'
    <2>1. /\ t \in Tcb /\ state[t] = "FREE"
          /\ ListAfterAlloc \in Seq(Tcb) /\ Distinct(ListAfterAlloc)
          /\ Elements(ListAfterAlloc) \subseteq Elements(freelist) \ {t}
          /\ FreshAfterAlloc(t) \subseteq fresh \ {t}
          /\ (Elements(freelist) \cup fresh) \ {t}
                \subseteq Elements(ListAfterAlloc) \cup FreshAfterAlloc(t)
      BY AllocFields
    <2>2. /\ freelist' \in Seq(Tcb) /\ Distinct(freelist')
          /\ Elements(freelist') = {t} \cup Elements(ListAfterAlloc)
      BY <1>5, <2>1, FreeListCons DEF TcbNewNoSlot
    <2>3. /\ fresh' = FreshAfterAlloc(t)
          /\ id' = [id EXCEPT ![t] = LinkId(ListAfterAlloc)]
          /\ table' = table
          /\ Now' = Now /\ state' = state /\ active' = active
      BY <1>5 DEF TcbNewNoSlot, memoryVars, Now
    <2>4. /\ id \in [Thread -> {JunkId} \cup 0..MaxId]
          /\ table \in [Id -> Tcb \cup {NULL}]
          /\ fresh \subseteq Tcb /\ Tcb \subseteq Thread /\ NULL \notin Tcb
          /\ Now \in Memory /\ active # NULL
      BY NowOK, FrameAssumption DEF IInv, TypeOK
    <2>5. TypeOK'
      <3>1. LinkId(ListAfterAlloc) \in {JunkId} \cup 0..MaxId
        BY FrameAssumption DEF LinkId
      <3> QED BY <1>2, <2>1, <2>2, <2>3, <2>4, <3>1 DEF TypeOK
    <2>6. TableOK'
      <3>1. \A x \in Id : table'[x] # NULL =>
                id'[table'[x]] = x /\ state'[table'[x]] # "FREE"
        BY <2>1, <2>3, <2>4 DEF IInv, TableOK
      <3>2. \A u \in Tcb : state'[u] # "FREE" =>
                id'[u] \in Id /\ table'[id'[u]] = u
        BY <2>1, <2>3, <2>4 DEF IInv, TableOK
      <3>3. \A u \in Elements(freelist') : state'[u] = "FREE" /\ u \notin fresh'
        BY <2>1, <2>2, <2>3 DEF IInv, TableOK
      <3>4. \A u \in fresh' : state'[u] = "FREE"
        BY <2>1, <2>3 DEF IInv, TableOK
      <3>5. \A x, y \in DOMAIN freelist' : freelist'[x] = freelist'[y] => x = y
        BY <2>2 DEF Distinct
      <3>6. \A u \in Tcb : state'[u] = "FREE" => u \in Elements(freelist') \cup fresh'
        <4>1. \A u \in Tcb : state[u] = "FREE" => u \in Elements(freelist) \cup fresh
          BY DEF IInv, TableOK
        <4> QED BY <2>1, <2>2, <2>3, <4>1
      <3> QED BY <3>1, <3>2, <3>3, <3>4, <3>5, <3>6 DEF TableOK
    <2>7. RunQueueOK'
      BY <2>3 DEF IInv, RunQueueOK
    <2>8. ActiveOK'
      BY <1>1, <2>3 DEF ActiveOK
    <2> QED BY <2>5, <2>6, <2>7, <2>8 DEF IInv
  <1> QED BY <1>3, <1>4, <1>5 DEF thread_create

\* thread_reap keeps the invariant.
LEMMA ReapInv ==
    ASSUME IInv, NEW th \in ThreadArg, thread_reap(th)
    PROVE  IInv'
  <1> DEFINE t == tcb_get(th)
  <1>1. active \in Tcb /\ state[active] = "RUNNING"
    BY CallerRuns DEF thread_reap
  <1>2. /\ t \in Tcb /\ state[t] = "SUSPENDED" /\ t # active
        /\ TcbDel(t) /\ Become([Now EXCEPT !.state[t] = "FREE"])
        /\ UNCHANGED pc
    BY <1>1, NamedThread DEF thread_reap
  <1> HIDE DEF t
  <1>3. /\ Now' \in Memory /\ active' # NULL /\ RunQueueOK' /\ ActiveOK'
        /\ state' = [state EXCEPT ![t] = "FREE"]
    <2>1. "FREE" \in State \ {"QUEUED"} /\ pc' \in [Thread -> Location]
      BY <1>2, NowOK DEF State
    <2> QED BY <1>1, <1>2, <2>1, MemoryStep
  <1>4. /\ id \in [Thread -> {JunkId} \cup 0..MaxId]
        /\ table \in [Id -> Tcb \cup {NULL}]
        /\ freelist \in Seq(Tcb) /\ Distinct(freelist)
        /\ fresh \subseteq Tcb /\ state \in [Thread -> State]
        /\ pc \in [Thread -> Location]
        /\ Tcb \subseteq Thread /\ NULL \notin Tcb
        /\ id[t] \in Id /\ table[id[t]] = t
        /\ t \notin Elements(freelist) /\ t \notin fresh
    BY <1>2, NowOK, FrameAssumption DEF IInv, TypeOK, TableOK, Distinct
  <1>5. /\ table' = [table EXCEPT ![id[t]] = NULL]
        /\ freelist' \in Seq(Tcb) /\ Distinct(freelist')
        /\ Elements(freelist') = {t} \cup Elements(freelist)
        /\ id' = [id EXCEPT ![t] = LinkId(freelist)]
        /\ fresh' = fresh
    BY <1>2, <1>4, FreeListCons DEF TcbDel
  <1>6. TypeOK'
    <2>1. LinkId(freelist) \in {JunkId} \cup 0..MaxId
      BY FrameAssumption DEF LinkId
    <2> QED BY <1>2, <1>3, <1>4, <1>5, <2>1 DEF TypeOK
  <1>7. TableOK'
    <2>1. \A x \in Id : table'[x] # NULL =>
              id'[table'[x]] = x /\ state'[table'[x]] # "FREE"
      BY <1>2, <1>3, <1>4, <1>5 DEF IInv, TableOK
    <2>2. \A u \in Tcb : state'[u] # "FREE" =>
              id'[u] \in Id /\ table'[id'[u]] = u
      BY <1>2, <1>3, <1>4, <1>5 DEF IInv, TableOK
    <2>3. \A u \in Elements(freelist') : state'[u] = "FREE" /\ u \notin fresh'
      <3>1. Elements(freelist) \subseteq Tcb
        BY <1>4 DEF Elements
      <3> QED BY <1>2, <1>3, <1>4, <1>5, <3>1 DEF IInv, TableOK
    <2>4. \A u \in fresh' : state'[u] = "FREE"
      BY <1>3, <1>4, <1>5 DEF IInv, TableOK
    <2>5. \A x, y \in DOMAIN freelist' : freelist'[x] = freelist'[y] => x = y
      BY <1>5 DEF Distinct
    <2>6. \A u \in Tcb : state'[u] = "FREE" => u \in Elements(freelist') \cup fresh'
      <3>1. \A u \in Tcb : state[u] = "FREE" => u \in Elements(freelist) \cup fresh
        BY DEF IInv, TableOK
      <3>2. \A u \in Tcb : u # t /\ state'[u] = "FREE" => state[u] = "FREE"
        BY <1>3, <1>4
      <3> QED BY <1>5, <3>1, <3>2
    <2> QED BY <2>1, <2>2, <2>3, <2>4, <2>5, <2>6 DEF TableOK
  <1> QED BY <1>3, <1>6, <1>7 DEF IInv

-----------------------------------------------------------------------------
(* The theorems.                                                           *)

\* init() establishes the invariant.
LEMMA InitInv == Init => IInv
  <1> SUFFICES ASSUME Init PROVE IInv
    OBVIOUS
  <1>1. /\ active \in Tcb /\ active \in Thread /\ active # NULL
        /\ active # Idle /\ Idle \in Thread /\ NULL \notin Thread
        /\ Tcb \subseteq Thread
    BY FrameAssumption DEF Init, Thread
  <1>2. Now \in Memory
    <2>1. state \in [Thread -> State]
      BY DEF Init, State
    <2>2. next \in [Thread -> Thread \cup {NULL}]
      BY DEF Init
    <2>3. tap \in [Thread -> [TapIndex -> Tap]]
      <3>1. NoTap \in Tap
        BY VectorAssumption, SMTT(30), ZenonT(40) DEF NoTap, Tap
      <3>2. [j \in TapIndex |-> NoTap] \in [TapIndex -> Tap]
        BY <3>1
      <3>3. PICK f \in [Tcb -> FreshTaps] :
                tap = [t \in Thread |-> IF t = Idle
                                       THEN [j \in TapIndex |-> NoTap] ELSE f[t]]
        BY DEF Init
      <3>4. \A t \in Tcb : f[t] \in [TapIndex -> Tap]
        BY <3>3, VectorAssumption, SMTT(30), ZenonT(40)
      <3>5. \A t \in Thread : t = Idle \/ t \in Tcb
        BY DEF Thread
      <3> QED BY <3>2, <3>3, <3>4, <3>5
    <2>4. runq \in Seq(Thread)
      BY DEF Init
    <2>5. qhead \in [QueueVector -> Thread \cup {NULL}]
      BY DEF Init
    <2>6. route \in [MappedVector -> [Slot -> Thread \cup {NULL}]]
      BY DEF Init
    <2> QED BY <1>1, <2>1, <2>2, <2>3, <2>4, <2>5, <2>6 DEF Memory, Now
  <1>3. TypeOK
    <2>1. id \in [Thread -> {JunkId} \cup 0..MaxId]
      BY FrameAssumption DEF Init
    <2>2. table \in [Id -> Tcb \cup {NULL}]
      BY <1>1 DEF Init
    <2>3. freelist \in Seq(Tcb) /\ fresh \subseteq Tcb
      BY DEF Init
    <2>4. pc \in [Thread -> Location]
      BY DEF Init, Location
    <2> QED BY <1>1, <1>2, <2>1, <2>2, <2>3, <2>4 DEF TypeOK
  <1>4. RunQueueOK
    BY <1>1 DEF Init, RunQueueOK, QueueLinked, QueuedOnce, QueuedIffInQueue,
                Now, Elements
  <1>5. TableOK
    <2>1. 1 \in Id
      BY FrameAssumption DEF Id
    <2>2. freelist = << >> /\ DOMAIN freelist = {} /\ Elements(freelist) = {}
      BY DEF Init, Elements
    <2>3. /\ \A t \in Thread : state[t] = IF t = active THEN "RUNNING" ELSE "FREE"
          /\ \A t \in Thread : id[t] = IF t = active THEN 1 ELSE 0
          /\ \A i \in Id : table[i] = IF i = 1 THEN active ELSE NULL
          /\ fresh = Tcb \ {active}
      BY DEF Init
    <2> QED BY <1>1, <2>1, <2>2, <2>3 DEF TableOK
  <1>6. ActiveOK
    BY <1>1 DEF Init, ActiveOK
  <1> QED BY <1>3, <1>4, <1>5, <1>6 DEF IInv

\* Every step of the kernel keeps the invariant.
LEMMA NextInv == IInv /\ [Next]_vars => IInv'
  <1> SUFFICES ASSUME IInv, [Next]_vars PROVE IInv'
    OBVIOUS
  <1>1. CASE UNCHANGED vars
    BY <1>1 DEF vars, memoryVars, tableVars, IInv, TypeOK, RunQueueOK, TableOK,
                ActiveOK, Now, QueueLinked, QueuedOnce, QueuedIffInQueue
  <1>2. CASE Api
    <2>1. ASSUME NEW th \in ThreadArg,
                 thread_pause(th) \/ thread_resume(th) \/ thread_reap(th)
                   \/ thread_push_state(th)
          PROVE  IInv'
      BY <2>1, PauseInv, ResumeInv, ReapInv, PushStateInv
    <2>2. ASSUME NEW c \in TapChoice, interrupt_set_tap(c[1], c[2])
          PROVE  IInv'
      <3>1. c[1] \in TapIndex /\ c[2] \in Vector
        BY TapAssumption
      <3> QED BY <2>2, <3>1, SetTapInv
    <2>3. ASSUME NEW v \in Vector, interrupt_reset(v) PROVE IInv'
      BY <2>3, ResetInv
    <2>4. ASSUME NEW v \in QueueVector, fault_get(v) PROVE IInv'
      BY <2>4, FaultGetInv
    <2>5. CASE thread_yield BY <2>5, YieldInv
    <2>6. CASE thread_create BY <2>6, CreateInv
    <2>7. CASE thread_exit BY <2>7, ExitInv
    <2>8. CASE interrupt_wait BY <2>8, WaitInv
    <2>9. CASE api_ret BY <2>9, RetInv
    <2> QED BY <1>2, <2>1, <2>2, <2>3, <2>4, <2>5, <2>6, <2>7, <2>8, <2>9
        DEF Api
  <1>3. CASE Fault
    <2>1. ASSUME NEW v \in {PAGEFAULT, MISCFAULT}, fault_exception(v)
          PROVE  IInv'
      BY <2>1, ExceptionInv
    <2> QED BY <1>3, <2>1, TimerInv, YieldFaultInv DEF Fault
  <1> QED BY <1>1, <1>2, <1>3 DEF Next

\* The inductive invariant holds in every reachable state: besides the three
\* properties below, the thread on the core is live, and RUNNING outside the
\* windows of the calls that suspend it or make it wait (api.s).
THEOREM Invariance == Spec => []IInv
  <1> QED BY InitInv, NextInv, PTL DEF Spec

\* Every field of the kernel's data keeps its type, and the core is never left
\* without a TCB: scheduler_schedule injects the idle one.
THEOREM TypeCorrect == Spec => []TypeOK
  <1>1. IInv => TypeOK
    BY DEF IInv
  <1> QED BY <1>1, Invariance, PTL

\* The run queue (scheduler.c) is a sound list of exactly the QUEUED threads,
\* without the thread on the core.
THEOREM RunQueueCorrect == Spec => []RunQueueOK
  <1>1. IInv => RunQueueOK
    BY DEF IInv
  <1> QED BY <1>1, Invariance, PTL

\* Thread ids, TCB frames and the allocator's lists stay in step (tcb.c).
THEOREM TableCorrect == Spec => []TableOK
  <1>1. IInv => TableOK
    BY DEF IInv
  <1> QED BY <1>1, Invariance, PTL
=============================================================================

-------------------------- MODULE SupervisedProofs --------------------------
(***************************************************************************)
(* Proofs about Supervised: the fault queues under a client that does not  *)
(* pause a faulted thread, for every value of the constants.               *)
(***************************************************************************)
EXTENDS Supervised, WaitProofs

\* FaultQueueOK, of a Memory k and the uncollected threads f.
FaultQueueIn(k, f) ==
    \A v \in FaultVector :
        /\ k.qhead[v] = IF f[v] = << >> THEN NULL ELSE f[v][1]
        /\ \A i \in DOMAIN f[v] :
              /\ k.next[f[v][i]] = IF i = Len(f[v]) THEN NULL ELSE f[v][i + 1]
              /\ k.state[f[v][i]] = "RUNNING" /\ f[v][i] # k.active
              /\ \A w \in FaultVector : \A j \in DOMAIN f[w] :
                    f[w][j] = f[v][i] => w = v /\ j = i

FaultedOK == faulted \in [FaultVector -> Seq(Tcb)]

\* The two ways to say it agree.
LEMMA FaultQueueNow == FaultQueueOK <=> FaultQueueIn(Now, faulted)
  BY DEF FaultQueueOK, FaultQueueIn, Now

\* A step that leaves alone the fault queues and the threads that are RUNNING
\* off the core, those of X excepted.
Spares(k, m, X) ==
    /\ \A v \in FaultVector : m.qhead[v] = k.qhead[v]
    /\ \A t \in Tcb \ X :
          k.state[t] = "RUNNING" /\ t # k.active =>
              /\ m.state[t] = "RUNNING" /\ t # m.active
              /\ m.next[t] = k.next[t]

\* Two such steps are one.
LEMMA SparesTransitive ==
    ASSUME NEW k, NEW l, NEW m, NEW X, Spares(k, l, X), Spares(l, m, X)
    PROVE  Spares(k, m, X)
  BY DEF Spares

\* Such a step keeps the fault queues, if X has none of their threads.
LEMMA SparesQueue ==
    ASSUME NEW k, NEW m, NEW X, NEW f \in [FaultVector -> Seq(Tcb)],
           FaultQueueIn(k, f), Spares(k, m, X),
           \A v \in FaultVector : \A i \in DOMAIN f[v] : f[v][i] \notin X
    PROVE  FaultQueueIn(m, f)
  <1>1. \A v \in FaultVector : \A i \in DOMAIN f[v] : f[v][i] \in Tcb
    OBVIOUS
  <1>2. \A v \in FaultVector : \A i \in DOMAIN f[v] :
            /\ m.state[f[v][i]] = "RUNNING" /\ f[v][i] # m.active
            /\ m.next[f[v][i]] = k.next[f[v][i]]
    BY <1>1 DEF FaultQueueIn, Spares
  <1> QED BY <1>2 DEF FaultQueueIn, Spares

\* A sequence with one more element in front, index by index.
LEMMA ConsIndices ==
    ASSUME NEW S, NEW s \in Seq(S), NEW t \in S
    PROVE  LET c == <<t>> \o s
           IN  /\ c \in Seq(S) /\ c # << >> /\ c[1] = t
               /\ Len(c) = Len(s) + 1
               /\ DOMAIN c = 1..(Len(s) + 1) /\ DOMAIN s = 1..Len(s)
               /\ Len(s) \in Nat
               /\ \A i \in 1..Len(s) : i + 1 \in DOMAIN c /\ c[i + 1] = s[i]
               /\ \A i \in DOMAIN c :
                     i = 1 \/ (i - 1 \in DOMAIN s /\ c[i] = s[i - 1])
  <1> DEFINE c == <<t>> \o s
             n == Len(s)
  <1>1. /\ c \in Seq(S) /\ n \in Nat /\ Len(c) = n + 1
        /\ DOMAIN s = 1..n /\ DOMAIN c = 1..(n + 1)
        /\ c[1] = t
        /\ \A i \in 1..n : c[i + 1] = s[i]
    OBVIOUS
  <1> HIDE DEF c
  <1>2. \A i \in 1..(n + 1) : i = 1 \/ (i - 1 \in 1..n /\ c[i] = s[i - 1])
    <2> SUFFICES ASSUME NEW i \in 1..(n + 1), i # 1
                 PROVE  i - 1 \in 1..n /\ c[i] = s[i - 1]
      OBVIOUS
    <2>1. i - 1 \in 1..n /\ (i - 1) + 1 = i
      BY <1>1
    <2> QED BY <2>1, <1>1
  <1>3. c # << >>
    BY <1>1
  <1>4. \A i \in 1..n : i + 1 \in 1..(n + 1)
    BY <1>1
  <1> QED BY <1>1, <1>2, <1>3, <1>4 DEF c

\* A sequence without its first element, index by index.
LEMMA TailIndices ==
    ASSUME NEW S, NEW s \in Seq(S), s # << >>
    PROVE  LET l == Tail(s)
           IN  /\ l \in Seq(S)
               /\ Len(s) \in Nat /\ Len(s) >= 1 /\ Len(l) = Len(s) - 1
               /\ DOMAIN s = 1..Len(s) /\ DOMAIN l = 1..(Len(s) - 1)
               /\ l = << >> <=> Len(s) = 1
               /\ \A i \in DOMAIN l : i + 1 \in DOMAIN s /\ l[i] = s[i + 1]
  <1> DEFINE l == Tail(s)
             n == Len(s)
  <1>1. /\ n \in Nat /\ n >= 1 /\ DOMAIN s = 1..n
        /\ l \in Seq(S) /\ Len(l) = n - 1 /\ DOMAIN l = 1..(n - 1)
        /\ \A i \in 1..(n - 1) : l[i] = s[i + 1]
    OBVIOUS
  <1>2. l = << >> <=> n = 1
    BY <1>1
  <1>3. \A i \in 1..(n - 1) : i + 1 \in 1..n
    BY <1>1
  <1> QED BY <1>1, <1>2, <1>3

\* The thread on the core takes a fault: it joins the front of the queue.
LEMMA FaultPushed ==
    ASSUME NEW k \in Memory, NEW f \in [FaultVector -> Seq(Tcb)],
           FaultQueueIn(k, f), NEW v \in FaultVector,
           k.active \in Tcb, k.state[k.active] = "RUNNING"
    PROVE  LET e == enqueue(ccb_unload_tcb(k), v, k.active)
               g == [f EXCEPT ![v] = <<k.active>> \o @]
           IN  FaultQueueIn(e, g) /\ g \in [FaultVector -> Seq(Tcb)]
  <1> DEFINE a == k.active
             c == <<a>> \o f[v]
             e == enqueue(ccb_unload_tcb(k), v, a)
             g == [f EXCEPT ![v] = c]
  <1>1. /\ a \in Thread /\ NULL \notin Tcb /\ v \in QueueVector
        /\ FaultVector \subseteq QueueVector
    BY FrameAssumption DEF Thread, FaultVector, QueueVector
  <1>2. /\ e.state = k.state /\ e.active = NULL
        /\ e.next = [k.next EXCEPT ![a] = k.qhead[v]]
        /\ e.qhead = [k.qhead EXCEPT ![v] = a]
    BY DEF enqueue, ccb_unload_tcb, Memory
  <1>3. /\ e.next[a] = k.qhead[v]
        /\ \A t \in Thread : t # a => e.next[t] = k.next[t]
        /\ e.qhead[v] = a
        /\ \A w \in FaultVector : w # v => e.qhead[w] = k.qhead[w]
    BY <1>1, <1>2 DEF Memory
  <1>4. /\ c \in Seq(Tcb) /\ c # << >> /\ c[1] = a
        /\ Len(c) = Len(f[v]) + 1
        /\ DOMAIN c = 1..(Len(f[v]) + 1) /\ DOMAIN f[v] = 1..Len(f[v])
        /\ Len(f[v]) \in Nat
        /\ \A i \in 1..Len(f[v]) : i + 1 \in DOMAIN c /\ c[i + 1] = f[v][i]
        /\ \A i \in DOMAIN c :
              i = 1 \/ (i - 1 \in DOMAIN f[v] /\ c[i] = f[v][i - 1])
    BY ConsIndices
  <1> HIDE DEF c, e
  <1>5. /\ g \in [FaultVector -> Seq(Tcb)] /\ g[v] = c
        /\ \A w \in FaultVector : w # v => g[w] = f[w]
    BY <1>4
  <1> HIDE DEF g
  <1>6. \A w \in FaultVector : \A i \in DOMAIN f[w] :
            f[w][i] # a /\ f[w][i] \in Thread /\ f[w][i] \in Tcb
    BY DEF FaultQueueIn, Thread
  \* Every place in g but the front is one in f.
  <1> DEFINE Place(w, i) == IF w = v THEN i - 1 ELSE i
  <1>7. \A w \in FaultVector : \A i \in DOMAIN g[w] :
            \/ w = v /\ i = 1 /\ g[w][i] = a
            \/ ~(w = v /\ i = 1) /\ Place(w, i) \in DOMAIN f[w]
               /\ g[w][i] = f[w][Place(w, i)]
    BY <1>4, <1>5
  <1>8. \A w, x \in FaultVector : \A i \in DOMAIN g[w] : \A j \in DOMAIN g[x] :
            g[x][j] = g[w][i] => x = w /\ j = i
    <2> SUFFICES ASSUME NEW w \in FaultVector, NEW x \in FaultVector,
                        NEW i \in DOMAIN g[w], NEW j \in DOMAIN g[x],
                        g[x][j] = g[w][i]
                 PROVE  x = w /\ j = i
      OBVIOUS
    <2>1. CASE w = v /\ i = 1
      BY <2>1, <1>6, <1>7
    <2>2. CASE x = v /\ j = 1
      BY <2>2, <1>6, <1>7
    <2>3. CASE ~(w = v /\ i = 1) /\ ~(x = v /\ j = 1)
      <3>1. x = w /\ Place(x, j) = Place(w, i)
        BY <2>3, <1>7 DEF FaultQueueIn
      <3> QED BY <3>1, <1>4, <1>5
    <2> QED BY <2>1, <2>2, <2>3
  <1>9. \A w \in FaultVector :
            e.qhead[w] = IF g[w] = << >> THEN NULL ELSE g[w][1]
    BY <1>3, <1>4, <1>5, SMTT(30), ZenonT(40) DEF FaultQueueIn
  <1>10. \A w \in FaultVector : \A i \in DOMAIN g[w] :
             e.next[g[w][i]] = IF i = Len(g[w]) THEN NULL ELSE g[w][i + 1]
    <2> TAKE w \in FaultVector
    <2> TAKE i \in DOMAIN g[w]
    <2>1. CASE w = v /\ i = 1
      <3>1. e.next[g[w][i]] = IF f[v] = << >> THEN NULL ELSE f[v][1]
        BY <2>1, <1>3, <1>4, <1>5 DEF FaultQueueIn
      <3>2. CASE f[v] = << >>
        <4>1. Len(g[w]) = 1
          BY <2>1, <3>2, <1>4, <1>5
        <4> QED BY <2>1, <3>1, <3>2, <4>1
      <3>3. CASE f[v] # << >>
        <4>1. Len(f[v]) >= 1
          BY <3>3, <1>4
        <4>2. Len(g[w]) # 1 /\ g[w][2] = f[v][1]
          BY <2>1, <4>1, <1>4, <1>5
        <4> QED BY <2>1, <3>1, <3>3, <4>2
      <3> QED BY <3>2, <3>3
    <2>2. CASE w = v /\ i # 1
      <3>1. i - 1 \in DOMAIN f[v] /\ g[w][i] = f[v][i - 1] /\ g[w] = c
        BY <2>2, <1>4, <1>5
      <3>2. e.next[g[w][i]] = k.next[f[v][i - 1]]
        BY <3>1, <1>3, <1>6
      <3>3. k.next[f[v][i - 1]] =
                IF i - 1 = Len(f[v]) THEN NULL ELSE f[v][(i - 1) + 1]
        BY <3>1 DEF FaultQueueIn
      <3>4. i - 1 # Len(f[v]) => f[v][(i - 1) + 1] = g[w][i + 1]
        <4> SUFFICES ASSUME i - 1 # Len(f[v])
                     PROVE  f[v][(i - 1) + 1] = g[w][i + 1]
          OBVIOUS
        <4>1. (i - 1) + 1 \in 1..Len(f[v]) /\ ((i - 1) + 1) + 1 = i + 1
          BY <3>1, <1>4
        <4> QED BY <4>1, <2>2, <1>4, <1>5
      <3>5. i - 1 = Len(f[v]) <=> i = Len(g[w])
        BY <2>2, <3>1, <1>4, <1>5
      <3> QED BY <3>2, <3>3, <3>4, <3>5
    <2>3. CASE w # v
      BY <2>3, <1>3, <1>5, <1>6, SMTT(30), ZenonT(40) DEF FaultQueueIn
    <2> QED BY <2>1, <2>2, <2>3
  <1>11. \A w \in FaultVector : \A i \in DOMAIN g[w] :
             e.state[g[w][i]] = "RUNNING" /\ g[w][i] # e.active
    BY <1>1, <1>2, <1>6, <1>7 DEF FaultQueueIn
  <1>12. FaultQueueIn(e, g)
    BY <1>8, <1>9, <1>10, <1>11 DEF FaultQueueIn
  <1> QED BY <1>5, <1>12 DEF g, c, e

\* A supervisor collects the thread in front.
LEMMA FaultPopped ==
    ASSUME NEW k \in Memory, NEW f \in [FaultVector -> Seq(Tcb)],
           FaultQueueIn(k, f), NEW v \in FaultVector, has_queued(k, v)
    PROVE  LET m == get_queued(k, v)
               g == [f EXCEPT ![v] = Tail(@)]
           IN  FaultQueueIn(m, g) /\ g \in [FaultVector -> Seq(Tcb)]
  <1> DEFINE s == f[v]
             l == Tail(s)
             m == get_queued(k, v)
             g == [f EXCEPT ![v] = l]
  <1>1. /\ s \in Seq(Tcb) /\ s # << >> /\ k.qhead[v] = s[1]
        /\ v \in QueueVector /\ FaultVector \subseteq QueueVector
    BY DEF FaultQueueIn, has_queued, FaultVector, QueueVector
  <1>2. /\ l \in Seq(Tcb)
        /\ Len(s) \in Nat /\ Len(s) >= 1 /\ Len(l) = Len(s) - 1
        /\ DOMAIN s = 1..Len(s) /\ DOMAIN l = 1..(Len(s) - 1)
        /\ l = << >> <=> Len(s) = 1
        /\ \A i \in DOMAIN l : i + 1 \in DOMAIN s /\ l[i] = s[i + 1]
    BY <1>1, TailIndices
  <1>3. /\ m.state = k.state /\ m.active = k.active /\ m.next = k.next
        /\ m.qhead = [k.qhead EXCEPT ![v] = k.next[s[1]]]
    BY <1>1 DEF get_queued, Memory
  <1>4. /\ m.qhead[v] = k.next[s[1]]
        /\ \A w \in FaultVector : w # v => m.qhead[w] = k.qhead[w]
    BY <1>1, <1>3 DEF Memory
  <1> HIDE DEF m, l
  <1>5. /\ g \in [FaultVector -> Seq(Tcb)] /\ g[v] = l
        /\ \A w \in FaultVector : w # v => g[w] = f[w]
    BY <1>2
  <1> HIDE DEF g
  <1>6. k.next[s[1]] = IF l = << >> THEN NULL ELSE l[1]
    <2>1. 1 \in DOMAIN s
      BY <1>2
    <2>2. k.next[s[1]] = IF 1 = Len(s) THEN NULL ELSE s[1 + 1]
      BY <2>1 DEF FaultQueueIn
    <2>3. l # << >> => l[1] = s[1 + 1]
      BY <1>2
    <2> QED BY <2>2, <2>3, <1>2
  \* Every place in g is one in f.
  <1> DEFINE Place(w, i) == IF w = v THEN i + 1 ELSE i
  <1>7. \A w \in FaultVector : \A i \in DOMAIN g[w] :
            Place(w, i) \in DOMAIN f[w] /\ g[w][i] = f[w][Place(w, i)]
    BY <1>2, <1>5
  <1>8. \A w, x \in FaultVector : \A i \in DOMAIN g[w] : \A j \in DOMAIN g[x] :
            g[x][j] = g[w][i] => x = w /\ j = i
    <2> SUFFICES ASSUME NEW w \in FaultVector, NEW x \in FaultVector,
                        NEW i \in DOMAIN g[w], NEW j \in DOMAIN g[x],
                        g[x][j] = g[w][i]
                 PROVE  x = w /\ j = i
      OBVIOUS
    <2>1. x = w /\ Place(x, j) = Place(w, i)
      BY <1>7 DEF FaultQueueIn
    <2> QED BY <2>1, <1>2, <1>5
  <1>9. \A w \in FaultVector :
            m.qhead[w] = IF g[w] = << >> THEN NULL ELSE g[w][1]
    BY <1>4, <1>5, <1>6 DEF FaultQueueIn
  <1>10. \A w \in FaultVector : \A i \in DOMAIN g[w] :
             m.next[g[w][i]] = IF i = Len(g[w]) THEN NULL ELSE g[w][i + 1]
    <2> TAKE w \in FaultVector
    <2> TAKE i \in DOMAIN g[w]
    <2>1. CASE w = v
      <3>1. i + 1 \in DOMAIN s /\ g[w][i] = s[i + 1]
        BY <2>1, <1>2, <1>5
      <3>2. k.next[s[i + 1]] =
                IF i + 1 = Len(s) THEN NULL ELSE s[(i + 1) + 1]
        BY <3>1 DEF FaultQueueIn
      <3>3. i + 1 = Len(s) <=> i = Len(g[w])
        BY <2>1, <1>2, <1>5
      <3>4. i + 1 # Len(s) => s[(i + 1) + 1] = g[w][i + 1]
        <4> SUFFICES ASSUME i + 1 # Len(s)
                     PROVE  s[(i + 1) + 1] = g[w][i + 1]
          OBVIOUS
        <4>1. i + 1 \in DOMAIN l
          BY <2>1, <3>1, <1>2, <1>5
        <4> QED BY <4>1, <2>1, <1>2, <1>5
      <3> QED BY <3>1, <3>2, <3>3, <3>4, <1>3
    <2>2. CASE w # v
      BY <2>2, <1>3, <1>5 DEF FaultQueueIn
    <2> QED BY <2>1, <2>2
  <1>11. \A w \in FaultVector : \A i \in DOMAIN g[w] :
             m.state[g[w][i]] = "RUNNING" /\ g[w][i] # m.active
    BY <1>3, <1>7 DEF FaultQueueIn
  <1>12. FaultQueueIn(m, g)
    BY <1>8, <1>9, <1>10, <1>11 DEF FaultQueueIn
  <1> QED BY <1>5, <1>12 DEF g, l, m

-----------------------------------------------------------------------------
(* What spares the threads that are RUNNING off the core.                  *)

\* Making a thread ready writes two links: that of the tail, which is QUEUED,
\* and its own.
LEMMA MakeReadySpares ==
    ASSUME NEW k \in Memory, RunQ(k), NEW t \in Thread,
           k.state[t] # "RUNNING" \/ t = k.active
    PROVE  Spares(k, MakeReady(k, t), {})
  <1> DEFINE m == MakeReady(k, t)
  <1>1. /\ m.state = [k.state EXCEPT ![t] = "QUEUED"]
        /\ m.next = [u \in Thread |->
                    IF k.runq # << >> /\ u = k.runq[Len(k.runq)] THEN t
                    ELSE IF u = t THEN NULL
                    ELSE k.next[u]]
        /\ m.qhead = k.qhead /\ m.active = k.active
    BY MakeReadyFields
  <1> HIDE DEF m
  <1>2. k.runq # << >> => k.state[k.runq[Len(k.runq)]] = "QUEUED"
    <2> SUFFICES ASSUME k.runq # << >>
                 PROVE  k.state[k.runq[Len(k.runq)]] = "QUEUED"
      OBVIOUS
    <2>1. Len(k.runq) \in DOMAIN k.runq /\ k.runq[Len(k.runq)] \in Thread
      BY DEF Memory
    <2> QED BY <2>1 DEF RunQ, QueuedIffInQueue, Elements
  <1>3. k.state \in [Thread -> State] /\ Tcb \subseteq Thread
    BY DEF Memory, Thread
  <1>4. \A u \in Tcb : k.state[u] = "RUNNING" /\ u # k.active =>
            m.state[u] = "RUNNING" /\ m.next[u] = k.next[u]
    BY <1>1, <1>2, <1>3
  <1> QED BY <1>1, <1>4 DEF Spares, m

\* Changing the state of a thread that is not RUNNING, or on the core.
LEMMA StateSpares ==
    ASSUME NEW k, NEW m, NEW X, NEW t \in Thread, NEW s,
           k.state \in [Thread -> State],
           k.state[t] # "RUNNING" \/ t = k.active \/ t \in X,
           m.state = [k.state EXCEPT ![t] = s], m.next = k.next,
           m.qhead = k.qhead, m.active = k.active
    PROVE  Spares(k, m, X)
  BY DEF Spares, Thread

\* A Memory with the same states, links and queues.
LEMMA SameSpares ==
    ASSUME NEW k, NEW m, NEW X,
           m.state = k.state, m.next = k.next, m.qhead = k.qhead,
           m.active = k.active \/ m.active = NULL
    PROVE  Spares(k, m, X)
  BY FrameAssumption DEF Spares

\* One turn of the loop of interrupt_vector_fire.
LEMMA NotifySpares ==
    ASSUME NEW k \in Memory, RunQ(k), NEW v \in MappedVector, NEW i \in Slot
    PROVE  Spares(k, Notify(k, v, i), {})
  <1> DEFINE t == k.route[v][i]
             f == SetFired(k, t, FirstTap(k, t, v), TRUE)
             m == Notify(k, v, i)
  <1>1. CASE t = NULL \/ TapsOf(k, t, v) = {}
    BY <1>1, SameSpares DEF Notify
  <1>2. CASE t # NULL /\ TapsOf(k, t, v) # {}
    <2>1. m = StopWaiting(f, t)
      BY <1>2 DEF Notify
    <2>2. t \in Thread /\ FirstTap(k, t, v) \in TapIndex
      BY <1>2, FirstTapIsTap DEF Memory
    <2> HIDE DEF m, t
    <2>3. /\ f \in Memory
          /\ f.state = k.state /\ f.next = k.next /\ f.runq = k.runq
          /\ f.qhead = k.qhead /\ f.active = k.active
      BY <2>2, TapFiredFields
    <2> HIDE DEF f
    <2>4. Spares(k, f, {}) /\ RunQ(f)
      BY <2>3, SameSpares, SameRunQ
    <2>5. Spares(f, m, {})
      <3>1. CASE f.state[t] = "WAITING"
        <4>1. m = MakeReady(f, t)
          BY <3>1, <2>1 DEF StopWaiting
        <4> QED BY <4>1, <3>1, <2>2, <2>3, <2>4, MakeReadySpares
      <3>2. CASE f.state[t] = "SUSPENDEDWAITING"
        <4>1. m = [f EXCEPT !.state = [f.state EXCEPT ![t] = "SUSPENDED"]]
          BY <3>2, <2>1 DEF StopWaiting
        <4>2. /\ m.state = [f.state EXCEPT ![t] = "SUSPENDED"]
              /\ m.next = f.next /\ m.qhead = f.qhead /\ m.active = f.active
              /\ f.state \in [Thread -> State]
          BY <4>1, <2>3 DEF Memory
        <4> QED BY <4>2, <3>2, <2>2, StateSpares
      <3>3. CASE f.state[t] \notin {"WAITING", "SUSPENDEDWAITING"}
        <4>1. m = f
          BY <3>3, <2>1 DEF StopWaiting
        <4> QED BY <4>1, SameSpares
      <3> QED BY <3>1, <3>2, <3>3
    <2> QED BY <2>4, <2>5, SparesTransitive DEF m
  <1> QED BY <1>1, <1>2

\* interrupt_vector_fire and interrupt_vector_reset.
LEMMA FireSpares ==
    ASSUME NEW k \in Memory, RunQ(k), ActiveNotWaiting(k), NEW v
    PROVE  /\ Spares(k, interrupt_vector_fire(k, v), {})
           /\ Spares(k, interrupt_vector_reset(k, v), {})
  <1>1. Spares(k, k, {})
    BY SameSpares
  <1>2. Spares(k, interrupt_vector_fire(k, v), {})
    <2>1. CASE v \in MappedVector
      <3> DEFINE a == Notify(k, v, 0)
                 b == Notify(a, v, 1)
                 c == Notify(b, v, 2)
                 d == Notify(c, v, 3)
      <3>1. 0 \in Slot /\ 1 \in Slot /\ 2 \in Slot /\ 3 \in Slot
        BY DEF Slot
      <3>2. Spares(k, a, {}) /\ a \in Memory /\ RunQ(a) /\ ActiveNotWaiting(a)
        BY <2>1, <3>1, NotifySpares, NotifyFires DEF Fires
      <3> HIDE DEF a
      <3>3. Spares(a, b, {}) /\ b \in Memory /\ RunQ(b) /\ ActiveNotWaiting(b)
        BY <2>1, <3>1, <3>2, NotifySpares, NotifyFires DEF Fires
      <3> HIDE DEF b
      <3>4. Spares(b, c, {}) /\ c \in Memory /\ RunQ(c) /\ ActiveNotWaiting(c)
        BY <2>1, <3>1, <3>3, NotifySpares, NotifyFires DEF Fires
      <3> HIDE DEF c
      <3>5. Spares(c, d, {})
        BY <2>1, <3>1, <3>4, NotifySpares
      <3> HIDE DEF d
      <3>6. Spares(k, d, {})
        BY <3>2, <3>3, <3>4, <3>5, SparesTransitive
      <3>7. interrupt_vector_fire(k, v) = d
        BY <2>1 DEF interrupt_vector_fire, a, b, c, d
      <3> QED BY <3>6, <3>7
    <2>2. CASE v \notin MappedVector
      BY <2>2, <1>1 DEF interrupt_vector_fire
    <2> QED BY <2>1, <2>2
  <1> QED BY <1>1, <1>2 DEF interrupt_vector_reset, pinion_on_reset

\* scheduler_schedule: the thread that comes on the core was QUEUED.
LEMMA ScheduleSpares ==
    ASSUME NEW k \in Memory, RunQ(k),
           k.active # NULL => k.state[k.active] # "QUEUED"
    PROVE  Spares(k, scheduler_schedule(k), {})
  <1> DEFINE u == ccb_unload_tcb(k)
             q == IF k.active = NULL THEN u ELSE MakeReady(u, k.active)
             h == q.runq[1]
             l == [scheduler_pull_tcb(q) EXCEPT !.state[h] = "RUNNING"]
             m == scheduler_schedule(k)
  <1>1. /\ u \in Memory
        /\ u.active = NULL
        /\ u.state = k.state /\ u.next = k.next /\ u.runq = k.runq
        /\ u.qhead = k.qhead
    BY DEF ccb_unload_tcb, Memory
  <1> HIDE DEF u
  <1>2. RunQ(u)
    BY <1>1, SameRunQ
  <1>3. /\ q \in Memory /\ RunQ(q) /\ q.active = NULL
        /\ q.qhead = k.qhead
        /\ \A t \in Tcb : k.state[t] = "RUNNING" /\ t # k.active =>
              q.state[t] = "RUNNING" /\ q.next[t] = k.next[t]
    <2>1. CASE k.active = NULL
      BY <2>1, <1>1, <1>2
    <2>2. CASE k.active # NULL
      <3> DEFINE a == k.active
      <3>1. a \in Thread /\ u.state[a] # "QUEUED" /\ u.state \in [Thread -> State]
        BY <2>2, <1>1 DEF Memory
      <3>2. q = MakeReady(u, a)
        BY <2>2
      <3> HIDE DEF q
      <3>3. LET r == MakeReady(u, a)
            IN  /\ r \in Memory
                /\ r.state = [u.state EXCEPT ![a] = "QUEUED"]
                /\ r.next = [x \in Thread |->
                     IF u.runq # << >> /\ x = u.runq[Len(u.runq)] THEN a
                     ELSE IF x = a THEN NULL
                     ELSE u.next[x]]
                /\ r.qhead = u.qhead /\ r.active = u.active
        BY <3>1, <1>1, MakeReadyFields
      <3>4. RunQ(q)
        BY <3>1, <3>2, <1>1, <1>2, MakeReadyRunQ
      <3>5. u.runq # << >> => u.state[u.runq[Len(u.runq)]] = "QUEUED"
        <4> SUFFICES ASSUME u.runq # << >>
                     PROVE  u.state[u.runq[Len(u.runq)]] = "QUEUED"
          OBVIOUS
        <4>1. Len(u.runq) \in DOMAIN u.runq /\ u.runq[Len(u.runq)] \in Thread
          BY <1>1 DEF Memory
        <4> QED BY <4>1, <1>2 DEF RunQ, QueuedIffInQueue, Elements
      <3>6. \A t \in Tcb : k.state[t] = "RUNNING" /\ t # a =>
                q.state[t] = "RUNNING" /\ q.next[t] = k.next[t]
        BY <3>1, <3>2, <3>3, <3>5, <1>1 DEF Thread
      <3> QED BY <3>2, <3>3, <3>4, <3>6, <1>1
    <2> QED BY <2>1, <2>2
  <1>4. m = IF q.runq = << >> THEN ccb_load_tcb(q, Idle) ELSE ccb_load_tcb(l, h)
    BY DEF scheduler_schedule, u
  <1> HIDE DEF q, m
  <1>5. CASE q.runq = << >>
    <2>1. m = [q EXCEPT !.active = Idle]
      BY <1>3, <1>4, <1>5 DEF ccb_load_tcb
    <2>2. /\ m.active = Idle /\ m.state = q.state /\ m.next = q.next
          /\ m.qhead = q.qhead /\ Idle \notin Tcb
      BY <2>1, <1>3, FrameAssumption DEF Memory
    <2> QED BY <2>2, <1>3 DEF Spares, m
  <1>6. CASE q.runq # << >>
    <2>1. /\ h \in Thread /\ q.state[h] = "QUEUED"
          /\ l \in Memory
          /\ l.state = [q.state EXCEPT ![h] = "RUNNING"]
          /\ l.qhead = q.qhead
          /\ l.active = NULL
      BY <1>3, <1>6, PullRunQ
    <2>2. l.next = q.next
      BY <1>3 DEF scheduler_pull_tcb, Memory
    <2>3. q.state \in [Thread -> State]
      BY <1>3 DEF Memory
    <2> HIDE DEF h, l
    <2>4. m = [l EXCEPT !.active = h]
      BY <2>1, <1>4, <1>6 DEF ccb_load_tcb
    <2>5. /\ m.active = h /\ m.state = l.state /\ m.next = l.next
          /\ m.qhead = l.qhead
      BY <2>1, <2>4 DEF Memory
    <2>6. \A t \in Tcb : q.state[t] = "RUNNING" =>
              /\ m.state[t] = "RUNNING" /\ t # m.active
              /\ m.next[t] = q.next[t]
      BY <2>1, <2>2, <2>3, <2>5 DEF Thread
    <2> QED BY <2>1, <2>5, <2>6, <1>3 DEF Spares, m
  <1> QED BY <1>5, <1>6

\* scheduler_rem_tcb writes the link of the predecessor, which is QUEUED.
LEMMA RemSpares ==
    ASSUME NEW k \in Memory, RunQ(k), NEW t \in Thread, k.state[t] = "QUEUED"
    PROVE  Spares(k, [scheduler_rem_tcb(k, t) EXCEPT !.state[t] = "SUSPENDED"],
                  {})
  <1> DEFINE q == k.runq
             p == CHOOSE j \in DOMAIN q : q[j] = t
             x == IF p = 1 THEN k.next
                  ELSE [k.next EXCEPT ![q[p - 1]] = k.next[t]]
             r == SubSeq(q, 1, p - 1) \o SubSeq(q, p + 1, Len(q))
             s == [k.state EXCEPT ![t] = "SUSPENDED"]
             m == [scheduler_rem_tcb(k, t) EXCEPT !.state[t] = "SUSPENDED"]
  <1>1. /\ t \in Elements(q) /\ q \in Seq(Thread)
        /\ k.state \in [Thread -> State]
        /\ k.next \in [Thread -> Thread \cup {NULL}]
    BY DEF RunQ, QueuedIffInQueue, Memory
  <1>2. p \in DOMAIN q /\ q[p] = t
    BY <1>1 DEF Elements
  <1> HIDE DEF p
  <1>3. m = [k EXCEPT !.next = x, !.runq = r, !.state = s]
    BY <1>1, <1>2 DEF scheduler_rem_tcb, p
  <1> HIDE DEF m, r, s, x
  <1>4. m.next = x /\ m.state = s /\ m.qhead = k.qhead /\ m.active = k.active
    BY <1>3 DEF Memory
  <1>5. p # 1 => q[p - 1] \in Thread /\ k.state[q[p - 1]] = "QUEUED"
    <2> SUFFICES ASSUME p # 1
                 PROVE  q[p - 1] \in Thread /\ k.state[q[p - 1]] = "QUEUED"
      OBVIOUS
    <2>1. p - 1 \in DOMAIN q
      BY <1>1, <1>2
    <2> QED BY <2>1, <1>1 DEF RunQ, QueuedIffInQueue, Elements
  <1>6. \A u \in Tcb : k.state[u] = "RUNNING" =>
            s[u] = "RUNNING" /\ x[u] = k.next[u]
    BY <1>1, <1>5 DEF s, x, Thread
  <1> QED BY <1>4, <1>6 DEF Spares, m

-----------------------------------------------------------------------------
(* One lemma per action.                                                   *)

FInv == IInv /\ FaultedOK /\ FaultQueueOK

FKept == FaultedOK' /\ FaultQueueOK'

\* A step to a Memory that spares the faulted threads.
LEMMA SparesStep ==
    ASSUME FInv, NEW k \in Memory, Become(k), NEW X, Spares(Now, k, X),
           X \cap Uncollected = {}, UNCHANGED faulted
    PROVE  FKept
  <1>1. FaultQueueIn(Now, faulted) /\ faulted \in [FaultVector -> Seq(Tcb)]
    BY FaultQueueNow DEF FInv, FaultedOK
  <1>2. \A v \in FaultVector : \A i \in DOMAIN faulted[v] : faulted[v][i] \notin X
    BY DEF Uncollected, Elements
  <1>3. FaultQueueIn(k, faulted)
    BY <1>1, <1>2, SparesQueue
  <1>4. Now' = k
    BY BecomeNow
  <1>5. FaultQueueIn(Now', faulted')
    BY <1>3, <1>4
  <1>6. FaultQueueOK'
    BY <1>5 DEF FaultQueueOK, FaultQueueIn, Now
  <1> QED BY <1>1, <1>6 DEF FKept, FaultedOK

\* A step that leaves the memory alone.
LEMMA SameMemoryKept ==
    ASSUME FInv, UNCHANGED memoryVars, UNCHANGED faulted
    PROVE  FKept
  <1>1. Become(Now) /\ Now \in Memory
    BY UnchangedMemory, NowOK DEF FInv
  <1>2. Spares(Now, Now, {})
    BY SameSpares
  <1> QED BY <1>1, <1>2, SparesStep

\* A step that changes one state.
LEMMA OneStateKept ==
    ASSUME FInv, NEW t \in Thread, NEW s \in State,
           Become([Now EXCEPT !.state[t] = s]),
           state[t] # "RUNNING" \/ t = active \/ t \notin Uncollected,
           UNCHANGED faulted
    PROVE  FKept
  <1> DEFINE k == [Now EXCEPT !.state[t] = s]
             X == {t} \ Uncollected
  <1>1. state \in [Thread -> State] /\ Now \in Memory /\ Now.state = state
        /\ Now.active = active
    BY NowOK DEF FInv
  <1>2. k = [Now EXCEPT !.state = [state EXCEPT ![t] = s]]
    BY <1>1
  <1>3. Become(k)
    OBVIOUS
  <1> HIDE DEF k
  <1>4. /\ k \in Memory
        /\ k.state = [Now.state EXCEPT ![t] = s]
        /\ k.next = Now.next /\ k.qhead = Now.qhead /\ k.active = Now.active
    BY <1>1, <1>2 DEF Memory
  <1>5. Spares(Now, k, X)
    BY <1>1, <1>4, StateSpares
  <1> QED BY <1>3, <1>4, <1>5, SparesStep

\* thread_create.
LEMMA CreateKept == ASSUME FInv, thread_create, UNCHANGED faulted PROVE FKept
  <1>1. ASSUME NEW t \in Allocatable,
               Become([Now EXCEPT !.state[t] = "SUSPENDED"])
        PROVE  FKept
    <2>1. t \in Thread /\ state[t] = "FREE" /\ "SUSPENDED" \in State
      BY <1>1, AllocFields DEF Thread, FInv, State
    <2> QED BY <1>1, <2>1, OneStateKept
  <1> QED BY <1>1, SameMemoryKept DEF thread_create

\* thread_reap frees only a SUSPENDED thread.
LEMMA ReapKept ==
    ASSUME FInv, NEW th \in ThreadArg, thread_reap(th), UNCHANGED faulted
    PROVE  FKept
  <1> DEFINE t == tcb_get(th)
  <1>1. t # NULL /\ state[t] = "SUSPENDED" /\ Become([Now EXCEPT !.state[t] = "FREE"])
    BY DEF thread_reap
  <1>2. t \in Thread /\ "FREE" \in State
    BY <1>1, NamedThread DEF Thread, FInv, State
  <1> HIDE DEF t
  <1> QED BY <1>1, <1>2, OneStateKept

\* thread_pause, of a thread that no queue of faults has.
LEMMA PauseKept ==
    ASSUME FInv, NEW th \in ThreadArg, SupervisedPause(th)
    PROVE  FKept
  <1> DEFINE t == tcb_get(OrSelf(th))
             k == IF t = NULL THEN Now ELSE Paused(Now, t)
  <1>1. Become(k) /\ t \notin Uncollected /\ UNCHANGED faulted
    BY DEF SupervisedPause, thread_pause
  <1>2. /\ Now \in Memory /\ RunQ(Now) /\ Now.state = state
        /\ Now.active = active /\ state \in [Thread -> State]
    BY NowOK DEF FInv
  <1>3. CASE t = NULL \/ state[t] \notin {"WAITING", "RUNNING", "QUEUED"}
    <2>1. k = Now
      BY <1>2, <1>3 DEF Paused
    <2>2. Spares(Now, Now, {})
      BY SameSpares
    <2> QED BY <1>1, <1>2, <2>1, <2>2, SparesStep
  <1>4. CASE t # NULL /\ state[t] \in {"WAITING", "RUNNING", "QUEUED"}
    <2>1. t \in Thread /\ k = Paused(Now, t)
      BY <1>4, NamedThread DEF Thread, FInv
    <2> HIDE DEF k, t
    <2>2. CASE state[t] = "WAITING"
      <3>1. k = [Now EXCEPT !.state[t] = "SUSPENDEDWAITING"]
            /\ "SUSPENDEDWAITING" \in State
        BY <2>1, <2>2, <1>2 DEF Paused, State
      <3> QED BY <1>1, <2>1, <3>1, OneStateKept
    <2>3. CASE state[t] = "RUNNING"
      <3>1. k = [Now EXCEPT !.state[t] = "SUSPENDED"] /\ "SUSPENDED" \in State
        BY <2>1, <2>3, <1>2 DEF Paused, State
      <3> QED BY <1>1, <2>1, <3>1, OneStateKept
    <2>4. CASE state[t] = "QUEUED"
      <3>1. k = [scheduler_rem_tcb(Now, t) EXCEPT !.state[t] = "SUSPENDED"]
        BY <2>1, <2>4, <1>2 DEF Paused
      <3>2. k \in Memory
        BY <3>1, <2>1, <2>4, <1>2, RemRunQ
      <3>3. Spares(Now, k, {})
        BY <3>1, <2>1, <2>4, <1>2, RemSpares
      <3> QED BY <1>1, <3>2, <3>3, SparesStep
    <2> QED BY <1>4, <2>2, <2>3, <2>4
  <1> QED BY <1>3, <1>4

\* thread_resume changes nothing of a thread whose state is RUNNING.
LEMMA ResumeKept ==
    ASSUME FInv, NEW th \in ThreadArg, thread_resume(th), UNCHANGED faulted
    PROVE  FKept
  <1> DEFINE t == tcb_get(OrSelf(th))
             k == IF t = NULL THEN Now ELSE Resumed(Now, t)
  <1>1. Become(k)
    BY DEF thread_resume
  <1>2. /\ Now \in Memory /\ RunQ(Now) /\ Now.state = state
        /\ Now.active = active /\ state \in [Thread -> State]
    BY NowOK DEF FInv
  <1>3. CASE t = NULL \/ state[t] \notin {"SUSPENDED", "SUSPENDEDWAITING"}
    <2>1. k = Now
      BY <1>2, <1>3 DEF Resumed
    <2>2. Spares(Now, Now, {})
      BY SameSpares
    <2> QED BY <1>1, <1>2, <2>1, <2>2, SparesStep
  <1>4. CASE t # NULL /\ state[t] \in {"SUSPENDED", "SUSPENDEDWAITING"}
    <2>1. t \in Thread /\ k = Resumed(Now, t)
      BY <1>4, NamedThread DEF Thread, FInv
    <2> HIDE DEF k, t
    <2>2. CASE state[t] = "SUSPENDEDWAITING"
      <3>1. k = [Now EXCEPT !.state[t] = "WAITING"] /\ "WAITING" \in State
        BY <2>1, <2>2, <1>2 DEF Resumed, State
      <3> QED BY <1>1, <2>1, <2>2, <3>1, OneStateKept
    <2>3. CASE state[t] = "SUSPENDED"
      <3>1. k = MakeReady(Now, t)
        BY <2>1, <2>3, <1>2 DEF Resumed
      <3>2. k \in Memory
        <4>1. MakeReady(Now, t) \in Memory
          BY <2>1, <1>2, MakeReadyFields
        <4> QED BY <3>1, <4>1
      <3>3. Spares(Now, k, {})
        BY <3>1, <2>1, <2>3, <1>2, MakeReadySpares
      <3> QED BY <1>1, <3>2, <3>3, SparesStep
    <2> QED BY <1>4, <2>2, <2>3
  <1> QED BY <1>3, <1>4

\* interrupt_wait changes the thread on the core only.
LEMMA WaitKept == ASSUME FInv, interrupt_wait, UNCHANGED faulted PROVE FKept
  <1>1. Become(Waiting(Now)) /\ active \in Thread /\ Now.active = active
    BY NowOK DEF interrupt_wait, FInv
  <1>2. CASE Waiting(Now) = Now
    <2>1. Spares(Now, Now, {}) /\ Now \in Memory
      BY SameSpares, NowOK DEF FInv
    <2> QED BY <1>1, <1>2, <2>1, SparesStep
  <1>3. CASE Waiting(Now) = [Now EXCEPT !.state[active] = "WAITING"]
    <2>1. "WAITING" \in State
      BY DEF State
    <2> QED BY <1>1, <1>3, <2>1, OneStateKept
  <1> QED BY <1>1, <1>2, <1>3 DEF Waiting

\* thread_exit queues the caller elsewhere: it writes only the caller's link.
LEMMA ExitKept == ASSUME FInv, thread_exit, UNCHANGED faulted PROVE FKept
  <1> DEFINE s == [Now EXCEPT !.state[active] = "SUSPENDED"]
             e == enqueue(s, ZOMBIE, active)
             k == interrupt_vector_fire(e, ZOMBIE)
             x == [next EXCEPT ![active] = qhead[ZOMBIE]]
             y == [qhead EXCEPT ![ZOMBIE] = active]
             z == [state EXCEPT ![active] = "SUSPENDED"]
  <1>1. active \in Thread /\ active \in Tcb /\ state[active] = "RUNNING"
    BY CallerRuns, NowOK DEF thread_exit, FInv
  <1>2. Become(k)
    BY DEF thread_exit
  <1>3. /\ Now \in Memory /\ RunQ(Now) /\ Now.state = state
        /\ Now.next = next /\ Now.runq = runq
        /\ Now.active = active /\ Now.qhead = qhead
        /\ state \in [Thread -> State]
        /\ next \in [Thread -> Thread \cup {NULL}]
        /\ qhead \in [QueueVector -> Thread \cup {NULL}]
    BY NowOK DEF FInv, Now, Memory
  <1>4. /\ ZOMBIE \in QueueVector /\ ZOMBIE \notin FaultVector
        /\ FaultVector \subseteq QueueVector
    BY DEF QueueVector, FaultVector, PAGEFAULT, MISCFAULT, ZOMBIE
  <1>5. /\ s \in Memory /\ RunQ(s) /\ s.state = z /\ s.active = active
        /\ s.next = next /\ s.qhead = qhead /\ z[active] = "SUSPENDED"
    <2>1. s = [Now EXCEPT !.state = z]
      BY <1>3
    <2>2. z \in [Thread -> State]
      BY <1>3 DEF State
    <2> HIDE DEF s
    <2>3. /\ s \in Memory /\ s.state = z /\ s.active = active
          /\ s.next = next /\ s.qhead = qhead /\ s.runq = runq
      BY <2>1, <2>2, <1>3 DEF Memory
    <2>4. \A u \in Thread : s.state[u] = "QUEUED" <=> Now.state[u] = "QUEUED"
      BY <2>3, <1>1, <1>3
    <2>5. RunQ(s)
      BY <2>3, <2>4, <1>3, SameRunQ
    <2> QED BY <2>3, <2>5, <1>1, <1>3
  <1>6. e.next = x /\ e.qhead = y /\ e.state = z /\ e.active = active
    <2> HIDE DEF s
    <2>1. e = [s EXCEPT !.next = x, !.qhead = y]
      BY <1>5 DEF enqueue
    <2> HIDE DEF e, x, y
    <2> QED BY <2>1, <1>5 DEF Memory
  <1>7. e \in Memory /\ RunQ(e)
    BY <1>1, <1>4, <1>5, EnqueueRunQ
  <1> HIDE DEF e, s
  <1>8. Spares(Now, e, {})
    BY <1>1, <1>3, <1>4, <1>6 DEF Spares, Thread
  <1>9. ActiveNotWaiting(e)
    BY <1>5, <1>6 DEF ActiveNotWaiting
  <1>10. Spares(e, k, {}) /\ k \in Memory
    BY <1>7, <1>9, FireSpares, FireFires DEF Fires
  <1> HIDE DEF k
  <1>11. Spares(Now, k, {})
    BY <1>8, <1>10, SparesTransitive
  <1> QED BY <1>2, <1>10, <1>11, SparesStep

\* A handler that changes taps and routes, and fires what a reset finds.
LEMMA ResetKept ==
    ASSUME FInv, active \in Tcb, state[active] = "RUNNING",
           NEW m \in Memory, m.state = state, m.next = next, m.runq = runq,
           m.qhead = qhead, m.active = active, NEW v,
           Become(interrupt_vector_reset(m, v)), UNCHANGED faulted
    PROVE  FKept
  <1> DEFINE k == interrupt_vector_reset(m, v)
  <1>1. /\ RunQ(Now) /\ Now.runq = runq /\ Now.next = next
        /\ Now.state = state /\ Now.qhead = qhead /\ Now.active = active
    BY NowOK DEF FInv, Now
  <1>2. RunQ(m) /\ ActiveNotWaiting(m)
    BY <1>1, SameRunQ DEF ActiveNotWaiting
  <1>3. Spares(m, k, {}) /\ k \in Memory
    BY <1>2, FireSpares, ResetFires DEF Fires
  <1>4. Become(k)
    OBVIOUS
  <1> HIDE DEF k
  <1>5. Spares(Now, m, {})
    BY <1>1, SameSpares
  <1>6. Spares(Now, k, {})
    BY <1>3, <1>5, SparesTransitive
  <1> QED BY <1>3, <1>4, <1>6, SparesStep

\* interrupt_set_tap.
LEMMA SetTapKept ==
    ASSUME FInv, NEW j \in TapIndex, NEW v \in Vector, interrupt_set_tap(j, v),
           UNCHANGED faulted
    PROVE  FKept
  <1> DEFINE o == OldRouteRemoved(Now, active, j)
             n == [vec |-> v, fired |-> FALSE]
             t == [o EXCEPT !.tap[active][j] = n]
             m == interrupt_add_route(t, active, v)
             x == [o.tap EXCEPT ![active] = [o.tap[active] EXCEPT ![j] = n]]
  <1>1. active \in Tcb /\ active \in Thread /\ state[active] = "RUNNING"
    BY CallerRuns, NowOK DEF interrupt_set_tap, FInv
  <1>2. Become(interrupt_vector_reset(m, v))
    BY DEF interrupt_set_tap
  <1>3. /\ o \in Memory
        /\ o.state = state /\ o.next = next /\ o.runq = runq
        /\ o.qhead = qhead /\ o.active = active
    <2>1. /\ Now \in Memory /\ Now.state = state /\ Now.next = next
          /\ Now.runq = runq /\ Now.qhead = qhead /\ Now.active = active
      BY NowOK DEF FInv, Now
    <2>2. \A w : LET r == interrupt_remove_route(Now, active, w)
                 IN  /\ r \in Memory
                     /\ r.state = Now.state /\ r.next = Now.next
                     /\ r.runq = Now.runq /\ r.active = Now.active
                     /\ r.qhead = Now.qhead
      <3> TAKE w
      <3> QED BY <1>1, <2>1, RouteFields, RouteRouted
    <2> QED BY <2>1, <2>2 DEF OldRouteRemoved
  <1> HIDE DEF o
  <1>4. x \in [Thread -> [TapIndex -> Tap]]
    BY <1>1, <1>3 DEF Memory, Tap
  <1>5. t = [o EXCEPT !.tap = x]
    OBVIOUS
  <1> HIDE DEF t, x
  <1>6. /\ t \in Memory
        /\ t.state = state /\ t.next = next /\ t.runq = runq
        /\ t.qhead = qhead /\ t.active = active
    BY <1>3, <1>4, <1>5 DEF Memory
  <1>7. /\ m \in Memory
        /\ m.state = state /\ m.next = next /\ m.runq = runq
        /\ m.qhead = qhead /\ m.active = active
    BY <1>1, <1>6, RouteFields, RouteRouted
  <1> HIDE DEF m
  <1> QED BY <1>1, <1>2, <1>7, ResetKept

\* interrupt_reset.
LEMMA InterruptResetKept ==
    ASSUME FInv, NEW v \in Vector, interrupt_reset(v), UNCHANGED faulted
    PROVE  FKept
  <1> DEFINE j == FirstTap(Now, active, v)
             m == SetFired(Now, active, j, FALSE)
  <1>1. active \in Tcb /\ active \in Thread /\ state[active] = "RUNNING"
    BY CallerRuns, NowOK DEF interrupt_reset, FInv
  <1>2. Become(interrupt_vector_reset(m, v)) /\ j \in TapIndex
    BY FirstTapIsTap DEF interrupt_reset
  <1>3. /\ m \in Memory
        /\ m.state = Now.state /\ m.next = Now.next /\ m.runq = Now.runq
        /\ m.qhead = Now.qhead /\ m.active = Now.active
    <2>1. Now \in Memory
      BY NowOK DEF FInv
    <2> HIDE DEF j
    <2> QED BY <1>1, <1>2, <2>1, TapFiredFields
  <1>4. /\ Now.state = state /\ Now.next = next /\ Now.runq = runq
        /\ Now.qhead = qhead /\ Now.active = active
    BY DEF Now
  <1> HIDE DEF m
  <1> QED BY <1>1, <1>2, <1>3, <1>4, ResetKept

\* A handler that ends in scheduler_schedule.
LEMMA ScheduleKept ==
    ASSUME FInv, NEW k \in Memory, RunQ(k), Spares(Now, k, {}),
           k.active # NULL => k.state[k.active] # "QUEUED",
           Become(scheduler_schedule(k)), UNCHANGED faulted
    PROVE  FKept
  <1> DEFINE m == scheduler_schedule(k)
  <1>1. m \in Memory /\ Spares(k, m, {}) /\ Become(m)
    BY ScheduleRunQ, ScheduleSpares
  <1> HIDE DEF m
  <1>2. Spares(Now, m, {})
    BY <1>1, SparesTransitive
  <1> QED BY <1>1, <1>2, SparesStep

\* The timer.
LEMMA TimerKept == ASSUME FInv, fault_timer, UNCHANGED faulted PROVE FKept
  <1>1. /\ Now \in Memory /\ RunQ(Now) /\ Now.state[Now.active] # "QUEUED"
        /\ Spares(Now, Now, {})
    BY NowOK, SameSpares DEF FInv
  <1> QED BY <1>1, ScheduleKept DEF fault_timer

\* int 0xFF.
LEMMA YieldFaultKept ==
    ASSUME FInv, fault_yield, UNCHANGED faulted
    PROVE  FKept
  <1> DEFINE rdi == IF pc[active] = "yield_w" THEN 1 ELSE 0
             k == IF rdi = 0 /\ Now.state[Now.active] # "RUNNING"
                  THEN ccb_unload_tcb(Now) ELSE Now
  <1>1. Become(scheduler_schedule(k))
    BY DEF fault_yield, PostYield
  <1>2. CASE k = Now
    <2> HIDE DEF k
    <2>1. /\ Now \in Memory /\ RunQ(Now) /\ Now.state[Now.active] # "QUEUED"
          /\ Spares(Now, Now, {})
      BY NowOK, SameSpares DEF FInv
    <2> QED BY <1>1, <1>2, <2>1, ScheduleKept
  <1>3. CASE k = ccb_unload_tcb(Now)
    <2> HIDE DEF k
    <2>1. k \in Memory /\ RunQ(k) /\ k.active = NULL
      BY <1>3, UnloadFields DEF FInv
    <2>2. Spares(Now, k, {})
      <3>1. /\ k.state = Now.state /\ k.next = Now.next
            /\ k.qhead = Now.qhead
        BY <1>3, NowOK DEF ccb_unload_tcb, Memory, FInv
      <3> QED BY <2>1, <3>1, SameSpares
    <2> QED BY <1>1, <2>1, <2>2, ScheduleKept
  <1> QED BY <1>2, <1>3

\* A fault: the thread leaves the core for the front of its queue, and stays
\* there through the fire and the schedule that follow.
LEMMA FaultKept ==
    ASSUME FInv, NEW v \in FaultVector, SupervisedFault(v)
    PROVE  FKept
  <1> DEFINE u == ccb_unload_tcb(Now)
             e == enqueue(u, v, active)
             k == interrupt_vector_fire(e, v)
             m == scheduler_schedule(k)
             g == [faulted EXCEPT ![v] = <<active>> \o @]
  <1>1. active \in Tcb /\ active \in Thread /\ state[active] = "RUNNING"
    BY CallerRuns, NowOK DEF SupervisedFault, fault_exception, FInv
  <1>2. Become(m) /\ faulted' = g
    BY NowOK DEF SupervisedFault, fault_exception, TakeFault, FInv
  <1>3. /\ Now \in Memory /\ Now.state = state /\ Now.active = active
        /\ FaultQueueIn(Now, faulted)
        /\ faulted \in [FaultVector -> Seq(Tcb)]
    BY NowOK, FaultQueueNow DEF FInv, FaultedOK
  <1>4. FaultQueueIn(e, g) /\ g \in [FaultVector -> Seq(Tcb)]
    BY <1>1, <1>3, FaultPushed
  <1> HIDE DEF g
  <1>5. u \in Memory /\ RunQ(u) /\ u.active = NULL /\ u.state = state
    BY UnloadFields DEF FInv
  <1> HIDE DEF u
  <1>6. e \in Memory /\ RunQ(e) /\ e.active = NULL
    <2>1. v \in QueueVector
      BY DEF QueueVector, FaultVector
    <2> QED BY <2>1, <1>1, <1>5, EnqueueRunQ
  <1> HIDE DEF e
  <1>7. /\ k \in Memory /\ RunQ(k) /\ k.active = NULL
        /\ Spares(e, k, {})
    <2>1. ActiveNotWaiting(e)
      BY <1>6 DEF ActiveNotWaiting
    <2> QED BY <2>1, <1>6, FireFires, FireSpares DEF Fires
  <1> HIDE DEF k
  <1>8. m \in Memory /\ Spares(k, m, {})
    BY <1>7, ScheduleRunQ, ScheduleSpares
  <1> HIDE DEF m
  <1>9. FaultQueueIn(m, g)
    <2>1. Spares(e, m, {})
      BY <1>7, <1>8, SparesTransitive
    <2> QED BY <2>1, <1>4, SparesQueue
  <1>10. Now' = m
    BY <1>2, <1>8, BecomeNow
  <1>11. FaultQueueIn(Now', faulted')
    BY <1>2, <1>9, <1>10
  <1>12. FaultQueueOK'
    BY <1>11 DEF FaultQueueOK, FaultQueueIn, Now
  <1> QED BY <1>2, <1>4, <1>12 DEF FKept, FaultedOK

\* fault_get_*: the front of one queue goes, or a zombie.
LEMMA CollectKept ==
    ASSUME FInv, NEW v \in QueueVector, SupervisedCollect(v)
    PROVE  FKept
  <1> DEFINE k == get_queued(Now, v)
  <1>1. Become(k) /\ has_queued(Now, v)
    BY DEF SupervisedCollect, fault_get
  <1>2. /\ Now \in Memory /\ RunQ(Now)
        /\ FaultQueueIn(Now, faulted)
        /\ faulted \in [FaultVector -> Seq(Tcb)]
    BY NowOK, FaultQueueNow DEF FInv, FaultedOK
  <1>3. k \in Memory
    BY <1>1, <1>2, GetQueuedRunQ
  <1>4. FaultQueueIn(k, faulted') /\ faulted' \in [FaultVector -> Seq(Tcb)]
    <2>1. CASE v \in FaultVector
      BY <2>1, <1>1, <1>2, FaultPopped DEF SupervisedCollect
    <2>2. CASE v \notin FaultVector
      <3>1. faulted' = faulted
        BY <2>2 DEF SupervisedCollect
      <3>2. Spares(Now, k, {})
        <4>1. /\ k.state = Now.state /\ k.next = Now.next
              /\ k.active = Now.active
              /\ k.qhead = [Now.qhead EXCEPT ![v] = Now.next[Now.qhead[v]]]
          BY <1>1, <1>2 DEF get_queued, Memory
        <4> HIDE DEF k
        <4>2. \A w \in FaultVector : k.qhead[w] = Now.qhead[w]
          BY <2>2, <4>1, <1>2 DEF Memory, FaultVector, QueueVector
        <4> QED BY <4>1, <4>2 DEF Spares
      <3> QED BY <3>1, <3>2, <1>2, SparesQueue
    <2> QED BY <2>1, <2>2
  <1> HIDE DEF k
  <1>5. Now' = k
    BY <1>1, <1>3, BecomeNow
  <1>6. FaultQueueIn(Now', faulted')
    BY <1>4, <1>5
  <1>7. FaultQueueOK'
    BY <1>6 DEF FaultQueueOK, FaultQueueIn, Now
  <1> QED BY <1>4, <1>7 DEF FKept, FaultedOK

-----------------------------------------------------------------------------
(* The theorems.                                                           *)

\* A supervised step is a step of the kernel.
LEMMA SupervisedIsNext == [SupervisedNext]_supervisedVars => [Next]_vars
  <1>1. FaultVector = {PAGEFAULT, MISCFAULT}
    BY DEF FaultVector
  <1>2. SupervisedOther => Next
    BY DEF SupervisedOther, Next, Api, Fault
  <1>3. ASSUME NEW th \in ThreadArg, SupervisedPause(th) PROVE Next
    BY <1>3 DEF SupervisedPause, Next, Api
  <1>4. ASSUME NEW v \in QueueVector, SupervisedCollect(v) PROVE Next
    BY <1>4 DEF SupervisedCollect, Next, Api
  <1>5. ASSUME NEW v \in FaultVector, SupervisedFault(v) PROVE Next
    BY <1>1, <1>5 DEF SupervisedFault, Next, Fault
  <1> QED BY <1>2, <1>3, <1>4, <1>5 DEF SupervisedNext, supervisedVars

\* What is proved of Kernel holds of Supervised.
THEOREM SupervisedIsKernel == SupervisedSpec => Spec
  <1>1. SupervisedInit => Init
    BY DEF SupervisedInit
  <1> QED BY <1>1, SupervisedIsNext, PTL DEF SupervisedSpec, Spec

\* Every supervised step keeps the fault queues.
LEMMA SupervisedNextKept ==
    FInv /\ [SupervisedNext]_supervisedVars => FKept
  <1> SUFFICES ASSUME FInv, [SupervisedNext]_supervisedVars PROVE FKept
    OBVIOUS
  <1>1. CASE UNCHANGED supervisedVars
    BY <1>1, SameMemoryKept DEF supervisedVars, vars
  <1>2. ASSUME NEW v \in FaultVector, SupervisedFault(v) PROVE FKept
    BY <1>2, FaultKept
  <1>3. ASSUME NEW v \in QueueVector, SupervisedCollect(v) PROVE FKept
    BY <1>3, CollectKept
  <1>4. ASSUME NEW th \in ThreadArg, SupervisedPause(th) PROVE FKept
    BY <1>4, PauseKept
  <1>5. CASE SupervisedOther
    <2>1. UNCHANGED faulted
      BY <1>5 DEF SupervisedOther
    <2>2. ASSUME NEW th \in ThreadArg, thread_resume(th) \/ thread_reap(th)
          PROVE  FKept
      BY <2>1, <2>2, ResumeKept, ReapKept
    <2>3. ASSUME NEW c \in TapChoice, interrupt_set_tap(c[1], c[2])
          PROVE  FKept
      <3>1. c[1] \in TapIndex /\ c[2] \in Vector
        BY TapAssumption
      <3> QED BY <2>1, <2>3, <3>1, SetTapKept
    <2>4. ASSUME NEW v \in Vector, interrupt_reset(v) PROVE FKept
      BY <2>1, <2>4, InterruptResetKept
    <2>5. CASE thread_yield \/ api_ret
               \/ \E th \in ThreadArg : thread_push_state(th)
      <3>1. UNCHANGED memoryVars
        BY <2>5 DEF thread_yield, api_ret, thread_push_state
      <3> QED BY <2>1, <3>1, SameMemoryKept
    <2>6. CASE thread_create BY <2>1, <2>6, CreateKept
    <2>7. CASE thread_exit BY <2>1, <2>7, ExitKept
    <2>8. CASE interrupt_wait BY <2>1, <2>8, WaitKept
    <2>9. CASE fault_timer BY <2>1, <2>9, TimerKept
    <2>10. CASE fault_yield BY <2>1, <2>10, YieldFaultKept
    <2> QED BY <1>5, <2>2, <2>3, <2>4, <2>5, <2>6, <2>7, <2>8, <2>9, <2>10
        DEF SupervisedOther
  <1> QED BY <1>1, <1>2, <1>3, <1>4, <1>5 DEF SupervisedNext

\* queues.c under a client that does not pause what has faulted: the lists behind
\* pagefault_queue and miscfault_queue are the threads that took such a fault and
\* were not collected, each in one of them and once, none of them on the core,
\* whatever else links through the same field.  Nothing is said of the order or
\* contents of the zombie queue.
THEOREM FaultQueuesCorrect == SupervisedSpec => []FaultQueueOK
  <1>1. SupervisedInit => FaultedOK /\ FaultQueueOK
    <2> SUFFICES ASSUME SupervisedInit PROVE FaultedOK /\ FaultQueueOK
      OBVIOUS
    <2>1. /\ faulted = [v \in FaultVector |-> << >>]
          /\ qhead = [v \in QueueVector |-> NULL]
          /\ FaultVector \subseteq QueueVector
      BY DEF SupervisedInit, Init, FaultVector, QueueVector
    <2> QED BY <2>1 DEF FaultedOK, FaultQueueOK
  <1>2. IInv /\ FaultedOK /\ FaultQueueOK /\ [SupervisedNext]_supervisedVars
            => FaultedOK' /\ FaultQueueOK'
    BY SupervisedNextKept DEF FInv, FKept
  <1> QED BY <1>1, <1>2, SupervisedIsKernel, Invariance, PTL DEF SupervisedSpec

\* With supervisors that collect faults and zombies, too, no wake-up is lost.
THEOREM SupervisedNoLostWakeup ==
    SupervisedSpec /\ []OneTap => []NoLostWakeup
  BY SupervisedIsKernel, NoLostWakeupOneTap, PTL
=============================================================================

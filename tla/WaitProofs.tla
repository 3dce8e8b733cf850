----------------------------- MODULE WaitProofs -----------------------------
(***************************************************************************)
(* Proofs about waiting for an interrupt: interrupt_wait against           *)
(* interrupt_vector_fire, interrupt_set_tap and the queues behind the      *)
(* vectors of pinion itself, for every value of Kernel's constants.        *)
(***************************************************************************)
EXTENDS KernelProofs

Waits(k, t) == k.state[t] \in {"WAITING", "SUSPENDEDWAITING"}

-----------------------------------------------------------------------------
(* Firing.                                                                 *)

\* What firing a vector does to the taps and to the threads that wait.
Marks(k, m) ==
    /\ \A t \in Thread, j \in TapIndex :
          /\ m.tap[t][j].vec = k.tap[t][j].vec
          /\ k.tap[t][j].fired => m.tap[t][j].fired
    /\ \A t \in Thread :
          /\ Waits(m, t) => Waits(k, t) /\ m.tap[t] = k.tap[t]
          /\ Waits(k, t) /\ ~Waits(m, t) => \E j \in TapIndex : m.tap[t][j].fired

\* A tap of t that names v has fired.
Told(k, t, v) == \E j \in TapsOf(k, t, v) : k.tap[t][j].fired

\* The taps of the thread in slot i of v, if any, know that v has fired.
SlotTold(k, v, i) ==
    LET t == k.route[v][i]
    IN  t # NULL /\ TapsOf(k, t, v) # {} => Told(k, t, v)

\* A Memory reached by marking, with the same queues and routes.
MarksOnly(k, m) ==
    /\ m \in Memory
    /\ m.qhead = k.qhead /\ m.route = k.route /\ m.active = k.active
    /\ Marks(k, m)

\* Marking twice is marking.
LEMMA MarksTransitive ==
    ASSUME NEW k, NEW l, NEW m, MarksOnly(k, l), MarksOnly(l, m)
    PROVE  MarksOnly(k, m)
  BY DEF MarksOnly, Marks

\* Marking keeps the taps of a vector and what they were told.
LEMMA MarksTold ==
    ASSUME NEW k, NEW m, MarksOnly(k, m), NEW t \in Thread, NEW v
    PROVE  /\ TapsOf(m, t, v) = TapsOf(k, t, v)
           /\ Told(k, t, v) => Told(m, t, v)
  BY DEF MarksOnly, Marks, TapsOf, Told

\* A slot once told stays so.
LEMMA MarksSlotTold ==
    ASSUME NEW k \in Memory, NEW m, MarksOnly(k, m), NEW v \in MappedVector,
           NEW i \in Slot, SlotTold(k, v, i)
    PROVE  SlotTold(m, v, i)
  <1>1. k.route[v][i] \in Thread \cup {NULL} /\ m.route[v][i] = k.route[v][i]
    BY DEF Memory, MarksOnly
  <1> QED BY <1>1, MarksTold DEF SlotTold

\* Setting the fired bit of one tap.
LEMMA SetFiredTaps ==
    ASSUME NEW k \in Memory, NEW t \in Thread, NEW j \in TapIndex,
           NEW b \in BOOLEAN
    PROVE  LET f == SetFired(k, t, j, b)
           IN  /\ \A u \in Thread, i \in TapIndex :
                     /\ f.tap[u][i].vec = k.tap[u][i].vec
                     /\ ~(u = t /\ i = j)
                            => f.tap[u][i].fired = k.tap[u][i].fired
               /\ \A u \in Thread : u # t => f.tap[u] = k.tap[u]
               /\ f.tap[t][j].fired = b
  <1> DEFINE y == [k.tap[t][j] EXCEPT !.fired = b]
             x == [k.tap EXCEPT ![t] = [k.tap[t] EXCEPT ![j] = y]]
             f == SetFired(k, t, j, b)
  <1>1. /\ k.tap \in [Thread -> [TapIndex -> Tap]]
        /\ k.tap[t] \in [TapIndex -> Tap]
    BY DEF Memory
  <1>2. k.tap[t][j] \in Tap
    BY <1>1
  <1>3. y.vec = k.tap[t][j].vec /\ y.fired = b
    BY <1>2 DEF Tap
  <1>4. f = [k EXCEPT !.tap = x]
    BY DEF SetFired
  <1> HIDE DEF f, x, y
  <1>5. f.tap = x
    BY <1>4 DEF Memory
  <1>6. /\ \A u \in Thread : u # t => x[u] = k.tap[u]
        /\ \A i \in TapIndex : i # j => x[t][i] = k.tap[t][i]
        /\ x[t][j] = y
    BY <1>1 DEF x
  <1> QED BY <1>3, <1>5, <1>6 DEF f

\* One turn of interrupt_vector_fire's loop: the thread in the slot is told,
\* and if it was waiting it stops.
LEMMA NotifyMarks ==
    ASSUME NEW k \in Memory, NEW v \in MappedVector, NEW i \in Slot
    PROVE  /\ MarksOnly(k, Notify(k, v, i))
           /\ SlotTold(Notify(k, v, i), v, i)
  <1> DEFINE t == k.route[v][i]
             j == FirstTap(k, t, v)
             f == SetFired(k, t, j, TRUE)
             m == Notify(k, v, i)
  <1>1. CASE t = NULL \/ TapsOf(k, t, v) = {}
    <2>1. m = k
      BY <1>1 DEF Notify
    <2> QED BY <1>1, <2>1 DEF MarksOnly, Marks, SlotTold
  <1>2. CASE t # NULL /\ TapsOf(k, t, v) # {}
    <2>1. m = StopWaiting(f, t)
      BY <1>2 DEF Notify
    <2>2. t \in Thread /\ j \in TapIndex
      BY <1>2, FirstTapIsTap DEF Memory
    <2>3. j \in TapsOf(k, t, v)
      <3>1. TapsOf(k, t, v) \in SUBSET (0..3)
        BY DEF TapsOf, TapIndex
      <3>2. \E x \in TapsOf(k, t, v) : \A y \in TapsOf(k, t, v) : x <= y
        BY <1>2, <3>1, LeastIndex
      <3> QED BY <3>2 DEF FirstTap
    <2>4. t = m.route[v][i] <=> k.route[v][i] = m.route[v][i]
      OBVIOUS
    <2> HIDE DEF t, j
    <2>5. /\ f \in Memory
          /\ f.state = k.state
          /\ f.qhead = k.qhead /\ f.route = k.route /\ f.active = k.active
      BY <2>2, TapFiredFields
    <2>6. /\ \A u \in Thread, x \in TapIndex :
                /\ f.tap[u][x].vec = k.tap[u][x].vec
                /\ ~(u = t /\ x = j) => f.tap[u][x].fired = k.tap[u][x].fired
          /\ \A u \in Thread : u # t => f.tap[u] = k.tap[u]
          /\ f.tap[t][j].fired = TRUE
      BY <2>2, SetFiredTaps
    <2> HIDE DEF f
    <2>7. /\ m \in Memory
          /\ m.tap = f.tap
          /\ m.qhead = f.qhead /\ m.route = f.route /\ m.active = f.active
          /\ ~Waits(m, t)
          /\ \A u \in Thread : u # t => m.state[u] = f.state[u]
      <3>1. f.state \in [Thread -> State]
        BY <2>5 DEF Memory
      <3>2. CASE f.state[t] = "WAITING"
        <4>1. m = MakeReady(f, t)
          BY <3>2, <2>1 DEF StopWaiting
        <4> HIDE DEF m
        <4>2. LET r == MakeReady(f, t)
              IN  /\ r \in Memory
                  /\ r.state = [f.state EXCEPT ![t] = "QUEUED"]
                  /\ r.tap = f.tap
                  /\ r.qhead = f.qhead /\ r.route = f.route
                  /\ r.active = f.active
          BY <2>2, <2>5, MakeReadyFields
        <4> QED BY <4>1, <4>2, <3>1, <2>2 DEF Waits
      <3>3. CASE f.state[t] = "SUSPENDEDWAITING"
        <4>1. m = [f EXCEPT !.state = [f.state EXCEPT ![t] = "SUSPENDED"]]
          BY <3>3, <2>1 DEF StopWaiting
        <4>2. [f.state EXCEPT ![t] = "SUSPENDED"] \in [Thread -> State]
          BY <3>1 DEF State
        <4>3. /\ m \in Memory
              /\ m.state = [f.state EXCEPT ![t] = "SUSPENDED"]
              /\ m.tap = f.tap
              /\ m.qhead = f.qhead /\ m.route = f.route /\ m.active = f.active
          BY <4>1, <4>2, <2>5 DEF Memory
        <4> QED BY <4>3, <3>1, <2>2 DEF Waits
      <3>4. CASE f.state[t] \notin {"WAITING", "SUSPENDEDWAITING"}
        <4>1. m = f
          BY <3>4, <2>1 DEF StopWaiting
        <4> QED BY <4>1, <3>4, <2>5 DEF Waits
      <3> QED BY <3>2, <3>3, <3>4
    <2> HIDE DEF m
    <2>8. \A u \in Thread : u # t => (Waits(m, u) <=> Waits(k, u))
      BY <2>5, <2>7 DEF Waits
    <2>9. MarksOnly(k, m)
      BY <2>2, <2>5, <2>6, <2>7, <2>8 DEF MarksOnly, Marks
    <2>10. Told(m, t, v)
      BY <2>2, <2>3, <2>6, <2>7 DEF Told, TapsOf
    <2>11. SlotTold(m, v, i)
      BY <2>5, <2>7, <2>10 DEF SlotTold, t
    <2> QED BY <2>9, <2>11 DEF m
  <1> QED BY <1>1, <1>2

\* A vector without routes to anybody does nothing.
LEMMA MarksReflexive ==
    ASSUME NEW k \in Memory
    PROVE  MarksOnly(k, k)
  BY DEF MarksOnly, Marks

\* interrupt_vector_fire tells every thread that is routed and has a tap.
LEMMA FireMarks ==
    ASSUME NEW k \in Memory, NEW v
    PROVE  LET m == interrupt_vector_fire(k, v)
           IN  /\ MarksOnly(k, m)
               /\ v \in MappedVector => \A i \in Slot : SlotTold(m, v, i)
  <1>1. CASE v \in MappedVector
    <2> DEFINE a == Notify(k, v, 0)
               b == Notify(a, v, 1)
               c == Notify(b, v, 2)
               d == Notify(c, v, 3)
    <2>1. 0 \in Slot /\ 1 \in Slot /\ 2 \in Slot /\ 3 \in Slot
          /\ \A i \in Slot : i = 0 \/ i = 1 \/ i = 2 \/ i = 3
      BY DEF Slot
    <2>2. MarksOnly(k, a) /\ SlotTold(a, v, 0) /\ a \in Memory
      BY <1>1, <2>1, NotifyMarks DEF MarksOnly
    <2> HIDE DEF a
    <2>3. MarksOnly(a, b) /\ SlotTold(b, v, 1) /\ b \in Memory
      BY <1>1, <2>1, <2>2, NotifyMarks DEF MarksOnly
    <2> HIDE DEF b
    <2>4. MarksOnly(b, c) /\ SlotTold(c, v, 2) /\ c \in Memory
      BY <1>1, <2>1, <2>3, NotifyMarks DEF MarksOnly
    <2> HIDE DEF c
    <2>5. MarksOnly(c, d) /\ SlotTold(d, v, 3)
      BY <1>1, <2>1, <2>4, NotifyMarks
    <2> HIDE DEF d
    <2>6. MarksOnly(k, d) /\ MarksOnly(b, d) /\ MarksOnly(a, d)
      BY <2>2, <2>3, <2>4, <2>5, MarksTransitive
    <2>7. SlotTold(d, v, 0) /\ SlotTold(d, v, 1) /\ SlotTold(d, v, 2)
      BY <1>1, <2>1, <2>2, <2>3, <2>4, <2>5, <2>6, MarksSlotTold
    <2>8. interrupt_vector_fire(k, v) = d
      BY <1>1 DEF interrupt_vector_fire, a, b, c, d
    <2> QED BY <2>1, <2>5, <2>6, <2>7, <2>8
  <1>2. CASE v \notin MappedVector
    BY <1>2, MarksReflexive DEF interrupt_vector_fire
  <1> QED BY <1>1, <1>2

\* The vectors of the queues have routes.
LEMMA QueueVectorMapped ==
    \A v \in QueueVector : v \in PinionPage /\ v \in MappedVector
  BY VectorAssumption DEF QueueVector, PinionPage, MappedVector, PAGEFAULT,
                          MISCFAULT, ZOMBIE

-----------------------------------------------------------------------------
(* What a step may do to the threads that wait, and to what they were      *)
(* told.  a is the thread on the core before the step.                     *)

\* A thread starts to wait only untold, and stops only told, or while it is
\* still on the core.
Keeps(k, m, a) ==
    \A t \in Tcb :
        /\ Waits(m, t) =>
              \/ \A j \in TapIndex : ~m.tap[t][j].fired
              \/ Waits(k, t) /\ m.tap[t] = k.tap[t]
        /\ Waits(k, t) /\ t # a /\ ~Waits(m, t) =>
              \E j \in TapIndex : m.tap[t][j].fired

\* A routed thread with a tap for a queue's vector is told while something is
\* in the queue.
AnnouncedIn(k) ==
    \A t \in Thread, v \in QueueVector :
        t \in Routed(k, v) /\ TapsOf(k, t, v) # {} =>
            k.qhead[v] = NULL \/ Told(k, t, v)

\* A step that neither marks, queues nor routes, and in which only a leaves or
\* enters a state.
StatesOnly(k, m, a) ==
    /\ m.tap = k.tap /\ m.qhead = k.qhead /\ m.route = k.route
    /\ \A t \in Tcb :
          /\ Waits(m, t) => Waits(k, t)
          /\ Waits(k, t) /\ t # a => Waits(m, t)

\* No tap changes its vector.
SameVectors(k, m) ==
    \A t \in Thread, j \in TapIndex : m.tap[t][j].vec = k.tap[t][j].vec

\* Such a step keeps all three.
LEMMA StatesOnlyKeeps ==
    ASSUME NEW k, NEW m, NEW a, StatesOnly(k, m, a)
    PROVE  /\ Keeps(k, m, a) /\ SameVectors(k, m)
           /\ AnnouncedIn(k) => AnnouncedIn(m)
  BY DEF StatesOnly, Keeps, SameVectors, AnnouncedIn, Told, TapsOf, Routed

\* So does one that marks first, and only then moves threads.
LEMMA MarksThenStates ==
    ASSUME NEW k \in Memory, NEW l, NEW m, NEW a,
           MarksOnly(k, l), StatesOnly(l, m, a)
    PROVE  /\ Keeps(k, m, a) /\ SameVectors(k, m)
           /\ AnnouncedIn(k) => AnnouncedIn(m)
  <1>1. Tcb \subseteq Thread
    BY DEF Thread
  <1>2. Keeps(k, m, a) /\ SameVectors(k, m)
    BY <1>1 DEF MarksOnly, Marks, StatesOnly, Keeps, SameVectors
  <1>3. AnnouncedIn(k) => AnnouncedIn(l)
    BY MarksTold DEF AnnouncedIn, Routed, MarksOnly
  <1> QED BY <1>2, <1>3, StatesOnlyKeeps

\* A fire or nothing is marking.
LEMMA ResetMarks ==
    ASSUME NEW k \in Memory, NEW v
    PROVE  LET m == interrupt_vector_reset(k, v)
           IN  /\ MarksOnly(k, m)
               /\ v \in QueueVector /\ k.qhead[v] # NULL
                     => \A i \in Slot : SlotTold(m, v, i)
  <1>1. v \in QueueVector => v \in PinionPage /\ v \in MappedVector
    BY QueueVectorMapped
  <1> QED BY <1>1, FireMarks, MarksReflexive
      DEF interrupt_vector_reset, pinion_on_reset, has_queued

\* A slot that was told is a thread that was told.
LEMMA SlotToldTold ==
    ASSUME NEW k, NEW v, \A i \in Slot : SlotTold(k, v, i),
           NEW t \in Thread, t \in Routed(k, v), TapsOf(k, t, v) # {}
    PROVE  Told(k, t, v)
  <1>1. t # NULL
    BY FrameAssumption DEF Thread
  <1> QED BY <1>1 DEF Routed, SlotTold

\* enqueue and the fire that follows it: the queue grows, and who taps its
\* vector is told.
LEMMA EnqueueFire ==
    ASSUME NEW k \in Memory, NEW v \in QueueVector, NEW t \in Thread
    PROVE  LET e == enqueue(k, v, t)
               m == interrupt_vector_fire(e, v)
           IN  /\ e \in Memory /\ e.state = k.state /\ e.tap = k.tap
               /\ e.active = k.active /\ e.route = k.route
               /\ MarksOnly(e, m)
               /\ AnnouncedIn(k) => AnnouncedIn(m)
  <1> DEFINE x == [k.next EXCEPT ![t] = k.qhead[v]]
             y == [k.qhead EXCEPT ![v] = t]
             e == enqueue(k, v, t)
             m == interrupt_vector_fire(e, v)
  <1>1. /\ x \in [Thread -> Thread \cup {NULL}]
        /\ y \in [QueueVector -> Thread \cup {NULL}]
        /\ \A w \in QueueVector : w # v => y[w] = k.qhead[w]
    BY DEF Memory
  <1>2. e = [k EXCEPT !.next = x, !.qhead = y]
    BY DEF enqueue
  <1> HIDE DEF x, y, e
  <1>3. /\ e \in Memory /\ e.state = k.state /\ e.tap = k.tap
        /\ e.active = k.active /\ e.route = k.route /\ e.qhead = y
    BY <1>1, <1>2 DEF Memory
  <1>4. MarksOnly(e, m) /\ \A i \in Slot : SlotTold(m, v, i)
    BY <1>3, FireMarks, QueueVectorMapped
  <1> HIDE DEF m
  <1>5. ASSUME AnnouncedIn(k), NEW u \in Thread, NEW w \in QueueVector,
               u \in Routed(m, w), TapsOf(m, u, w) # {}
        PROVE  m.qhead[w] = NULL \/ Told(m, u, w)
    <2>1. CASE w = v
      BY <2>1, <1>4, <1>5, SlotToldTold
    <2>2. CASE w # v
      <3>1. Routed(m, w) = Routed(k, w)
        BY <1>3, <1>4 DEF MarksOnly, Routed
      <3>2. TapsOf(m, u, w) = TapsOf(e, u, w) /\ (Told(e, u, w) => Told(m, u, w))
        BY <1>4, MarksTold
      <3>3. TapsOf(e, u, w) = TapsOf(k, u, w) /\ (Told(k, u, w) => Told(e, u, w))
        BY <1>3 DEF TapsOf, Told
      <3>4. m.qhead[w] = k.qhead[w]
        BY <1>1, <1>3, <1>4, <2>2 DEF MarksOnly
      <3> QED BY <1>5, <3>1, <3>2, <3>3, <3>4 DEF AnnouncedIn
    <2> QED BY <2>1, <2>2
  <1> QED BY <1>3, <1>4, <1>5 DEF AnnouncedIn, e, m

\* scheduler_schedule queues the incumbent and moves nobody else in or out of
\* a wait.
LEMMA ScheduleStates ==
    ASSUME NEW k \in Memory, RunQ(k),
           k.active # NULL => k.state[k.active] # "QUEUED"
    PROVE  StatesOnly(k, scheduler_schedule(k), k.active)
  <1> DEFINE u == ccb_unload_tcb(k)
             q == IF k.active = NULL THEN u ELSE MakeReady(u, k.active)
             h == q.runq[1]
             l == [scheduler_pull_tcb(q) EXCEPT !.state[h] = "RUNNING"]
             m == scheduler_schedule(k)
  <1>1. /\ u \in Memory
        /\ u.active = NULL
        /\ u.state = k.state /\ u.next = k.next /\ u.runq = k.runq
        /\ u.tap = k.tap /\ u.qhead = k.qhead /\ u.route = k.route
    BY DEF ccb_unload_tcb, Memory
  <1> HIDE DEF u
  <1>2. RunQ(u)
    BY <1>1, SameRunQ
  <1>3. /\ q \in Memory
        /\ RunQ(q)
        /\ q.active = NULL
        /\ q.tap = k.tap /\ q.qhead = k.qhead /\ q.route = k.route
        /\ \A t \in Thread : t # k.active => q.state[t] = k.state[t]
        /\ k.active # NULL => ~Waits(q, k.active)
    <2>1. CASE k.active = NULL
      BY <2>1, <1>1, <1>2
    <2>2. CASE k.active # NULL
      <3>1. k.active \in Thread /\ u.state[k.active] # "QUEUED"
        BY <2>2, <1>1 DEF Memory
      <3>2. q = MakeReady(u, k.active)
        BY <2>2
      <3> HIDE DEF q
      <3>3. LET r == MakeReady(u, k.active)
            IN  /\ r \in Memory
                /\ r.state = [u.state EXCEPT ![k.active] = "QUEUED"]
                /\ r.tap = u.tap /\ r.qhead = u.qhead /\ r.route = u.route
                /\ r.active = u.active
        BY <3>1, <1>1, MakeReadyFields
      <3>4. RunQ(q)
        BY <3>1, <3>2, <1>1, <1>2, MakeReadyRunQ
      <3>5. u.state \in [Thread -> State]
        BY <1>1 DEF Memory
      <3> QED BY <3>1, <3>2, <3>3, <3>4, <3>5, <1>1 DEF Waits
    <2> QED BY <2>1, <2>2
  <1>4. m = IF q.runq = << >> THEN ccb_load_tcb(q, Idle) ELSE ccb_load_tcb(l, h)
    BY DEF scheduler_schedule, u
  <1> HIDE DEF q, m
  <1>5. /\ m.tap = q.tap /\ m.qhead = q.qhead /\ m.route = q.route
        /\ \A t \in Thread : Waits(m, t) <=> Waits(q, t)
    <2>1. CASE q.runq = << >>
      <3>1. m = [q EXCEPT !.active = Idle]
        BY <1>3, <1>4, <2>1 DEF ccb_load_tcb
      <3> QED BY <3>1, <1>3 DEF Memory, Waits
    <2>2. CASE q.runq # << >>
      <3>1. /\ h \in Thread /\ q.state[h] = "QUEUED"
            /\ l \in Memory
            /\ l.state = [q.state EXCEPT ![h] = "RUNNING"]
            /\ l.tap = q.tap /\ l.qhead = q.qhead /\ l.route = q.route
            /\ l.active = NULL
        BY <1>3, <2>2, PullRunQ
      <3>2. q.state \in [Thread -> State]
        BY <1>3 DEF Memory
      <3> HIDE DEF h, l
      <3>3. m = [l EXCEPT !.active = h]
        BY <3>1, <1>4, <2>2 DEF ccb_load_tcb
      <3>4. /\ m.state = l.state
            /\ m.tap = l.tap /\ m.qhead = l.qhead /\ m.route = l.route
        BY <3>1, <3>3 DEF Memory
      <3> QED BY <3>1, <3>2, <3>4 DEF Waits
    <2> QED BY <2>1, <2>2
  <1>6. Tcb \subseteq Thread /\ NULL \notin Thread
    BY FrameAssumption DEF Thread
  <1>7. \A t \in Tcb : (Waits(m, t) => Waits(k, t))
                    /\ (Waits(k, t) /\ t # k.active => Waits(m, t))
    BY <1>3, <1>5, <1>6 DEF Waits
  <1> QED BY <1>3, <1>5, <1>7 DEF StatesOnly, m

-----------------------------------------------------------------------------
(* One lemma per action.                                                   *)

Quiet ==
    /\ Keeps(Now, Now', active)
    /\ SameVectors(Now, Now')
    /\ AnnouncedIn(Now) => AnnouncedIn(Now')

\* A step to a Memory that differs in states only.
LEMMA StatesStep ==
    ASSUME NEW k \in Memory, Become(k), StatesOnly(Now, k, active)
    PROVE  Quiet
  BY BecomeNow, StatesOnlyKeeps DEF Quiet

\* A step that leaves the memory alone.
LEMMA SameMemoryQuiet ==
    ASSUME IInv, UNCHANGED memoryVars
    PROVE  Quiet
  <1>1. Become(Now) /\ Now \in Memory
    BY UnchangedMemory, NowOK
  <1>2. StatesOnly(Now, Now, active)
    BY DEF StatesOnly
  <1> QED BY <1>1, <1>2, StatesStep

\* Changing the state of one thread to one that waits no more, or no less.
LEMMA OneState ==
    ASSUME IInv, NEW t \in Thread, NEW s \in State,
           Become([Now EXCEPT !.state[t] = s]),
           s \in {"WAITING", "SUSPENDEDWAITING"} <=> Waits(Now, t)
    PROVE  Quiet
  <1> DEFINE k == [Now EXCEPT !.state[t] = s]
  <1>1. state \in [Thread -> State] /\ Now \in Memory /\ Now.state = state
        /\ Tcb \subseteq Thread
    BY NowOK
  <1>2. k = [Now EXCEPT !.state = [state EXCEPT ![t] = s]]
    BY <1>1
  <1>3. Become(k)
    OBVIOUS
  <1> HIDE DEF k
  <1>4. /\ k \in Memory
        /\ k.state = [state EXCEPT ![t] = s]
        /\ k.tap = Now.tap /\ k.qhead = Now.qhead /\ k.route = Now.route
    BY <1>1, <1>2 DEF Memory
  <1>5. StatesOnly(Now, k, active)
    BY <1>1, <1>4 DEF StatesOnly, Waits
  <1> QED BY <1>3, <1>4, <1>5, StatesStep

\* thread_create: a frame that was free is suspended.
LEMMA CreateQuiet == ASSUME IInv, thread_create PROVE Quiet
  <1>1. ASSUME NEW t \in Allocatable,
               Become([Now EXCEPT !.state[t] = "SUSPENDED"])
        PROVE  Quiet
    <2>1. t \in Thread /\ state[t] = "FREE"
      BY <1>1, AllocFields DEF Thread
    <2>2. "SUSPENDED" \in State /\ ~Waits(Now, t)
      BY <2>1, NowOK DEF State, Waits
    <2> QED BY <1>1, <2>1, <2>2, OneState
  <1> QED BY <1>1, SameMemoryQuiet DEF thread_create

\* thread_reap: a suspended thread is freed.
LEMMA ReapQuiet ==
    ASSUME IInv, NEW th \in ThreadArg, thread_reap(th)
    PROVE  Quiet
  <1> DEFINE t == tcb_get(th)
  <1>1. t # NULL /\ state[t] = "SUSPENDED" /\ Become([Now EXCEPT !.state[t] = "FREE"])
    BY DEF thread_reap
  <1>2. t \in Thread
    BY <1>1, NamedThread DEF Thread
  <1> HIDE DEF t
  <1>3. "FREE" \in State /\ ~Waits(Now, t)
    BY <1>1, NowOK DEF State, Waits
  <1> QED BY <1>1, <1>2, <1>3, OneState

\* thread_pause: a waiting thread goes on waiting.
LEMMA PauseQuiet ==
    ASSUME IInv, NEW th \in ThreadArg, thread_pause(th)
    PROVE  Quiet
  <1> DEFINE t == tcb_get(OrSelf(th))
             k == IF t = NULL THEN Now ELSE Paused(Now, t)
  <1>1. Become(k)
    BY DEF thread_pause
  <1>2. CASE t = NULL \/ state[t] \notin {"WAITING", "RUNNING", "QUEUED"}
    <2>1. k = Now
      BY <1>2, NowOK DEF Paused
    <2> QED BY <1>1, <2>1, NowOK, StatesStep DEF StatesOnly
  <1>3. CASE t # NULL /\ state[t] \in {"WAITING", "RUNNING", "QUEUED"}
    <2>1. t \in Thread /\ k = Paused(Now, t)
      BY <1>3, NamedThread DEF Thread
    <2> HIDE DEF k, t
    <2>2. CASE state[t] = "WAITING"
      <3>1. k = [Now EXCEPT !.state[t] = "SUSPENDEDWAITING"]
        BY <2>1, <2>2, NowOK DEF Paused
      <3>2. "SUSPENDEDWAITING" \in State /\ Waits(Now, t)
        BY <2>2, NowOK DEF State, Waits
      <3> QED BY <1>1, <2>1, <3>1, <3>2, OneState
    <2>3. CASE state[t] = "RUNNING"
      <3>1. k = [Now EXCEPT !.state[t] = "SUSPENDED"]
        BY <2>1, <2>3, NowOK DEF Paused
      <3>2. "SUSPENDED" \in State /\ ~Waits(Now, t)
        BY <2>3, NowOK DEF State, Waits
      <3> QED BY <1>1, <2>1, <3>1, <3>2, OneState
    <2>4. CASE state[t] = "QUEUED"
      <3>1. k = [scheduler_rem_tcb(Now, t) EXCEPT !.state[t] = "SUSPENDED"]
        BY <2>1, <2>4, NowOK DEF Paused
      <3>2. Now \in Memory /\ RunQ(Now) /\ Now.state = state
        BY NowOK
      <3>3. LET r == [scheduler_rem_tcb(Now, t) EXCEPT !.state[t] = "SUSPENDED"]
            IN  /\ r \in Memory
                /\ r.state = [Now.state EXCEPT ![t] = "SUSPENDED"]
                /\ r.tap = Now.tap /\ r.qhead = Now.qhead
                /\ r.route = Now.route
        BY <2>1, <2>4, <3>2, RemRunQ
      <3>4. state \in [Thread -> State] /\ Tcb \subseteq Thread
        BY NowOK
      <3>5. StatesOnly(Now, k, active)
        BY <2>1, <2>4, <3>1, <3>2, <3>3, <3>4 DEF StatesOnly, Waits
      <3> QED BY <1>1, <3>1, <3>3, <3>5, StatesStep
    <2> QED BY <1>3, <2>2, <2>3, <2>4
  <1> QED BY <1>2, <1>3

\* thread_resume: a thread that was paused while it waited waits again.
LEMMA ResumeQuiet ==
    ASSUME IInv, NEW th \in ThreadArg, thread_resume(th)
    PROVE  Quiet
  <1> DEFINE t == tcb_get(OrSelf(th))
             k == IF t = NULL THEN Now ELSE Resumed(Now, t)
  <1>1. Become(k)
    BY DEF thread_resume
  <1>2. CASE t = NULL \/ state[t] \notin {"SUSPENDED", "SUSPENDEDWAITING"}
    <2>1. k = Now
      BY <1>2, NowOK DEF Resumed
    <2> QED BY <1>1, <2>1, NowOK, StatesStep DEF StatesOnly
  <1>3. CASE t # NULL /\ state[t] \in {"SUSPENDED", "SUSPENDEDWAITING"}
    <2>1. t \in Thread /\ k = Resumed(Now, t)
      BY <1>3, NamedThread DEF Thread
    <2> HIDE DEF k, t
    <2>2. CASE state[t] = "SUSPENDEDWAITING"
      <3>1. k = [Now EXCEPT !.state[t] = "WAITING"]
        BY <2>1, <2>2, NowOK DEF Resumed
      <3>2. "WAITING" \in State /\ Waits(Now, t)
        BY <2>2, NowOK DEF State, Waits
      <3> QED BY <1>1, <2>1, <3>1, <3>2, OneState
    <2>3. CASE state[t] = "SUSPENDED"
      <3>1. k = MakeReady(Now, t)
        BY <2>1, <2>3, NowOK DEF Resumed
      <3>2. Now \in Memory /\ Now.state = state
        BY NowOK
      <3>3. LET r == MakeReady(Now, t)
            IN  /\ r \in Memory
                /\ r.state = [Now.state EXCEPT ![t] = "QUEUED"]
                /\ r.tap = Now.tap /\ r.qhead = Now.qhead
                /\ r.route = Now.route
        BY <2>1, <3>2, MakeReadyFields
      <3>4. state \in [Thread -> State] /\ Tcb \subseteq Thread
        BY NowOK
      <3>5. StatesOnly(Now, k, active)
        BY <2>1, <2>3, <3>1, <3>2, <3>3, <3>4 DEF StatesOnly, Waits
      <3> QED BY <1>1, <3>1, <3>3, <3>5, StatesStep
    <2> QED BY <1>3, <2>2, <2>3
  <1> QED BY <1>2, <1>3

\* thread_exit: the caller joins the zombies, and who taps them is told.
LEMMA ExitQuiet == ASSUME IInv, thread_exit PROVE Quiet
  <1> DEFINE s == [Now EXCEPT !.state[active] = "SUSPENDED"]
             e == enqueue(s, ZOMBIE, active)
             k == interrupt_vector_fire(e, ZOMBIE)
  <1>1. active \in Thread /\ state[active] = "RUNNING"
    BY CallerRuns, NowOK DEF thread_exit
  <1>2. Become(k)
    BY DEF thread_exit
  <1>3. /\ s \in Memory
        /\ s.state = [state EXCEPT ![active] = "SUSPENDED"]
        /\ s.tap = Now.tap /\ s.qhead = Now.qhead /\ s.route = Now.route
    <2>1. [state EXCEPT ![active] = "SUSPENDED"] \in [Thread -> State]
      BY NowOK DEF State
    <2>2. s = [Now EXCEPT !.state = [state EXCEPT ![active] = "SUSPENDED"]]
      BY NowOK
    <2> QED BY <2>1, <2>2, NowOK DEF Memory
  <1> HIDE DEF s
  <1>4. StatesOnly(Now, s, active)
    <2>1. /\ state \in [Thread -> State] /\ Tcb \subseteq Thread
          /\ Now.state = state
      BY NowOK
    <2> QED BY <1>1, <1>3, <2>1 DEF StatesOnly, Waits
  <1>5. /\ e \in Memory /\ e.state = s.state /\ e.tap = s.tap
        /\ MarksOnly(e, k)
        /\ AnnouncedIn(s) => AnnouncedIn(k)
    <2>1. ZOMBIE \in QueueVector
      BY DEF QueueVector
    <2> QED BY <2>1, <1>1, <1>3, EnqueueFire
  <1>6. AnnouncedIn(Now) => AnnouncedIn(k)
    BY <1>4, <1>5, StatesOnlyKeeps
  <1> HIDE DEF e, k
  <1>7. Keeps(Now, k, active) /\ SameVectors(Now, k)
    <2>1. ~Waits(s, active) /\ ~Waits(Now, active) /\ Tcb \subseteq Thread
      BY <1>1, <1>3, NowOK DEF Waits
    <2>2. \A t \in Tcb : (Waits(e, t) <=> Waits(Now, t)) /\ e.tap[t] = Now.tap[t]
      BY <1>3, <1>4, <1>5, <2>1 DEF StatesOnly, Waits
    <2>3. SameVectors(Now, k)
      BY <1>3, <1>5 DEF MarksOnly, Marks, SameVectors
    <2> QED BY <1>5, <2>1, <2>2, <2>3 DEF MarksOnly, Marks, Keeps
  <1>8. Now' = k
    BY <1>2, <1>5, BecomeNow DEF MarksOnly
  <1> QED BY <1>6, <1>7, <1>8 DEF Quiet

\* interrupt_wait: a thread that was told does not start to wait.
LEMMA WaitQuiet == ASSUME IInv, interrupt_wait PROVE Quiet
  <1> DEFINE k == Waiting(Now)
  <1>1. active \in Thread /\ state[active] = "RUNNING"
    BY CallerRuns, NowOK DEF interrupt_wait
  <1>2. Become(k)
    BY DEF interrupt_wait
  <1>3. CASE \E j \in TapIndex : Now.tap[active][j].fired
    <2>1. k = Now
      BY <1>3, NowOK DEF Waiting
    <2> QED BY <1>2, <2>1, NowOK, StatesStep DEF StatesOnly
  <1>4. CASE \A j \in TapIndex : ~Now.tap[active][j].fired
    <2>1. k = [Now EXCEPT !.state = [state EXCEPT ![active] = "WAITING"]]
      BY <1>4, NowOK DEF Waiting
    <2> HIDE DEF k
    <2>2. [state EXCEPT ![active] = "WAITING"] \in [Thread -> State]
      BY NowOK DEF State
    <2>3. /\ k \in Memory
          /\ k.state = [state EXCEPT ![active] = "WAITING"]
          /\ k.tap = Now.tap /\ k.qhead = Now.qhead /\ k.route = Now.route
      BY <2>1, <2>2, NowOK DEF Memory
    <2>4. \A t \in Tcb : t # active => (Waits(k, t) <=> Waits(Now, t))
      BY <2>3, NowOK DEF Waits
    <2>5. Keeps(Now, k, active)
      BY <1>4, <2>3, <2>4 DEF Keeps
    <2>6. SameVectors(Now, k) /\ (AnnouncedIn(Now) => AnnouncedIn(k))
      BY <2>3 DEF SameVectors, AnnouncedIn, Told, TapsOf, Routed
    <2> QED BY <1>2, <2>3, <2>5, <2>6, BecomeNow DEF Quiet
  <1> QED BY <1>3, <1>4

\* fault_get_*: what leaves the queue was in it.
LEMMA FaultGetQuiet ==
    ASSUME IInv, NEW v \in QueueVector, fault_get(v)
    PROVE  Quiet
  <1> DEFINE y == [qhead EXCEPT ![v] = next[qhead[v]]]
             k == get_queued(Now, v)
  <1>1. Become(k) /\ has_queued(Now, v)
    BY DEF fault_get
  <1>2. Now.qhead = qhead /\ Now.next = next /\ Now \in Memory
    BY NowOK DEF Now
  <1>3. k = [Now EXCEPT !.qhead = y]
    BY <1>1, <1>2 DEF get_queued
  <1>4. y \in [QueueVector -> Thread \cup {NULL}]
    BY <1>1, <1>2 DEF Memory, has_queued
  <1> HIDE DEF k, y
  <1>5. /\ k \in Memory /\ k.qhead = y
        /\ k.state = Now.state /\ k.tap = Now.tap /\ k.route = Now.route
    BY <1>2, <1>3, <1>4 DEF Memory
  <1>6. \A w \in QueueVector : Now.qhead[w] = NULL => k.qhead[w] = NULL
    BY <1>1, <1>2, <1>5 DEF has_queued, y, Memory
  <1>7. AnnouncedIn(Now) => AnnouncedIn(k)
    BY <1>5, <1>6 DEF AnnouncedIn, Told, TapsOf, Routed
  <1>8. Keeps(Now, k, active) /\ SameVectors(Now, k)
    BY <1>5 DEF Keeps, Waits, SameVectors
  <1> QED BY <1>1, <1>5, <1>7, <1>8, BecomeNow DEF Quiet

\* A handler that marks, beginning from a Memory with the states of Now, and
\* then schedules.
LEMMA MarksThenSchedule ==
    ASSUME IInv, NEW k \in Memory, RunQ(k), k.active = NULL \/ k.active = active,
           k.active # NULL => k.state[k.active] # "QUEUED",
           NEW e \in Memory, MarksOnly(e, k),
           e.state = state, e.tap = tap,
           Become(scheduler_schedule(k)),
           AnnouncedIn(Now) => AnnouncedIn(k)
    PROVE  Quiet
  <1> DEFINE m == scheduler_schedule(k)
  <1>1. m \in Memory /\ StatesOnly(k, m, k.active) /\ Become(m)
    BY ScheduleRunQ, ScheduleStates
  <1> HIDE DEF m
  <1>2. StatesOnly(k, m, active)
    BY <1>1, FrameAssumption DEF StatesOnly, Thread
  <1>3. Keeps(e, m, active) /\ SameVectors(e, m)
    BY <1>2, MarksThenStates
  <1>4. Now.state = state /\ Now.tap = tap
    BY DEF Now
  <1>5. Keeps(Now, m, active) /\ SameVectors(Now, m)
    BY <1>3, <1>4 DEF Keeps, Waits, SameVectors
  <1>6. AnnouncedIn(Now) => AnnouncedIn(m)
    BY <1>2, StatesOnlyKeeps
  <1> QED BY <1>1, <1>5, <1>6, BecomeNow DEF Quiet

\* The timer: the incumbent is queued, even if it was about to wait.
LEMMA TimerQuiet == ASSUME IInv, fault_timer PROVE Quiet
  <1>1. /\ Now \in Memory /\ RunQ(Now) /\ Now.active = active
        /\ Now.state = state /\ Now.state[Now.active] # "QUEUED"
    BY NowOK
  <1>2. MarksOnly(Now, Now) /\ Now.tap = tap
    BY <1>1, MarksReflexive DEF Now
  <1>3. Become(scheduler_schedule(Now))
    BY DEF fault_timer
  <1> QED BY <1>1, <1>2, <1>3, MarksThenSchedule

\* Taking the active thread off the core leaves the rest.
LEMMA UnloadMarks ==
    ASSUME IInv
    PROVE  LET u == ccb_unload_tcb(Now)
           IN  /\ u \in Memory /\ RunQ(u)
               /\ u.active = NULL /\ u.state = state /\ u.tap = tap
               /\ MarksOnly(u, u)
               /\ AnnouncedIn(Now) => AnnouncedIn(u)
  <1> DEFINE u == ccb_unload_tcb(Now)
  <1>1. u \in Memory /\ RunQ(u) /\ u.active = NULL /\ u.state = state
    BY UnloadFields
  <1>2. u.tap = Now.tap /\ u.qhead = Now.qhead /\ u.route = Now.route
        /\ Now.tap = tap
    BY NowOK DEF ccb_unload_tcb, Memory, Now
  <1> HIDE DEF u
  <1>3. AnnouncedIn(Now) => AnnouncedIn(u)
    BY <1>2 DEF AnnouncedIn, Told, TapsOf, Routed
  <1> QED BY <1>1, <1>2, <1>3, MarksReflexive DEF u

\* int 0xFF: a thread that waits leaves the core and goes on waiting.
LEMMA YieldFaultQuiet == ASSUME IInv, fault_yield PROVE Quiet
  <1> DEFINE rdi == IF pc[active] = "yield_w" THEN 1 ELSE 0
             k == IF rdi = 0 /\ Now.state[Now.active] # "RUNNING"
                  THEN ccb_unload_tcb(Now) ELSE Now
  <1>1. Become(scheduler_schedule(k))
    BY DEF fault_yield, PostYield
  <1>2. CASE k = Now
    <2> HIDE DEF k
    <2>1. /\ Now \in Memory /\ RunQ(Now) /\ Now.active = active
          /\ Now.state = state /\ Now.state[Now.active] # "QUEUED"
      BY NowOK
    <2>2. MarksOnly(Now, Now) /\ Now.tap = tap
      BY <2>1, MarksReflexive DEF Now
    <2> QED BY <1>1, <1>2, <2>1, <2>2, MarksThenSchedule
  <1>3. CASE k = ccb_unload_tcb(Now)
    <2> DEFINE u == ccb_unload_tcb(Now)
    <2> HIDE DEF k
    <2>1. /\ u \in Memory /\ RunQ(u)
          /\ u.active = NULL /\ u.state = state /\ u.tap = tap
          /\ MarksOnly(u, u)
          /\ AnnouncedIn(Now) => AnnouncedIn(u)
      BY UnloadMarks
    <2>2. k = u
      BY <1>3
    <2> HIDE DEF u
    <2> QED BY <1>1, <2>1, <2>2, MarksThenSchedule
  <1> QED BY <1>2, <1>3

\* An exception: the thread joins its supervisor's queue, who is told.
LEMMA ExceptionQuiet ==
    ASSUME IInv, NEW v \in {PAGEFAULT, MISCFAULT}, fault_exception(v)
    PROVE  Quiet
  <1> DEFINE u == ccb_unload_tcb(Now)
             e == enqueue(u, v, active)
             k == interrupt_vector_fire(e, v)
  <1>1. active \in Tcb /\ active \in Thread /\ state[active] = "RUNNING"
    BY CallerRuns, NowOK DEF fault_exception
  <1>2. Become(scheduler_schedule(k))
    BY NowOK DEF fault_exception, TakeFault
  <1>3. /\ u \in Memory /\ RunQ(u)
        /\ u.active = NULL /\ u.state = state /\ u.tap = tap
        /\ AnnouncedIn(Now) => AnnouncedIn(u)
    BY UnloadMarks
  <1> HIDE DEF u
  <1>4. v \in QueueVector
    BY DEF QueueVector
  <1>5. /\ e \in Memory /\ e.state = u.state /\ e.tap = u.tap
        /\ e.active = u.active /\ MarksOnly(e, k)
        /\ AnnouncedIn(u) => AnnouncedIn(k)
    BY <1>1, <1>3, <1>4, EnqueueFire
  <1>6. RunQ(e)
    BY <1>1, <1>3, <1>4, EnqueueRunQ
  <1> HIDE DEF e
  <1>7. RunQ(k)
    <2>1. ActiveNotWaiting(e)
      BY <1>3, <1>5 DEF ActiveNotWaiting
    <2> QED BY <2>1, <1>5, <1>6, FireFires DEF Fires
  <1> HIDE DEF k
  <1>8. k \in Memory /\ k.active = NULL
    BY <1>3, <1>5 DEF MarksOnly
  <1> QED BY <1>2, <1>3, <1>5, <1>7, <1>8, MarksThenSchedule

-----------------------------------------------------------------------------
(* The two calls that write taps.                                          *)

\* No live thread has two taps for the same queue.
OneTap ==
    \A t \in Tcb, v \in QueueVector : state[t] # "FREE" =>
        \A i, j \in TapsOf(Now, t, v) : i = j

\* A handler of the running thread that changes taps or routes for one vector
\* and then resets it: the vector's queue is announced by the reset, the others
\* as before.
LEMMA ResetQuiet ==
    ASSUME IInv, active \in Tcb, state[active] = "RUNNING",
           NEW v, NEW m \in Memory,
           m.state = state, m.qhead = qhead,
           \A t \in Thread : t # active => m.tap[t] = tap[t],
           Become(interrupt_vector_reset(m, v))
    PROVE  /\ Keeps(Now, Now', active)
           /\ SameVectors(m, Now')
           /\ (/\ AnnouncedIn(Now)
               /\ \A t \in Thread, w \in QueueVector :
                     /\ w # v /\ t \in Routed(m, w) /\ TapsOf(m, t, w) # {}
                     => /\ t \in Routed(Now, w) /\ TapsOf(Now, t, w) # {}
                        /\ Told(Now, t, w) => Told(m, t, w))
                => AnnouncedIn(Now')
  <1> DEFINE k == interrupt_vector_reset(m, v)
  <1>1. /\ MarksOnly(m, k)
        /\ v \in QueueVector /\ m.qhead[v] # NULL
              => \A i \in Slot : SlotTold(k, v, i)
    BY ResetMarks
  <1>2. Become(k)
    OBVIOUS
  <1> HIDE DEF k
  <1>3. Now' = k
    BY <1>1, <1>2, BecomeNow DEF MarksOnly
  <1>4. Now.state = state /\ Now.tap = tap /\ Now.qhead = qhead
    BY DEF Now
  <1>5. Tcb \subseteq Thread
    BY DEF Thread
  <1>6. Keeps(Now, k, active)
    <2>1. ~Waits(m, active)
      BY DEF Waits
    <2>2. \A t \in Tcb : Waits(m, t) <=> Waits(Now, t)
      BY <1>4 DEF Waits
    <2>3. \A t \in Tcb : t # active => m.tap[t] = Now.tap[t]
      BY <1>4, <1>5
    <2> QED BY <1>1, <1>5, <2>1, <2>2, <2>3 DEF MarksOnly, Marks, Keeps
  <1>7. SameVectors(m, k)
    BY <1>1 DEF MarksOnly, Marks, SameVectors
  <1>8. ASSUME AnnouncedIn(Now),
               \A t \in Thread, w \in QueueVector :
                     /\ w # v /\ t \in Routed(m, w) /\ TapsOf(m, t, w) # {}
                     => /\ t \in Routed(Now, w) /\ TapsOf(Now, t, w) # {}
                        /\ Told(Now, t, w) => Told(m, t, w),
               NEW t \in Thread, NEW w \in QueueVector,
               t \in Routed(k, w), TapsOf(k, t, w) # {}
        PROVE  k.qhead[w] = NULL \/ Told(k, t, w)
    <2>1. CASE w = v
      BY <2>1, <1>1, <1>8, SlotToldTold DEF MarksOnly
    <2>2. CASE w # v
      <3>1. t \in Routed(m, w) /\ TapsOf(m, t, w) # {}
        BY <1>1, <1>8, MarksTold DEF MarksOnly, Routed
      <3>2. Now.qhead[w] = NULL \/ Told(m, t, w)
        BY <1>8, <2>2, <3>1 DEF AnnouncedIn
      <3> QED BY <3>2, <1>1, <1>4, MarksTold DEF MarksOnly
    <2> QED BY <2>1, <2>2
  <1> QED BY <1>3, <1>6, <1>7, <1>8 DEF AnnouncedIn

\* Writing one slot of one vector.
LEMMA SlotWritten ==
    ASSUME NEW k \in Memory, NEW v \in MappedVector, NEW i \in Slot,
           NEW t \in Thread \cup {NULL}
    PROVE  LET m == [k EXCEPT !.route[v][i] = t]
           IN  /\ m.qhead = k.qhead
               /\ \A w \in MappedVector :
                     Routed(m, w) \subseteq
                        Routed(k, w) \cup (IF w = v THEN {t} ELSE {})
  <1> DEFINE x == [k.route EXCEPT ![v] = [k.route[v] EXCEPT ![i] = t]]
             m == [k EXCEPT !.route[v][i] = t]
  <1>1. k.route \in [MappedVector -> [Slot -> Thread \cup {NULL}]]
    BY DEF Memory
  <1>2. m = [k EXCEPT !.route = x]
    OBVIOUS
  <1> HIDE DEF m
  <1>3. m.qhead = k.qhead /\ m.route = x
    BY <1>2 DEF Memory
  <1>4. \A w \in MappedVector, j \in Slot :
            x[w][j] = k.route[w][j] \/ (w = v /\ x[w][j] = t)
    BY <1>1
  <1> QED BY <1>3, <1>4 DEF Routed, m

\* Adding a route for v leaves the other vectors alone; removing one leaves
\* at most an empty slot behind.
LEMMA RouteRouted ==
    ASSUME NEW k \in Memory, NEW t \in Thread, NEW v
    PROVE  LET a == interrupt_add_route(k, t, v)
               r == interrupt_remove_route(k, t, v)
           IN  /\ a.qhead = k.qhead /\ r.qhead = k.qhead
               /\ \A w \in MappedVector :
                     /\ w # v => Routed(a, w) \subseteq Routed(k, w)
                     /\ Routed(r, w) \subseteq Routed(k, w) \cup {NULL}
  <1>1. ASSUME v \in MappedVector, NEW u \in Thread \cup {NULL},
               u \in Routed(k, v)
        PROVE  FirstSlot(k, v, u) \in Slot
    <2> DEFINE J == {i \in Slot : k.route[v][i] = u}
    <2>1. J \in SUBSET (0..3) /\ J # {}
      BY <1>1 DEF Routed, Slot
    <2>2. \E i \in J : \A j \in J : i <= j
      BY <2>1, LeastIndex
    <2> QED BY <2>2 DEF FirstSlot
  <1>2. ASSUME NEW u \in Thread \cup {NULL}, NEW s \in Thread \cup {NULL},
               v \in MappedVector, u \in Routed(k, v)
        PROVE  LET m == [k EXCEPT !.route[v][FirstSlot(k, v, u)] = s]
               IN  /\ m.qhead = k.qhead
                   /\ \A w \in MappedVector :
                         Routed(m, w) \subseteq
                            Routed(k, w) \cup (IF w = v THEN {s} ELSE {})
    BY <1>1, <1>2, SlotWritten
  <1>3. LET a == interrupt_add_route(k, t, v)
        IN  /\ a.qhead = k.qhead
            /\ \A w \in MappedVector : w # v => Routed(a, w) \subseteq Routed(k, w)
    BY <1>2 DEF interrupt_add_route
  <1>4. LET r == interrupt_remove_route(k, t, v)
        IN  /\ r.qhead = k.qhead
            /\ \A w \in MappedVector :
                  Routed(r, w) \subseteq Routed(k, w) \cup {NULL}
    BY <1>2 DEF interrupt_remove_route
  <1> QED BY <1>3, <1>4

\* interrupt_set_tap: the caller may lose a tap, and with it what the tap was
\* told; unless another tap names the same queue, it then has none left.
LEMMA SetTapQuiet ==
    ASSUME IInv, NEW j \in TapIndex, NEW v \in Vector, interrupt_set_tap(j, v)
    PROVE  /\ Keeps(Now, Now', active)
           /\ \A u \in Thread, i \in TapIndex :
                 tap'[u][i].vec =
                    IF u = active /\ i = j THEN v ELSE tap[u][i].vec
           /\ OneTap /\ AnnouncedIn(Now) => AnnouncedIn(Now')
  <1> DEFINE o == OldRouteRemoved(Now, active, j)
             n == [vec |-> v, fired |-> FALSE]
             t == [o EXCEPT !.tap[active][j] = n]
             m == interrupt_add_route(t, active, v)
             x == [tap EXCEPT ![active] = [tap[active] EXCEPT ![j] = n]]
  <1>1. active \in Tcb /\ active \in Thread /\ state[active] = "RUNNING"
    BY CallerRuns, NowOK DEF interrupt_set_tap
  <1>2. Become(interrupt_vector_reset(m, v))
    BY DEF interrupt_set_tap
  <1>3. /\ o \in Memory
        /\ o.state = state /\ o.tap = tap /\ o.qhead = qhead
        /\ \A w \in MappedVector :
              Routed(o, w) \subseteq Routed(Now, w) \cup {NULL}
    <2>1. Now \in Memory /\ Now.state = state /\ Now.tap = tap
          /\ Now.qhead = qhead
      BY NowOK DEF Now
    <2>2. \A w : LET r == interrupt_remove_route(Now, active, w)
                 IN  /\ r \in Memory
                     /\ r.state = Now.state /\ r.tap = Now.tap
                     /\ r.qhead = Now.qhead
                     /\ \A u \in MappedVector :
                           Routed(r, u) \subseteq Routed(Now, u) \cup {NULL}
      <3> TAKE w
      <3> QED BY <1>1, <2>1, RouteFields, RouteRouted
    <2> QED BY <2>1, <2>2 DEF OldRouteRemoved
  <1> HIDE DEF o
  <1>4. /\ tap \in [Thread -> [TapIndex -> Tap]]
        /\ tap[active] \in [TapIndex -> Tap] /\ n \in Tap
        /\ x \in [Thread -> [TapIndex -> Tap]]
    BY <1>1, <1>3 DEF Memory, Tap
  <1>5. t = [o EXCEPT !.tap = x]
    BY <1>3
  <1>6. /\ \A u \in Thread : u # active => x[u] = tap[u]
        /\ \A i \in TapIndex : i # j => x[active][i] = tap[active][i]
        /\ x[active][j].vec = v
    BY <1>1, <1>4
  <1> HIDE DEF t, x, n
  <1>7. /\ t \in Memory /\ t.tap = x
        /\ t.state = state /\ t.qhead = qhead /\ t.route = o.route
    BY <1>3, <1>4, <1>5 DEF Memory
  <1>8. /\ m \in Memory
        /\ m.state = state /\ m.tap = x /\ m.qhead = qhead
        /\ \A w \in MappedVector : w # v => Routed(m, w) \subseteq Routed(t, w)
    BY <1>1, <1>7, RouteFields, RouteRouted
  <1> HIDE DEF m
  <1>9. \A u \in Thread : u # active => m.tap[u] = tap[u]
    BY <1>6, <1>8
  <1>10. ASSUME OneTap, NEW u \in Thread, NEW w \in QueueVector,
                w # v, u \in Routed(m, w), TapsOf(m, u, w) # {}
         PROVE  /\ u \in Routed(Now, w) /\ TapsOf(Now, u, w) # {}
                /\ Told(Now, u, w) => Told(m, u, w)
    <2>1. u \in Routed(Now, w)
      <3>1. w \in MappedVector /\ u # NULL
        BY QueueVectorMapped, FrameAssumption DEF Thread
      <3>2. Routed(t, w) = Routed(o, w)
        BY <1>7 DEF Routed
      <3> QED BY <3>1, <3>2, <1>3, <1>8, <1>10
    <2>2. Now.tap = tap
      BY DEF Now
    <2>3. CASE u # active
      BY <2>1, <2>2, <2>3, <1>9, <1>10 DEF TapsOf, Told
    <2>4. CASE u = active
      <3>1. j \notin TapsOf(m, active, w)
        BY <1>6, <1>8, <1>10 DEF TapsOf
      <3>2. PICK i \in TapIndex : i # j /\ i \in TapsOf(m, active, w)
        BY <2>4, <3>1, <1>10 DEF TapsOf
      <3>3. i \in TapsOf(Now, active, w)
        BY <3>2, <2>2, <1>6, <1>8 DEF TapsOf
      <3>4. j \notin TapsOf(Now, active, w)
        BY <3>2, <3>3, <1>1, <1>10 DEF OneTap
      <3>5. Told(Now, active, w) => Told(m, active, w)
        <4> SUFFICES ASSUME NEW y \in TapsOf(Now, active, w),
                            Now.tap[active][y].fired
                     PROVE  Told(m, active, w)
          BY DEF Told
        <4>1. y \in TapIndex /\ y # j
          BY <3>4 DEF TapsOf
        <4>2. m.tap[active][y] = Now.tap[active][y]
          BY <4>1, <2>2, <1>6, <1>8
        <4> QED BY <4>1, <4>2 DEF Told, TapsOf
      <3> QED BY <2>1, <2>4, <3>3, <3>5
    <2> QED BY <2>3, <2>4
  <1>11. \A u \in Thread, i \in TapIndex :
             x[u][i].vec = IF u = active /\ i = j THEN v ELSE tap[u][i].vec
    BY <1>6
  <1>12. SameVectors(m, Now')
    BY <1>1, <1>2, <1>8, <1>9, ResetQuiet
  <1>13. \A u \in Thread, i \in TapIndex :
             tap'[u][i].vec = IF u = active /\ i = j THEN v ELSE tap[u][i].vec
    BY <1>8, <1>11, <1>12 DEF SameVectors, Now
  <1> QED BY <1>1, <1>2, <1>8, <1>9, <1>10, <1>13, ResetQuiet

\* interrupt_reset: the tap is cleared, and told again if the queue is not
\* empty.
LEMMA InterruptResetQuiet ==
    ASSUME IInv, NEW v \in Vector, interrupt_reset(v)
    PROVE  Quiet
  <1> DEFINE j == FirstTap(Now, active, v)
             m == SetFired(Now, active, j, FALSE)
  <1>1. active \in Tcb /\ active \in Thread /\ state[active] = "RUNNING"
    BY CallerRuns, NowOK DEF interrupt_reset
  <1>2. Become(interrupt_vector_reset(m, v)) /\ TapsOf(Now, active, v) # {}
    BY DEF interrupt_reset
  <1>3. j \in TapIndex /\ Now \in Memory /\ Now.state = state
        /\ Now.tap = tap /\ Now.qhead = qhead
    BY <1>2, FirstTapIsTap, NowOK DEF Now
  <1>4. tap[active][j].vec = v
    <2>1. TapsOf(Now, active, v) \in SUBSET (0..3)
      BY DEF TapsOf, TapIndex
    <2>2. \E x \in TapsOf(Now, active, v) :
             \A y \in TapsOf(Now, active, v) : x <= y
      BY <1>2, <2>1, LeastIndex
    <2>3. j \in TapsOf(Now, active, v)
      BY <2>2 DEF FirstTap
    <2> QED BY <2>3, <1>3 DEF TapsOf
  <1> HIDE DEF j
  <1>5. /\ m \in Memory
        /\ m.state = state /\ m.qhead = qhead /\ m.route = Now.route
    BY <1>1, <1>3, TapFiredFields
  <1>6. /\ \A u \in Thread, i \in TapIndex :
              /\ m.tap[u][i].vec = tap[u][i].vec
              /\ ~(u = active /\ i = j)
                     => m.tap[u][i].fired = tap[u][i].fired
        /\ \A u \in Thread : u # active => m.tap[u] = tap[u]
    <2>1. Now \in Memory /\ j \in TapIndex
      BY <1>3
    <2>2. PICK b \in BOOLEAN : m = SetFired(Now, active, j, b)
      OBVIOUS
    <2> HIDE DEF m
    <2>3. /\ \A u \in Thread, i \in TapIndex :
                /\ m.tap[u][i].vec = Now.tap[u][i].vec
                /\ ~(u = active /\ i = j)
                       => m.tap[u][i].fired = Now.tap[u][i].fired
          /\ \A u \in Thread : u # active => m.tap[u] = Now.tap[u]
      BY <1>1, <2>1, <2>2, SetFiredTaps
    <2> QED BY <2>3, <1>3
  <1> HIDE DEF m
  <1>7. ASSUME NEW u \in Thread, NEW w \in QueueVector,
               w # v, u \in Routed(m, w), TapsOf(m, u, w) # {}
        PROVE  /\ u \in Routed(Now, w) /\ TapsOf(Now, u, w) # {}
               /\ Told(Now, u, w) => Told(m, u, w)
    <2>1. u \in Routed(Now, w)
      BY <1>5, <1>7 DEF Routed
    <2>2. TapsOf(m, u, w) = TapsOf(Now, u, w)
      BY <1>3, <1>6 DEF TapsOf
    <2>3. \A i \in TapsOf(Now, u, w) :
              m.tap[u][i].fired = Now.tap[u][i].fired
      BY <1>3, <1>4, <1>6, <1>7 DEF TapsOf
    <2> QED BY <2>1, <2>2, <2>3, <1>7 DEF Told
  <1>8. SameVectors(m, Now')
    BY <1>1, <1>2, <1>5, <1>6, ResetQuiet
  <1>9. SameVectors(Now, Now')
    BY <1>3, <1>6, <1>8 DEF SameVectors
  <1> QED BY <1>1, <1>2, <1>5, <1>6, <1>7, <1>9, ResetQuiet DEF Quiet

-----------------------------------------------------------------------------
(* The theorems.                                                           *)

\* Every step of the kernel, set_tap and the others.
LEMMA NextQuiet ==
    ASSUME IInv, [Next]_vars
    PROVE  /\ Keeps(Now, Now', active)
           /\ OneTap /\ AnnouncedIn(Now) => AnnouncedIn(Now')
           /\ \/ SameVectors(Now, Now')
              \/ \E c \in TapChoice : interrupt_set_tap(c[1], c[2])
  <1>1. Quiet \/ \E c \in TapChoice : interrupt_set_tap(c[1], c[2])
    <2>1. CASE UNCHANGED memoryVars
      BY <2>1, SameMemoryQuiet
    <2>2. CASE UNCHANGED vars
      BY <2>1, <2>2 DEF vars
    <2>3. CASE Api
      <3>1. ASSUME NEW th \in ThreadArg,
                   thread_pause(th) \/ thread_resume(th) \/ thread_reap(th)
            PROVE  Quiet
        BY <3>1, PauseQuiet, ResumeQuiet, ReapQuiet
      <3>2. ASSUME NEW v \in Vector, interrupt_reset(v) PROVE Quiet
        BY <3>2, InterruptResetQuiet
      <3>3. ASSUME NEW v \in QueueVector, fault_get(v) PROVE Quiet
        BY <3>3, FaultGetQuiet
      <3>4. CASE thread_yield \/ api_ret
                 \/ \E th \in ThreadArg : thread_push_state(th)
        <4>1. UNCHANGED memoryVars
          BY <3>4 DEF thread_yield, api_ret, thread_push_state
        <4> QED BY <4>1, <2>1
      <3>5. CASE thread_create BY <3>5, CreateQuiet
      <3>6. CASE thread_exit BY <3>6, ExitQuiet
      <3>7. CASE interrupt_wait BY <3>7, WaitQuiet
      <3> QED BY <2>3, <3>1, <3>2, <3>3, <3>4, <3>5, <3>6, <3>7 DEF Api
    <2>4. CASE Fault
      <3>1. ASSUME NEW v \in {PAGEFAULT, MISCFAULT}, fault_exception(v)
            PROVE  Quiet
        BY <3>1, ExceptionQuiet
      <3> QED BY <2>4, <3>1, TimerQuiet, YieldFaultQuiet DEF Fault
    <2> QED BY <2>2, <2>3, <2>4 DEF Next
  <1>2. ASSUME NEW c \in TapChoice, interrupt_set_tap(c[1], c[2])
        PROVE  /\ Keeps(Now, Now', active)
               /\ OneTap /\ AnnouncedIn(Now) => AnnouncedIn(Now')
    <2>1. c[1] \in TapIndex /\ c[2] \in Vector
      BY TapAssumption
    <2> QED BY <1>2, <2>1, SetTapQuiet
  <1> QED BY <1>1, <1>2 DEF Quiet

\* No thread starts to wait told, and a waiting thread that is told stops.
LEMMA NextWaiters ==
    IInv /\ WaitersUnfired /\ [Next]_vars => WaitersUnfired'
  <1> SUFFICES ASSUME IInv, WaitersUnfired, [Next]_vars, NEW t \in Tcb,
                      Waiter(t)', NEW j \in TapIndex
               PROVE  ~tap'[t][j].fired
    BY DEF WaitersUnfired
  <1>1. Keeps(Now, Now', active)
    BY NextQuiet
  <1>2. \/ \A i \in TapIndex : ~tap'[t][i].fired
        \/ Waiter(t) /\ tap'[t] = tap[t]
    BY <1>1 DEF Keeps, Waits, Waiter, Now
  <1> QED BY <1>2 DEF WaitersUnfired

\* interrupt_wait against interrupt_vector_fire: no thread waits while one of
\* its taps has fired.
THEOREM WaitersCorrect == Spec => []WaitersUnfired
  <1>1. Init => WaitersUnfired
    <2> SUFFICES ASSUME Init, NEW t \in Tcb PROVE ~Waiter(t)
      BY DEF WaitersUnfired
    <2>1. t \in Thread
      BY DEF Thread
    <2> QED BY <2>1 DEF Init, Waiter
  <1> QED BY <1>1, Invariance, NextWaiters, PTL DEF Spec

\* A thread that waits, and is not still on the core, stops waiting only in a
\* step that fires one of its taps: pause and resume keep the wait, and only
\* interrupt_vector_fire ends it.
THEOREM WakeCorrect == Spec => WakeOnlyByFire
  <1>1. IInv /\ WaitersUnfired /\ [Next]_vars =>
            [\A t \in Tcb :
                Waiter(t) /\ t # active /\ ~Waiter(t)' =>
                    \E j \in TapIndex : tap'[t][j].fired /\ ~tap[t][j].fired]_vars
    <2> SUFFICES ASSUME IInv, WaitersUnfired, [Next]_vars, NEW t \in Tcb,
                        Waiter(t), t # active, ~Waiter(t)'
                 PROVE  \E j \in TapIndex : tap'[t][j].fired /\ ~tap[t][j].fired
      OBVIOUS
    <2>1. Keeps(Now, Now', active)
      BY NextQuiet
    <2>2. \E j \in TapIndex : tap'[t][j].fired
      BY <2>1 DEF Keeps, Waits, Waiter, Now
    <2> QED BY <2>2 DEF WaitersUnfired
  <1> QED BY <1>1, Invariance, WaitersCorrect, PTL DEF Spec, WakeOnlyByFire

\* What a queue holds is announced, to whoever has a route and a tap for it.
Announced == AnnouncedIn(Now)

\* init() leaves the queues empty.
LEMMA InitAnnounced == Init => Announced
  BY DEF Init, Announced, AnnouncedIn, Now

\* Only interrupt_set_tap can lose an announcement, and only if the thread has
\* another tap for the same queue.
LEMMA NextAnnounced ==
    IInv /\ OneTap /\ Announced /\ [Next]_vars => Announced'
  BY NextQuiet DEF Announced

\* No wake-up is lost: while no live thread has two taps for one queue, a
\* thread with a route and a tap for a queue waits only while it is empty,
\* whoever faults, exits, collects, re-taps or resets in between.
THEOREM NoLostWakeupOneTap == Spec /\ []OneTap => []NoLostWakeup
  <1>1. WaitersUnfired /\ Announced => NoLostWakeup
    <2> SUFFICES ASSUME WaitersUnfired, Announced,
                        NEW t \in Tcb, NEW v \in QueueVector,
                        Waiter(t), t \in Routed(Now, v),
                        NEW j \in TapIndex, tap[t][j].vec = v
                 PROVE  qhead[v] = NULL
      BY DEF NoLostWakeup
    <2>1. Now.tap = tap /\ Now.qhead = qhead /\ t \in Thread
      BY DEF Now, Thread
    <2>2. TapsOf(Now, t, v) # {}
      BY <2>1 DEF TapsOf
    <2>3. ~Told(Now, t, v)
      BY <2>1 DEF Told, TapsOf, WaitersUnfired
    <2> QED BY <2>1, <2>2, <2>3 DEF Announced, AnnouncedIn
  <1> QED BY <1>1, InitAnnounced, NextAnnounced, Invariance, WaitersCorrect, PTL
      DEF Spec

\* A client that keeps one tap index per queue, in RAM that held nothing else,
\* has one tap per queue: frames that are used again keep their old taps, which
\* were set by the same rule.
THEOREM NoLostWakeupByRule ==
    ASSUME NEW home \in [QueueVector -> TapIndex],
           \A c \in TapChoice : c[2] \in QueueVector => c[1] = home[c[2]],
           \A f \in FreshTaps, j \in TapIndex :
              f[j].vec \in QueueVector => j = home[f[j].vec]
    PROVE  Spec => []NoLostWakeup
  <1> DEFINE AtHome ==
                \A t \in Thread, j \in TapIndex :
                    tap[t][j].vec \in QueueVector => j = home[tap[t][j].vec]
  <1>1. Init => AtHome
    <2> SUFFICES ASSUME Init, NEW t \in Thread, NEW j \in TapIndex,
                        tap[t][j].vec \in QueueVector
                 PROVE  j = home[tap[t][j].vec]
      OBVIOUS
    <2>1. PICK f \in [Tcb -> FreshTaps] :
              tap = [u \in Thread |-> IF u = Idle
                                     THEN [i \in TapIndex |-> NoTap] ELSE f[u]]
      BY DEF Init
    <2>2. CASE t = Idle
      <3>1. tap[t][j].vec = 0
        BY <2>1, <2>2 DEF NoTap
      <3> QED BY <3>1 DEF QueueVector, PAGEFAULT, MISCFAULT, ZOMBIE
    <2>3. CASE t # Idle
      BY <2>1, <2>3 DEF Thread
    <2> QED BY <2>2, <2>3
  <1>2. IInv /\ AtHome /\ [Next]_vars => AtHome'
    <2> SUFFICES ASSUME IInv, AtHome, [Next]_vars PROVE AtHome'
      OBVIOUS
    <2>1. CASE SameVectors(Now, Now')
      BY <2>1 DEF SameVectors, Now
    <2>2. ASSUME NEW c \in TapChoice, interrupt_set_tap(c[1], c[2])
          PROVE  AtHome'
      <3>1. c[1] \in TapIndex /\ c[2] \in Vector
        BY TapAssumption
      <3>2. \A u \in Thread, i \in TapIndex :
                tap'[u][i].vec =
                    IF u = active /\ i = c[1] THEN c[2] ELSE tap[u][i].vec
        BY <2>2, <3>1, SetTapQuiet
      <3> QED BY <3>2
    <2> QED BY <2>1, <2>2, NextQuiet
  <1>3. AtHome => OneTap
    BY DEF OneTap, TapsOf, Now, Thread
  <1> HIDE DEF AtHome
  <1> QED BY <1>1, <1>2, <1>3, Invariance, NoLostWakeupOneTap, PTL DEF Spec
=============================================================================

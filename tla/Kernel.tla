------------------------------- MODULE Kernel -------------------------------
(***************************************************************************)
(* pinion64's threads, scheduling, faults and interrupts: the API calls of *)
(* api/*.c behind the entry stubs of api.s, and the handlers of init.c's   *)
(* fault().                                                                *)
(*                                                                         *)
(* An API call runs between cli and sti, so it is one action.  The calls   *)
(* made with apifunc_then_yield then execute "int 0xFF" in a separate      *)
(* instruction: pc records that a thread stands between the two, and a     *)
(* timer interrupt may come first.                                         *)
(*                                                                         *)
(* A call that returns early and changes nothing (an unknown thread id, an *)
(* empty queue, a bad tap index, thread_pull_state, interrupt_get_tap) is  *)
(* a stuttering step, unless it yields.                                    *)
(***************************************************************************)
EXTENDS InterruptVector, ThreadTable

CONSTANTS
    Calls,      \* the API calls the client makes, and the faults it takes
    TapChoice   \* the pairs <<index, vector>> it passes to set_tap

ASSUME TapAssumption == TapChoice \subseteq TapIndex \X Vector

VARIABLES
    state, next, tap, runq, qhead, route, active,   \* as in Memory
    pc          \* where a thread continues when it next runs

memoryVars == <<state, next, tap, runq, qhead, route, active>>
vars == <<memoryVars, tableVars, pc>>

\* "user": client code (hlt in idle's case).  "..._w": between the sti and the
\* int 0xFF of a call.  "..._r": at the ret that follows it.
Location == {"user", "yield_w", "pause_w", "exit_w", "wait_w",
             "exit_r", "wait_r"}
Window == {"yield_w", "pause_w", "exit_w", "wait_w"}

Now == [state |-> state, next |-> next, tap |-> tap, runq |-> runq,
        qhead |-> qhead, route |-> route, active |-> active]

Become(k) ==
    /\ state' = k.state
    /\ next' = k.next
    /\ tap' = k.tap
    /\ runq' = k.runq
    /\ qhead' = k.qhead
    /\ route' = k.route
    /\ active' = k.active

\* init() up to the start of the first thread: one TCB, created, queued and
\* scheduled; everything else empty.
Init ==
    /\ active \in Tcb
    /\ state = [t \in Thread |-> IF t = active THEN "RUNNING" ELSE "FREE"]
    /\ next = [t \in Thread |-> NULL]
    /\ \E f \in [Tcb -> FreshTaps] :
          tap = [t \in Thread |-> IF t = Idle THEN [j \in TapIndex |-> NoTap]
                                  ELSE f[t]]
    /\ runq = << >>
    /\ qhead = [v \in QueueVector |-> NULL]
    /\ route = [v \in MappedVector |-> [i \in Slot |-> NULL]]
    /\ id = [t \in Thread |-> IF t = active THEN 1 ELSE 0]
    /\ table = [i \in Id |-> IF i = 1 THEN active ELSE NULL]
    /\ freelist = << >>
    /\ fresh = Tcb \ {active}
    /\ pc = [t \in Thread |-> "user"]

-----------------------------------------------------------------------------
(* The API.  Call: the active thread enters an API function.               *)

Call(c) == c \in Calls /\ active \in Tcb /\ pc[active] = "user"

ReturnTo(loc) == pc' = [pc EXCEPT ![active] = loc]

SELF == -1
ThreadArg == {SELF} \cup 0..MaxId
OrSelf(th) == IF th = SELF THEN id[active] ELSE th

thread_yield ==
    /\ Call("thread_yield")
    /\ ReturnTo("yield_w")
    /\ UNCHANGED <<memoryVars, tableVars>>

thread_create ==
    /\ Call("thread_create")
    /\ ReturnTo("yield_w")
    /\ \/ \E t \in Allocatable :
            \/ /\ EmptySlots # {}
               /\ TcbNew(t)
               /\ Become([Now EXCEPT !.state[t] = "SUSPENDED"])
            \/ /\ EmptySlots = {}
               /\ TcbNewNoSlot(t)
               /\ UNCHANGED memoryVars
       \/ /\ Allocatable = {}
          /\ UNCHANGED <<memoryVars, tableVars>>

Paused(k, t) ==
    CASE k.state[t] = "WAITING" -> [k EXCEPT !.state[t] = "SUSPENDEDWAITING"]
      [] k.state[t] = "QUEUED" ->
            [scheduler_rem_tcb(k, t) EXCEPT !.state[t] = "SUSPENDED"]
      [] k.state[t] = "RUNNING" -> [k EXCEPT !.state[t] = "SUSPENDED"]
      [] OTHER -> k

thread_pause(th) ==
    LET t == tcb_get(OrSelf(th))
    IN  /\ Call("thread_pause")
        /\ Become(IF t = NULL THEN Now ELSE Paused(Now, t))
        /\ ReturnTo("pause_w")
        /\ UNCHANGED tableVars

\* A bug: a thread suspended while it waited is queued without its interrupt.
ResumeForgetsWait(k, t) ==
    IF k.state[t] \in {"SUSPENDED", "SUSPENDEDWAITING"} THEN MakeReady(k, t)
    ELSE k

Resumed(k, t) ==
    CASE k.state[t] = "SUSPENDED" -> MakeReady(k, t)
      [] k.state[t] = "SUSPENDEDWAITING" -> [k EXCEPT !.state[t] = "WAITING"]
      [] OTHER -> k

thread_resume(th) ==
    LET t == tcb_get(OrSelf(th))
    IN  /\ Call("thread_resume")
        /\ Become(IF t = NULL THEN Now ELSE Resumed(Now, t))
        /\ ReturnTo("yield_w")
        /\ UNCHANGED tableVars

thread_exit ==
    /\ Call("thread_exit")
    /\ Become(interrupt_vector_fire(
                 enqueue([Now EXCEPT !.state[active] = "SUSPENDED"],
                         ZOMBIE, active),
                 ZOMBIE))
    /\ ReturnTo("exit_w")
    /\ UNCHANGED tableVars

thread_reap(th) ==
    LET t == tcb_get(th)
    IN  /\ Call("thread_reap")
        /\ t # NULL
        /\ state[t] = "SUSPENDED"
        /\ TcbDel(t)
        /\ Become([Now EXCEPT !.state[t] = "FREE"])
        /\ UNCHANGED pc

\* With the IP class the thread continues at the address it is given, client
\* code; the other registers matter to nothing that is modelled.  The call
\* yields whether or not it succeeds.
thread_push_state(th) ==
    LET t == tcb_get(th)
        ok == t # NULL /\ state[t] \in {"SUSPENDED", "SUSPENDEDWAITING"}
    IN  /\ Call("thread_push_state")
        /\ pc' = [u \in Thread |-> IF u = active THEN "yield_w"
                                   ELSE IF ok /\ u = t THEN "user"
                                   ELSE pc[u]]
        /\ UNCHANGED <<memoryVars, tableVars>>

\* What set_tap removes: the old tap is passed with its fired bit, which sends
\* interrupt_remove_route past the end of the page table; there it finds no
\* route of this thread, and the installed one stays.
OldRouteRemoved(k, t, j) ==
    LET old == k.tap[t][j]
    IN  IF old.vec # 0 /\ ~old.fired
        THEN interrupt_remove_route(k, t, old.vec) ELSE k

interrupt_set_tap(j, v) ==
    /\ Call("interrupt_set_tap")
    /\ Become(interrupt_vector_reset(
                 interrupt_add_route(
                    [OldRouteRemoved(Now, active, j) EXCEPT
                        !.tap[active][j] = [vec |-> v, fired |-> FALSE]],
                    active, v),
                 v))
    /\ UNCHANGED <<tableVars, pc>>

\* Only the first tap that names the vector is reset.
interrupt_reset(v) ==
    /\ Call("interrupt_reset")
    /\ TapsOf(Now, active, v) # {}
    /\ Become(interrupt_vector_reset(
                 SetFired(Now, active, FirstTap(Now, active, v), FALSE), v))
    /\ UNCHANGED <<tableVars, pc>>

\* A bug: the thread waits although an interrupt is already recorded.
WaitUnchecked(k) == [k EXCEPT !.state[k.active] = "WAITING"]

Waiting(k) ==
    IF \E j \in TapIndex : k.tap[k.active][j].fired THEN k
    ELSE [k EXCEPT !.state[k.active] = "WAITING"]

interrupt_wait ==
    /\ Call("interrupt_wait")
    /\ Become(Waiting(Now))
    /\ ReturnTo("wait_w")
    /\ UNCHANGED tableVars

\* fault_get_pagefault, fault_get_miscfault, fault_get_zombie and their
\* deprecated thread_get_ forms.
fault_get(v) ==
    /\ Call("fault_get")
    /\ has_queued(Now, v)
    /\ Become(get_queued(Now, v))
    /\ UNCHANGED <<tableVars, pc>>

\* The ret after int 0xFF: the caller gets its result, and thread_exit returns.
api_ret ==
    /\ active \in Tcb
    /\ pc[active] \in {"exit_r", "wait_r"}
    /\ ReturnTo("user")
    /\ UNCHANGED <<memoryVars, tableVars>>

-----------------------------------------------------------------------------
(* fault(), by vector.                                                     *)

\* 32: the LAPIC timer, whenever interrupts are enabled.
fault_timer ==
    /\ Become(scheduler_schedule(Now))
    /\ UNCHANGED <<tableVars, pc>>

PostYield(k, rdi) ==
    scheduler_schedule(IF rdi = 0 /\ k.state[k.active] # "RUNNING"
                       THEN ccb_unload_tcb(k) ELSE k)

\* 0x100: int 0xFF at the end of a call; rdi is 0 except in yield_w.
fault_yield ==
    /\ active \in Tcb
    /\ pc[active] \in Window
    /\ Become(PostYield(Now, IF pc[active] = "yield_w" THEN 1 ELSE 0))
    /\ ReturnTo(CASE pc[active] = "exit_w" -> "exit_r"
                  [] pc[active] = "wait_w" -> "wait_r"
                  [] OTHER -> "user")
    /\ UNCHANGED tableVars

\* A bug: the fault is queued and nobody is told.
TakeFaultSilently(k, v) ==
    scheduler_schedule(enqueue(ccb_unload_tcb(k), v, k.active))

\* 14, and the other exceptions below 32: the thread is taken off the core and
\* queued for its supervisor with its state still RUNNING.
TakeFault(k, v) ==
    scheduler_schedule(
        interrupt_vector_fire(
            enqueue(ccb_unload_tcb(k), v, k.active), v))

fault_exception(v) ==
    /\ Call(IF v = PAGEFAULT THEN "pagefault" ELSE "miscfault")
    /\ Become(TakeFault(Now, v))
    /\ UNCHANGED <<tableVars, pc>>

-----------------------------------------------------------------------------
Api ==
    \/ thread_yield
    \/ thread_create
    \/ \E th \in ThreadArg :
          \/ thread_pause(th)
          \/ thread_resume(th)
          \/ thread_reap(th)
          \/ thread_push_state(th)
    \/ thread_exit
    \/ \E c \in TapChoice : interrupt_set_tap(c[1], c[2])
    \/ \E v \in Vector : interrupt_reset(v)
    \/ interrupt_wait
    \/ \E v \in QueueVector : fault_get(v)
    \/ api_ret

Fault ==
    \/ fault_timer
    \/ fault_yield
    \/ \E v \in {PAGEFAULT, MISCFAULT} : fault_exception(v)

Next == Api \/ Fault

Spec == Init /\ [][Next]_vars

\* The LAPIC timer is periodic and every thread runs with interrupts enabled
\* outside API calls and handlers.
FairSpec == Spec /\ WF_vars(fault_timer)

-----------------------------------------------------------------------------
(* Properties.                                                             *)

TypeOK ==
    /\ Now \in Memory
    /\ active # NULL
    /\ id \in [Thread -> {JunkId} \cup 0..MaxId]
    /\ table \in [Id -> Tcb \cup {NULL}]
    /\ freelist \in Seq(Tcb)
    /\ fresh \subseteq Tcb
    /\ pc \in [Thread -> Location]

\* The pointers from schedule_head to schedule_tail pass through the queue's
\* elements in order and end at the tail (scheduler.c), although the fault
\* queues write the same field.
QueueLinked(k) ==
    \A i \in DOMAIN k.runq :
        k.next[k.runq[i]] = IF i = Len(k.runq) THEN NULL ELSE k.runq[i + 1]

\* No thread is in the run queue twice (scheduler_push_tcb does not look).
QueuedOnce(k) ==
    \A i, j \in DOMAIN k.runq : k.runq[i] = k.runq[j] => i = j

\* The run queue holds exactly the threads whose state is QUEUED: none is lost
\* by a truncated list, none is scheduled while suspended, waiting or free.
QueuedIffInQueue(k) ==
    \A t \in Thread : k.state[t] = "QUEUED" <=> t \in Elements(k.runq)

\* The run queue is a sound list of the QUEUED threads, and the thread on the
\* core (ccb->active_tcb) is not among them: it cannot be run twice.
RunQueueOK ==
    /\ QueueLinked(Now)
    /\ QueuedOnce(Now)
    /\ QueuedIffInQueue(Now)
    /\ state[active] # "QUEUED"

\* Every frame is in exactly one place: named by the table under its own id,
\* on the allocator's free list once, or never used.  So an id names one
\* thread (pinion.h: "unique at any one point in time"), a frame is not handed
\* out twice nor lost when a thread cannot be made (tcb.c:57), and what is
\* scheduled can be reached by its id.
TableOK ==
    /\ \A i \in Id : table[i] # NULL =>
            id[table[i]] = i /\ state[table[i]] # "FREE"
    /\ \A t \in Tcb : state[t] # "FREE" => id[t] \in Id /\ table[id[t]] = t
    /\ \A t \in Elements(freelist) : state[t] = "FREE" /\ t \notin fresh
    /\ \A t \in fresh : state[t] = "FREE"
    /\ \A t \in Tcb : state[t] = "FREE" => t \in Elements(freelist) \cup fresh
    /\ \A i, j \in DOMAIN freelist : freelist[i] = freelist[j] => i = j

Waiter(t) == state[t] \in {"WAITING", "SUSPENDEDWAITING"}

\* A thread does not wait while one of its taps has fired (interrupt_wait's
\* check against interrupt_vector_fire's flag and wake-up).
WaitersUnfired ==
    \A t \in Tcb : Waiter(t) => \A j \in TapIndex : ~tap[t][j].fired

\* A thread does not wait for a queue that has something in it: if it has a
\* routed tap for the queue's vector, the queue is empty.  Any thread may
\* reset the vector, empty the queue or re-tap in between.
NoLostWakeup ==
    \A t \in Tcb, v \in QueueVector :
        Waiter(t) /\ t \in Routed(Now, v)
                  /\ (\E j \in TapIndex : tap[t][j].vec = v)
            => qhead[v] = NULL

\* Waiting ends only in a step that fires one of the thread's taps, unless the
\* timer comes before the thread has left the core (interrupt_vector_fire is
\* the only end of a wait; a pause and a resume keep the thread waiting).
WakeOnlyByFire ==
    [][\A t \in Tcb :
          Waiter(t) /\ t # active /\ ~Waiter(t)' =>
              \E j \in TapIndex : tap'[t][j].fired /\ ~tap[t][j].fired]_vars

\* Every queued thread leaves the run queue (round robin of scheduler.c under
\* the timer), whatever the others do.
NoStarvation ==
    \A t \in Thread : (state[t] = "QUEUED") ~> (state[t] # "QUEUED")

\* pinion.h declares __PINION_thread_exit noreturn.
ExitNeverReturns == active \in Tcb => pc[active] # "exit_r"

\* interrupt_set_tap.c adds a route for every tap it sets.
TapRouted ==
    \A t \in Tcb, j \in TapIndex :
        state[t] # "FREE" /\ tap[t][j].vec \in MappedVector
            => t \in Routed(Now, tap[t][j].vec)

\* tcb.c: tcb_new returns "a new, initialized TCB".
NewTcbInitialised ==
    [][\A t \in Tcb : state[t] = "FREE" /\ state'[t] # "FREE" =>
          tap'[t] = [j \in TapIndex |-> NoTap]]_vars
=============================================================================

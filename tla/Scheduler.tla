----------------------------- MODULE Scheduler -----------------------------
(***************************************************************************)
(* scheduler.c and the two ccb.s routines that move a TCB on and off the   *)
(* core.  The list schedule_head .. schedule_tail is the sequence k.runq;  *)
(* k.next keeps the pointers exactly as the code leaves them, the dangling *)
(* ones included, because the fault queues link through the same field.    *)
(***************************************************************************)
EXTENDS KernelTypes

ccb_unload_tcb(k) == [k EXCEPT !.active = NULL]

\* Refused (and ignored by every caller) when the core is busy.
ccb_load_tcb(k, t) ==
    IF k.active = NULL THEN [k EXCEPT !.active = t] ELSE k

\* A bug: the queue is served last in, first out.
PushFront(k, t) ==
    [k EXCEPT
        !.next = [@ EXCEPT ![t] = IF k.runq = << >> THEN NULL ELSE k.runq[1]],
        !.runq = <<t>> \o @]

\* A bug: the new tail keeps the next pointer it had.
PushKeepingNext(k, t) ==
    [k EXCEPT
        !.next = [u \in Thread |->
                    IF k.runq # << >> /\ u = k.runq[Len(k.runq)] THEN t
                    ELSE k.next[u]],
        !.runq = Append(@, t)]

scheduler_push_tcb(k, t) ==
    [k EXCEPT
        !.next = [u \in Thread |->
                    IF k.runq # << >> /\ u = k.runq[Len(k.runq)] THEN t
                    ELSE IF u = t THEN NULL
                    ELSE k.next[u]],
        !.runq = Append(@, t)]

scheduler_pull_tcb(k) ==
    [k EXCEPT !.runq = IF @ = << >> THEN @ ELSE Tail(@)]

scheduler_add_tcb(k, t) == scheduler_push_tcb(k, t)

\* The head goes without touching a pointer; any other element is bypassed by
\* its predecessor.  A TCB that is not queued leaves everything alone.
scheduler_rem_tcb(k, t) ==
    IF t \notin Elements(k.runq) THEN k
    ELSE LET i == CHOOSE j \in DOMAIN k.runq : k.runq[j] = t
         IN  [k EXCEPT
                !.next = IF i = 1 THEN @
                         ELSE [@ EXCEPT ![k.runq[i - 1]] = k.next[t]],
                !.runq = SubSeq(@, 1, i - 1) \o SubSeq(@, i + 1, Len(@))]

\* Make t ready: the pair of statements scheduler_add_tcb(tcb) and
\* tcb->state = QUEUED that scheduler_schedule, thread_resume and
\* interrupt_vector_fire share.
MakeReady(k, t) ==
    [scheduler_add_tcb(k, t) EXCEPT !.state[t] = "QUEUED"]

\* A bug: with nobody queued the core is left without a TCB.
ScheduleWithoutIdle(k) ==
    LET u == ccb_unload_tcb(k)
        q == IF k.active = NULL THEN u ELSE MakeReady(u, k.active)
    IN  IF q.runq = << >> THEN q
        ELSE ccb_load_tcb(
                [scheduler_pull_tcb(q) EXCEPT !.state[q.runq[1]] = "RUNNING"],
                q.runq[1])

\* The incumbent is queued whatever its state was; with nobody queued the idle
\* TCB is injected and keeps the state it has.
scheduler_schedule(k) ==
    LET old == k.active
        u   == ccb_unload_tcb(k)
        q   == IF old = NULL THEN u ELSE MakeReady(u, old)
    IN  IF q.runq = << >> THEN ccb_load_tcb(q, Idle)
        ELSE ccb_load_tcb(
                [scheduler_pull_tcb(q) EXCEPT !.state[q.runq[1]] = "RUNNING"],
                q.runq[1])
=============================================================================

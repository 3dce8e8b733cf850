-------------------------- MODULE InterruptVector --------------------------
(***************************************************************************)
(* interrupt_vector.c: four routes per vector, and the on_reset callbacks  *)
(* that init.c installs for the two vector pages.  The callbacks of the    *)
(* IRQ page only log.                                                      *)
(***************************************************************************)
EXTENDS Scheduler, Queues

\* The first slot of vector v that satisfies what the loop looks for.
FirstSlot(k, v, t) ==
    CHOOSE i \in Slot :
        /\ k.route[v][i] = t
        /\ \A j \in Slot : k.route[v][j] = t => i <= j

Routed(k, v) == {k.route[v][i] : i \in Slot}

\* With all four slots taken the failure is logged and otherwise silent.
interrupt_add_route(k, t, v) ==
    IF v \in MappedVector /\ NULL \in Routed(k, v)
    THEN [k EXCEPT !.route[v][FirstSlot(k, v, NULL)] = t]
    ELSE k

interrupt_remove_route(k, t, v) ==
    IF v \in MappedVector /\ t \in Routed(k, v)
    THEN [k EXCEPT !.route[v][FirstSlot(k, v, t)] = NULL]
    ELSE k

\* The taps of t that name v; the loops stop at the first.
TapsOf(k, t, v)   == {j \in TapIndex : k.tap[t][j].vec = v}
FirstTap(k, t, v) ==
    CHOOSE j \in TapsOf(k, t, v) : \A i \in TapsOf(k, t, v) : j <= i

SetFired(k, t, j, b) == [k EXCEPT !.tap[t][j].fired = b]

StopWaiting(k, t) ==
    CASE k.state[t] = "WAITING" -> MakeReady(k, t)
      [] k.state[t] = "SUSPENDEDWAITING" -> [k EXCEPT !.state[t] = "SUSPENDED"]
      [] OTHER -> k

\* One turn of interrupt_vector_fire's loop over the slots: the first tap of
\* the routed thread that names the vector is marked fired, and the thread
\* stops waiting.
Notify(k, v, i) ==
    LET t == k.route[v][i]
    IN  IF t = NULL \/ TapsOf(k, t, v) = {} THEN k
        ELSE StopWaiting(SetFired(k, t, FirstTap(k, t, v), TRUE), t)

interrupt_vector_fire(k, v) ==
    IF v \in MappedVector
    THEN Notify(Notify(Notify(Notify(k, v, 0), v, 1), v, 2), v, 3)
    ELSE k

\* A bug: resetting a vector forgets what is still queued behind it.
ResetWithoutFire(k, v) == k

pinion_on_reset(k, v) ==
    IF v \in QueueVector /\ has_queued(k, v)
    THEN interrupt_vector_fire(k, v)
    ELSE k

interrupt_vector_reset(k, v) ==
    IF v \in PinionPage THEN pinion_on_reset(k, v) ELSE k
=============================================================================

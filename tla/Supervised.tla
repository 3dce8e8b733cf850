----------------------------- MODULE Supervised -----------------------------
(***************************************************************************)
(* Kernel with a client that keeps one rule: it does not pause a thread    *)
(* that has faulted and that no supervisor has collected yet.  pinion.h    *)
(* asks for it ("The given thread must be in a ready or running state to   *)
(* be suspended"), and the code does not enforce it: a faulted thread's    *)
(* state is still RUNNING.  Everything else stays as in Kernel, the timer  *)
(* between sti and int 0xFF included.                                      *)
(***************************************************************************)
EXTENDS Kernel

VARIABLE faulted    \* history: per fault queue the threads not yet collected,
                    \* the last to fault first

supervisedVars == <<vars, faulted>>

FaultVector == {PAGEFAULT, MISCFAULT}
Uncollected == UNION {Elements(faulted[v]) : v \in FaultVector}

SupervisedInit == Init /\ faulted = [v \in FaultVector |-> << >>]

\* A thread takes a fault.
SupervisedFault(v) ==
    /\ fault_exception(v)
    /\ faulted' = [faulted EXCEPT ![v] = <<active>> \o @]

\* A supervisor collects a faulted thread or a zombie.
SupervisedCollect(v) ==
    /\ fault_get(v)
    /\ faulted' = IF v \in FaultVector THEN [faulted EXCEPT ![v] = Tail(@)]
                  ELSE faulted

SupervisedPause(th) ==
    /\ tcb_get(OrSelf(th)) \notin Uncollected
    /\ thread_pause(th)
    /\ UNCHANGED faulted

SupervisedOther ==
    /\ \/ thread_yield \/ thread_create \/ thread_exit
       \/ \E th \in ThreadArg :
             thread_resume(th) \/ thread_reap(th) \/ thread_push_state(th)
       \/ \E c \in TapChoice : interrupt_set_tap(c[1], c[2])
       \/ \E v \in Vector : interrupt_reset(v)
       \/ interrupt_wait \/ api_ret \/ fault_timer \/ fault_yield
    /\ UNCHANGED faulted

SupervisedNext ==
    \/ \E v \in FaultVector : SupervisedFault(v)
    \/ \E v \in QueueVector : SupervisedCollect(v)
    \/ \E th \in ThreadArg : SupervisedPause(th)
    \/ SupervisedOther

SupervisedSpec == SupervisedInit /\ [][SupervisedNext]_supervisedVars

\* The list behind pagefault_queue (and miscfault_queue) is the threads that
\* faulted and were not collected, each once: no faulted thread is dropped
\* from the list, delivered twice, or run before a supervisor has it, although
\* the run queue, the other fault queue and the zombies link through the same
\* field and any thread may resume, reap or exit meanwhile.
FaultQueueOK ==
    \A v \in FaultVector :
        LET s == faulted[v]
        IN  /\ qhead[v] = IF s = << >> THEN NULL ELSE s[1]
            /\ \A i \in DOMAIN s :
                  /\ next[s[i]] = IF i = Len(s) THEN NULL ELSE s[i + 1]
                  /\ state[s[i]] = "RUNNING" /\ s[i] # active
                  /\ \A w \in FaultVector : \A j \in DOMAIN faulted[w] :
                        faulted[w][j] = s[i] => w = v /\ j = i
=============================================================================

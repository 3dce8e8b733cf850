-------------------------------- MODULE Entry --------------------------------
(***************************************************************************)
(* How the core enters and leaves pinion: the stubs of interrupt.s and     *)
(* api.s, the descriptors idt_init writes, and the TCB that ccb_load_tcb   *)
(* puts behind the gates.  Every gate switches to the stack IST1, which    *)
(* lies in the TCB of the thread on the core, so that the processor pushes *)
(* its frame into the TCB.  What the API calls and the scheduler do is in  *)
(* Kernel; here it is a round robin with threads that block and wake.      *)
(***************************************************************************)
EXTENDS Sequences

CONSTANTS
    Thread,
    Idle,       \* idle_tcb
    MayBlock    \* whether threads take faults and make calls that suspend them

ASSUME EntryAssumption == Idle \notin Thread /\ MayBlock \in BOOLEAN

Tcb == Thread \cup {Idle}

VARIABLES
    pc, if, gs, rsp, regs,  \* the processor; gs is which of the two bases is in
                            \* use, regs whose general registers it holds
    active,     \* ccb->active_tcb
    ist,        \* the TCB that TSS.IST1 points behind
    vec,        \* the vector that fault() is given
    frame,      \* in each TCB: what the processor pushed
    saved,      \* and the registers that save_state_full stored
    runq,
    back        \* auxiliary: where each thread's own code goes on

cpu    == <<pc, if, gs, rsp, regs>>
memory == <<frame, saved, back>>
vars   == <<cpu, active, ist, vec, memory, runq>>

\* Client code, "int" before the int 0xFF of a call's stub, "ret" after it.
Client == {"user", "int", "ret"}
Stub   == {"yield", "fault", "irq"}
Pinion == {"api", "handler", "resume"}

StackOf(t) == [in |-> "stack", of |-> t]
IstOf(t)   == [in |-> "ist", of |-> t]
Istack     == [in |-> "istack", of |-> Idle]

swapgs == gs' = IF gs = "ccb" THEN "client" ELSE "ccb"

\* start.s, when init() has returned: one thread, loaded; the state of the
\* others is pushed before they are woken.
Init ==
    /\ active \in Thread
    /\ ist = active
    /\ pc = "resume" /\ if = FALSE /\ gs = "ccb" /\ rsp = Istack /\ regs = active
    /\ vec = "irq"
    /\ frame = [t \in Tcb |-> [rip |-> "user", if |-> TRUE, rsp |-> StackOf(t)]]
    /\ saved = [t \in Tcb |-> t]
    /\ runq = << >>
    /\ back = [t \in Tcb |-> "user"]

-----------------------------------------------------------------------------
(* API calls.                                                              *)

EnterApi ==
    /\ pc = "user" /\ active # Idle
    /\ pc' = "api" /\ if' = FALSE /\ swapgs /\ rsp' = Istack
    /\ UNCHANGED <<regs, active, ist, vec, memory, runq>>

\* Blocked threads: neither queued nor on the core.
Blocked == {t \in Thread : t # active /\ \A n \in DOMAIN runq : runq[n] # t}

\* A bug: interrupts come on before the other base is back.
LeaveApiUnswapped ==
    /\ pc = "api"
    /\ pc' \in {"user", "int"} /\ if' = TRUE /\ rsp' = StackOf(active)
    /\ UNCHANGED <<gs, regs, active, ist, vec, memory, runq>>

\* apifunc returns to the caller, apifunc_then_yield goes on to its int 0xFF.
\* The call may have made a thread ready.
LeaveApi ==
    /\ pc = "api"
    /\ pc' \in {"user", "int"} /\ if' = TRUE /\ swapgs /\ rsp' = StackOf(active)
    /\ runq' \in {runq} \cup {Append(runq, t) : t \in Blocked}
    /\ UNCHANGED <<regs, active, ist, vec, memory>>

Return ==
    /\ pc = "ret"
    /\ pc' = "user"
    /\ UNCHANGED <<if, gs, rsp, regs, active, ist, vec, memory, runq>>

-----------------------------------------------------------------------------
(* Gates.                                                                  *)

\* A bug: the descriptor names no stack, the processor pushes where rsp is.
GateInPlace(stub, rip) ==
    /\ pc' = stub
    /\ back' = IF pc \in Client THEN [back EXCEPT ![active] = rip] ELSE back
    /\ UNCHANGED <<gs, rsp, regs, active, ist, vec, frame, saved, runq>>

\* What the processor does for a gate with IST = 1.
Gate(stub, rip) ==
    /\ frame' = [frame EXCEPT ![ist] = [rip |-> rip, if |-> if, rsp |-> rsp]]
    /\ rsp' = IstOf(ist)
    /\ pc' = stub
    /\ back' = IF pc \in Client THEN [back EXCEPT ![active] = rip] ELSE back
    /\ UNCHANGED <<gs, regs, active, ist, vec, saved, runq>>

\* Trap gates (0x8F) leave interrupts on: int 0xFF, and exceptions.
IntFF     == pc = "int" /\ Gate("yield", "ret") /\ UNCHANGED if
Exception == MayBlock /\ pc = "user" /\ active # Idle /\ Gate("fault", "user") /\ UNCHANGED if

\* Interrupt gates (0x8E) turn them off: the timer, whenever they are on, the
\* first instruction of another stub included.
Timer     == if /\ Gate("irq", pc) /\ if' = FALSE

\* cli, the pushes, and save_state_full; the TCB is found from rsp.
SaveState ==
    /\ pc \in Stub
    /\ if' = FALSE
    /\ vec' = pc
    /\ saved' = [saved EXCEPT ![rsp.of] = regs]
    /\ swapgs
    /\ rsp' = Istack
    /\ pc' = "handler"
    /\ UNCHANGED <<regs, active, ist, frame, back, runq>>

-----------------------------------------------------------------------------
(* fault() and the way back.                                               *)

\* ccb_load_tcb.
Load(t) == active' = t /\ ist' = t

\* The thread on the core is queued, or was blocked by its call or its fault.
\* Without a thread to run, idle() is entered from the handler, on its stack.
Handle ==
    /\ pc = "handler"
    /\ \E q \in (IF vec = "fault" THEN {} ELSE {Append(runq, active)})
                \cup (IF MayBlock /\ vec # "irq" THEN {runq} ELSE {}) :
          IF q = << >>
          THEN /\ Load(Idle) /\ runq' = q
               /\ pc' = "user" /\ if' = TRUE /\ swapgs /\ regs' = Idle
          ELSE /\ Load(q[1]) /\ runq' = Tail(q)
               /\ pc' = "resume" /\ UNCHANGED <<if, gs, regs>>
    /\ UNCHANGED <<rsp, vec, memory>>

\* resume_state_full and its iretq.
Resume ==
    /\ pc = "resume"
    /\ swapgs
    /\ regs' = saved[active]
    /\ pc' = frame[active].rip
    /\ if' = frame[active].if
    /\ rsp' = frame[active].rsp
    /\ UNCHANGED <<active, ist, vec, memory, runq>>

Code ==
    \/ EnterApi \/ LeaveApi \/ Return
    \/ IntFF \/ Exception \/ SaveState \/ Handle \/ Resume

Next == Code \/ Timer

Spec == Init /\ [][Next]_vars

\* The processor goes on, and a timer interrupt that is pending is taken as
\* soon as interrupts are on, which they are again and again.
FairSpec == Spec /\ WF_vars(Code) /\ SF_vars(Timer)

-----------------------------------------------------------------------------
(* Properties.                                                             *)

TypeOK ==
    /\ pc \in Client \cup Stub \cup Pinion
    /\ if \in BOOLEAN
    /\ gs \in {"ccb", "client"}
    /\ rsp \in [in : {"stack", "istack", "ist"}, of : Tcb]
    /\ regs \in Tcb
    /\ active \in Tcb /\ ist \in Tcb
    /\ vec \in Stub
    /\ frame \in [Tcb -> [rip : Client \cup Stub, if : BOOLEAN,
                          rsp : [in : {"stack", "istack", "ist"}, of : Tcb]]]
    /\ saved \in [Tcb -> Tcb]
    /\ runq \in Seq(Tcb)
    /\ back \in [Tcb -> Client]

\* Pinion's code runs on its own base with interrupts off, and whenever they are
\* on the client's base is in use and the gates lead into the TCB of the thread
\* on the core: a timer that comes in any window, idle() included, finds what
\* save_state_full and fault() take for granted (interrupt.s:120-124).
Entered ==
    /\ pc \in Pinion => gs = "ccb" /\ ~if
    /\ pc \notin Pinion => gs = "client"
    /\ if => ist = active /\ regs = active

\* A thread that is not running has its own registers in its TCB, and if the
\* frame there returns to client code, it is to the place where the thread left
\* it, on the thread's own stack: whatever came in between, no other thread's
\* frame lies over it (ccb.s:210-214, interrupt.s:101-149).
ContextKept ==
    \A t \in Thread :
        t # active =>
            /\ saved[t] = t
            /\ frame[t].rip \in Client =>
                  frame[t].rip = back[t] /\ frame[t].rsp = StackOf(t)

\* api.s:63: a call comes back behind its int 0xFF (without blocking calls, the
\* thread is queued and gets its turn).
YieldReturns ==
    \A t \in Thread : (active = t /\ pc = "yield") ~> (active = t /\ pc = "ret")
=============================================================================

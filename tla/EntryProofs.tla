----------------------------- MODULE EntryProofs -----------------------------
(***************************************************************************)
(* Entering and leaving pinion, for any number of threads.                 *)
(***************************************************************************)
EXTENDS Entry, TLAPS

\* Where the processor stands: on which stack, with whose registers, and what
\* the TCB of the thread on the core holds by then.
CoreOK ==
    /\ pc \notin Pinion => ist = active /\ regs = active
    /\ pc \notin Pinion => if \/ pc = "irq"
    /\ pc \in Client /\ active # Idle => rsp = StackOf(active)
    /\ pc \in Stub => rsp = IstOf(active)
    /\ pc = "irq" => ~if
    /\ pc \in Pinion => ~if /\ ist = active
    /\ pc = "api" => regs = active

\* What every TCB holds: its thread's own registers, and a frame that goes on
\* in the thread's code or, if the timer came first, in a stub on IST1.
FramesOK ==
    \A t \in Tcb :
        /\ saved[t] = t
        /\ frame[t].if
        /\ frame[t].rip # "irq"
        /\ frame[t].rip \in Client =>
              frame[t].rip = back[t] /\ (t # Idle => frame[t].rsp = StackOf(t))
        /\ frame[t].rip \in Stub => frame[t].rsp = IstOf(t)

IInv == TypeOK /\ Entered /\ CoreOK /\ FramesOK

-----------------------------------------------------------------------------
\* Locations are not confused with each other.
LEMMA Locations ==
    /\ Client \cap Stub = {} /\ Client \cap Pinion = {} /\ Stub \cap Pinion = {}
    /\ \A t \in Tcb : StackOf(t) # IstOf(t)
BY DEF Client, Stub, Pinion, StackOf, IstOf

Location == [in : {"stack", "istack", "ist"}, of : Tcb]

LEMMA LocationTypes ==
    /\ Idle \in Tcb /\ Istack \in Location
    /\ \A t \in Tcb : StackOf(t) \in Location /\ IstOf(t) \in Location /\ IstOf(t).of = t
BY DEF Tcb, Location, Istack, StackOf, IstOf

\* The invariant holds when the first thread is entered.
LEMMA InitInv == Init => IInv
<1> SUFFICES ASSUME Init PROVE IInv
  OBVIOUS
<1> USE DEF Client, Stub, Pinion
<1>1. TypeOK
  <2>1. << >> \in Seq(Tcb)
    OBVIOUS
  <2>2. frame \in [Tcb -> [rip : Client \cup Stub, if : BOOLEAN, rsp : Location]]
    BY LocationTypes DEF Init
  <2> QED
    BY <2>1, <2>2, LocationTypes DEF Init, TypeOK, Location, Tcb
<1>2. Entered
  BY DEF Init, Entered
<1>3. CoreOK
  BY DEF Init, CoreOK
<1>4. FramesOK
  BY DEF Init, FramesOK
<1> QED
  BY <1>1, <1>2, <1>3, <1>4 DEF IInv

\* What a gate does to the TCBs, from any place where interrupts may be on.
LEMMA GateFrames ==
    ASSUME IInv, NEW stub \in Stub, NEW rip \in Client \cup Stub, Gate(stub, rip),
           pc \notin Pinion, if, rip # "irq",
           pc \in Client => rip \in Client,
           pc \in Stub => rip = pc
    PROVE  /\ FramesOK'
           /\ frame' \in [Tcb -> [rip : Client \cup Stub, if : BOOLEAN, rsp : Location]]
           /\ back' \in [Tcb -> Client]
           /\ rsp' = IstOf(active) /\ rsp' \in Location
           /\ pc' = stub /\ ist' = active /\ regs' = active /\ gs' = "client"
           /\ UNCHANGED <<active, vec, saved, runq>>
<1> DEFINE new == [rip |-> rip, if |-> if, rsp |-> rsp]
<1>1. /\ ist = active /\ regs = active /\ gs = "client" /\ if = TRUE
      /\ active \in Tcb /\ rsp \in Location
  BY DEF IInv, CoreOK, Entered, TypeOK, Location
<1>2. /\ frame' = [frame EXCEPT ![active] = new]
      /\ rsp' = IstOf(active) /\ pc' = stub
      /\ UNCHANGED <<gs, regs, active, ist, vec, saved, runq>>
      /\ back' = IF pc \in Client THEN [back EXCEPT ![active] = rip] ELSE back
  BY <1>1 DEF Gate
<1>3. new \in [rip : Client \cup Stub, if : BOOLEAN, rsp : Location]
  BY <1>1
<1>4. frame \in [Tcb -> [rip : Client \cup Stub, if : BOOLEAN, rsp : Location]]
  BY DEF IInv, TypeOK, Location
<1>5. back \in [Tcb -> Client]
  BY DEF IInv, TypeOK
<1>6. back' \in [Tcb -> Client]
  BY <1>1, <1>2, <1>5
<1>7. frame' \in [Tcb -> [rip : Client \cup Stub, if : BOOLEAN, rsp : Location]]
  BY <1>2, <1>3, <1>4
<1>8. ASSUME NEW t \in Tcb
      PROVE  /\ saved'[t] = t /\ frame'[t].if /\ frame'[t].rip # "irq"
             /\ frame'[t].rip \in Client =>
                   frame'[t].rip = back'[t] /\ (t # Idle => frame'[t].rsp = StackOf(t))
             /\ frame'[t].rip \in Stub => frame'[t].rsp = IstOf(t)
  <2>1. CASE t # active
    <3>1. frame'[t] = frame[t] /\ back'[t] = back[t] /\ saved'[t] = saved[t]
      BY <1>2, <1>4, <1>5, <2>1
    <3> QED
      BY <3>1 DEF IInv, FramesOK
  <2>2. CASE t = active
    <3>1. frame'[t] = new /\ saved'[t] = t
      BY <1>1, <1>2, <1>4, <2>2 DEF IInv, FramesOK
    <3>2. CASE pc \in Client
      <4>1. back'[t] = rip /\ rip \notin Stub
        BY <1>1, <1>2, <1>5, <2>2, <3>2, Locations
      <4>2. t # Idle => rsp = StackOf(t)
        BY <2>2, <3>2 DEF IInv, CoreOK
      <4> QED
        BY <1>1, <3>1, <4>1, <4>2
    <3>3. CASE pc \in Stub
      <4>1. rsp = IstOf(t) /\ rip \notin Client
        BY <2>2, <3>3, Locations DEF IInv, CoreOK
      <4> QED
        BY <1>1, <3>1, <4>1
    <3> QED
      BY <3>2, <3>3 DEF IInv, TypeOK
  <2> QED
    BY <2>1, <2>2
<1> QED
  BY <1>1, <1>2, <1>6, <1>7, <1>8, LocationTypes DEF FramesOK

\* Every step keeps the invariant: gates write only into the TCB of the thread
\* on the core, and ccb_load_tcb moves IST1 together with the thread.
LEMMA StepInv == IInv /\ [Next]_vars => IInv'
<1> SUFFICES ASSUME IInv, [Next]_vars PROVE IInv'
  OBVIOUS
<1>1. TypeOK /\ Entered /\ CoreOK /\ FramesOK
  BY DEF IInv
<1>t. /\ if \in BOOLEAN /\ regs \in Tcb /\ active \in Tcb /\ ist \in Tcb /\ vec \in Stub
      /\ frame \in [Tcb -> [rip : Client \cup Stub, if : BOOLEAN, rsp : Location]]
      /\ saved \in [Tcb -> Tcb] /\ runq \in Seq(Tcb) /\ back \in [Tcb -> Client]
      /\ rsp \in Location /\ gs \in {"ccb", "client"} /\ pc \in Client \cup Stub \cup Pinion
  BY <1>1 DEF TypeOK, Location
<1> USE DEF Client, Stub, Pinion
<1>2. CASE EnterApi
  <2>1. /\ pc' = "api" /\ if' = FALSE /\ gs' = "ccb" /\ rsp' = Istack
        /\ UNCHANGED <<regs, active, ist, vec, frame, saved, back, runq>>
        /\ ist = active /\ regs = active
    BY <1>1, <1>2 DEF EnterApi, swapgs, memory, Entered, CoreOK
  <2>2. TypeOK'
    BY <1>t, <2>1, LocationTypes DEF TypeOK, Location
  <2> QED
    BY <1>1, <2>1, <2>2 DEF IInv, Entered, CoreOK, FramesOK
<1>3. CASE LeaveApi
  <2>1. /\ pc' \in {"user", "int"} /\ if' = TRUE /\ gs' = "client" /\ rsp' = StackOf(active)
        /\ UNCHANGED <<regs, active, ist, vec, frame, saved, back>>
        /\ ist = active /\ regs = active
    BY <1>1, <1>3 DEF LeaveApi, swapgs, memory, Entered, CoreOK
  <2>2. runq' \in Seq(Tcb)
    <3>1. \A t \in Blocked : Append(runq, t) \in Seq(Tcb)
      BY <1>t DEF Blocked, Tcb
    <3> QED
      BY <1>t, <1>3, <3>1 DEF LeaveApi
  <2>3. TypeOK'
    BY <1>t, <2>1, <2>2, LocationTypes DEF TypeOK, Location
  <2> QED
    BY <1>1, <2>1, <2>3 DEF IInv, Entered, CoreOK, FramesOK
<1>4. CASE Return
  <2>1. /\ pc = "ret" /\ pc' = "user"
        /\ UNCHANGED <<if, gs, rsp, regs, active, ist, vec, frame, saved, back, runq>>
    BY <1>4 DEF Return, memory
  <2>2. TypeOK'
    BY <1>t, <2>1 DEF TypeOK, Location
  <2> QED
    BY <1>1, <2>1, <2>2 DEF IInv, Entered, CoreOK, FramesOK
<1>5. ASSUME Gate("yield", "ret"), pc = "int", if' = if PROVE IInv'
  <2>1. if = TRUE
    BY <1>1, <1>5, <1>t DEF CoreOK
  <2>2. /\ FramesOK'
        /\ frame' \in [Tcb -> [rip : Client \cup Stub, if : BOOLEAN, rsp : Location]]
        /\ back' \in [Tcb -> Client]
        /\ rsp' = IstOf(active) /\ rsp' \in Location
        /\ pc' = "yield" /\ ist' = active /\ regs' = active /\ gs' = "client"
        /\ UNCHANGED <<active, vec, saved, runq>>
    BY <1>5, <2>1, GateFrames
  <2>3. TypeOK'
    BY <1>5, <1>t, <2>1, <2>2 DEF TypeOK, Location
  <2> QED
    BY <1>5, <2>1, <2>2, <2>3 DEF IInv, Entered, CoreOK
<1>6. ASSUME Gate("fault", "user"), pc = "user", if' = if PROVE IInv'
  <2>1. if = TRUE
    BY <1>1, <1>6, <1>t DEF CoreOK
  <2>2. /\ FramesOK'
        /\ frame' \in [Tcb -> [rip : Client \cup Stub, if : BOOLEAN, rsp : Location]]
        /\ back' \in [Tcb -> Client]
        /\ rsp' = IstOf(active) /\ rsp' \in Location
        /\ pc' = "fault" /\ ist' = active /\ regs' = active /\ gs' = "client"
        /\ UNCHANGED <<active, vec, saved, runq>>
    BY <1>6, <2>1, GateFrames
  <2>3. TypeOK'
    BY <1>6, <1>t, <2>1, <2>2 DEF TypeOK, Location
  <2> QED
    BY <1>6, <2>1, <2>2, <2>3 DEF IInv, Entered, CoreOK
<1>7. CASE Timer
  <2>1. if = TRUE /\ if' = FALSE /\ Gate("irq", pc) /\ pc \notin Pinion /\ pc # "irq"
        /\ pc \in Client \cup Stub
    BY <1>1, <1>7, <1>t DEF Timer, CoreOK
  <2>2. /\ FramesOK'
        /\ frame' \in [Tcb -> [rip : Client \cup Stub, if : BOOLEAN, rsp : Location]]
        /\ back' \in [Tcb -> Client]
        /\ rsp' = IstOf(active) /\ rsp' \in Location
        /\ pc' = "irq" /\ ist' = active /\ regs' = active /\ gs' = "client"
        /\ UNCHANGED <<active, vec, saved, runq>>
    BY <2>1, GateFrames
  <2>3. TypeOK'
    BY <1>t, <2>1, <2>2 DEF TypeOK, Location
  <2> QED
    BY <2>1, <2>2, <2>3 DEF IInv, Entered, CoreOK
<1>8. CASE SaveState
  <2>1. /\ if' = FALSE /\ vec' \in Stub /\ gs' = "ccb" /\ rsp' = Istack /\ pc' = "handler"
        /\ saved' = [saved EXCEPT ![rsp.of] = regs]
        /\ UNCHANGED <<regs, active, ist, frame, back, runq>>
        /\ rsp = IstOf(active) /\ ist = active /\ regs = active
    BY <1>1, <1>8 DEF SaveState, swapgs, Entered, CoreOK
  <2>2. saved' = [saved EXCEPT ![active] = active]
    BY <1>t, <2>1, LocationTypes
  <2>3. saved' \in [Tcb -> Tcb] /\ \A t \in Tcb : saved'[t] = t
    BY <1>1, <1>t, <2>2 DEF FramesOK
  <2>4. TypeOK'
    BY <1>t, <2>1, <2>3, LocationTypes DEF TypeOK, Location
  <2> QED
    BY <1>1, <2>1, <2>3, <2>4 DEF IInv, Entered, CoreOK, FramesOK
<1>9. CASE Handle
  <2>1. /\ pc = "handler" /\ UNCHANGED <<rsp, vec, frame, saved, back>>
        /\ gs = "ccb" /\ ~if
    BY <1>1, <1>9 DEF Handle, memory, Entered
  <2>2. PICK q \in (IF vec = "fault" THEN {} ELSE {Append(runq, active)})
                   \cup (IF MayBlock /\ vec # "irq" THEN {runq} ELSE {}) :
          IF q = << >>
          THEN /\ Load(Idle) /\ runq' = q
               /\ pc' = "user" /\ if' = TRUE /\ swapgs /\ regs' = Idle
          ELSE /\ Load(q[1]) /\ runq' = Tail(q)
               /\ pc' = "resume" /\ UNCHANGED <<if, gs, regs>>
    BY <1>9 DEF Handle
  <2>3. q \in Seq(Tcb)
    <3>1. q = Append(runq, active) \/ q = runq
      BY ONLY <2>2
    <3>2. Append(runq, active) \in Seq(Tcb)
      BY <1>t
    <3> QED
      BY <1>t, <3>1, <3>2
  <2>4. CASE q = << >>
    <3>1. /\ active' = Idle /\ ist' = Idle /\ runq' = q /\ pc' = "user" /\ if' = TRUE
          /\ gs' = "client" /\ regs' = Idle
      BY <2>1, <2>2, <2>4 DEF Load, swapgs
    <3>2. TypeOK'
      BY <1>t, <2>1, <2>3, <3>1, LocationTypes DEF TypeOK, Location
    <3> QED
      BY <1>1, <2>1, <3>1, <3>2 DEF IInv, Entered, CoreOK, FramesOK
  <2>5. CASE q # << >>
    <3>1. /\ active' = q[1] /\ ist' = q[1] /\ runq' = Tail(q) /\ pc' = "resume"
          /\ UNCHANGED <<if, gs, regs>>
      BY <2>2, <2>5 DEF Load
    <3>2. q[1] \in Tcb /\ Tail(q) \in Seq(Tcb)
      BY <2>3, <2>5
    <3>3. TypeOK'
      BY <1>t, <2>1, <3>1, <3>2 DEF TypeOK, Location
    <3> QED
      BY <1>1, <2>1, <3>1, <3>3 DEF IInv, Entered, CoreOK, FramesOK
  <2> QED
    BY <2>4, <2>5
<1>10. CASE Resume
  <2>1. /\ gs' = "client" /\ regs' = saved[active] /\ pc' = frame[active].rip
        /\ if' = frame[active].if /\ rsp' = frame[active].rsp
        /\ UNCHANGED <<active, ist, vec, frame, saved, back, runq>>
        /\ ist = active
    BY <1>1, <1>10 DEF Resume, swapgs, memory, Entered, CoreOK
  <2>2. /\ regs' = active /\ if' = TRUE /\ pc' \in Client \cup Stub /\ pc' # "irq"
        /\ rsp' \in Location
        /\ pc' \in Client /\ active # Idle => rsp' = StackOf(active)
        /\ pc' \in Stub => rsp' = IstOf(active)
    BY <1>1, <1>t, <2>1 DEF FramesOK
  <2>3. TypeOK'
    BY <1>t, <2>1, <2>2 DEF TypeOK, Location
  <2> QED
    BY <1>1, <2>1, <2>2, <2>3 DEF IInv, Entered, CoreOK, FramesOK
<1>11. CASE UNCHANGED vars
  BY <1>1, <1>11 DEF vars, cpu, memory, IInv, TypeOK, Entered, CoreOK, FramesOK
<1> QED
  BY <1>2, <1>3, <1>4, <1>5, <1>6, <1>7, <1>8, <1>9, <1>10, <1>11
     DEF Next, Code, IntFF, Exception

\* The inductive invariant of the entry paths: at every location, on which stack
\* and with whose registers the core stands, and what every TCB holds.
THEOREM EntryInvariance == Spec => []IInv
BY InitInv, StepInv, PTL DEF Spec

\* Pinion runs on its own base with interrupts off, and whenever they are on the
\* client's base is in use and the gates lead into the TCB of the thread on the
\* core (interrupt.s:120-124).
THEOREM EntrySound == Spec => []Entered
<1>1. IInv => Entered
  BY DEF IInv
<1> QED
  BY <1>1, EntryInvariance, PTL

\* No thread loses its registers or its place to another thread's gate
\* (ccb.s:210-214, interrupt.s:101-149).
THEOREM ContextSafe == Spec => []ContextKept
<1>1. IInv => ContextKept
  BY EntryAssumption DEF IInv, FramesOK, ContextKept, Tcb
<1> QED
  BY <1>1, EntryInvariance, PTL
=============================================================================

---------------------------- MODULE KernelTypes ----------------------------
(***************************************************************************)
(* The data of pinion64 that the scheduler, the thread table, the queues   *)
(* and the interrupt router share (internal.h).  A TCB is a 256-byte frame *)
(* of memory; its fields are kept as functions of the frame.               *)
(***************************************************************************)
EXTENDS Integers, Sequences, FiniteSets

CONSTANTS
    Tcb,        \* the TCB frames physical memory can provide
    Idle,       \* scheduler.c's static idle_tcb
    NULL,       \* the null pointer
    MaxId,      \* the largest thread id: TCB_LIMIT - 1, or the last id of
                \* the last subtable pge_alloc can provide
    Vector,     \* the 14-bit interrupt vectors the instance tells apart
    FreshTaps   \* the tap arrays a frame may hold before its first use

PAGEFAULT == 128    \* __PINION_INTERRUPT_PAGEFAULT
MISCFAULT == 129    \* __PINION_INTERRUPT_MISCFAULT
ZOMBIE    == 130    \* __PINION_INTERRUPT_ZOMBIE
QueueVector == {PAGEFAULT, MISCFAULT, ZOMBIE}

TapIndex == 0..3
Slot     == 0..3
Tap      == [vec : Vector, fired : BOOLEAN]   \* tcb->tap[j]; fired is 0x8000
NoTap    == [vec |-> 0, fired |-> FALSE]

ASSUME FrameAssumption ==
    /\ Idle \notin Tcb
    /\ NULL \notin Tcb \cup {Idle}
    /\ MaxId \in Nat \ {0}

ASSUME VectorAssumption ==
    /\ Vector \subseteq 0..16383
    /\ QueueVector \cup {0} \subseteq Vector
    /\ FreshTaps \subseteq [TapIndex -> Tap]

Thread == Tcb \cup {Idle}
Id     == 1..MaxId

\* TCB_STATE_*.  A freed frame's state field is overwritten by the allocator's
\* link; "FREE" stands for whatever it then holds (never one of the others).
State == {"FREE", "SUSPENDEDWAITING", "SUSPENDED", "WAITING", "QUEUED",
          "RUNNING"}

\* The vectors of the two pages init() maps with interrupt_add_vector_page
\* (0x0080..0x00FF and 0x0100..0x017F); every other page has no routes.
PinionPage   == {v \in Vector : v \in 128..255}
IrqPage      == {v \in Vector : v \in 256..383}
MappedVector == PinionPage \cup IrqPage

(***************************************************************************)
(* The memory one handler works on.  Handlers run with interrupts disabled *)
(* on the only core, so a C function is an operator from a Memory to a     *)
(* Memory, and a handler is their composition in the order of the calls.   *)
(*   runq   the list schedule_head .. schedule_tail                        *)
(*   next   tcb->next, the link that the run queue and the three fault     *)
(*          queues share                                                   *)
(*   qhead  the heads of pagefault_queue, miscfault_queue, zombie_queue    *)
(*   active ccb->active_tcb                                                *)
(***************************************************************************)
Memory ==
    [state  : [Thread -> State],
     next   : [Thread -> Thread \cup {NULL}],
     tap    : [Thread -> [TapIndex -> Tap]],
     runq   : Seq(Thread),
     qhead  : [QueueVector -> Thread \cup {NULL}],
     route  : [MappedVector -> [Slot -> Thread \cup {NULL}]],
     active : Thread \cup {NULL}]

Elements(s) == {s[i] : i \in DOMAIN s}
=============================================================================

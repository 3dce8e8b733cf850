------------------------------ MODULE MCKernel ------------------------------
(***************************************************************************)
(* Instances of Kernel for TLC.                                            *)
(***************************************************************************)
EXTENDS Kernel, TLC

\* The frames are interchangeable; the allocator's order of unused frames is
\* arbitrary in Kernel.
FrameSymmetry == Permutations(Tcb)

\* Client programs.  The life cycle of threads with faults:
LifeCalls == {"thread_yield", "thread_create", "thread_pause",
              "thread_resume", "thread_exit", "thread_reap",
              "thread_push_state", "fault_get", "pagefault"}
\* waiting for zombies, in threads that come and go:
WaitCalls == {"thread_create", "thread_pause", "thread_resume", "thread_exit",
              "thread_reap", "fault_get", "interrupt_set_tap",
              "interrupt_reset", "interrupt_wait"}
\* three threads that compete for the core:
RunCalls == {"thread_yield", "thread_create", "thread_pause", "thread_resume"}
\* one thread that exits, with nobody to resume it:
ExitCalls == {"thread_exit"}

QueueVectors == {0} \cup QueueVector

ZeroedRam == {[j \in TapIndex |-> NoTap]}

\* Taps a client sets: none; one for zombies; the same, and taking it back.
NoTaps       == {}
ZombieTap    == {<<0, ZOMBIE>>}
ZombieOrNone == ZombieTap \cup {<<0, 0>>}
=============================================================================

---------------------------- MODULE MCSupervised ----------------------------
(***************************************************************************)
(* Instances of Supervised for TLC.                                        *)
(***************************************************************************)
EXTENDS Supervised, TLC

FrameSymmetry == Permutations(Tcb)

\* Threads that fault, exit, are collected, and wait for page faults.
SuperviseCalls ==
    {"thread_yield", "thread_create", "thread_pause", "thread_resume",
     "thread_exit", "thread_reap", "thread_push_state", "pagefault",
     "miscfault", "fault_get", "interrupt_set_tap", "interrupt_reset",
     "interrupt_wait"}

QueueVectors == {0} \cup QueueVector
ZeroedRam    == {[j \in TapIndex |-> NoTap]}
PagefaultTap == {<<0, PAGEFAULT>>}
=============================================================================

------------------------------- MODULE Queues -------------------------------
(***************************************************************************)
(* queues.c: the three queues of threads that a supervisor collects, named *)
(* here by the vector that announces each of them.  They are linked        *)
(* through tcb->next, newest first.                                        *)
(***************************************************************************)
EXTENDS KernelTypes

has_queued(k, v) == k.qhead[v] # NULL

\* The head's successor becomes the head, whatever the head's next now holds.
get_queued(k, v) ==
    IF has_queued(k, v) THEN [k EXCEPT !.qhead[v] = k.next[k.qhead[v]]] ELSE k

\* A bug: the new head is not linked to the old one.
EnqueueUnlinked(k, v, t) == [k EXCEPT !.next[t] = NULL, !.qhead[v] = t]

enqueue(k, v, t) == [k EXCEPT !.next[t] = k.qhead[v], !.qhead[v] = t]
=============================================================================

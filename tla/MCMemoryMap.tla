---------------------------- MODULE MCMemoryMap ----------------------------
(* Memory maps for MemoryMap.  Pinion ends at 4; the cutoff is 16 or 32.     *)
EXTENDS MemoryMap

Mark == <<0, 6, 12, 20, 28, 40, 64, 120>>

\* Every stretch between two marks is free, reserved, or not reported; some
\* are free: with a cutoff of 0, below pinion's end, pmm_alloc meets no limit.
Stretches == {f \in [1..7 -> {0, FREE, 2}] : \E n \in 1..7 : f[n] = FREE}
Entries(f) ==
    LET reported(r) == r.type # 0
    IN  SelectSeq([k \in 1..7 |-> [base |-> Mark[k], size |-> Mark[k + 1] - Mark[k],
                                   type |-> f[k]]], reported)

Ascending == {Entries(f) : f \in Stretches}
=============================================================================

-------------------------- MODULE MCPartitionExecution --------------------------
(***************************************************************************)
(* PartitionExecution in pools of two processes and of two threads, and    *)
(* one task after the other, the last with an expected digest: that of the *)
(* outputs of a run in which task 2 became a gap.                          *)
(***************************************************************************)
EXTENDS PartitionExecution

MCProfiles == {[mode |-> "process", workers |-> 2, expected |-> {0}],
               [mode |-> "thread", workers |-> 2, expected |-> {0}],
               [mode |-> "serial", workers |-> 1, expected |-> {1, 3, 4}]}
=============================================================================

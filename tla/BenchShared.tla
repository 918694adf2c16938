----------------------------- MODULE BenchShared -----------------------------
(***************************************************************************)
(* TPM2_Wrapper_Bench (src/examples/bench/bench.c) on a TPM it shares     *)
(* with another program, which at any moment may flush a transient object *)
(* or load one of its own into a free slot (the fault model of TpmObjects *)
(* OtherFlush and OtherLoad).  The benchmark's own steps are those of     *)
(* Bench; a command on an object the other program flushed fails as the   *)
(* TPM fails it (UseRc).                                                   *)
(***************************************************************************)
EXTENDS Bench

\* One step of the other program; the benchmark's locals are untouched.
Interfere ==
    /\ \E h \in Slots : OtherFlush(h) \/ OtherLoad(h)
    /\ UNCHANGED <<pc, rc, step, count>>

SharedNext == Next \/ Interfere

SharedSpec == Init /\ [][SharedNext]_vars

=============================================================================

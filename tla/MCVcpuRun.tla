------------------------------ MODULE MCVcpuRun -----------------------------
(* A boot processor and an application processor. *)
EXTENDS VcpuRun
=============================================================================

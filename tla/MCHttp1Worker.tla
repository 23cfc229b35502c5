----------------------------- MODULE MCHttp1Worker -----------------------------
(***************************************************************************)
(* Http1Worker for TLC: interchangeable connections.                       *)
(***************************************************************************)
EXTENDS Http1Worker, TLC

ConnSymmetry == Permutations(Conns)
================================================================================

---- MODULE MCSupervisor ----
(* Small instances of Supervisor for TLC. *)
EXTENDS Supervisor, TLC

CONSTANTS c1, c2, s1, s2

\* Connections are interchangeable in the safety runs.
Symmetry == Permutations(Conns)
====

---- MODULE MCOutputFeed ----
(* Small instances of OutputFeed for TLC. *)
EXTENDS OutputFeed, TLC

CONSTANTS c1, c2

\* Connections are interchangeable in the safety runs.
Symmetry == Permutations(Conns)
====

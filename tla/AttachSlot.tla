----------------------------- MODULE AttachSlot -----------------------------
(***************************************************************************)
(* What the supervisor promises about its single client slot.  A supervisor *)
(* serves one attached client at a time; a newcomer takes the slot from     *)
(* whoever holds it, each connection takes it at most once, and only the    *)
(* connection that is itself leaving may empty it.                          *)
(***************************************************************************)
CONSTANTS
  Conns,    \* client connections, each one used once
  NoConn    \* the slot is empty: no member of Conns

VARIABLES
  owner,    \* the connection that holds the slot, or NoConn
  served,   \* the connections that have taken the slot
  leaving   \* the connections that have stopped serving their client

vars == <<owner, served, leaving>>

TypeOK ==
  /\ owner \in Conns \cup {NoConn}
  /\ served \in SUBSET Conns
  /\ leaving \in SUBSET Conns

Init ==
  /\ owner = NoConn
  /\ served = {}
  /\ leaving = {}

\* c takes the slot, whoever holds it.
Attach(c) ==
  /\ c \notin served
  /\ owner' = c
  /\ served' = served \cup {c}
  /\ UNCHANGED leaving

\* c stops serving its client: the client went away, or c was told to stop.
Leave(c) ==
  /\ c \in served
  /\ leaving' = leaving \cup {c}
  /\ UNCHANGED <<owner, served>>

\* The owner gives the slot up on its way out.
Release(c) ==
  /\ owner = c
  /\ c \in leaving
  /\ owner' = NoConn
  /\ UNCHANGED <<served, leaving>>

Next == \E c \in Conns : Attach(c) \/ Leave(c) \/ Release(c)

Spec == Init /\ [][Next]_vars

\* An owner that has left does not keep the slot.
FairSpec == Spec /\ \A c \in Conns : WF_vars(Release(c))
=============================================================================

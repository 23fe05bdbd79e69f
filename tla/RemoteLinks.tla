----------------------------- MODULE RemoteLinks -----------------------------
(***************************************************************************)
(* The client's links to its remote supervisors: the dials made in the     *)
(* background at startup and by :reconnect (runtime.rs,                    *)
(* spawn_remote_connect; client.rs, connect_remote and handshake), the     *)
(* registry of connected supervisors, and the trust files both ends keep   *)
(* (transport.rs).  Dials run as tasks of a multi-threaded runtime: each   *)
(* loads or creates the client's identity, verifies the supervisor's key   *)
(* against known_hosts, is admitted by authorized_keys, is told of the     *)
(* handshake and takes the supervisor's slot.  What they report, a         *)
(* SupervisorConnected by the dial and a SupervisorLost by the reader it   *)
(* has started, reaches the main task through one queue; a loss names the  *)
(* supervisor, not the link.                                               *)
(*                                                                         *)
(* A client key is the number of the dial that generated it; the key of a  *)
(* supervisor is the supervisor, and does not change.  TCP, TLS and the    *)
(* handshake's time limits are faults that may befall a dial or a link.    *)
(***************************************************************************)
EXTENDS Naturals, Sequences

CONSTANTS
  LinkSetups,  \* the configurations: [hosts: the host in each remote's URL, without
               \* its port, dials: bound on the dials]
  MaxDials,    \* the largest of these bounds
  MaxFaults    \* bound on the dials and links that fail

ASSUME LinksAssumption ==
  /\ MaxDials \in Nat
  /\ \A s \in LinkSetups : s.hosts \in Seq(Nat) /\ s.dials \in Nat

VARIABLES
  setup,       \* the configuration of this run
  dials,       \* the dials made: [r, c: the client's side, s: the supervisor's, key, posted]
  identity,    \* identity.key of the client: 0 for no file, Empty while being written
  knownHosts,  \* known_hosts: the lines <<host, supervisor key>>
  authorized,  \* authorized_keys of a remote
  holder,      \* the dial in a remote's active slot, or 0
  registry,    \* Supervisors.entries: the dial whose client is listed, or 0
  inbox,       \* the actions the dials and readers have posted
  faults,      \* faults so far
  raced,       \* whether two dials found no identity and both generated one
  refused,     \* remotes refused for a changed key
  rejected,    \* remotes that did not admit the client's key
  overlapped,  \* remotes dialled while another dial or link of theirs was up
  early        \* dials whose loss was posted before their connection

linkVars == <<setup, dials, identity, knownHosts, authorized, holder, registry, inbox, faults,
              raced, refused, rejected, overlapped, early>>
trust  == <<setup, identity, knownHosts, authorized, raced, refused, rejected>>
marks  == <<overlapped, early>>

Empty == MaxDials + 1
Remotes == DOMAIN setup.hosts
host == setup.hosts
NewDial(r) == [r |-> r, c |-> "identity", s |-> "none", key |-> 0, posted |-> FALSE]

\* connect_all lists every remote as disconnected; the runtime dials each.
LinksInit ==
  /\ setup \in LinkSetups
  /\ dials = [r \in Remotes |-> NewDial(r)]
  /\ identity = 0
  /\ knownHosts = <<>>
  /\ authorized = [r \in Remotes |-> {}]
  /\ holder = [r \in Remotes |-> 0]
  /\ registry = [r \in Remotes |-> 0]
  /\ inbox = <<>>
  /\ faults = 0
  /\ raced = FALSE /\ refused = {} /\ rejected = {} /\ overlapped = {} /\ early = {}

At(d, pc) == d \in DOMAIN dials /\ dials[d].c = pc
Goto(d, pc) == dials' = [dials EXCEPT ![d].c = pc]

---------------------------------------------------------------------------
(* A dial: identity, known_hosts.                                          *)

\* (Faulty.)  A key is generated whether or not there is one.
LoadIdentityAnew(d) ==
  /\ At(d, "identity")
  /\ Goto(d, "generate")
  /\ UNCHANGED <<trust, holder, registry, inbox, faults, marks>>

\* load_or_create_identity: a file another dial has created but not yet
\* written does not parse.
LoadIdentity(d) ==
  /\ At(d, "identity")
  /\ dials' = [dials EXCEPT ![d].c = IF identity = 0 THEN "generate"
                                     ELSE IF identity = Empty THEN "failed" ELSE "verify",
                            ![d].key = IF identity = Empty THEN 0 ELSE identity]
  /\ raced' = (raced \/ (identity = 0 /\ \E e \in DOMAIN dials \ {d} : At(e, "generate")))
  /\ UNCHANGED <<setup, identity, knownHosts, authorized, refused, rejected, holder, registry,
                 inbox, faults, marks>>

\* write_private: created or truncated, then written.
CreateIdentity(d) ==
  /\ At(d, "generate")
  /\ Goto(d, "write")
  /\ identity' = Empty
  /\ UNCHANGED <<setup, knownHosts, authorized, raced, refused, rejected, holder, registry, inbox,
                 faults, marks>>

WriteIdentity(d) ==
  /\ At(d, "write")
  /\ dials' = [dials EXCEPT ![d].c = "verify", ![d].key = d]
  /\ identity' = d
  /\ UNCHANGED <<setup, knownHosts, authorized, raced, refused, rejected, holder, registry,
                 inbox, faults, marks>>

\* known_host_fingerprint: the key in the first line of the host, if it has one.
Pinned(h) ==
  LET first == {i \in DOMAIN knownHosts : /\ knownHosts[i][1] = h
                                          /\ \A j \in 1 .. i - 1 : knownHosts[j][1] # h}
  IN {knownHosts[i][2] : i \in first}

VerifyServer(d) ==
  /\ At(d, "verify")
  /\ LET r == dials[d].r
         pins == Pinned(host[r])
     IN \/ pins = {} /\ Goto(d, "pin") /\ UNCHANGED refused
        \/ r \in pins /\ Goto(d, "hello") /\ UNCHANGED refused
        \/ pins # {} /\ r \notin pins /\ Goto(d, "failed") /\ refused' = refused \cup {r}
  /\ UNCHANGED <<setup, identity, knownHosts, authorized, raced, rejected, holder, registry,
                 inbox, faults, marks>>

\* append_known_host, after a check that found no line.
PinServer(d) ==
  /\ At(d, "pin")
  /\ Goto(d, "hello")
  /\ knownHosts' = Append(knownHosts, <<host[dials[d].r], dials[d].r>>)
  /\ UNCHANGED <<setup, identity, authorized, raced, refused, rejected, holder, registry, inbox,
                 faults, marks>>

---------------------------------------------------------------------------
(* The supervisor dialled: authorized_keys, handshake, slot.               *)

\* verify_client_cert, under tofu_lock; an admitted client is told Ok.
Admit(d) ==
  /\ At(d, "hello") /\ dials[d].s = "none"
  /\ LET r == dials[d].r
         key == dials[d].key
     IN IF authorized[r] = {} \/ key \in authorized[r]
        THEN /\ authorized' = [authorized EXCEPT ![r] = @ \cup {key}]
             /\ dials' = [dials EXCEPT ![d].s = "told"]
             /\ UNCHANGED rejected
        ELSE /\ Goto(d, "failed")
             /\ rejected' = rejected \cup {r}
             /\ UNCHANGED authorized
  /\ UNCHANGED <<setup, identity, knownHosts, raced, refused, holder, registry, inbox, faults,
                 marks>>

\* Steal on attach: the link that held the slot is closed.
TakeSlot(d) ==
  /\ d \in DOMAIN dials /\ dials[d].s = "told"
  /\ LET r == dials[d].r
     IN /\ holder' = [holder EXCEPT ![r] = d]
        /\ dials' = [e \in DOMAIN dials |->
                       IF e = d THEN [dials[e] EXCEPT !.s = "slot"]
                       ELSE IF e = holder[r] THEN [dials[e] EXCEPT !.s = "closed"]
                       ELSE dials[e]]
  /\ UNCHANGED <<trust, registry, inbox, faults, marks>>

\* The command loop of a client that gave up meets the end of its stream.
NoticeEof(d) ==
  /\ d \in DOMAIN dials /\ dials[d].s = "slot" /\ dials[d].c = "failed"
  /\ dials' = [dials EXCEPT ![d].s = "closed"]
  /\ holder' = [holder EXCEPT ![dials[d].r] = IF @ = d THEN 0 ELSE @]
  /\ UNCHANGED <<trust, registry, inbox, faults, marks>>

---------------------------------------------------------------------------
(* The client: the end of the handshake, the reader, the main task.        *)

\* handshake: the reader is started before the dial reports the connection.
Welcome(d) ==
  /\ At(d, "hello") /\ dials[d].s # "none"
  /\ Goto(d, "up")
  /\ UNCHANGED <<trust, holder, registry, inbox, faults, marks>>

Post(m) == inbox' = Append(inbox, m)

PostConnected(d) ==
  /\ d \in DOMAIN dials /\ dials[d].c \in {"up", "lost"} /\ ~dials[d].posted
  /\ dials' = [dials EXCEPT ![d].posted = TRUE]
  /\ Post([t |-> "connected", r |-> dials[d].r, d |-> d])
  /\ UNCHANGED <<trust, holder, registry, faults, marks>>

\* (Faulty.)  The reader stops without a word when it is detached.
PostLostNot(d) ==
  /\ At(d, "up") /\ dials[d].s = "closed"
  /\ Goto(d, "lost")
  /\ UNCHANGED <<trust, holder, registry, inbox, faults, marks>>

\* spawn_reader, on Detached or a failed read.
PostLost(d) ==
  /\ At(d, "up") /\ dials[d].s = "closed"
  /\ Goto(d, "lost")
  /\ Post([t |-> "lost", r |-> dials[d].r, d |-> 0])
  /\ early' = IF dials[d].posted THEN early ELSE early \cup {d}
  /\ UNCHANGED <<trust, holder, registry, faults, overlapped>>

\* (Faulty.)  A fresh client is only ever a spare.
OnConnectedNot ==
  /\ inbox # <<>> /\ Head(inbox).t = "connected"
  /\ inbox' = Tail(inbox)
  /\ UNCHANGED <<trust, dials, holder, registry, faults, marks>>

\* handle_action: the client of a supervisor that is connected already is
\* dropped, but its tasks keep the link; any loss takes the entry down.
OnConnected ==
  /\ inbox # <<>> /\ Head(inbox).t = "connected"
  /\ inbox' = Tail(inbox)
  /\ LET m == Head(inbox)
     IN registry' = [registry EXCEPT ![m.r] = IF @ # 0 THEN @ ELSE m.d]
  /\ UNCHANGED <<trust, dials, holder, faults, marks>>

OnLost ==
  /\ inbox # <<>> /\ Head(inbox).t = "lost"
  /\ inbox' = Tail(inbox)
  /\ registry' = [registry EXCEPT ![Head(inbox).r] = 0]
  /\ UNCHANGED <<trust, dials, holder, faults, marks>>

\* cmd_reconnect, refused while the registry lists a client.
Reconnect(r) ==
  /\ Len(dials) < setup.dials
  /\ registry[r] = 0
  /\ dials' = Append(dials, NewDial(r))
  /\ overlapped' = IF \E d \in DOMAIN dials : /\ dials[d].r = r
                                              /\ \/ dials[d].c \notin {"failed", "lost"}
                                                 \/ dials[d].s \in {"told", "slot"}
                   THEN overlapped \cup {r} ELSE overlapped
  /\ UNCHANGED <<trust, holder, registry, inbox, faults, early>>

---------------------------------------------------------------------------
(* Faults.                                                                 *)

InFlight(d) == d \in DOMAIN dials /\ dials[d].c \in {"identity", "verify", "pin", "hello"}

DialFails(d) ==
  /\ InFlight(d) /\ faults < MaxFaults
  /\ Goto(d, "failed")
  /\ faults' = faults + 1
  /\ UNCHANGED <<trust, holder, registry, inbox, marks>>

LinkDrops(d) ==
  /\ d \in DOMAIN dials /\ dials[d].s = "slot" /\ faults < MaxFaults
  /\ faults' = faults + 1
  /\ dials' = [dials EXCEPT ![d].s = "closed"]
  /\ holder' = [holder EXCEPT ![dials[d].r] = IF @ = d THEN 0 ELSE @]
  /\ UNCHANGED <<trust, registry, inbox, marks>>

---------------------------------------------------------------------------
Dial(d) ==
  \/ LoadIdentity(d) \/ CreateIdentity(d) \/ WriteIdentity(d)
  \/ VerifyServer(d) \/ PinServer(d) \/ Welcome(d) \/ PostConnected(d) \/ PostLost(d)
Remote(d) == Admit(d) \/ TakeSlot(d) \/ NoticeEof(d)
MainTask == OnConnected \/ OnLost

LinksNext ==
  \/ \E d \in 1 .. MaxDials : Dial(d) \/ Remote(d) \/ DialFails(d) \/ LinkDrops(d)
  \/ MainTask
  \/ \E r \in Remotes : Reconnect(r)

LinksSpec == LinksInit /\ [][LinksNext]_linkVars

\* Tasks of both processes run; the user need not reconnect, nothing need fail.
LinksFairness ==
  /\ \A d \in 1 .. MaxDials : WF_linkVars(Dial(d)) /\ WF_linkVars(Remote(d))
  /\ WF_linkVars(MainTask)

---------------------------------------------------------------------------
\* A supervisor whose links the registry can mistake for each other.
Crossed(r) == r \in overlapped \/ \E e \in early : dials[e].r = r

\* What the registry lists is what there is.  A link that is gone does not stay
\* listed, where :reconnect would refuse to dial: its reader or a posted loss is
\* still to take it down, except when the loss overtook the connection.  And a
\* link that holds its supervisor's slot, and whose connection was posted, is
\* listed or about to be: neither taken down by another link's loss nor dropped
\* as a spare, if no second dial crossed it (runtime.rs, handle_action,
\* on_supervisor_connected; client.rs, mark_disconnected).
RegistryIsTrue ==
  /\ \A r \in Remotes : LET d == registry[r] IN
       d # 0 /\ dials[d].s = "closed" =>
         \/ dials[d].c = "up"
         \/ \E i \in DOMAIN inbox : inbox[i].t = "lost" /\ inbox[i].r = r
         \/ d \in early
  /\ \A d \in DOMAIN dials :
       LET r == dials[d].r
       IN /\ dials[d].c = "up" /\ dials[d].s = "slot" /\ dials[d].posted
          /\ ~Crossed(r)
          /\ \A i \in DOMAIN inbox : inbox[i].r # r
          => registry[r] = d

\* Trust once given lasts.  A supervisor that admitted this client does not
\* reject it later, unless two dials found no identity and each generated one
\* (transport.rs, load_or_create_identity); a supervisor is refused for a changed
\* key only if another is reached at the same host, as pins are looked up without
\* the port (client.rs, connect_remote; transport.rs, verify_server_cert).
TrustLasts ==
  /\ rejected # {} => raced
  /\ \A r \in refused : \E q \in Remotes : q # r /\ host[q] = host[r]

\* A dial ends: it fails, its link is listed, or it is lost again, with the same
\* exceptions (spawn_remote_connect, on_supervisor_connected).
DialSettles ==
  \A d \in 1 .. MaxDials :
    (d \in DOMAIN dials) ~>
      (/\ d \in DOMAIN dials
       /\ \/ dials[d].c \in {"failed", "lost"}
          \/ registry[dials[d].r] = d
          \/ Crossed(dials[d].r))
=============================================================================

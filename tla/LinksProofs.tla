----------------------------- MODULE LinksProofs -----------------------------
(***************************************************************************)
(* Theorems of the client's links to its remote supervisors, for any number *)
(* of remotes, dials and faults: trust once given lasts, and the registry   *)
(* lists what there is.                                                     *)
(***************************************************************************)
EXTENDS RemoteLinks, SequenceTheorems, TLAPS

ClientStates == {"identity", "generate", "write", "verify", "pin", "hello", "up", "lost", "failed"}
RemoteStates == {"none", "told", "slot", "closed"}

Keys == 0 .. MaxDials
Marks == BOOLEAN
DialRecord == [r : Remotes, c : ClientStates, s : RemoteStates, key : Keys, posted : Marks]
Message == [t : {"connected", "lost"}, r : Remotes, d : Nat]

DialTypes == setup \in LinkSetups /\ dials \in Seq(DialRecord)
TrustTypes ==
  /\ identity \in 0 .. Empty
  /\ authorized \in [Remotes -> SUBSET Keys]
  /\ raced \in BOOLEAN
RegistryTypes ==
  /\ registry \in [Remotes -> Nat]
  /\ inbox \in Seq(Message)
  /\ early \subseteq DOMAIN dials

-----------------------------------------------------------------------------
(* Trust *)

\* A dial that is to bring an identity about.
Making(d) == dials[d].c \in {"generate", "write"}

\* Unless two dials have raced: one dial makes the identity, before which there is none and
\* during which it is empty; past it every dial and every supervisor goes by the same key.
OneIdentity ==
  raced = FALSE =>
    /\ \A d, e \in DOMAIN dials : Making(d) /\ Making(e) => d = e
    /\ \A d \in DOMAIN dials :
         /\ dials[d].c = "generate" => identity = 0
         /\ dials[d].c = "write" => identity = Empty
         /\ dials[d].c \in {"verify", "pin", "hello"} =>
              dials[d].key = identity /\ identity \in 1 .. MaxDials
    /\ \A r \in Remotes :
         authorized[r] # {} => authorized[r] = {identity} /\ identity \in 1 .. MaxDials
    /\ rejected = {}

\* A line of known_hosts is that of a supervisor, at its host.
LinesTrue ==
  /\ knownHosts \in Seq(Nat \X Remotes)
  /\ \A i \in DOMAIN knownHosts : knownHosts[i][1] = host[knownHosts[i][2]]

\* Who is refused shares its host.
RefusedShare == \A r \in refused : \E q \in Remotes : q # r /\ host[q] = host[r]

TrustInv == DialTypes /\ TrustTypes /\ OneIdentity /\ LinesTrue /\ RefusedShare

-----------------------------------------------------------------------------
(* The registry *)

\* Nothing will come of the dial, and its link holds nothing.
Dead(d) == dials[d].c \in {"failed", "lost"} /\ dials[d].s \notin {"told", "slot"}

LossOf(r, i) == i \in DOMAIN inbox /\ inbox[i].t = "lost" /\ inbox[i].r = r
LinkOf(d, i) == i \in DOMAIN inbox /\ inbox[i].t = "connected" /\ inbox[i].d = d

\* What is listed, and what is reported, is a dial of that supervisor that got through.
Through(d, r) == d \in DOMAIN dials /\ dials[d].r = r /\ dials[d].posted = TRUE
NamesTrue ==
  /\ \A r \in Remotes : registry[r] # 0 => Through(registry[r], r)
  /\ \A i \in DOMAIN inbox : inbox[i].t = "connected" => Through(inbox[i].d, inbox[i].r)
  /\ \A d \in DOMAIN dials :
       /\ dials[d].posted = TRUE => dials[d].c \in {"up", "lost"}
       /\ dials[d].c = "lost" => dials[d].s = "closed"
       /\ dials[d].c = "lost" /\ dials[d].posted = FALSE => d \in early

\* The loss of a link follows its connection.
LossComes ==
  \A d \in DOMAIN dials :
    dials[d].c = "lost" /\ d \notin early =>
      /\ registry[dials[d].r] = d => \E i \in DOMAIN inbox : LossOf(dials[d].r, i)
      /\ \A i \in DOMAIN inbox :
           LinkOf(d, i) => \E j \in DOMAIN inbox : i < j /\ LossOf(dials[d].r, j)

\* Unless a dial has crossed another: one dial of the supervisor lives at a time,
OneLives ==
  \A d, e \in DOMAIN dials :
    d # e /\ dials[d].r = dials[e].r /\ ~Crossed(dials[d].r) => Dead(d) \/ Dead(e)

\* a loss comes between two connections,
Separated ==
  \A j \in DOMAIN inbox : inbox[j].t = "connected" /\ ~Crossed(inbox[j].r) =>
    /\ registry[inbox[j].r] # 0 =>
         \E k \in DOMAIN inbox : k < j /\ LossOf(inbox[j].r, k)
    /\ \A i \in DOMAIN inbox : i < j /\ inbox[i].t = "connected" /\ inbox[i].r = inbox[j].r =>
         \E k \in DOMAIN inbox : i < k /\ k < j /\ LossOf(inbox[j].r, k)

\* and what lives and was reported is listed or about to be, for good.
LiveListed ==
  \A d \in DOMAIN dials :
    dials[d].posted = TRUE /\ ~Dead(d) /\ ~Crossed(dials[d].r) =>
      /\ registry[dials[d].r] = d \/ \E i \in DOMAIN inbox : LinkOf(d, i)
      /\ registry[dials[d].r] = d => \A i \in DOMAIN inbox : ~LossOf(dials[d].r, i)
      /\ \A i, j \in DOMAIN inbox : LinkOf(d, i) /\ i < j => ~LossOf(dials[d].r, j)

RegistryInv ==
  /\ DialTypes /\ RegistryTypes /\ NamesTrue
  /\ LossComes /\ OneLives /\ Separated /\ LiveListed

-----------------------------------------------------------------------------
(* Types *)

\* A new dial is a dial.
LEMMA NewDialType == ASSUME NEW r \in Remotes PROVE NewDial(r) \in DialRecord
  <1>1. 0 \in Keys BY LinksAssumption DEF Keys
  <1>2. "identity" \in ClientStates /\ "none" \in RemoteStates BY DEF ClientStates, RemoteStates
  <1>3. FALSE \in Marks BY DEF Marks
  <1> QED BY <1>1, <1>2, <1>3, Zenon DEF NewDial, DialRecord

\* A dial with a field replaced is a dial.
LEMMA FieldTypes ==
  ASSUME NEW d \in DOMAIN dials, DialTypes
  PROVE  /\ \A v \in ClientStates : [dials[d] EXCEPT !.c = v] \in DialRecord
         /\ \A v \in RemoteStates : [dials[d] EXCEPT !.s = v] \in DialRecord
         /\ \A v \in ClientStates, key \in Keys :
              [[dials[d] EXCEPT !.c = v] EXCEPT !.key = key] \in DialRecord
         /\ [dials[d] EXCEPT !.posted = TRUE] \in DialRecord
  <1>1. TRUE \in Marks BY DEF Marks
  <1>2. dials[d] \in DialRecord BY DEF DialTypes
  <1> QED BY <1>1, <1>2 DEF DialRecord

\* The types hold at first.
LEMMA TypesInit == LinksInit => DialTypes /\ TrustTypes /\ RegistryTypes
  <1> SUFFICES ASSUME LinksInit PROVE DialTypes /\ TrustTypes /\ RegistryTypes
    OBVIOUS
  <1> USE LinksAssumption DEF LinksInit
  <1>1. setup.hosts \in Seq(Nat) /\ Remotes = 1 .. Len(setup.hosts) /\ Len(setup.hosts) \in Nat
    BY DEF Remotes
  <1>2. \A r \in Remotes : NewDial(r) \in DialRecord
    BY NewDialType
  <1>3. dials \in Seq(DialRecord) BY <1>1, <1>2
  <1>4. DialTypes BY <1>3 DEF DialTypes
  <1>5. identity \in 0 .. Empty /\ authorized \in [Remotes -> SUBSET Keys]
    BY DEF Empty, Keys
  <1>6. raced \in BOOLEAN OBVIOUS
  <1>7. RegistryTypes BY DEF RegistryTypes
  <1> QED BY <1>4, <1>5, <1>6, <1>7 DEF TrustTypes

\* What is known of a dial.
LEMMA DialFields ==
  ASSUME NEW d \in DOMAIN dials, DialTypes
  PROVE  /\ dials[d].r \in Remotes /\ dials[d].key \in Keys /\ dials[d].posted \in BOOLEAN
         /\ dials[d].c \in ClientStates /\ dials[d].s \in RemoteStates
  <1>1. dials[d] \in DialRecord BY DEF DialTypes
  <1> QED BY <1>1, Zenon DEF DialRecord, Marks

\* A field replaced in one dial.
LEMMA Moved ==
  ASSUME NEW d \in DOMAIN dials, DialTypes, NEW v, dials' = [dials EXCEPT ![d].c = v]
  PROVE  /\ DOMAIN dials' = DOMAIN dials /\ \A e \in DOMAIN dials \ {d} : dials'[e] = dials[e]
         /\ dials'[d].c = v
         /\ UNCHANGED <<dials[d].r, dials[d].s, dials[d].key, dials[d].posted>>
  <1>1. dials[d] \in DialRecord BY DEF DialTypes
  <1> QED BY <1>1 DEF DialRecord

\* The same on the side of the supervisor.
LEMMA RemoteMoved ==
  ASSUME NEW d \in DOMAIN dials, DialTypes, NEW v, dials' = [dials EXCEPT ![d].s = v]
  PROVE  /\ DOMAIN dials' = DOMAIN dials /\ \A e \in DOMAIN dials \ {d} : dials'[e] = dials[e]
         /\ dials'[d].s = v
         /\ UNCHANGED <<dials[d].r, dials[d].c, dials[d].key, dials[d].posted>>
  <1>1. dials[d] \in DialRecord BY DEF DialTypes
  <1> QED BY <1>1 DEF DialRecord

\* A dial marked as reported.
LEMMA Reported ==
  ASSUME NEW d \in DOMAIN dials, DialTypes, dials' = [dials EXCEPT ![d].posted = TRUE]
  PROVE  /\ DOMAIN dials' = DOMAIN dials /\ \A e \in DOMAIN dials \ {d} : dials'[e] = dials[e]
         /\ dials'[d].posted = TRUE
         /\ UNCHANGED <<dials[d].r, dials[d].c, dials[d].s, dials[d].key>>
  <1>1. dials[d] \in DialRecord BY DEF DialTypes
  <1> QED BY <1>1 DEF DialRecord

\* A slot taken: links may be closed, and nothing else of them changes.
LEMMA SlotTaken ==
  ASSUME DialTypes, NEW d \in DOMAIN dials, TakeSlot(d)
  PROVE  /\ DOMAIN dials' = DOMAIN dials
         /\ \A e \in DOMAIN dials :
              /\ UNCHANGED <<dials[e].r, dials[e].c, dials[e].key, dials[e].posted>>
              /\ e # d => dials'[e].s \in {dials[e].s, "closed"}
  <1> DEFINE next(e) == IF e = d THEN [dials[e] EXCEPT !.s = "slot"]
                        ELSE IF e = holder[dials[d].r] THEN [dials[e] EXCEPT !.s = "closed"]
                        ELSE dials[e]
  <1>1. dials' = [e \in DOMAIN dials |-> next(e)] BY DEF TakeSlot
  <1>2. \A e \in DOMAIN dials : dials[e] \in DialRecord BY DEF DialTypes
  <1>3. ASSUME NEW e \in DOMAIN dials
        PROVE  /\ next(e).r = dials[e].r /\ next(e).c = dials[e].c
               /\ next(e).key = dials[e].key /\ next(e).posted = dials[e].posted
               /\ e # d => next(e).s \in {dials[e].s, "closed"}
    BY <1>2 DEF DialRecord
  <1> HIDE DEF next
  <1> QED BY <1>1, <1>3

\* A dial replaced by another keeps the types of the dials.
LEMMA ReplacedTypes ==
  ASSUME DialTypes, NEW d \in DOMAIN dials, NEW x \in DialRecord,
         dials' = [dials EXCEPT ![d] = x], setup' = setup
  PROVE  DialTypes'
  <1>1. DialRecord' = DialRecord BY DEF DialRecord, Remotes
  <1> QED BY <1>1 DEF DialTypes

\* A move of the client's side of one dial keeps the types of the dials.
LEMMA GotoTypes ==
  ASSUME DialTypes, NEW d \in DOMAIN dials, NEW pc \in ClientStates, Goto(d, pc), setup' = setup
  PROVE  DialTypes'
  <1>1. [dials[d] EXCEPT !.c = pc] \in DialRecord BY FieldTypes
  <1>2. dials' = [dials EXCEPT ![d] = [dials[d] EXCEPT !.c = pc]] BY DEF Goto
  <1> QED BY <1>1, <1>2, ReplacedTypes

\* The steps keep the types of the dials.
LEMMA DialTypesNext == DialTypes /\ TrustTypes /\ [LinksNext]_linkVars => DialTypes'
  <1> SUFFICES ASSUME DialTypes, TrustTypes, [LinksNext]_linkVars PROVE DialTypes'
    OBVIOUS
  <1> USE LinksAssumption
  <1>0. setup' = setup /\ Remotes' = Remotes /\ DialRecord' = DialRecord
    BY DEF LinksNext, Dial, Remote, MainTask, LoadIdentity, CreateIdentity, WriteIdentity,
           VerifyServer, PinServer, Welcome, PostConnected, PostLost, Admit, TakeSlot, NoticeEof,
           OnConnected, OnLost, Reconnect, DialFails, LinkDrops, trust, linkVars, Remotes,
           DialRecord
  <1>1. ASSUME NEW d \in 1 .. MaxDials, LoadIdentity(d) PROVE DialTypes'
    <2> DEFINE pc == IF identity = 0 THEN "generate"
                     ELSE IF identity = Empty THEN "failed" ELSE "verify"
               key == IF identity = Empty THEN 0 ELSE identity
    <2>1. d \in DOMAIN dials BY <1>1 DEF LoadIdentity, At
    <2>2. pc \in ClientStates /\ key \in Keys BY DEF ClientStates, TrustTypes, Empty, Keys
    <2>3. dials' = [dials EXCEPT ![d].c = pc, ![d].key = key] BY <1>1 DEF LoadIdentity
    <2> HIDE DEF pc, key
    <2>4. dials' = [dials EXCEPT ![d] = [[dials[d] EXCEPT !.c = pc] EXCEPT !.key = key]]
      BY <2>1, <2>3
    <2>5. [[dials[d] EXCEPT !.c = pc] EXCEPT !.key = key] \in DialRecord
      BY <2>1, <2>2, FieldTypes
    <2> QED BY <1>0, <2>1, <2>4, <2>5, ReplacedTypes
  <1>2. ASSUME NEW d \in 1 .. MaxDials, WriteIdentity(d) PROVE DialTypes'
    <2>1. d \in DOMAIN dials /\ "verify" \in ClientStates /\ d \in Keys
      BY <1>2 DEF WriteIdentity, At, ClientStates, Keys
    <2>2. dials' = [dials EXCEPT ![d] = [[dials[d] EXCEPT !.c = "verify"] EXCEPT !.key = d]]
      BY <1>2, <2>1 DEF WriteIdentity
    <2>3. [[dials[d] EXCEPT !.c = "verify"] EXCEPT !.key = d] \in DialRecord
      BY <2>1, FieldTypes
    <2> QED BY <1>0, <2>1, <2>2, <2>3, ReplacedTypes
  <1>3. ASSUME NEW d \in 1 .. MaxDials, NEW pc \in ClientStates, d \in DOMAIN dials, Goto(d, pc)
        PROVE  DialTypes'
    BY <1>0, <1>3, GotoTypes
  <1>4. ASSUME NEW d \in 1 .. MaxDials,
               \/ CreateIdentity(d) \/ VerifyServer(d) \/ PinServer(d) \/ Welcome(d)
               \/ PostLost(d) \/ DialFails(d)
        PROVE  DialTypes'
    BY <1>3, <1>4 DEF CreateIdentity, VerifyServer, PinServer, Welcome, PostLost, DialFails,
                      InFlight, At, ClientStates
  <1>5. ASSUME NEW d \in 1 .. MaxDials, PostConnected(d) PROVE DialTypes'
    <2>1. dials' = [dials EXCEPT ![d].posted = TRUE] /\ d \in DOMAIN dials
      BY <1>5 DEF PostConnected
    <2>2. dials' = [dials EXCEPT ![d] = [dials[d] EXCEPT !.posted = TRUE]] BY <2>1
    <2>3. [dials[d] EXCEPT !.posted = TRUE] \in DialRecord BY <2>1, FieldTypes
    <2> QED BY <1>0, <2>1, <2>2, <2>3, ReplacedTypes
  <1>6. ASSUME NEW d \in 1 .. MaxDials, Admit(d) PROVE DialTypes'
    <2>1. CASE dials' = [dials EXCEPT ![d].s = "told"] /\ d \in DOMAIN dials
      <3>1. dials' = [dials EXCEPT ![d] = [dials[d] EXCEPT !.s = "told"]] BY <2>1
      <3>2. [dials[d] EXCEPT !.s = "told"] \in DialRecord BY <2>1, FieldTypes DEF RemoteStates
      <3> QED BY <1>0, <2>1, <3>1, <3>2, ReplacedTypes
    <2>2. CASE Goto(d, "failed") /\ d \in DOMAIN dials BY <1>3, <2>2 DEF ClientStates
    <2> QED BY <1>6, <2>1, <2>2 DEF Admit, At
  <1>7. ASSUME NEW d \in 1 .. MaxDials, TakeSlot(d) PROVE DialTypes'
    <2>1. \A e \in DOMAIN dials : [dials[e] EXCEPT !.s = "slot"] \in DialRecord
                                  /\ [dials[e] EXCEPT !.s = "closed"] \in DialRecord
      BY FieldTypes DEF RemoteStates
    <2>2. DOMAIN dials' = DOMAIN dials /\ \A e \in DOMAIN dials : dials'[e] \in DialRecord
      BY <1>7, <2>1 DEF TakeSlot, DialTypes
    <2>3. DOMAIN dials = 1 .. Len(dials) /\ Len(dials) \in Nat BY DEF DialTypes
    <2>4. dials' = [e \in 1 .. Len(dials) |-> dials'[e]] BY <1>7, <2>3 DEF TakeSlot
    <2> QED BY <1>0, <2>2, <2>3, <2>4 DEF DialTypes
  <1>8. ASSUME NEW d \in 1 .. MaxDials, NoticeEof(d) \/ LinkDrops(d) PROVE DialTypes'
    <2>1. dials' = [dials EXCEPT ![d] = [dials[d] EXCEPT !.s = "closed"]] /\ d \in DOMAIN dials
      BY <1>8 DEF NoticeEof, LinkDrops
    <2>2. [dials[d] EXCEPT !.s = "closed"] \in DialRecord BY <2>1, FieldTypes DEF RemoteStates
    <2> QED BY <1>0, <2>1, <2>2, ReplacedTypes
  <1>9. ASSUME MainTask \/ UNCHANGED linkVars PROVE DialTypes'
    BY <1>0, <1>9 DEF MainTask, OnConnected, OnLost, linkVars, DialTypes
  <1>10. ASSUME NEW r \in Remotes, Reconnect(r) PROVE DialTypes'
    <2>1. NewDial(r) \in DialRecord BY NewDialType
    <2> QED BY <1>0, <1>10, <2>1 DEF Reconnect, DialTypes
  <1> QED BY <1>1, <1>2, <1>4, <1>5, <1>6, <1>7, <1>8, <1>9, <1>10
             DEF LinksNext, Dial, Remote

-----------------------------------------------------------------------------
(* Trust lasts *)

\* What the trust files hold keeps its types.
LEMMA TrustTypesNext == DialTypes /\ TrustTypes /\ [LinksNext]_linkVars => TrustTypes'
  <1> SUFFICES ASSUME DialTypes, TrustTypes, [LinksNext]_linkVars PROVE TrustTypes'
    OBVIOUS
  <1> USE LinksAssumption
  <1>1. ASSUME NEW d \in 1 .. MaxDials, LoadIdentity(d) PROVE TrustTypes'
    <2>1. PICK b \in BOOLEAN : raced' = b BY <1>1 DEF LoadIdentity, TrustTypes
    <2> QED BY <1>1, <2>1 DEF LoadIdentity, TrustTypes, Remotes
  <1>2. ASSUME NEW d \in 1 .. MaxDials, CreateIdentity(d) \/ WriteIdentity(d) PROVE TrustTypes'
    <2>1. identity' \in 0 .. Empty BY <1>2 DEF CreateIdentity, WriteIdentity, Empty
    <2>2. UNCHANGED <<setup, authorized, raced>> BY <1>2 DEF CreateIdentity, WriteIdentity
    <2> QED BY <2>1, <2>2 DEF TrustTypes, Remotes
  <1>3. ASSUME NEW d \in 1 .. MaxDials, Admit(d) PROVE TrustTypes'
    <2>1. UNCHANGED <<setup, identity, raced>> BY <1>3 DEF Admit
    <2>2. dials[d] \in DialRecord BY <1>3 DEF Admit, At, DialTypes
    <2>3. dials[d].key \in Keys /\ dials[d].r \in Remotes BY <2>2 DEF DialRecord
    <2>4. authorized' \in [Remotes -> SUBSET Keys] BY <1>3, <2>3 DEF Admit, TrustTypes
    <2> QED BY <2>1, <2>4 DEF TrustTypes, Remotes
  <1>4. ASSUME UNCHANGED <<setup, identity, authorized, raced>> PROVE TrustTypes'
    BY <1>4 DEF TrustTypes, Remotes
  <1>5. ASSUME NEW d \in 1 .. MaxDials,
               \/ VerifyServer(d) \/ PinServer(d) \/ Welcome(d) \/ PostConnected(d)
               \/ PostLost(d) \/ TakeSlot(d) \/ NoticeEof(d) \/ DialFails(d) \/ LinkDrops(d)
        PROVE  TrustTypes'
    BY <1>4, <1>5 DEF VerifyServer, PinServer, Welcome, PostConnected, PostLost, TakeSlot,
                      NoticeEof, DialFails, LinkDrops, trust
  <1>6. ASSUME \/ MainTask \/ (\E r \in Remotes : Reconnect(r)) \/ UNCHANGED linkVars
        PROVE  TrustTypes'
    BY <1>4, <1>6 DEF MainTask, OnConnected, OnLost, Reconnect, linkVars, trust
  <1> QED BY <1>1, <1>2, <1>3, <1>5, <1>6 DEF LinksNext, Dial, Remote

\* What does not touch the trust files leaves the one identity, whatever dials end, begin or
\* move on past the identity.
LEMMA IdentityKept ==
  ASSUME OneIdentity, UNCHANGED <<setup, identity, authorized, raced, rejected>>,
         \A e \in DOMAIN dials' :
           \/ dials'[e].c \notin {"generate", "write", "verify", "pin", "hello"}
           \/ /\ e \in DOMAIN dials /\ dials'[e].key = dials[e].key
              /\ \/ dials'[e].c = dials[e].c
                 \/ dials[e].c \in {"verify", "pin"} /\ dials'[e].c \in {"pin", "hello"}
  PROVE  OneIdentity'
  <1> SUFFICES ASSUME raced = FALSE PROVE OneIdentity'
    BY DEF OneIdentity
  <1>1. \A d, e \in DOMAIN dials' : Making(d)' /\ Making(e)' => d = e
    BY DEF OneIdentity, Making
  <1>2. \A d \in DOMAIN dials' :
         /\ dials'[d].c = "generate" => identity = 0
         /\ dials'[d].c = "write" => identity = Empty
         /\ dials'[d].c \in {"verify", "pin", "hello"} =>
              dials'[d].key = identity /\ identity \in 1 .. MaxDials
    BY DEF OneIdentity
  <1>3. Remotes' = Remotes BY DEF Remotes
  <1> QED BY <1>1, <1>2, <1>3 DEF OneIdentity

\* Looking for the identity.
LEMMA IdentityLoaded ==
  ASSUME DialTypes, TrustTypes, OneIdentity, NEW d \in DOMAIN dials, LoadIdentity(d)
  PROVE  OneIdentity'
  <1> SUFFICES ASSUME raced' = FALSE PROVE OneIdentity'
    BY DEF OneIdentity
  <1>1. raced = FALSE /\ ~(identity = 0 /\ \E e \in DOMAIN dials \ {d} : At(e, "generate"))
    BY Zenon DEF LoadIdentity, TrustTypes
  <1>2. /\ DOMAIN dials' = DOMAIN dials
        /\ \A e \in DOMAIN dials \ {d} : dials'[e] = dials[e]
        /\ dials'[d].c = IF identity = 0 THEN "generate"
                         ELSE IF identity = Empty THEN "failed" ELSE "verify"
        /\ dials'[d].key = IF identity = Empty THEN 0 ELSE identity
    <2> DEFINE pc == IF identity = 0 THEN "generate"
                     ELSE IF identity = Empty THEN "failed" ELSE "verify"
               key == IF identity = Empty THEN 0 ELSE identity
    <2>1. dials' = [dials EXCEPT ![d].c = pc, ![d].key = key] BY DEF LoadIdentity
    <2>2. dials[d] \in DialRecord BY DEF DialTypes
    <2> HIDE DEF pc, key
    <2>3. /\ DOMAIN dials' = DOMAIN dials
          /\ \A e \in DOMAIN dials \ {d} : dials'[e] = dials[e]
          /\ dials'[d].c = pc /\ dials'[d].key = key
      BY <2>1, <2>2 DEF DialRecord
    <2> QED BY <2>3 DEF pc, key
  <1>3. UNCHANGED <<identity, authorized, rejected, Remotes>> BY DEF LoadIdentity, Remotes
  <1>4. ASSUME identity = 0, NEW e \in DOMAIN dials \ {d} PROVE ~Making(e)
    BY <1>1, <1>4, LinksAssumption DEF At, OneIdentity, Making, Empty
  <1>5. \A e, f \in DOMAIN dials' : Making(e)' /\ Making(f)' => e = f
    BY <1>1, <1>2, <1>4 DEF OneIdentity, Making
  <1>6. identity # 0 /\ identity # Empty => identity \in 1 .. MaxDials
    BY LinksAssumption DEF TrustTypes, Empty
  <1>7. \A e \in DOMAIN dials' :
         /\ dials'[e].c = "generate" => identity = 0
         /\ dials'[e].c = "write" => identity = Empty
         /\ dials'[e].c \in {"verify", "pin", "hello"} =>
              dials'[e].key = identity /\ identity \in 1 .. MaxDials
    BY <1>1, <1>2, <1>6 DEF OneIdentity
  <1> QED BY <1>1, <1>3, <1>5, <1>7 DEF OneIdentity

\* Making the identity: nobody goes by another.
LEMMA IdentityMade ==
  ASSUME DialTypes, TrustTypes, OneIdentity, NEW d \in 1 .. MaxDials,
         CreateIdentity(d) \/ WriteIdentity(d)
  PROVE  OneIdentity'
  <1> SUFFICES ASSUME raced = FALSE PROVE OneIdentity'
    BY DEF OneIdentity, CreateIdentity, WriteIdentity
  <1>1. d \in DOMAIN dials /\ Making(d)
    BY DEF CreateIdentity, WriteIdentity, At, Making
  <1>2. identity \notin 1 .. MaxDials
    BY <1>1, LinksAssumption DEF OneIdentity, Making, Empty
  <1>3. \A e \in DOMAIN dials : dials[e].c \notin {"verify", "pin", "hello"}
    BY <1>2 DEF OneIdentity
  <1>4. \A r \in Remotes : authorized[r] = {} BY <1>2 DEF OneIdentity
  <1>5. \A e \in DOMAIN dials \ {d} : ~Making(e) BY <1>1 DEF OneIdentity
  <1>6. UNCHANGED <<authorized, raced, rejected, Remotes>> /\ rejected = {}
    BY DEF CreateIdentity, WriteIdentity, Remotes, OneIdentity
  <1>7. /\ DOMAIN dials' = DOMAIN dials
        /\ \A e \in DOMAIN dials \ {d} : dials'[e] = dials[e]
        /\ \/ dials'[d].c = "write" /\ identity' = Empty
           \/ dials'[d].c = "verify" /\ dials'[d].key = d /\ identity' = d
    <2>1. CASE CreateIdentity(d)
      BY <1>1, <2>1, Moved DEF CreateIdentity, Goto
    <2>2. CASE WriteIdentity(d)
      <3>1. dials' = [dials EXCEPT ![d].c = "verify", ![d].key = d] /\ identity' = d
        BY <2>2 DEF WriteIdentity
      <3>2. dials[d] \in DialRecord BY <1>1 DEF DialTypes
      <3>3. /\ DOMAIN dials' = DOMAIN dials
            /\ \A e \in DOMAIN dials \ {d} : dials'[e] = dials[e]
            /\ dials'[d].c = "verify" /\ dials'[d].key = d
        BY <1>1, <3>1, <3>2 DEF DialRecord
      <3> QED BY <3>1, <3>3
    <2> QED BY <2>1, <2>2
  <1>8. \A e, f \in DOMAIN dials' : Making(e)' /\ Making(f)' => e = f
    BY <1>5, <1>7 DEF Making
  <1>9. \A e \in DOMAIN dials' :
         /\ dials'[e].c = "generate" => identity' = 0
         /\ dials'[e].c = "write" => identity' = Empty
         /\ dials'[e].c \in {"verify", "pin", "hello"} =>
              dials'[e].key = identity' /\ identity' \in 1 .. MaxDials
    BY <1>3, <1>5, <1>7 DEF Making
  <1> QED BY <1>4, <1>6, <1>8, <1>9 DEF OneIdentity

\* Admission: the key is the one the supervisor knows, if it knows any.
LEMMA IdentityAdmitted ==
  ASSUME DialTypes, TrustTypes, OneIdentity, NEW d \in 1 .. MaxDials, Admit(d)
  PROVE  OneIdentity'
  <1> SUFFICES ASSUME raced = FALSE PROVE OneIdentity'
    BY DEF OneIdentity, Admit
  <1> DEFINE r == dials[d].r
  <1>1. d \in DOMAIN dials /\ dials[d].c = "hello" BY DEF Admit, At
  <1>2. dials[d].key = identity /\ identity \in 1 .. MaxDials /\ r \in Remotes
    BY <1>1, DialFields DEF OneIdentity
  <1>3. authorized[r] = {} \/ identity \in authorized[r] BY <1>2 DEF OneIdentity
  <1>4. /\ authorized' = [authorized EXCEPT ![r] = @ \cup {identity}]
        /\ dials' = [dials EXCEPT ![d].s = "told"]
        /\ UNCHANGED <<setup, identity, raced, rejected>>
    BY <1>2, <1>3 DEF Admit
  <1>5. /\ DOMAIN dials' = DOMAIN dials
        /\ \A e \in DOMAIN dials : dials'[e].c = dials[e].c /\ dials'[e].key = dials[e].key
    BY <1>4 DEF DialTypes, DialRecord
  <1>6. \A q \in Remotes :
          authorized'[q] # {} => authorized'[q] = {identity} /\ identity \in 1 .. MaxDials
    BY <1>2, <1>4 DEF OneIdentity, TrustTypes
  <1>7. \A e, f \in DOMAIN dials' : Making(e)' /\ Making(f)' => e = f
    BY <1>5 DEF OneIdentity, Making
  <1>8. \A e \in DOMAIN dials' :
         /\ dials'[e].c = "generate" => identity = 0
         /\ dials'[e].c = "write" => identity = Empty
         /\ dials'[e].c \in {"verify", "pin", "hello"} =>
              dials'[e].key = identity /\ identity \in 1 .. MaxDials
    BY <1>5 DEF OneIdentity
  <1>9. Remotes' = Remotes BY <1>4 DEF Remotes
  <1> QED BY <1>4, <1>6, <1>7, <1>8, <1>9 DEF OneIdentity

\* The one identity through every step.
LEMMA OneIdentityNext ==
  DialTypes /\ TrustTypes /\ OneIdentity /\ [LinksNext]_linkVars => OneIdentity'
  <1> SUFFICES ASSUME DialTypes, TrustTypes, OneIdentity, [LinksNext]_linkVars
               PROVE  OneIdentity'
    OBVIOUS
  <1>1. ASSUME NEW d \in 1 .. MaxDials, LoadIdentity(d) PROVE OneIdentity'
    BY <1>1, IdentityLoaded DEF LoadIdentity, At
  <1>2. ASSUME NEW d \in 1 .. MaxDials, CreateIdentity(d) \/ WriteIdentity(d)
        PROVE  OneIdentity'
    BY <1>2, IdentityMade
  <1>3. ASSUME NEW d \in 1 .. MaxDials, Admit(d) PROVE OneIdentity'
    BY <1>3, IdentityAdmitted
  <1>4. ASSUME NEW d \in DOMAIN dials, NEW pc, dials' = [dials EXCEPT ![d].c = pc],
               \/ pc \notin {"generate", "write", "verify", "pin", "hello"}
               \/ dials[d].c \in {"verify", "pin"} /\ pc \in {"pin", "hello"},
               UNCHANGED <<setup, identity, authorized, raced, rejected>>
        PROVE  OneIdentity'
    BY <1>4, Moved, IdentityKept
  <1>5. ASSUME NEW d \in 1 .. MaxDials, VerifyServer(d) PROVE OneIdentity'
    <2>1. d \in DOMAIN dials /\ dials[d].c = "verify" BY <1>5 DEF VerifyServer, At
    <2>2. UNCHANGED <<setup, identity, authorized, raced, rejected>> BY <1>5 DEF VerifyServer
    <2>3. PICK pc \in {"pin", "hello", "failed"} : dials' = [dials EXCEPT ![d].c = pc]
      BY <1>5 DEF VerifyServer, Goto
    <2> QED BY <1>4, <2>1, <2>2, <2>3
  <1>6. ASSUME NEW d \in 1 .. MaxDials,
               PinServer(d) \/ Welcome(d) \/ PostLost(d) \/ DialFails(d)
        PROVE  OneIdentity'
    <2>1. UNCHANGED <<setup, identity, authorized, raced, rejected>>
      BY <1>6 DEF PinServer, Welcome, PostLost, DialFails, trust
    <2>2. CASE PinServer(d) BY <1>4, <2>1, <2>2 DEF PinServer, At, Goto
    <2>3. CASE Welcome(d) BY <1>4, <2>1, <2>3 DEF Welcome, At, Goto
    <2>4. CASE PostLost(d) BY <1>4, <2>1, <2>4 DEF PostLost, At, Goto
    <2>5. CASE DialFails(d) BY <1>4, <2>1, <2>5 DEF DialFails, InFlight, Goto
    <2> QED BY <1>6, <2>2, <2>3, <2>4, <2>5
  <1>7. ASSUME NEW d \in 1 .. MaxDials,
               PostConnected(d) \/ TakeSlot(d) \/ NoticeEof(d) \/ LinkDrops(d)
        PROVE  OneIdentity'
    <2>1. UNCHANGED <<setup, identity, authorized, raced, rejected>> /\ d \in DOMAIN dials
      BY <1>7 DEF PostConnected, TakeSlot, NoticeEof, LinkDrops, trust
    <2>2. CASE PostConnected(d)
      BY <2>1, <2>2, Reported, IdentityKept DEF PostConnected
    <2>3. CASE TakeSlot(d) BY <2>1, <2>3, SlotTaken, IdentityKept
    <2>4. CASE NoticeEof(d) \/ LinkDrops(d)
      BY <2>1, <2>4, RemoteMoved, IdentityKept DEF NoticeEof, LinkDrops
    <2> QED BY <1>7, <2>2, <2>3, <2>4
  <1>8. ASSUME MainTask \/ UNCHANGED linkVars PROVE OneIdentity'
    <2>1. UNCHANGED <<setup, identity, authorized, raced, rejected, dials>>
      BY <1>8 DEF MainTask, OnConnected, OnLost, linkVars, trust
    <2> QED BY <2>1, IdentityKept
  <1>9. ASSUME NEW r \in Remotes, Reconnect(r) PROVE OneIdentity'
    <2>1. UNCHANGED <<setup, identity, authorized, raced, rejected>> BY <1>9 DEF Reconnect, trust
    <2>2. /\ dials \in Seq(DialRecord) /\ NewDial(r) \in DialRecord
          /\ dials' = Append(dials, NewDial(r))
      BY <1>9, NewDialType DEF Reconnect, DialTypes
    <2>3. \A e \in DOMAIN dials' : \/ e \in DOMAIN dials /\ dials'[e] = dials[e]
                                   \/ dials'[e] = NewDial(r)
      BY <2>2
    <2>4. NewDial(r).c = "identity" BY DEF NewDial
    <2> QED BY <2>1, <2>3, <2>4, IdentityKept
  <1> QED BY <1>1, <1>2, <1>3, <1>5, <1>6, <1>7, <1>8, <1>9 DEF LinksNext, Dial, Remote

\* Lines are true, and the refused share a host, through every step.
LEMMA LinesNext ==
  DialTypes /\ LinesTrue /\ RefusedShare /\ [LinksNext]_linkVars => LinesTrue' /\ RefusedShare'
  <1> SUFFICES ASSUME DialTypes, LinesTrue, RefusedShare, [LinksNext]_linkVars
               PROVE  LinesTrue' /\ RefusedShare'
    OBVIOUS
  <1>0. ASSUME UNCHANGED <<setup, knownHosts, refused>> PROVE LinesTrue' /\ RefusedShare'
    BY <1>0 DEF LinesTrue, RefusedShare, Remotes, host
  <1>1. ASSUME NEW d \in 1 .. MaxDials, VerifyServer(d) PROVE LinesTrue' /\ RefusedShare'
    <2> DEFINE r == dials[d].r
    <2>1. r \in Remotes BY <1>1, DialFields DEF VerifyServer, At
    <2>2. UNCHANGED <<setup, knownHosts>> BY <1>1 DEF VerifyServer
    <2>3. CASE UNCHANGED refused BY <1>0, <2>2, <2>3
    <2>4. CASE /\ refused' = refused \cup {r}
               /\ Pinned(host[r]) # {} /\ r \notin Pinned(host[r])
      <3>1. PICK q \in Pinned(host[r]) : TRUE BY <2>4
      <3>2. q # r BY <2>4, <3>1
      <3>3. q \in Remotes /\ host[q] = host[r] BY <3>1 DEF Pinned, LinesTrue
      <3>4. RefusedShare' BY <2>2, <2>4, <3>2, <3>3 DEF RefusedShare, Remotes, host
      <3> QED BY <2>2, <3>4 DEF LinesTrue, Remotes, host
    <2> QED BY <1>1, <2>3, <2>4 DEF VerifyServer
  <1>2. ASSUME NEW d \in 1 .. MaxDials, PinServer(d) PROVE LinesTrue' /\ RefusedShare'
    <2> DEFINE r == dials[d].r
    <2>1. r \in Remotes /\ setup \in LinkSetups BY <1>2, DialFields DEF PinServer, At, DialTypes
    <2>2. host[r] \in Nat BY <2>1, LinksAssumption DEF host, Remotes
    <2>3. UNCHANGED <<setup, refused>> /\ knownHosts' = Append(knownHosts, <<host[r], r>>)
      BY <1>2 DEF PinServer
    <2>4. <<host[r], r>> \in Nat \X Remotes BY <2>1, <2>2
    <2>5. /\ knownHosts' \in Seq(Nat \X Remotes)
          /\ \A i \in DOMAIN knownHosts' : knownHosts'[i][1] = host[knownHosts'[i][2]]
      BY <2>3, <2>4 DEF LinesTrue
    <2>6. host' = host /\ Remotes' = Remotes BY <2>3 DEF host, Remotes
    <2> QED BY <2>3, <2>5, <2>6 DEF LinesTrue, RefusedShare
  <1>3. ASSUME NEW d \in 1 .. MaxDials,
               \/ LoadIdentity(d) \/ CreateIdentity(d) \/ WriteIdentity(d) \/ Welcome(d)
               \/ PostConnected(d) \/ PostLost(d) \/ Remote(d) \/ DialFails(d) \/ LinkDrops(d)
        PROVE  LinesTrue' /\ RefusedShare'
    BY <1>0, <1>3 DEF LoadIdentity, CreateIdentity, WriteIdentity, Welcome, PostConnected,
                      PostLost, Remote, Admit, TakeSlot, NoticeEof, DialFails, LinkDrops, trust
  <1>4. ASSUME MainTask \/ (\E r \in Remotes : Reconnect(r)) \/ UNCHANGED linkVars
        PROVE  LinesTrue' /\ RefusedShare'
    BY <1>0, <1>4 DEF MainTask, OnConnected, OnLost, Reconnect, linkVars, trust
  <1> QED BY <1>1, <1>2, <1>3, <1>4 DEF LinksNext, Dial

\* The invariant of the trust files holds always.
LEMMA TrustAlways == LinksSpec => []TrustInv
  <1>1. LinksInit => TrustInv
    <2> SUFFICES ASSUME LinksInit PROVE TrustInv
      OBVIOUS
    <2>1. DialTypes /\ TrustTypes BY TypesInit
    <2>2. \A d \in DOMAIN dials : dials[d].c = "identity"
      BY DEF LinksInit, NewDial
    <2>3. \A r \in Remotes : authorized[r] = {} BY DEF LinksInit
    <2>4. rejected = {} /\ knownHosts = <<>> /\ refused = {} BY DEF LinksInit
    <2>5. OneIdentity BY <2>2, <2>3, <2>4 DEF OneIdentity, Making
    <2>6. LinesTrue BY <2>4 DEF LinesTrue
    <2>7. RefusedShare BY <2>4 DEF RefusedShare
    <2> QED BY <2>1, <2>5, <2>6, <2>7 DEF TrustInv
  <1>2. TrustInv /\ [LinksNext]_linkVars => TrustInv'
    BY DialTypesNext, TrustTypesNext, OneIdentityNext, LinesNext DEF TrustInv
  <1> QED BY <1>1, <1>2, PTL DEF LinksSpec

\* TrustLasts of RemoteLinks: no supervisor that admitted this client rejects it, and none is
\* refused for a changed key, but after a race or by reason of a shared host.
THEOREM TrustIsKept == LinksSpec => []TrustLasts
  <1>1. TrustInv => TrustLasts
    <2> SUFFICES ASSUME TrustInv PROVE TrustLasts
      OBVIOUS
    <2>1. rejected # {} => raced BY Zenon DEF TrustInv, TrustTypes, OneIdentity
    <2> QED BY <2>1 DEF TrustInv, RefusedShare, TrustLasts
  <1> QED BY <1>1, TrustAlways, PTL

-----------------------------------------------------------------------------
(* The registry is true *)

\* What an action posted adds to the queue.
LEMMA Appended ==
  ASSUME NEW S, NEW q \in Seq(S), NEW m \in S, NEW p, p = Append(q, m), NEW n, n = Len(q) + 1
  PROVE  /\ p \in Seq(S) /\ DOMAIN p = DOMAIN q \cup {n} /\ p[n] = m
         /\ \A i \in DOMAIN q : p[i] = q[i] /\ i < n /\ ~(n < i)
  OBVIOUS

\* What an action taken leaves in the queue, moved up by one.
LEMMA Taken ==
  ASSUME NEW S, NEW q \in Seq(S), q # <<>>, NEW p, p = Tail(q)
  PROVE  /\ p \in Seq(S) /\ 1 \in DOMAIN q /\ Head(q) = q[1] /\ DOMAIN q \subseteq Nat
         /\ \A i \in DOMAIN q : ~(i < 1)
         /\ \A i \in DOMAIN p : i + 1 \in DOMAIN q /\ p[i] = q[i + 1]
         /\ \A i \in DOMAIN q : i = 1 \/ (i - 1 \in DOMAIN p /\ p[i - 1] = q[i])
  OBVIOUS

\* A step of a dial, or of the supervisor dialled, that the main task does not see.
Unseen ==
  /\ UNCHANGED <<setup, registry, inbox, early, overlapped>>
  /\ DOMAIN dials' = DOMAIN dials
  /\ \A e \in DOMAIN dials :
       /\ dials'[e].r = dials[e].r /\ dials'[e].posted = dials[e].posted
       /\ dials[e].c \in {"up", "lost"} => dials'[e].c = dials[e].c
       /\ dials'[e].c = "lost" => dials[e].c = "lost"
       /\ dials[e].s = "closed" => dials'[e].s = "closed"
       /\ Dead(e) => Dead(e)'

Told == NamesTrue /\ LossComes /\ OneLives /\ Separated /\ LiveListed

\* Such a step disturbs nothing.
LEMMA UnseenKeeps == ASSUME RegistryTypes, Told, Unseen PROVE RegistryTypes' /\ Told'
  <1>0. /\ UNCHANGED <<setup, registry, inbox, early, overlapped>> /\ DOMAIN dials' = DOMAIN dials
        /\ Remotes' = Remotes
    BY DEF Unseen, Remotes
  <1>1. RegistryTypes' BY <1>0 DEF RegistryTypes, Message
  <1>2. \A r : Crossed(r)' <=> Crossed(r)
    BY <1>0 DEF Unseen, Crossed, RegistryTypes
  <1>3. \A r, i : LossOf(r, i)' <=> LossOf(r, i) BY <1>0 DEF LossOf
  <1>4. \A d, i : LinkOf(d, i)' <=> LinkOf(d, i) BY <1>0 DEF LinkOf
  <1>5. \A d, r : Through(d, r)' <=> Through(d, r) BY <1>0 DEF Unseen, Through
  <1>6. NamesTrue' BY <1>0, <1>5 DEF Unseen, Told, NamesTrue
  <1>7. LossComes' BY <1>0, <1>3, <1>4 DEF Unseen, Told, LossComes
  <1>8. OneLives' BY <1>0, <1>2 DEF Unseen, Told, OneLives
  <1>9. Separated' BY <1>0, <1>2, <1>3 DEF Told, Separated
  <1>10. LiveListed' BY <1>0, <1>2, <1>3, <1>4 DEF Unseen, Told, LiveListed
  <1> QED BY <1>1, <1>6, <1>7, <1>8, <1>9, <1>10 DEF Told

\* A dial reports its connection.
LEMMA ReportKeeps ==
  ASSUME DialTypes, RegistryTypes, Told, NEW d \in 1 .. MaxDials, PostConnected(d)
  PROVE  RegistryTypes' /\ Told'
  <1> DEFINE r0 == dials[d].r
             m == [t |-> "connected", r |-> r0, d |-> d]
  <1>1. d \in DOMAIN dials /\ r0 \in Remotes /\ d \in Nat
    BY DialFields DEF PostConnected
  <1>2. dials[d].posted = FALSE /\ dials[d].c \in {"up", "lost"}
    BY <1>1, DialFields, Zenon DEF PostConnected
  <1>3. UNCHANGED <<setup, registry, overlapped, early>> /\ inbox' = Append(inbox, m)
    BY DEF PostConnected, Post, trust, marks
  <1>4. /\ DOMAIN dials' = DOMAIN dials /\ \A e \in DOMAIN dials \ {d} : dials'[e] = dials[e]
        /\ dials'[d].posted = TRUE
        /\ \A e \in DOMAIN dials :
             dials'[e].r = dials[e].r /\ dials'[e].c = dials[e].c /\ dials'[e].s = dials[e].s
    BY <1>1, Reported DEF PostConnected
  <1>5. m \in Message BY <1>1 DEF Message
  <1>6. PICK n : n = Len(inbox) + 1 OBVIOUS
  <1>7. m.t = "connected" /\ m.r = r0 /\ m.d = d OBVIOUS
  <1> HIDE DEF m
  <1>8. /\ inbox' \in Seq(Message) /\ DOMAIN inbox' = DOMAIN inbox \cup {n} /\ inbox'[n] = m
        /\ \A i \in DOMAIN inbox : inbox'[i] = inbox[i] /\ i < n /\ ~(n < i)
    BY <1>3, <1>5, <1>6, Appended DEF RegistryTypes
  <1>9. Remotes' = Remotes /\ Message' = Message BY <1>3 DEF Remotes, Message
  <1>10. RegistryTypes' BY <1>3, <1>4, <1>8, <1>9 DEF RegistryTypes
  <1>11. \A r : Crossed(r)' <=> Crossed(r) BY <1>3, <1>4 DEF Crossed, RegistryTypes
  <1>12. \A r, i : LossOf(r, i)' <=> LossOf(r, i) BY <1>7, <1>8 DEF LossOf
  <1>13. \A e, i : LinkOf(e, i)' <=> LinkOf(e, i) \/ (i = n /\ e = d)
    BY <1>7, <1>8 DEF LinkOf
  <1>14. \A e, r : Through(e, r) =>
            e # d /\ e \in DOMAIN dials' /\ dials'[e].r = r /\ dials'[e].posted = TRUE
    BY <1>2, <1>4 DEF Through
  <1>16. \A e \in DOMAIN dials : Dead(e)' <=> Dead(e) BY <1>4 DEF Dead
  <1>17. NamesTrue'
    <2>1. \A i \in DOMAIN inbox' :
            inbox'[i].t = "connected" =>
              /\ inbox'[i].d \in DOMAIN dials' /\ dials'[inbox'[i].d].r = inbox'[i].r
              /\ dials'[inbox'[i].d].posted = TRUE
      <3>1. \A i \in DOMAIN inbox :
              inbox[i].t = "connected" => Through(inbox[i].d, inbox[i].r)
        BY DEF Told, NamesTrue
      <3>2. dials'[m.d].r = m.r /\ dials'[m.d].posted = TRUE /\ m.d \in DOMAIN dials'
        BY <1>1, <1>4, <1>7
      <3> QED BY <1>8, <1>14, <3>1, <3>2
    <2>2. \A r \in Remotes : registry[r] # 0 =>
            /\ registry[r] \in DOMAIN dials' /\ dials'[registry[r]].r = r
            /\ dials'[registry[r]].posted = TRUE
      BY <1>14 DEF Told, NamesTrue
    <2>3. \A e \in DOMAIN dials :
            /\ dials'[e].posted = TRUE => dials'[e].c \in {"up", "lost"}
            /\ dials'[e].c = "lost" => dials'[e].s = "closed"
            /\ dials'[e].c = "lost" /\ dials'[e].posted = FALSE => e \in early
      BY <1>2, <1>4 DEF Told, NamesTrue
    <2> QED BY <1>3, <1>4, <1>9, <2>1, <2>2, <2>3 DEF NamesTrue, Through
  <1>18. LossComes'
    <2>1. d \notin early => dials[d].c # "lost" BY <1>1, <1>2 DEF Told, NamesTrue
    <2>2. ASSUME NEW e \in DOMAIN dials, dials[e].c = "lost", e \notin early
          PROVE  /\ registry[dials[e].r] = e => \E i \in DOMAIN inbox' : LossOf(dials[e].r, i)
                 /\ \A i \in DOMAIN inbox' : LinkOf(e, i) =>
                      \E j \in DOMAIN inbox' : i < j /\ LossOf(dials[e].r, j)
      BY <1>8, <2>2 DEF Told, LossComes, LinkOf
    <2>3. \A e \in DOMAIN dials : dials[e].c = "lost" /\ e \notin early => e # d
      BY <2>1
    <2> QED BY <1>3, <1>4, <1>12, <1>13, <2>2, <2>3 DEF LossComes
  <1>19. OneLives' BY <1>4, <1>11, <1>16 DEF Told, OneLives
  <1>20. ASSUME ~Crossed(r0), NEW e, Through(e, r0)
         PROVE  dials[e].c = "lost" /\ e \notin early
    <2>1. d \notin early /\ e \notin early BY <1>20 DEF Crossed, Through
    <2>2. ~Dead(d) BY <1>1, <1>2, <2>1 DEF Told, NamesTrue, Dead
    <2>3. Dead(e) BY <1>1, <1>14, <1>20, <2>2 DEF Told, OneLives, Through
    <2> QED BY <1>20, <2>1, <2>3 DEF Told, NamesTrue, Dead, Through
  <1>21. Separated'
    <2>1. ASSUME ~Crossed(r0), registry[r0] # 0
          PROVE  \E k \in DOMAIN inbox : LossOf(r0, k)
      <3>1. Through(registry[r0], r0) BY <1>1, <2>1 DEF Told, NamesTrue
      <3> QED BY <1>20, <2>1, <3>1 DEF Told, LossComes, Through
    <2>2. ASSUME ~Crossed(r0), NEW i \in DOMAIN inbox, inbox[i].t = "connected",
                 inbox[i].r = r0
          PROVE  \E k \in DOMAIN inbox : i < k /\ LossOf(r0, k)
      <3>1. Through(inbox[i].d, r0) BY <2>2 DEF Told, NamesTrue
      <3>2. LinkOf(inbox[i].d, i) BY <2>2 DEF LinkOf
      <3> QED BY <1>20, <2>2, <3>1, <3>2 DEF Told, LossComes, Through
    <2>3. ASSUME NEW j \in DOMAIN inbox', inbox'[j].t = "connected", ~Crossed(inbox'[j].r)
          PROVE  /\ registry[inbox'[j].r] # 0 =>
                      \E k \in DOMAIN inbox' : k < j /\ LossOf(inbox'[j].r, k)
                 /\ \A i \in DOMAIN inbox' :
                      i < j /\ inbox'[i].t = "connected" /\ inbox'[i].r = inbox'[j].r =>
                        \E k \in DOMAIN inbox' : i < k /\ k < j /\ LossOf(inbox'[j].r, k)
      <3>1. CASE j \in DOMAIN inbox
        BY <1>8, <2>3, <3>1 DEF Told, Separated
      <3>2. CASE j = n
        <4>1. inbox'[j].r = r0 BY <1>7, <1>8, <3>2
        <4>2. \A i \in DOMAIN inbox' : i < n => i \in DOMAIN inbox
          BY <1>6, <1>8 DEF RegistryTypes
        <4> QED BY <1>8, <2>1, <2>2, <2>3, <3>2, <4>1, <4>2
      <3> QED BY <1>8, <2>3, <3>1, <3>2
    <2> QED BY <1>3, <1>11, <1>12, <2>3 DEF Separated
  <1>22. LiveListed'
    <2>1. ASSUME NEW e \in DOMAIN dials \ {d}, dials[e].posted = TRUE, ~Dead(e),
                 ~Crossed(dials[e].r)
          PROVE  /\ registry[dials[e].r] = e \/ \E i \in DOMAIN inbox' : LinkOf(e, i)
                 /\ registry[dials[e].r] = e => \A i \in DOMAIN inbox' : ~LossOf(dials[e].r, i)
                 /\ \A i, j \in DOMAIN inbox' : LinkOf(e, i) /\ i < j => ~LossOf(dials[e].r, j)
      BY <1>8, <2>1 DEF Told, LiveListed, LossOf, LinkOf
    <2>2. registry[r0] # d BY <1>1, <1>14 DEF Told, NamesTrue
    <2>3. \A i : ~LinkOf(d, i) BY <1>14 DEF LinkOf, Told, NamesTrue
    <2>4. \A j : n < j => ~LossOf(r0, j) BY <1>8 DEF LossOf
    <2>5. ASSUME NEW e \in DOMAIN dials, dials'[e].posted = TRUE, ~Dead(e), ~Crossed(dials[e].r)
          PROVE  /\ registry[dials[e].r] = e \/ \E i \in DOMAIN inbox' : LinkOf(e, i)'
                 /\ registry[dials[e].r] = e => \A i \in DOMAIN inbox' : ~LossOf(dials[e].r, i)
                 /\ \A i, j \in DOMAIN inbox' :
                      LinkOf(e, i)' /\ i < j => ~LossOf(dials[e].r, j)
      <3>1. CASE e = d
        <4>1. n \in DOMAIN inbox' /\ LinkOf(d, n)' BY <1>8, <1>13
        <4> QED BY <1>13, <2>2, <2>3, <2>4, <3>1, <4>1
      <3>2. CASE e # d
        <4>1. \A i : LinkOf(e, i)' <=> LinkOf(e, i) BY <1>13, <3>2
        <4> QED BY <1>4, <2>1, <2>5, <3>2, <4>1
      <3> QED BY <3>1, <3>2
    <2> QED BY <1>3, <1>4, <1>11, <1>12, <1>16, <2>5 DEF LiveListed
  <1> QED BY <1>10, <1>17, <1>18, <1>19, <1>21, <1>22 DEF Told

\* A reader reports the loss of its link.
LEMMA LossKeeps ==
  ASSUME DialTypes, RegistryTypes, Told, NEW d \in 1 .. MaxDials, PostLost(d)
  PROVE  RegistryTypes' /\ Told'
  <1> DEFINE r0 == dials[d].r
             m == [t |-> "lost", r |-> r0, d |-> 0]
  <1>1. d \in DOMAIN dials /\ r0 \in Remotes BY DialFields DEF PostLost, At
  <1>2. dials[d].c = "up" /\ dials[d].s = "closed" BY DEF PostLost, At
  <1>3. UNCHANGED <<setup, registry, overlapped>> /\ inbox' = Append(inbox, m)
    BY DEF PostLost, Post, trust
  <1>4. /\ DOMAIN dials' = DOMAIN dials /\ \A e \in DOMAIN dials \ {d} : dials'[e] = dials[e]
        /\ dials'[d].c = "lost" /\ dials'[d].s = "closed"
        /\ \A e \in DOMAIN dials : dials'[e].r = dials[e].r /\ dials'[e].posted = dials[e].posted
    BY <1>1, <1>2, Moved DEF PostLost, Goto
  <1>5. m \in Message BY <1>1 DEF Message
  <1>6. PICK n : n = Len(inbox) + 1 OBVIOUS
  <1>7. m.t = "lost" /\ m.r = r0 OBVIOUS
  <1> HIDE DEF m
  <1>8. /\ inbox' \in Seq(Message) /\ DOMAIN inbox' = DOMAIN inbox \cup {n} /\ inbox'[n] = m
        /\ \A i \in DOMAIN inbox : inbox'[i] = inbox[i] /\ i < n /\ ~(n < i)
    BY <1>3, <1>5, <1>6, Appended DEF RegistryTypes
  <1>9. Remotes' = Remotes /\ Message' = Message BY <1>3 DEF Remotes, Message
  <1>10. /\ early \subseteq early' /\ early' \subseteq early \cup {d}
         /\ dials[d].posted = FALSE => d \in early'
    <2>1. early' = IF dials[d].posted THEN early ELSE early \cup {d} BY DEF PostLost
    <2>2. dials[d].posted \in BOOLEAN BY <1>1, DialFields
    <2> QED BY <2>1, <2>2, Zenon
  <1>11. RegistryTypes' BY <1>1, <1>3, <1>4, <1>8, <1>9, <1>10 DEF RegistryTypes
  <1>12. \A r : Crossed(r) => Crossed(r)'
    BY <1>3, <1>4, <1>10 DEF Crossed, RegistryTypes
  <1>13. \A r, i : LossOf(r, i)' <=> LossOf(r, i) \/ (i = n /\ r = r0)
    BY <1>7, <1>8 DEF LossOf
  <1>14. \A e, i : LinkOf(e, i)' <=> LinkOf(e, i) BY <1>7, <1>8 DEF LinkOf
  <1>15. \A e, r : Through(e, r) =>
            e \in DOMAIN dials' /\ dials'[e].r = r /\ dials'[e].posted = TRUE
    BY <1>4 DEF Through
  <1>16. \A e \in DOMAIN dials : Dead(e) => Dead(e)' BY <1>4 DEF Dead
  <1>17. Dead(d)' /\ ~Dead(d) BY <1>2, <1>4 DEF Dead
  <1>18. NamesTrue'
    <2>1. \A i \in DOMAIN inbox' : inbox'[i].t = "connected" =>
            /\ inbox'[i].d \in DOMAIN dials' /\ dials'[inbox'[i].d].r = inbox'[i].r
            /\ dials'[inbox'[i].d].posted = TRUE
      BY <1>7, <1>8, <1>15 DEF Told, NamesTrue
    <2>2. \A r \in Remotes : registry[r] # 0 =>
            /\ registry[r] \in DOMAIN dials' /\ dials'[registry[r]].r = r
            /\ dials'[registry[r]].posted = TRUE
      BY <1>15 DEF Told, NamesTrue
    <2>3. \A e \in DOMAIN dials :
            /\ dials'[e].posted = TRUE => dials'[e].c \in {"up", "lost"}
            /\ dials'[e].c = "lost" => dials'[e].s = "closed"
            /\ dials'[e].c = "lost" /\ dials'[e].posted = FALSE => e \in early'
      BY <1>4, <1>10 DEF Told, NamesTrue
    <2> QED BY <1>3, <1>4, <1>9, <2>1, <2>2, <2>3 DEF NamesTrue, Through
  <1>19. LossComes'
    <2>1. ASSUME NEW e \in DOMAIN dials, dials'[e].c = "lost", e \notin early'
          PROVE  /\ registry[dials[e].r] = e => \E i \in DOMAIN inbox' : LossOf(dials[e].r, i)'
                 /\ \A i \in DOMAIN inbox' : LinkOf(e, i) =>
                      \E j \in DOMAIN inbox' : i < j /\ LossOf(dials[e].r, j)'
      <3>1. CASE e = d
        <4>1. n \in DOMAIN inbox' /\ LossOf(r0, n)' BY <1>1, <1>4, <1>8, <1>13
        <4>2. \A i : LinkOf(d, i) => i < n BY <1>8 DEF LinkOf
        <4> QED BY <3>1, <4>1, <4>2
      <3>2. CASE e # d
        <4>1. dials[e].c = "lost" /\ e \notin early BY <1>4, <1>10, <2>1, <3>2
        <4>2. /\ registry[dials[e].r] = e => \E i \in DOMAIN inbox : LossOf(dials[e].r, i)
              /\ \A i \in DOMAIN inbox : LinkOf(e, i) =>
                   \E j \in DOMAIN inbox : i < j /\ LossOf(dials[e].r, j)
          BY <4>1 DEF Told, LossComes
        <4> QED BY <1>4, <1>8, <1>13, <4>2 DEF LinkOf
      <3> QED BY <3>1, <3>2
    <2> QED BY <1>3, <1>4, <1>14, <2>1 DEF LossComes
  <1>20. OneLives' BY <1>4, <1>12, <1>16 DEF Told, OneLives
  <1>21. Separated'
    <2>1. ASSUME NEW j \in DOMAIN inbox', inbox'[j].t = "connected", ~Crossed(inbox'[j].r)
          PROVE  /\ registry[inbox'[j].r] # 0 =>
                      \E k \in DOMAIN inbox' : k < j /\ LossOf(inbox'[j].r, k)
                 /\ \A i \in DOMAIN inbox' :
                      i < j /\ inbox'[i].t = "connected" /\ inbox'[i].r = inbox'[j].r =>
                        \E k \in DOMAIN inbox' : i < k /\ k < j /\ LossOf(inbox'[j].r, k)
      <3>1. j \in DOMAIN inbox /\ inbox'[j] = inbox[j] BY <1>7, <1>8, <2>1
      <3>2. \A i \in DOMAIN inbox' : i < j => i \in DOMAIN inbox /\ inbox'[i] = inbox[i]
        BY <1>8, <3>1
      <3> QED BY <1>8, <2>1, <3>1, <3>2 DEF Told, Separated
    <2> QED BY <1>3, <1>12, <1>13, <2>1 DEF Separated
  <1>22. LiveListed'
    <2>1. ASSUME NEW e \in DOMAIN dials, dials[e].posted = TRUE, ~Dead(e)', ~Crossed(dials[e].r)'
          PROVE  /\ registry[dials[e].r] = e \/ \E i \in DOMAIN inbox' : LinkOf(e, i)
                 /\ registry[dials[e].r] = e => \A i \in DOMAIN inbox' : ~LossOf(dials[e].r, i)'
                 /\ \A i, j \in DOMAIN inbox' :
                      LinkOf(e, i) /\ i < j => ~LossOf(dials[e].r, j)'
      <3>1. ~Dead(e) /\ e # d BY <1>16, <1>17, <2>1
      <3>2. ~Crossed(dials[e].r) BY <1>4, <1>12, <2>1
      <3>3. dials[e].r # r0 BY <1>1, <1>17, <3>1, <3>2 DEF Told, OneLives
      <3>4. \A i : LossOf(dials[e].r, i)' <=> LossOf(dials[e].r, i)
        BY <1>4, <1>13, <3>3
      <3>5. /\ registry[dials[e].r] = e \/ \E i \in DOMAIN inbox : LinkOf(e, i)
            /\ registry[dials[e].r] = e => \A i \in DOMAIN inbox : ~LossOf(dials[e].r, i)
            /\ \A i, j \in DOMAIN inbox : LinkOf(e, i) /\ i < j => ~LossOf(dials[e].r, j)
        BY <2>1, <3>1, <3>2 DEF Told, LiveListed
      <3> QED BY <1>8, <3>4, <3>5 DEF LossOf, LinkOf
    <2> QED BY <1>3, <1>4, <1>14, <2>1 DEF LiveListed
  <1> QED BY <1>11, <1>18, <1>19, <1>20, <1>21, <1>22 DEF Told

\* The main task takes a connection: the supervisor was not listed, if nothing crossed.
LEMMA ConnectedKeeps ==
  ASSUME DialTypes, RegistryTypes, Told, OnConnected
  PROVE  RegistryTypes' /\ Told'
  <1> DEFINE m == inbox[1]
  <1>1. UNCHANGED <<setup, dials, overlapped, early>> /\ inbox # <<>> /\ inbox' = Tail(inbox)
    BY DEF OnConnected, trust, marks
  <1>2. /\ inbox' \in Seq(Message) /\ 1 \in DOMAIN inbox /\ Head(inbox) = m
        /\ DOMAIN inbox \subseteq Nat
        /\ \A i \in DOMAIN inbox' : i + 1 \in DOMAIN inbox /\ inbox'[i] = inbox[i + 1]
        /\ \A i \in DOMAIN inbox : i = 1 \/ (i - 1 \in DOMAIN inbox' /\ inbox'[i - 1] = inbox[i])
    BY <1>1, Taken DEF RegistryTypes
  <1>3. DOMAIN inbox' \subseteq Nat BY <1>2
  <1>4. m \in Message /\ m.t = "connected" /\ Through(m.d, m.r)
    BY <1>2 DEF OnConnected, RegistryTypes, Told, NamesTrue
  <1>5. m.r \in Remotes /\ m.d \in Nat BY <1>4 DEF Message
  <1>6. registry' = [registry EXCEPT ![m.r] = IF @ # 0 THEN @ ELSE m.d]
    BY <1>2 DEF OnConnected
  <1>7. /\ registry' \in [Remotes -> Nat]
        /\ \A r \in Remotes : registry'[r] = IF r = m.r /\ registry[r] = 0 THEN m.d ELSE registry[r]
    BY <1>5, <1>6 DEF RegistryTypes
  <1>8. Remotes' = Remotes /\ Message' = Message BY <1>1 DEF Remotes, Message
  <1>9. RegistryTypes' BY <1>1, <1>2, <1>7, <1>8 DEF RegistryTypes
  <1>10. \A r : Crossed(r)' <=> Crossed(r) BY <1>1 DEF Crossed
  <1>11. \A d : Dead(d)' <=> Dead(d) BY <1>1 DEF Dead
  <1>12. /\ \A r : ~LossOf(r, 1)
         /\ \A r, i : LossOf(r, i)' => LossOf(r, i + 1)
         /\ \A r, i : LossOf(r, i) => i - 1 \in DOMAIN inbox' /\ LossOf(r, i - 1)'
    BY <1>2, <1>4 DEF LossOf
  <1>13. /\ \A d, i : LinkOf(d, i)' => LinkOf(d, i + 1)
         /\ \A d, i : LinkOf(d, i) => i = 1 \/ (i - 1 \in DOMAIN inbox' /\ LinkOf(d, i - 1)')
    BY <1>2 DEF LinkOf
  <1>14. LinkOf(m.d, 1) /\ \A d : LinkOf(d, 1) => d = m.d BY <1>2, <1>4 DEF LinkOf
  <1>15. \A d, r : Through(d, r)' <=> Through(d, r) BY <1>1 DEF Through
  <1>16. \A d : d \in DOMAIN dials /\ registry'[dials[d].r] = d /\ dials[d].r \in Remotes =>
           registry[dials[d].r] = d \/ d = m.d
    BY <1>7
  <1>17. NamesTrue'
    <2>1. \A r \in Remotes : registry'[r] # 0 =>
            /\ registry'[r] \in DOMAIN dials /\ dials[registry'[r]].r = r
            /\ dials[registry'[r]].posted = TRUE
      BY <1>4, <1>7 DEF Through, Told, NamesTrue
    <2>2. \A i \in DOMAIN inbox' : inbox'[i].t = "connected" =>
            /\ inbox'[i].d \in DOMAIN dials /\ dials[inbox'[i].d].r = inbox'[i].r
            /\ dials[inbox'[i].d].posted = TRUE
      BY <1>2 DEF Through, Told, NamesTrue
    <2> QED BY <1>1, <1>8, <2>1, <2>2 DEF Through, Told, NamesTrue
  <1>18. LossComes'
    <2>1. ASSUME NEW d \in DOMAIN dials, dials[d].c = "lost", d \notin early
          PROVE  /\ registry'[dials[d].r] = d => \E i \in DOMAIN inbox' : LossOf(dials[d].r, i)'
                 /\ \A i \in DOMAIN inbox' : LinkOf(d, i)' =>
                      \E j \in DOMAIN inbox' : i < j /\ LossOf(dials[d].r, j)'
      <3>1. /\ registry[dials[d].r] = d => \E i \in DOMAIN inbox : LossOf(dials[d].r, i)
            /\ \A i \in DOMAIN inbox :
                 LinkOf(d, i) => \E j \in DOMAIN inbox : i < j /\ LossOf(dials[d].r, j)
        BY <2>1 DEF Told, LossComes
      <3>2. dials[d].r \in Remotes BY DialFields
      <3>3. ASSUME registry'[dials[d].r] = d
            PROVE  \E i \in DOMAIN inbox : LossOf(dials[d].r, i)
        BY <1>2, <1>14, <1>16, <3>1, <3>2, <3>3
      <3>4. ASSUME NEW i \in DOMAIN inbox', LinkOf(d, i)'
            PROVE  \E j \in DOMAIN inbox' : i < j /\ LossOf(dials[d].r, j)'
        <4>1. i + 1 \in DOMAIN inbox /\ LinkOf(d, i + 1) BY <1>2, <1>13, <3>4
        <4>2. PICK j \in DOMAIN inbox : i + 1 < j /\ LossOf(dials[d].r, j) BY <3>1, <4>1
        <4>3. j - 1 \in DOMAIN inbox' /\ LossOf(dials[d].r, j - 1)' BY <1>1, <1>12, <4>2
        <4>4. i < j - 1 BY <1>2, <1>3, <4>2
        <4> QED BY <4>3, <4>4
      <3> QED BY <1>1, <1>12, <3>3, <3>4
    <2> QED BY <1>1, <2>1 DEF LossComes
  <1>19. OneLives' BY <1>1, <1>10, <1>11 DEF Told, OneLives
  <1>20. ~Crossed(m.r) => registry[m.r] = 0
    <2>1. \A k \in DOMAIN inbox : ~(k < 1) BY <1>1, Taken DEF RegistryTypes
    <2> QED BY <1>2, <1>4, <2>1 DEF Told, Separated
  <1>21. Separated'
    <2>1. ASSUME NEW j \in DOMAIN inbox', inbox'[j].t = "connected", ~Crossed(inbox'[j].r),
                 NEW r, r = inbox'[j].r
          PROVE  /\ registry'[r] # 0 => \E k \in DOMAIN inbox' : k < j /\ LossOf(r, k)'
                 /\ \A i \in DOMAIN inbox' :
                      i < j /\ inbox'[i].t = "connected" /\ inbox'[i].r = r =>
                        \E k \in DOMAIN inbox' : i < k /\ k < j /\ LossOf(r, k)'
      <3>1. j + 1 \in DOMAIN inbox /\ inbox[j + 1] = inbox'[j] /\ j \in Nat BY <1>2, <1>3
      <3>2. r \in Remotes
        <4>1. inbox'[j] \in Message BY <1>2, <2>1
        <4> QED BY <2>1, <4>1 DEF Message
      <3>3. /\ registry[r] # 0 => \E k \in DOMAIN inbox : k < j + 1 /\ LossOf(r, k)
            /\ \A i \in DOMAIN inbox :
                 i < j + 1 /\ inbox[i].t = "connected" /\ inbox[i].r = r =>
                   \E k \in DOMAIN inbox : i < k /\ k < j + 1 /\ LossOf(r, k)
        BY <2>1, <3>1 DEF Told, Separated
      <3>4. ASSUME registry'[r] # 0 PROVE \E k \in DOMAIN inbox' : k < j /\ LossOf(r, k)'
        <4>1. PICK k \in DOMAIN inbox : k < j + 1 /\ LossOf(r, k)
          <5>1. CASE registry[r] # 0 BY <3>3, <5>1
          <5>2. CASE registry[r] = 0
            <6>1. r = m.r BY <1>7, <3>2, <3>4, <5>2
            <6>2. 1 < j + 1 BY <1>2, <3>1
            <6> QED BY <1>2, <1>4, <3>3, <6>1, <6>2
          <5> QED BY <5>1, <5>2
        <4>2. k - 1 \in DOMAIN inbox' /\ LossOf(r, k - 1)' BY <1>12, <4>1
        <4>3. k - 1 < j BY <1>2, <3>1, <4>1
        <4> QED BY <4>2, <4>3
      <3>5. ASSUME NEW i \in DOMAIN inbox', i < j, inbox'[i].t = "connected", inbox'[i].r = r
            PROVE  \E k \in DOMAIN inbox' : i < k /\ k < j /\ LossOf(r, k)'
        <4>1. i + 1 \in DOMAIN inbox /\ inbox[i + 1] = inbox'[i] /\ i \in Nat BY <1>2, <1>3
        <4>2. i + 1 < j + 1 BY <3>1, <3>5, <4>1
        <4>3. PICK k \in DOMAIN inbox : i + 1 < k /\ k < j + 1 /\ LossOf(r, k)
          BY <3>3, <3>5, <4>1, <4>2
        <4>4. k - 1 \in DOMAIN inbox' /\ LossOf(r, k - 1)' BY <1>12, <4>3
        <4>5. i < k - 1 /\ k - 1 < j BY <1>2, <3>1, <4>1, <4>3
        <4> QED BY <4>4, <4>5
      <3> QED BY <3>4, <3>5
    <2> QED BY <1>10, <2>1 DEF Separated
  <1>22. LiveListed'
    <2>1. ASSUME NEW d \in DOMAIN dials, dials[d].posted = TRUE, ~Dead(d), ~Crossed(dials[d].r),
                 NEW r, r = dials[d].r
          PROVE  /\ registry'[r] = d \/ \E i \in DOMAIN inbox' : LinkOf(d, i)'
                 /\ registry'[r] = d => \A i \in DOMAIN inbox' : ~LossOf(r, i)'
                 /\ \A i, j \in DOMAIN inbox' : LinkOf(d, i)' /\ i < j => ~LossOf(r, j)'
      <3>1. r \in Remotes /\ d # 0
        <4>1. dials \in Seq(DialRecord) BY DEF DialTypes
        <4> QED BY <2>1, <4>1, DialFields
      <3>2. /\ registry[r] = d \/ \E i \in DOMAIN inbox : LinkOf(d, i)
            /\ registry[r] = d => \A i \in DOMAIN inbox : ~LossOf(r, i)
            /\ \A i, j \in DOMAIN inbox : LinkOf(d, i) /\ i < j => ~LossOf(r, j)
        BY <2>1 DEF Told, LiveListed
      <3>3. d = m.d => r = m.r BY <1>4, <2>1 DEF Through
      <3>4. d = m.d => registry'[r] = d BY <1>7, <1>20, <2>1, <3>1, <3>3
      <3>5. registry[r] = d => registry'[r] = d BY <1>7, <3>1
      <3>6. registry'[r] = d \/ \E i \in DOMAIN inbox' : LinkOf(d, i)'
        BY <1>13, <1>14, <3>2, <3>4, <3>5
      <3>7. ASSUME registry'[r] = d, NEW i \in DOMAIN inbox', LossOf(r, i)' PROVE FALSE
        <4>1. (LossOf(r, i + 1) /\ i + 1 \in DOMAIN inbox /\ 1 < i + 1) \/ i = 0
          BY <1>2, <1>3, <1>12, <3>7
        <4>2. i # 0 BY <1>9 DEF RegistryTypes
        <4>3. CASE registry[r] = d BY <3>2, <4>1, <4>2, <4>3
        <4>4. CASE d = m.d BY <1>2, <1>14, <3>2, <4>1, <4>2, <4>4
        <4> QED BY <1>16, <2>1, <3>1, <3>7, <4>3, <4>4
      <3>8. ASSUME NEW i \in DOMAIN inbox', NEW j \in DOMAIN inbox', LinkOf(d, i)', i < j,
                   LossOf(r, j)'
            PROVE  FALSE
        <4>1. /\ i + 1 \in DOMAIN inbox /\ j + 1 \in DOMAIN inbox
              /\ LinkOf(d, i + 1) /\ LossOf(r, j + 1)
          BY <1>2, <1>12, <1>13, <3>8
        <4>2. i + 1 < j + 1 BY <1>3, <3>8
        <4> QED BY <3>2, <4>1, <4>2
      <3> QED BY <3>6, <3>7, <3>8
    <2> QED BY <1>1, <1>10, <1>11, <2>1 DEF LiveListed
  <1> QED BY <1>9, <1>17, <1>18, <1>19, <1>21, <1>22 DEF Told

\* The main task takes a loss: whatever is listed goes.
LEMMA LostKeeps ==
  ASSUME DialTypes, RegistryTypes, Told, OnLost
  PROVE  RegistryTypes' /\ Told'
  <1> DEFINE m == inbox[1]
  <1>1. UNCHANGED <<setup, dials, overlapped, early>> /\ inbox # <<>> /\ inbox' = Tail(inbox)
    BY DEF OnLost, trust, marks
  <1>2. /\ inbox' \in Seq(Message) /\ 1 \in DOMAIN inbox /\ Head(inbox) = m
        /\ DOMAIN inbox \subseteq Nat
        /\ \A i \in DOMAIN inbox' : i + 1 \in DOMAIN inbox /\ inbox'[i] = inbox[i + 1]
        /\ \A i \in DOMAIN inbox : i = 1 \/ (i - 1 \in DOMAIN inbox' /\ inbox'[i - 1] = inbox[i])
    BY <1>1, Taken DEF RegistryTypes
  <1>3. DOMAIN inbox' \subseteq Nat BY <1>2
  <1>4. m \in Message /\ m.t = "lost" BY <1>2 DEF OnLost, RegistryTypes
  <1>5. m.r \in Remotes BY <1>4 DEF Message
  <1>6. /\ registry' \in [Remotes -> Nat]
        /\ \A r \in Remotes : registry'[r] = IF r = m.r THEN 0 ELSE registry[r]
    BY <1>2, <1>5 DEF OnLost, RegistryTypes
  <1>7. Remotes' = Remotes /\ Message' = Message BY <1>1 DEF Remotes, Message
  <1>8. RegistryTypes' BY <1>1, <1>2, <1>6, <1>7 DEF RegistryTypes
  <1>9. \A r : Crossed(r)' <=> Crossed(r) BY <1>1 DEF Crossed
  <1>10. \A d : Dead(d)' <=> Dead(d) BY <1>1 DEF Dead
  <1>11. /\ LossOf(m.r, 1) /\ \A r : LossOf(r, 1) => r = m.r
         /\ \A r, i : LossOf(r, i)' => LossOf(r, i + 1)
         /\ \A r, i : LossOf(r, i) => i = 1 \/ (i - 1 \in DOMAIN inbox' /\ LossOf(r, i - 1)')
    BY <1>2, <1>4 DEF LossOf
  <1>12. /\ \A d, i : LinkOf(d, i)' => LinkOf(d, i + 1)
         /\ \A d, i : LinkOf(d, i) => i - 1 \in DOMAIN inbox' /\ LinkOf(d, i - 1)'
    BY <1>2, <1>4 DEF LinkOf
  <1>13. NamesTrue'
    <2>1. \A r \in Remotes : registry'[r] # 0 =>
            /\ registry'[r] \in DOMAIN dials /\ dials[registry'[r]].r = r
            /\ dials[registry'[r]].posted = TRUE
      BY <1>6 DEF Through, Told, NamesTrue
    <2>2. \A i \in DOMAIN inbox' : inbox'[i].t = "connected" =>
            /\ inbox'[i].d \in DOMAIN dials /\ dials[inbox'[i].d].r = inbox'[i].r
            /\ dials[inbox'[i].d].posted = TRUE
      BY <1>2 DEF Through, Told, NamesTrue
    <2> QED BY <1>1, <1>7, <2>1, <2>2 DEF Through, Told, NamesTrue
  <1>14. \A d \in DOMAIN dials : dials[d].r \in Remotes /\ d # 0
    <2>1. dials \in Seq(DialRecord) BY DEF DialTypes
    <2> QED BY <2>1, DialFields
  <1>15. LossComes'
    <2>1. ASSUME NEW d \in DOMAIN dials, dials[d].c = "lost", d \notin early,
                 NEW r, r = dials[d].r
          PROVE  /\ registry'[r] = d => \E i \in DOMAIN inbox' : LossOf(r, i)'
                 /\ \A i \in DOMAIN inbox' : LinkOf(d, i)' =>
                      \E j \in DOMAIN inbox' : i < j /\ LossOf(r, j)'
      <3>1. /\ registry[r] = d => \E i \in DOMAIN inbox : LossOf(r, i)
            /\ \A i \in DOMAIN inbox :
                 LinkOf(d, i) => \E j \in DOMAIN inbox : i < j /\ LossOf(r, j)
        BY <2>1 DEF Told, LossComes
      <3>2. ASSUME registry'[r] = d PROVE \E i \in DOMAIN inbox' : LossOf(r, i)'
        <4>1. r # m.r /\ registry[r] = d BY <1>6, <1>14, <2>1, <3>2
        <4> QED BY <1>11, <3>1, <4>1
      <3>3. ASSUME NEW i \in DOMAIN inbox', LinkOf(d, i)'
            PROVE  \E j \in DOMAIN inbox' : i < j /\ LossOf(r, j)'
        <4>1. i + 1 \in DOMAIN inbox /\ LinkOf(d, i + 1) /\ i \in Nat BY <1>2, <1>3, <1>12, <3>3
        <4>2. PICK j \in DOMAIN inbox : i + 1 < j /\ LossOf(r, j) BY <3>1, <4>1
        <4>3. j # 1 /\ i < j - 1 BY <1>2, <4>1, <4>2
        <4>4. j - 1 \in DOMAIN inbox' /\ LossOf(r, j - 1)' BY <1>11, <4>2, <4>3
        <4> QED BY <4>3, <4>4
      <3> QED BY <3>2, <3>3
    <2> QED BY <1>1, <2>1 DEF LossComes
  <1>16. OneLives' BY <1>1, <1>9, <1>10 DEF Told, OneLives
  <1>17. Separated'
    <2>1. ASSUME NEW j \in DOMAIN inbox', inbox'[j].t = "connected", ~Crossed(inbox'[j].r),
                 NEW r, r = inbox'[j].r
          PROVE  /\ registry'[r] # 0 => \E k \in DOMAIN inbox' : k < j /\ LossOf(r, k)'
                 /\ \A i \in DOMAIN inbox' :
                      i < j /\ inbox'[i].t = "connected" /\ inbox'[i].r = r =>
                        \E k \in DOMAIN inbox' : i < k /\ k < j /\ LossOf(r, k)'
      <3>1. j + 1 \in DOMAIN inbox /\ inbox[j + 1] = inbox'[j] /\ j \in Nat BY <1>2, <1>3
      <3>2. r \in Remotes
        <4>1. inbox'[j] \in Message BY <1>2, <2>1
        <4> QED BY <2>1, <4>1 DEF Message
      <3>3. /\ registry[r] # 0 => \E k \in DOMAIN inbox : k < j + 1 /\ LossOf(r, k)
            /\ \A i \in DOMAIN inbox :
                 i < j + 1 /\ inbox[i].t = "connected" /\ inbox[i].r = r =>
                   \E k \in DOMAIN inbox : i < k /\ k < j + 1 /\ LossOf(r, k)
        BY <2>1, <3>1 DEF Told, Separated
      <3>4. ASSUME registry'[r] # 0 PROVE \E k \in DOMAIN inbox' : k < j /\ LossOf(r, k)'
        <4>1. r # m.r /\ registry[r] # 0 BY <1>6, <3>2, <3>4
        <4>2. PICK k \in DOMAIN inbox : k < j + 1 /\ LossOf(r, k) BY <3>3, <4>1
        <4>3. k - 1 \in DOMAIN inbox' /\ LossOf(r, k - 1)' BY <1>11, <4>1, <4>2
        <4>4. k - 1 < j BY <1>2, <3>1, <4>2
        <4> QED BY <4>3, <4>4
      <3>5. ASSUME NEW i \in DOMAIN inbox', i < j, inbox'[i].t = "connected", inbox'[i].r = r
            PROVE  \E k \in DOMAIN inbox' : i < k /\ k < j /\ LossOf(r, k)'
        <4>1. i + 1 \in DOMAIN inbox /\ inbox[i + 1] = inbox'[i] /\ i \in Nat BY <1>2, <1>3
        <4>2. i + 1 < j + 1 BY <3>1, <3>5, <4>1
        <4>3. PICK k \in DOMAIN inbox : i + 1 < k /\ k < j + 1 /\ LossOf(r, k)
          BY <3>3, <3>5, <4>1, <4>2
        <4>4. k # 1 /\ i < k - 1 /\ k - 1 < j BY <1>2, <3>1, <4>1, <4>3
        <4>5. k - 1 \in DOMAIN inbox' /\ LossOf(r, k - 1)' BY <1>11, <4>3, <4>4
        <4> QED BY <4>4, <4>5
      <3> QED BY <3>4, <3>5
    <2> QED BY <1>9, <2>1 DEF Separated
  <1>18. LiveListed'
    <2>1. ASSUME NEW d \in DOMAIN dials, dials[d].posted = TRUE, ~Dead(d), ~Crossed(dials[d].r),
                 NEW r, r = dials[d].r
          PROVE  /\ registry'[r] = d \/ \E i \in DOMAIN inbox' : LinkOf(d, i)'
                 /\ registry'[r] = d => \A i \in DOMAIN inbox' : ~LossOf(r, i)'
                 /\ \A i, j \in DOMAIN inbox' : LinkOf(d, i)' /\ i < j => ~LossOf(r, j)'
      <3>1. r \in Remotes /\ d # 0 BY <1>14, <2>1
      <3>2. /\ registry[r] = d \/ \E i \in DOMAIN inbox : LinkOf(d, i)
            /\ registry[r] = d => \A i \in DOMAIN inbox : ~LossOf(r, i)
            /\ \A i, j \in DOMAIN inbox : LinkOf(d, i) /\ i < j => ~LossOf(r, j)
        BY <2>1 DEF Told, LiveListed
      <3>3. registry[r] = d => registry'[r] = d BY <1>2, <1>6, <1>11, <3>1, <3>2
      <3>4. registry'[r] = d \/ \E i \in DOMAIN inbox' : LinkOf(d, i)' BY <1>12, <3>2, <3>3
      <3>5. ASSUME registry'[r] = d, NEW i \in DOMAIN inbox', LossOf(r, i)' PROVE FALSE
        BY <1>2, <1>6, <1>11, <3>1, <3>2, <3>5
      <3>6. ASSUME NEW i \in DOMAIN inbox', NEW j \in DOMAIN inbox', LinkOf(d, i)', i < j,
                   LossOf(r, j)'
            PROVE  FALSE
        <4>1. /\ i + 1 \in DOMAIN inbox /\ j + 1 \in DOMAIN inbox
              /\ LinkOf(d, i + 1) /\ LossOf(r, j + 1)
          BY <1>2, <1>11, <1>12, <3>6
        <4>2. i + 1 < j + 1 BY <1>3, <3>6
        <4> QED BY <3>2, <4>1, <4>2
      <3> QED BY <3>4, <3>5, <3>6
    <2> QED BY <1>1, <1>9, <1>10, <2>1 DEF LiveListed
  <1> QED BY <1>8, <1>13, <1>15, <1>16, <1>17, <1>18 DEF Told

\* Another dial, of a supervisor that is not listed: it crosses what it finds alive.
LEMMA ReconnectKeeps ==
  ASSUME DialTypes, RegistryTypes, Told, NEW r0 \in Remotes, Reconnect(r0)
  PROVE  RegistryTypes' /\ Told'
  <1>1. UNCHANGED <<setup, registry, inbox, early>> BY DEF Reconnect, trust
  <1>2. PICK n : n = Len(dials) + 1 OBVIOUS
  <1>3. /\ DOMAIN dials' = DOMAIN dials \cup {n} /\ n \notin DOMAIN dials
        /\ dials'[n] = NewDial(r0) /\ \A e \in DOMAIN dials : dials'[e] = dials[e]
    <2>1. dials' = Append(dials, NewDial(r0)) /\ dials \in Seq(DialRecord)
      BY DEF Reconnect, DialTypes
    <2>2. NewDial(r0) \in DialRecord BY NewDialType
    <2> QED BY <1>2, <2>1, <2>2
  <1>4. /\ dials'[n].r = r0 /\ dials'[n].c = "identity" /\ dials'[n].s = "none"
        /\ dials'[n].posted = FALSE
    BY <1>3 DEF NewDial
  <1>5. overlapped \subseteq overlapped' /\ (r0 \notin overlapped' =>
          \A e \in DOMAIN dials : dials[e].r = r0 => Dead(e))
    BY DEF Reconnect, Dead
  <1>6. Remotes' = Remotes /\ Message' = Message BY <1>1 DEF Remotes, Message
  <1>7. RegistryTypes' BY <1>1, <1>3, <1>6 DEF RegistryTypes
  <1>8. \A r : Crossed(r) => Crossed(r)' BY <1>1, <1>3, <1>5 DEF Crossed, RegistryTypes
  <1>9. \A r, i : LossOf(r, i)' <=> LossOf(r, i) BY <1>1 DEF LossOf
  <1>10. \A d, i : LinkOf(d, i)' <=> LinkOf(d, i) BY <1>1 DEF LinkOf
  <1>11. \A e \in DOMAIN dials : Dead(e)' <=> Dead(e) BY <1>3 DEF Dead
  <1>12. \A d, r : Through(d, r) => Through(d, r)' BY <1>3 DEF Through
  <1>13. NamesTrue' BY <1>1, <1>3, <1>4, <1>6 DEF Told, NamesTrue, Through
  <1>14. LossComes' BY <1>1, <1>3, <1>4, <1>9, <1>10 DEF Told, LossComes
  <1>15. OneLives'
    <2>1. ASSUME NEW d \in DOMAIN dials, NEW e \in DOMAIN dials, d # e,
                 dials[d].r = dials[e].r, ~Crossed(dials[d].r)
          PROVE  Dead(d) \/ Dead(e)
      BY <2>1 DEF Told, OneLives
    <2>2. ~Crossed(r0)' => \A e \in DOMAIN dials : dials[e].r = r0 => Dead(e)
      BY <1>5 DEF Crossed
    <2> QED BY <1>3, <1>4, <1>8, <1>11, <2>1, <2>2 DEF OneLives
  <1>16. Separated' BY <1>1, <1>8, <1>9 DEF Told, Separated
  <1>17. LiveListed'
    BY <1>1, <1>3, <1>4, <1>8, <1>9, <1>10, <1>11 DEF Told, LiveListed
  <1> QED BY <1>7, <1>13, <1>14, <1>15, <1>16, <1>17 DEF Told

\* What dials and supervisors do out of the main task's sight.
LEMMA UnseenSteps ==
  ASSUME DialTypes, RegistryTypes, Told, NEW d \in 1 .. MaxDials,
         \/ LoadIdentity(d) \/ CreateIdentity(d) \/ WriteIdentity(d)
         \/ VerifyServer(d) \/ PinServer(d) \/ Welcome(d) \/ Remote(d)
         \/ DialFails(d) \/ LinkDrops(d)
  PROVE  RegistryTypes' /\ Told'
  <1>0. UNCHANGED <<setup, registry, inbox, early, overlapped>> /\ d \in DOMAIN dials
    BY DEF LoadIdentity, CreateIdentity, WriteIdentity, VerifyServer, PinServer, Welcome, Remote,
           Admit, TakeSlot, NoticeEof, DialFails, LinkDrops, InFlight, At, trust, marks
  <1>1. ASSUME DOMAIN dials' = DOMAIN dials, \A e \in DOMAIN dials \ {d} : dials'[e] = dials[e],
               dials'[d].r = dials[d].r, dials'[d].posted = dials[d].posted,
               \/ dials'[d].s = dials[d].s /\ dials[d].c \notin {"up", "lost", "failed"}
                  /\ dials'[d].c # "lost"
               \/ dials'[d].c = dials[d].c /\ dials[d].s # "closed" /\ ~Dead(d)
        PROVE  RegistryTypes' /\ Told'
    <2>1. Dead(d) => Dead(d)' BY <1>1 DEF Dead
    <2>2. \A e \in DOMAIN dials \ {d} : Dead(e) => Dead(e)' BY <1>1 DEF Dead
    <2>3. /\ dials[d].c \in {"up", "lost"} => dials'[d].c = dials[d].c
          /\ dials'[d].c = "lost" => dials[d].c = "lost"
          /\ dials[d].s = "closed" => dials'[d].s = "closed"
      BY <1>1
    <2>4. Unseen BY <1>0, <1>1, <2>1, <2>2, <2>3 DEF Unseen
    <2> QED BY <2>4, UnseenKeeps
  <1>2. ASSUME NEW v, v # "lost", dials' = [dials EXCEPT ![d].c = v],
               dials[d].c \notin {"up", "lost", "failed"}
        PROVE  RegistryTypes' /\ Told'
    BY <1>0, <1>1, <1>2, Moved
  <1>3. ASSUME NEW v, dials' = [dials EXCEPT ![d].s = v], dials[d].s # "closed", ~Dead(d)
        PROVE  RegistryTypes' /\ Told'
    BY <1>0, <1>1, <1>3, RemoteMoved
  <1>4. CASE LoadIdentity(d) \/ WriteIdentity(d)
    <2>1. dials[d] \in DialRecord BY <1>0 DEF DialTypes
    <2>2. dials[d].c \in {"identity", "write"} BY <1>4 DEF LoadIdentity, WriteIdentity, At
    <2>3. /\ DOMAIN dials' = DOMAIN dials /\ \A e \in DOMAIN dials \ {d} : dials'[e] = dials[e]
          /\ dials'[d].r = dials[d].r /\ dials'[d].s = dials[d].s
          /\ dials'[d].posted = dials[d].posted /\ dials'[d].c # "lost"
      <3>1. CASE LoadIdentity(d) BY <1>0, <2>1, <3>1 DEF LoadIdentity, DialRecord
      <3>2. CASE WriteIdentity(d) BY <1>0, <2>1, <3>2 DEF WriteIdentity, DialRecord
      <3> QED BY <1>4, <3>1, <3>2
    <2> QED BY <1>1, <2>2, <2>3
  <1>5. CASE CreateIdentity(d) BY <1>2, <1>5 DEF CreateIdentity, At, Goto
  <1>6. CASE VerifyServer(d)
    <2>1. PICK v \in {"pin", "hello", "failed"} : dials' = [dials EXCEPT ![d].c = v]
      BY <1>6 DEF VerifyServer, Goto
    <2> QED BY <1>2, <1>6, <2>1 DEF VerifyServer, At
  <1>7. CASE PinServer(d) \/ Welcome(d)
    BY <1>2, <1>7 DEF PinServer, Welcome, At, Goto
  <1>8. CASE Admit(d)
    <2>1. dials[d].c = "hello" /\ dials[d].s = "none" BY <1>8 DEF Admit, At
    <2>2. ~Dead(d) BY <2>1 DEF Dead
    <2> QED BY <1>2, <1>3, <1>8, <2>1, <2>2 DEF Admit, Goto
  <1>9. CASE TakeSlot(d)
    <2>1. dials[d].s = "told" BY <1>9 DEF TakeSlot
    <2>2. ~Dead(d) BY <2>1 DEF Dead
    <2>3. \A e \in DOMAIN dials : Dead(e) => Dead(e)'
      BY <1>0, <1>9, <2>2, SlotTaken DEF Dead
    <2>4. \A e \in DOMAIN dials : dials[e].s = "closed" => dials'[e].s = "closed"
      BY <1>0, <1>9, <2>1, SlotTaken
    <2>5. Unseen BY <1>0, <1>9, <2>3, <2>4, SlotTaken DEF Unseen
    <2> QED BY <2>5, UnseenKeeps
  <1>10. CASE NoticeEof(d) \/ LinkDrops(d)
    <2>1. dials[d].s = "slot" BY <1>10 DEF NoticeEof, LinkDrops
    <2>2. ~Dead(d) BY <2>1 DEF Dead
    <2> QED BY <1>3, <1>10, <2>1, <2>2 DEF NoticeEof, LinkDrops
  <1>11. CASE DialFails(d) BY <1>2, <1>11 DEF DialFails, InFlight, Goto
  <1> QED BY <1>4, <1>5, <1>6, <1>7, <1>8, <1>9, <1>10, <1>11 DEF Remote

\* The invariant of the registry holds always.
LEMMA RegistryAlways == LinksSpec => []RegistryInv
  <1>1. LinksInit => RegistryInv
    <2> SUFFICES ASSUME LinksInit PROVE RegistryInv
      OBVIOUS
    <2>1. DialTypes /\ TrustTypes /\ RegistryTypes BY TypesInit
    <2>2. /\ DOMAIN dials = Remotes
          /\ \A d \in DOMAIN dials : /\ dials[d].r = d /\ dials[d].c = "identity"
                                     /\ dials[d].posted = FALSE
      BY DEF LinksInit, NewDial
    <2>3. inbox = <<>> /\ \A r \in Remotes : registry[r] = 0 BY DEF LinksInit
    <2>4. NamesTrue BY <2>2, <2>3 DEF NamesTrue
    <2>5. LossComes BY <2>2 DEF LossComes
    <2>6. OneLives BY <2>2 DEF OneLives
    <2>7. Separated BY <2>3 DEF Separated
    <2>8. LiveListed BY <2>2 DEF LiveListed
    <2> QED BY <2>1, <2>4, <2>5, <2>6, <2>7, <2>8 DEF RegistryInv
  <1>2. TrustTypes /\ RegistryInv /\ [LinksNext]_linkVars => RegistryInv'
    <2> SUFFICES ASSUME TrustTypes, RegistryInv, [LinksNext]_linkVars PROVE RegistryInv'
      OBVIOUS
    <2>1. DialTypes /\ RegistryTypes /\ Told BY DEF RegistryInv, Told
    <2>2. DialTypes' BY <2>1, DialTypesNext
    <2>3. ASSUME UNCHANGED linkVars PROVE RegistryTypes' /\ Told'
      <3>1. Unseen BY <2>3 DEF Unseen, linkVars, Dead
      <3> QED BY <2>1, <3>1, UnseenKeeps
    <2>4. RegistryTypes' /\ Told'
      BY <2>1, <2>3, ReportKeeps, LossKeeps, ConnectedKeeps, LostKeeps, ReconnectKeeps, UnseenSteps
         DEF LinksNext, Dial, MainTask
    <2> QED BY <2>2, <2>4 DEF RegistryInv, Told
  <1>3. TrustInv => TrustTypes BY DEF TrustInv
  <1> QED BY <1>1, <1>2, <1>3, TrustAlways, PTL DEF LinksSpec

\* RegistryIsTrue of RemoteLinks: no lost link stays listed unless its loss overtook its
\* connection, and no living link is taken down or dropped unless a second dial crossed it.
THEOREM RegistryTellsTheTruth == LinksSpec => []RegistryIsTrue
  <1>1. RegistryInv => RegistryIsTrue
    <2> SUFFICES ASSUME RegistryInv PROVE RegistryIsTrue
      OBVIOUS
    <2>1. ASSUME NEW r \in Remotes, NEW d, d = registry[r], d # 0, dials[d].s = "closed"
          PROVE  \/ dials[d].c = "up"
                 \/ \E i \in DOMAIN inbox : inbox[i].t = "lost" /\ inbox[i].r = r
                 \/ d \in early
      <3>1. Through(d, r) BY <2>1 DEF RegistryInv, NamesTrue
      <3>2. dials[d].c \in {"up", "lost"} BY <3>1 DEF RegistryInv, NamesTrue, Through
      <3> QED BY <2>1, <3>1, <3>2 DEF RegistryInv, LossComes, Through, LossOf
    <2>2. ASSUME NEW d \in DOMAIN dials, NEW r, r = dials[d].r, dials[d].c = "up",
                 dials[d].posted = TRUE, ~Crossed(r), \A i \in DOMAIN inbox : inbox[i].r # r
          PROVE  registry[r] = d
      <3>1. ~Dead(d) BY <2>2 DEF Dead
      <3>2. \A i : ~LinkOf(d, i)
        BY <2>2 DEF LinkOf, RegistryInv, NamesTrue, Through
      <3> QED BY <2>2, <3>1, <3>2 DEF RegistryInv, LiveListed
    <2>3. \A d \in DOMAIN dials : dials[d].posted \in BOOLEAN
      BY DialFields DEF RegistryInv
    <2> QED BY <2>1, <2>2, <2>3 DEF RegistryIsTrue
  <1> QED BY <1>1, RegistryAlways, PTL

=============================================================================

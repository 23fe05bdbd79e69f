------------------------------ MODULE MCClient ------------------------------
(***************************************************************************)
(* Six parts of the client that share no state, in one run: a behaviour     *)
(* exercises one of them, and the run visits the union of their states.     *)
(***************************************************************************)
EXTENDS RemoteLinks, Updates, ConfigStore, Interface, ProjectPopups, KeyboardModes

VARIABLE part    \* the part that moves

clientVars == <<part, linkVars, updVars, cfgVars, ifcVars, popupVars, kbdVars>>

\* One remote; two on one host, at different ports; two hosts; none.
MCLinkSetups ==
  {[hosts |-> h, dials |-> 2] : h \in {<<1>>, <<1, 1>>, <<1, 2>>}} \cup {[hosts |-> <<>>, dials |-> 0]}

\* The second is too long with a suffix.
MCNameLength == [name \in {1, 2} |-> IF name = 1 THEN 10 ELSE 63]

\* None; or a chord that begins like another, a reserved key, a key that hides chords.
MCOverlays ==
  {{}, {<<"PasteClipboard", <<"C-\\", "C-v">>>>, <<"LeaveTerminal", <<"Esc">>>>,
        <<"NextTab", <<"g">>>>}}

ClientInit ==
  /\ part \in {"links", "update", "config", "keys", "popups", "modes"}
  /\ LinksInit /\ (part = "links" <=> setup.hosts # <<>>)
  /\ UpdInit /\ CfgInit /\ PopupsInit /\ KbdInit
  /\ IfcInit /\ (part = "keys" \/ (~ui.hidden /\ overlay = {}))

ClientNext ==
  /\ UNCHANGED part
  /\ \/ part = "links" /\ LinksNext /\ UNCHANGED <<updVars, cfgVars, ifcVars, popupVars, kbdVars>>
     \/ part = "update" /\ UpdNext /\ UNCHANGED <<linkVars, cfgVars, ifcVars, popupVars, kbdVars>>
     \/ part = "config" /\ CfgNext /\ UNCHANGED <<linkVars, updVars, ifcVars, popupVars, kbdVars>>
     \/ part = "keys" /\ IfcNext /\ UNCHANGED <<linkVars, updVars, cfgVars, popupVars, kbdVars>>
     \/ part = "popups" /\ PopupsNext /\ UNCHANGED <<linkVars, updVars, cfgVars, ifcVars, kbdVars>>
     \/ part = "modes" /\ KbdNext /\ UNCHANGED <<linkVars, updVars, cfgVars, ifcVars, popupVars>>

ClientSpec == ClientInit /\ [][ClientNext]_clientVars /\ LinksFairness
=============================================================================

------------------------------ MODULE Interface ------------------------------
(***************************************************************************)
(* What the client does with the user's keys and mouse: modes, modal        *)
(* popups, pending chords, and the sessions that typed keys are sent to     *)
(* (reducer.rs, handle_key and what it calls, handle_mouse, handle_paste;   *)
(* keybinds.rs), while tabs appear and vanish.                              *)
(*                                                                         *)
(* One key stands for all those that are handled alike: "a" is one that no  *)
(* binding and no popup knows.  There are two worktrees, of two projects on *)
(* two supervisors.  What the popups hold and do is in ProjectPopups,       *)
(* Workspace and Supervisor; here they take keys, and close.                *)
(***************************************************************************)
EXTENDS Naturals, FiniteSets, Sequences, SequencesExt

CONSTANTS
  Overlays,    \* the users' keybindings: sets of <<action, keys>>
  MaxShells,   \* bound on the sessions opened
  MaxTyped,    \* bound on the keys typed in Terminal mode
  MaxEvents    \* bound on the mouse and background events

VARIABLES
  ui,          \* [mode, open: popups, chord, held: pending_terminal_keys, at: ui_focus,
               \* hidden: sidebar_hidden, completing: command_completion is shown]
  overlay,     \* the user's keybindings
  tabs, tab,   \* of each worktree: its sessions, the position shown or 0
  worktree,    \* the active worktree, or 0
  shells,      \* sessions opened
  sent,        \* keys typed in Terminal mode that the last step was done with: [n, for, to]
  done,        \* the number of keys done with so far
  typed,       \* keys typed in Terminal mode
  events,      \* counter
  strayed      \* mode or focus changed, or text was pasted, within the pending chord

uiTabs == <<tabs, tab, worktree, shells>>
uiTyping == <<sent, done, typed>>
ifcVars == <<ui, overlay, events, strayed, uiTabs, uiTyping>>

Keys == {"Esc", "CR", "C-s", "Tab", "C-\\", "C-n", "C-v", "C-p", "Space", "g", "t", "i", ":", "h",
         "l", "x", "s", "o", "e", "u", "w", "W", "P", "?", "q", "y", "a"}

---------------------------------------------------------------------------
(* keybinds.rs                                                             *)

Bind(scope, keys, action) == [scope |-> scope, keys |-> keys, action |-> action]

\* defaults(), of those that act alike one.
Defaults ==
  {Bind("Normal", <<"h">>, "FocusSidebar"), Bind("Normal", <<"l">>, "FocusTerminal"),
   Bind("Normal", <<"CR">>, "ActivateSelection"),
   Bind("Normal", <<"x">>, "CloseTab"), Bind("Normal", <<"i">>, "EnterTerminalMode"),
   Bind("Normal", <<":">>, "EnterCommandMode"), Bind("Normal", <<"C-p">>, "CommandPalette"),
   Bind("Normal", <<"g", "t">>, "NextTab"), Bind("Normal", <<"Space", "s">>, "ToggleSidebar"),
   Bind("Normal", <<"Space", "o">>, "OpenProjectPopup"),
   Bind("Normal", <<"Space", "e">>, "EditProject"),
   Bind("Normal", <<"Space", "l">>, "LaunchPicker"), Bind("Normal", <<"Space", "u">>, "UsagePopup"),
   Bind("Normal", <<"Space", "w">>, "NewWorktree"), Bind("Normal", <<"Space", "P">>, "RemoveProject"),
   Bind("Normal", <<"Space", "W">>, "RemoveWorktree"), Bind("Normal", <<"Space", "?">>, "HelpPopup"),
   Bind("Terminal", <<"C-\\", "C-n">>, "LeaveTerminal"),
   Bind("Terminal", <<"C-v">>, "PasteClipboard")}

\* BindableAction::scope
ScopeOf(action) == IF action \in {"LeaveTerminal", "PasteClipboard"} THEN "Terminal" ELSE "Normal"

\* is_reserved: these alone, not as part of a chord.
IsReserved(keys) == keys \in {<<"Esc">>, <<"C-q">>}

\* load_overlay: a user's binding replaces the default of its action only, and
\* comes after all defaults.
LoadOverlay(user) ==
  LET valid == {u \in user : ~IsReserved(u[2])}
  IN [defaults |-> {b \in Defaults : \A u \in valid : u[1] # b.action},
      user |-> {Bind(ScopeOf(u[1]), u[2], u[1]) : u \in valid}]

KeyMaps == [user \in Overlays |-> LoadOverlay(user)]
keymap == KeyMaps[overlay]

\* KeyMap::lookup: the first exact match comes before a longer one.
Exact(scope, keys) ==
  LET matches(table) == {b.action : b \in {c \in table : c.keys = keys /\ c.scope = scope}}
      default == matches(keymap.defaults)
  IN IF default # {} THEN default ELSE matches(keymap.user)
IsChordPrefix(scope, keys) ==
  \E b \in keymap.defaults \cup keymap.user : b.scope = scope /\ IsStrictPrefix(keys, b.keys)

---------------------------------------------------------------------------
\* focused_session_id
Focused == IF worktree = 0 \/ tab[worktree] = 0 THEN 0 ELSE tabs[worktree][tab[worktree]]

NotTyped == sent' = <<>> /\ UNCHANGED <<done, typed>>

\* At startup the focus is on the sidebar, hidden or not.
IfcInit ==
  /\ \E hidden \in BOOLEAN :
       ui = [mode |-> "Normal", open |-> {}, chord |-> <<>>, held |-> <<>>, at |-> "Sidebar",
             hidden |-> hidden, completing |-> FALSE]
  /\ overlay \in Overlays
  /\ tabs = [w \in {1, 2} |-> <<>>] /\ tab = [w \in {1, 2} |-> 0]
  /\ worktree = 0 /\ shells = 0
  /\ sent = <<>> /\ done = 0 /\ typed = 0 /\ events = 0
  /\ strayed = FALSE

\* close_current_tab, remove_session_from_worktrees: the position shown stays,
\* unless it is past the end.
WithoutTabAt(w, i) ==
  /\ tabs' = [tabs EXCEPT ![w] = RemoveAt(@, i)]
  /\ tab' = [tab EXCEPT ![w] = IF @ = Len(tabs[w]) THEN @ - 1 ELSE @]

\* activate_worktree; without a session there is no Terminal mode.
ActivateWorktree(u, w) ==
  /\ worktree' = w
  /\ tab' = [tab EXCEPT ![w] = IF @ = 0 /\ tabs[w] # <<>> THEN 1 ELSE @]
  /\ ui' = IF tabs[w] = <<>> /\ u.mode = "Terminal" THEN [u EXCEPT !.mode = "Normal"] ELSE u
  /\ UNCHANGED <<tabs, shells>>

\* set_sidebar_hidden
Toggled(u) ==
  [u EXCEPT !.hidden = ~@, !.at = IF ~u.hidden THEN "Terminal" ELSE @]

\* The popups that actions open, some on a project or on the active worktree.
Opens == [CommandPalette |-> "palette", UsagePopup |-> "usage", EditProject |-> "edit",
          OpenProjectPopup |-> "open", LaunchPicker |-> "launch", HelpPopup |-> "help",
          NewWorktree |-> "input", RemoveProject |-> "remove", RemoveWorktree |-> "confirm"]
NeedSelection == {"EditProject", "NewWorktree", "RemoveProject", "RemoveWorktree"}

Only(u) == ui' = u /\ UNCHANGED uiTabs

\* dispatch_action, and the commands that do the same; "none" stands for the
\* actions that touch nothing of this module, or are refused.
Dispatch(u, action) ==
  \/ /\ action \in DOMAIN Opens
     /\ action = "LaunchPicker" => worktree # 0
     /\ Only([u EXCEPT !.open = @ \cup {Opens[action]}])
  \/ /\ action \in NeedSelection \cup {"LaunchPicker", "PasteClipboard", "none"}
     /\ Only(u)
  \/ /\ action = "FocusSidebar"
     /\ Only([u EXCEPT !.hidden = FALSE, !.at = "Sidebar"])
  \/ /\ action = "FocusTerminal"
     /\ Only([u EXCEPT !.at = "Terminal"])
  \/ /\ action = "EnterTerminalMode"
     /\ Only([u EXCEPT !.mode = "Terminal"])
  \/ /\ action = "LeaveTerminal"
     /\ Only([u EXCEPT !.mode = "Normal"])
  \/ /\ action = "EnterCommandMode"
     /\ Only([u EXCEPT !.mode = "Command", !.completing = TRUE, !.open = @ \ {"help"}])
  \/ /\ action = "ToggleSidebar"
     /\ Only(Toggled(u))
  \/ /\ action = "ActivateSelection"
     /\ \/ Only(u)
        \/ u.at = "Sidebar" /\ \E w \in {1, 2} : ActivateWorktree(u, w)
  \/ /\ action \in {"CloseTab", "NextTab"}
     /\ ui' = u
     /\ IF Focused = 0 THEN UNCHANGED <<tabs, tab>>
        ELSE IF action = "CloseTab" THEN WithoutTabAt(worktree, tab[worktree])
        ELSE /\ tab' = [tab EXCEPT ![worktree] = (@ % Len(tabs[worktree])) + 1]
             /\ UNCHANGED tabs
     /\ UNCHANGED <<worktree, shells>>

---------------------------------------------------------------------------
(* Keys while a popup is open.                                             *)

Close(popup) == [ui EXCEPT !.open = @ \ {popup}]

PaletteKey(k) ==
  \/ k = "Esc" /\ Only(Close("palette"))
  \/ /\ k = "CR"
     /\ \/ \E action \in ({b.action : b \in Defaults} \cup {"none"})
                           \ {"LeaveTerminal", "PasteClipboard", "CommandPalette"} :
             Dispatch(Close("palette"), action)
        \/ Only([Close("palette") EXCEPT !.mode = "Command", !.completing = FALSE])

\* The other popups close, whatever else the key does.
ClosingKeys ==
  [remove |-> {"Esc", "CR"}, usage |-> {"Esc", "q"}, edit |-> {"Esc", "C-s"},
   open |-> {"Esc", "C-s", "CR"}, launch |-> {"Esc", "CR"}, input |-> {"Esc", "CR"},
   confirm |-> {"Esc", "y"}]
PromptKey(popup, k) == k \in ClosingKeys[popup] /\ Only(Close(popup))

---------------------------------------------------------------------------
(* Keys of the modes; u is the state of the interface without a help popup. *)

\* handle_normal_key: Esc, or a key that no binding goes on with, clears.
NormalKey(u, k) ==
  LET keys == Append(u.chord, k)
      found == IF k = "Esc" THEN {} ELSE Exact("Normal", keys)
      cleared == [u EXCEPT !.chord = <<>>]
  IN IF found # {}
     THEN \E action \in found : Dispatch(cleared, action)
     ELSE Only(IF k # "Esc" /\ IsChordPrefix("Normal", keys) THEN [u EXCEPT !.chord = keys]
               ELSE cleared)

\* Keys are done with: sent to a session, or to none.
Finish(keys, to) ==
  /\ sent' = [i \in DOMAIN keys |-> [n |-> keys[i][1], for |-> keys[i][2], to |-> to]]
  /\ done' = done + Len(keys)

\* (Faulty.)  The buffered keys are sent but not forgotten.
ReplayKeeps(u, keys) ==
  /\ Finish(keys, Focused)
  /\ Only([u EXCEPT !.chord = <<>>, !.held = keys])

\* A rejected chord is replayed to the session that has the focus now, or
\* dropped.
Replay(u, keys) ==
  /\ Finish(keys, Focused)
  /\ Only([u EXCEPT !.chord = <<>>, !.held = <<>>])

\* handle_terminal_key; a paste binding writes to the session itself.
TerminalKey(u, k) ==
  LET keys == Append(u.chord, k)
      held == Append(u.held, <<typed + 1, Focused>>)
      found == Exact("Terminal", keys)
  IN /\ typed < MaxTyped
     /\ typed' = typed + 1
     /\ IF found # {}
        THEN \E action \in found :
               /\ Finish(held, IF action = "PasteClipboard" THEN Focused ELSE 0)
               /\ Dispatch([u EXCEPT !.chord = <<>>, !.held = <<>>], action)
        ELSE IF IsChordPrefix("Terminal", keys)
        THEN Only([u EXCEPT !.chord = keys, !.held = held]) /\ sent' = <<>> /\ UNCHANGED done
        ELSE Replay(u, held)

\* A suggestion that is highlighted is taken first; commands open what keys open.
CommandKey(u, k) ==
  LET left == [u EXCEPT !.mode = "Normal", !.completing = FALSE]
  IN \/ k = "a" /\ \E shown \in BOOLEAN : Only([u EXCEPT !.completing = shown])
     \/ k = "CR" /\ u.completing /\ Only(u)
     \/ k = "CR" /\ \E action \in DOMAIN Opens \cup {"CloseTab", "none"} : Dispatch(left, action)
     \/ k = "Esc" /\ Only(IF u.completing THEN [u EXCEPT !.completing = FALSE] ELSE left)

\* The rest of handle_key, with no modal popup in the way.
PastHelp(u, k) ==
  LET confirming == "confirm" \in u.open /\ u.mode = "Normal"
  IN \/ "input" \in u.open /\ PromptKey("input", k) /\ NotTyped
     \/ "input" \notin u.open /\ confirming /\ PromptKey("confirm", k) /\ NotTyped
     \/ /\ "input" \notin u.open /\ ~confirming
        /\ \/ u.mode = "Normal" /\ NormalKey(u, k) /\ NotTyped
           \/ u.mode = "Terminal" /\ TerminalKey(u, k)
           \/ u.mode = "Command" /\ CommandKey(u, k) /\ NotTyped

\* : and i close the help and go on to the mode.
HelpKey(k) ==
  \/ k \in {"Esc", "q"} /\ Only(Close("help")) /\ NotTyped
  \/ k \in {":", "i"} /\ PastHelp(Close("help"), k)

\* handle_key: the popup that takes the key, of those that are open.
Modal == <<"remove", "palette", "usage", "edit", "open", "launch", "help">>
Takes(popup) ==
  \E i \in DOMAIN Modal : Modal[i] = popup /\ popup \in ui.open
                          /\ \A j \in 1 .. i - 1 : Modal[j] \notin ui.open

Pending == ui.chord # <<>> \/ ui.held # <<>>

Key(k) ==
  /\ \/ \E popup \in {"remove", "usage", "edit", "open", "launch"} :
          Takes(popup) /\ PromptKey(popup, k) /\ NotTyped
     \/ Takes("palette") /\ PaletteKey(k) /\ NotTyped
     \/ Takes("help") /\ HelpKey(k)
     \/ (\A popup \in ToSet(Modal) : popup \notin ui.open) /\ PastHelp(ui, k)
  /\ strayed' = (strayed /\ Pending)
  /\ UNCHANGED <<overlay, events>>

---------------------------------------------------------------------------
(* The mouse, pastes, and what supervisors report.                          *)

Event ==
  /\ events < MaxEvents
  /\ events' = events + 1
  /\ UNCHANGED overlay

\* A chord that is pending while its mode or its session changes.
MayStray ==
  strayed' = (Pending /\ (strayed \/ ui'.mode # ui.mode \/ Focused' # Focused))

ClickClosesPopup ==
  /\ "remove" \notin ui.open
  /\ \/ "help" \in ui.open /\ Only(Close("help"))
     \/ "help" \notin ui.open /\ "input" \in ui.open /\ Only(Close("input"))

ClickReaches == ui.open \cap {"remove", "help", "input"} = {}

\* handle_sidebar_mouse: a title, a project, or a worktree.
ClickSidebar ==
  /\ ClickReaches /\ ~ui.hidden
  /\ \/ Only([ui EXCEPT !.at = "Sidebar"])
     \/ \E w \in {1, 2} : ActivateWorktree([ui EXCEPT !.at = "Sidebar"], w)

\* handle_tab_bar_mouse
ClickTab ==
  /\ ClickReaches /\ worktree # 0
  /\ \E i \in DOMAIN tabs[worktree] : tab' = [tab EXCEPT ![worktree] = i]
  /\ ui' = [ui EXCEPT !.at = "Terminal"]
  /\ UNCHANGED <<tabs, worktree, shells>>

\* handle_terminal_mouse, which no other popup keeps from changing the mode.
ClickTerminal ==
  /\ ClickReaches
  /\ Only([ui EXCEPT !.at = "Terminal",
                     !.mode = IF Focused # 0 /\ @ = "Normal" THEN "Terminal" ELSE @])

Mouse ==
  /\ Event
  /\ ClickClosesPopup \/ ClickSidebar \/ ClickTab \/ ClickTerminal
  /\ MayStray
  /\ NotTyped

\* handle_paste in Terminal mode: past the keys that are held.
Paste ==
  /\ Event /\ typed < MaxTyped
  /\ ui.mode = "Terminal" /\ Focused # 0
  /\ typed' = typed + 1
  /\ sent' = <<[n |-> typed + 1, for |-> Focused, to |-> Focused]>>
  /\ done' = done + 1
  /\ strayed' = Pending
  /\ UNCHANGED <<ui, uiTabs>>

SessionSpawned ==
  /\ Event /\ shells < MaxShells
  /\ shells' = shells + 1
  /\ \E w \in {1, 2} :
       /\ tabs' = [tabs EXCEPT ![w] = Append(@, shells + 1)]
       /\ tab' = [tab EXCEPT ![w] = Len(tabs[w]) + 1]
  /\ UNCHANGED <<ui, worktree>>
  /\ NotTyped
  /\ MayStray

SessionExited ==
  /\ Event
  /\ \E w \in {1, 2} : \E i \in DOMAIN tabs[w] : WithoutTabAt(w, i)
  /\ UNCHANGED <<ui, worktree, shells>>
  /\ NotTyped
  /\ MayStray

\* SupervisorLost of a remote, and ProjectRemoved: the mode stays.
WorktreeGone ==
  /\ Event
  /\ \E w \in {1, 2} :
       /\ worktree' = IF worktree = w THEN 0 ELSE worktree
       /\ tabs' = [tabs EXCEPT ![w] = <<>>]
       /\ tab' = [tab EXCEPT ![w] = 0]
  /\ UNCHANGED <<ui, shells>>
  /\ NotTyped
  /\ MayStray

IfcNext ==
  \/ \E k \in Keys : Key(k)
  \/ Mouse \/ Paste
  \/ SessionSpawned \/ SessionExited \/ WorktreeGone

IfcSpec == IfcInit /\ [][IfcNext]_ifcVars

---------------------------------------------------------------------------
\* What is typed in Terminal mode reaches the session it was typed in, once
\* and in order, but for the keys a binding consumed; a key is held back only
\* while a Terminal chord is pending.  Unless the mouse, a session's end or a
\* project's removal changed mode or focus within a chord, or text was pasted
\* there: the chord and the held keys survive that (handle_terminal_key,
\* handle_paste).
TypedKeysArrive ==
  strayed \/
    /\ \A i \in DOMAIN sent :
         /\ sent[i].to \in {0, sent[i].for}
         /\ sent[i].n = done - Len(sent) + i
    /\ done + Len(ui.held) = typed
    /\ \A i \in DOMAIN ui.held : ui.held[i] = <<done + i, Focused>>
    /\ Len(ui.held) = IF ui.mode = "Terminal" THEN Len(ui.chord) ELSE 0
=============================================================================

---------------------------- MODULE ProjectPopups ----------------------------
(***************************************************************************)
(* The two popups that hold on to something while the world goes on: the    *)
(* open-project popup with its browser of a supervisor's directories        *)
(* (commands.rs, cmd_open; reducer.rs, handle_open_project_popup_key and    *)
(* what it calls, DirListed) and the editor of a project's setup script     *)
(* (cmd_edit, handle_edit_popup_key), while listings arrive from several    *)
(* supervisors and projects come and go.  Either takes every key while it   *)
(* is open.                                                                *)
(*                                                                         *)
(* A directory stands for the supervisor it is on.                          *)
(***************************************************************************)
EXTENDS Naturals, FiniteSets, Sequences, SequencesExt

CONSTANTS
  MaxSupervisor,  \* the supervisors are 1 (LOCAL) to this one
  Projects        \* the projects that may be open

ASSUME PopupsAssumption == MaxSupervisor \in Nat \ {0} /\ IsFiniteSet(Projects)

VARIABLES
  popup,       \* "open", "edit" or "none"
  focus,       \* OpenProjectFocus, "Script" for the last two
  browser,     \* [to: the supervisor picked, dir: of the listing shown or 0, path: of the
               \* last listing or 0, mixed: a supervisor was picked with a listing of
               \* another on its way]
  listings,    \* the supervisors whose listings are on their way
  projects,    \* state.projects
  edit,        \* [at: the project's position, meant: the project, shifted: a removal has
               \* moved the projects since]
  outcome      \* what the last step made of a popup: <<kind, meant, done>>

popupVars == <<popup, focus, browser, listings, projects, edit, outcome>>
Supervisors == 1 .. MaxSupervisor

NoBrowser == [to |-> 1, dir |-> 0, path |-> 0, mixed |-> FALSE]
NoEdit == [at |-> 0, meant |-> 0, shifted |-> FALSE]

PopupsInit ==
  /\ popup = "none" /\ focus = "Path"
  /\ browser = NoBrowser /\ listings = {}
  /\ projects = SetToSeq(Projects)
  /\ edit = NoEdit /\ outcome = <<>>

\* The popup is taken out of the state.
Dismiss == popup' = "none" /\ focus' = "Path" /\ browser' = NoBrowser /\ edit' = NoEdit

---------------------------------------------------------------------------
(* The open-project popup.                                                 *)

\* cmd_open asks the local supervisor for its home; what others were asked for
\* before is still on its way.
CmdOpen ==
  /\ popup = "none"
  /\ popup' = "open"
  /\ browser' = [NoBrowser EXCEPT !.mixed = listings \ {1} # {}]
  /\ listings' = listings \cup {1}
  /\ outcome' = <<>>
  /\ UNCHANGED <<focus, projects, edit>>

TabFocus ==
  /\ popup = "open"
  /\ focus' = [Path |-> "Supervisor", Supervisor |-> "Script", Script |-> "Path"][focus]
  /\ outcome' = <<>>
  /\ UNCHANGED <<popup, browser, listings, projects, edit>>

\* SupervisorDirectory::next_after
NextAfter(s) == (s % MaxSupervisor) + 1

\* (Faulty.)  The directory of the supervisor before stays up.
NextSupervisorKeepsDir ==
  /\ popup = "open" /\ focus = "Supervisor"
  /\ LET next == NextAfter(browser.to)
     IN /\ browser' = [browser EXCEPT !.to = next, !.mixed = @ \/ listings \ {next} # {}]
        /\ listings' = listings \cup {next}
  /\ outcome' = <<>>
  /\ UNCHANGED <<popup, focus, projects, edit>>

\* The browser is emptied, its path is not.
NextSupervisor ==
  /\ popup = "open" /\ focus = "Supervisor"
  /\ LET next == NextAfter(browser.to)
     IN /\ browser' = [browser EXCEPT !.to = next, !.dir = 0,
                                      !.mixed = @ \/ listings \ {next} # {}]
        /\ listings' = listings \cup {next}
  /\ outcome' = <<>>
  /\ UNCHANGED <<popup, focus, projects, edit>>

\* handle_browser_key: to the parent, or into a directory.
Browse ==
  /\ popup = "open" /\ focus = "Path" /\ browser.dir # 0
  /\ listings' = listings \cup {browser.to}
  /\ outcome' = <<>>
  /\ UNCHANGED <<popup, focus, browser, projects, edit>>

\* submit_open_project: Ctrl-S anywhere, or Enter on a repository, opens the
\* directory shown or one in it; while none is shown Ctrl-S opens the last path,
\* which may be another supervisor's.
SubmitOpen ==
  /\ popup = "open" /\ browser.path # 0
  /\ Dismiss
  /\ outcome' = IF browser.dir = 0 THEN <<"open unseen", browser.to, browser.path>>
                ELSE <<IF browser.mixed THEN "open mixed" ELSE "open", browser.to, browser.dir>>
  /\ UNCHANGED <<listings, projects>>

\* A listing carries neither a request id nor its supervisor; another of the
\* same supervisor may be behind it.
DirListed ==
  /\ \E s \in listings :
       /\ listings' \in {listings, listings \ {s}}
       /\ browser' = IF popup = "open" THEN [browser EXCEPT !.dir = s, !.path = s] ELSE browser
  /\ outcome' = <<>>
  /\ UNCHANGED <<popup, focus, projects, edit>>

---------------------------------------------------------------------------
(* The script editor.                                                      *)

\* cmd_edit, on the selected project.
CmdEdit ==
  /\ popup = "none"
  /\ popup' = "edit"
  /\ \E i \in DOMAIN projects : edit' = [at |-> i, meant |-> projects[i], shifted |-> FALSE]
  /\ outcome' = <<>>
  /\ UNCHANGED <<focus, browser, listings, projects>>

\* Ctrl-S saves for whatever project has the position now, if any has.
SaveScript ==
  /\ popup = "edit"
  /\ Dismiss
  /\ outcome' = IF edit.at \in DOMAIN projects
                THEN <<IF edit.shifted THEN "edit shifted" ELSE "edit",
                       edit.meant, projects[edit.at]>>
                ELSE <<>>
  /\ UNCHANGED <<listings, projects>>

Cancel ==
  /\ popup # "none"
  /\ Dismiss
  /\ outcome' = <<>>
  /\ UNCHANGED <<listings, projects>>

\* ProjectRemoved, of an operation requested before.
ProjectRemoved ==
  /\ \E i \in DOMAIN projects :
       /\ projects' = RemoveAt(projects, i)
       /\ edit' = [edit EXCEPT !.shifted = @ \/ i <= edit.at]
  /\ outcome' = <<>>
  /\ UNCHANGED <<popup, focus, browser, listings>>

\* ProjectValidated, likewise: the project comes last.
ProjectValidated ==
  /\ \E p \in Projects \ ToSet(projects) : projects' = Append(projects, p)
  /\ outcome' = <<>>
  /\ UNCHANGED <<popup, focus, browser, listings, edit>>

PopupsNext ==
  \/ CmdOpen \/ TabFocus \/ NextSupervisor \/ Browse \/ SubmitOpen \/ DirListed
  \/ CmdEdit \/ SaveScript \/ Cancel
  \/ ProjectRemoved \/ ProjectValidated

PopupsSpec == PopupsInit /\ [][PopupsNext]_popupVars

---------------------------------------------------------------------------
\* A popup acts on what it showed: the open-project popup opens a directory of
\* the supervisor it was set to, unless that was picked with a listing of another
\* on its way, or Ctrl-S came before any listing of it; the editor saves to the
\* project it was opened on, unless a removal moved the projects
\* (submit_open_project, DirListed, handle_edit_popup_key).
PopupsMeanWhatTheyShow ==
  outcome # <<>> =>
    \/ outcome[1] \in {"open mixed", "open unseen", "edit shifted"}
    \/ outcome[2] = outcome[3]
=============================================================================

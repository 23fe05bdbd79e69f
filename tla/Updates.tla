------------------------------- MODULE Updates -------------------------------
(***************************************************************************)
(* Self-update of the client (updater.rs; commands.rs, cmd_update; the      *)
(* UpdateChecked, UpdateInstalled and PeriodicUpdateCheck actions of        *)
(* reducer.rs).  Checks and installs are blocking tasks whose results carry *)
(* no identity; what the user sees and may start next is decided by one     *)
(* status.  The running binary keeps its version, so a newer release stays  *)
(* newer after it has been installed.                                       *)
(***************************************************************************)
EXTENDS Naturals

CONSTANTS
  MaxAsks,      \* bound on the :update commands
  MaxChecks     \* bound on the checks

VARIABLES
  update_status,    \* UpdateStatus
  available_update, \* a newer release is known
  auto_install,     \* auto_install_after_check
  checks,           \* checks that run
  installs,         \* install scripts that run
  advice,           \* what the last result told the user to restart
  asks, begun,      \* :update commands; installs begun
  checked,          \* checks begun
  doubled        \* a check was running when another task began

updVars == <<update_status, available_update, auto_install, checks, installs, advice, asks, begun,
             checked, doubled>>

UpdInit ==
  /\ update_status = "Idle"
  /\ available_update = FALSE /\ auto_install = FALSE
  /\ checks = 0 /\ installs = 0
  /\ advice = "none"
  /\ asks = 0 /\ begun = 0 /\ checked = 0
  /\ doubled = FALSE

\* spawn_update_check, spawn_update_install, with the checks that run on.
BeginCheck(running) ==
  /\ checks' = running + 1
  /\ checked' = checked + 1
  /\ doubled' = (doubled \/ running > 0)
  /\ UNCHANGED <<installs, begun>>

BeginInstall(running) ==
  /\ installs' = installs + 1
  /\ begun' = begun + 1
  /\ checks' = running
  /\ doubled' = (doubled \/ running > 0)
  /\ UNCHANGED checked

BeginNothing(running) ==
  /\ checks' = running
  /\ UNCHANGED <<installs, begun, checked, doubled>>

---------------------------------------------------------------------------
\* (Faulty.)  :update while an update is being installed.
UpdateAlways ==
  /\ asks < MaxAsks /\ checked < MaxChecks
  /\ asks' = asks + 1
  /\ IF available_update
     THEN /\ update_status' = "Installing"
          /\ BeginInstall(checks)
          /\ UNCHANGED auto_install
     ELSE /\ update_status' = "Checking"
          /\ auto_install' = TRUE
          /\ BeginCheck(checks)
  /\ UNCHANGED <<available_update, advice>>

\* cmd_update without argument: install what is known, or check first.
Update ==
  /\ asks < MaxAsks /\ checked < MaxChecks
  /\ update_status # "Installing"
  /\ asks' = asks + 1
  /\ IF available_update
     THEN /\ update_status' = "Installing"
          /\ BeginInstall(checks)
          /\ UNCHANGED auto_install
     ELSE /\ update_status' = "Checking"
          /\ auto_install' = TRUE
          /\ BeginCheck(checks)
  /\ UNCHANGED <<available_update, advice>>

UpdateCheck ==
  /\ checked < MaxChecks
  /\ update_status # "Installing"
  /\ update_status' = "Checking"
  /\ auto_install' = FALSE
  /\ BeginCheck(checks)
  /\ UNCHANGED <<available_update, advice, asks>>

PeriodicUpdateCheck ==
  /\ checked < MaxChecks
  /\ update_status = "Idle"
  /\ update_status' = "Checking"
  /\ BeginCheck(checks)
  /\ UNCHANGED <<available_update, auto_install, advice, asks>>

\* (Faulty.)  The wish to install outlives the install.
NewerKeepsAsking ==
  /\ checks > 0
  /\ available_update' = TRUE
  /\ IF auto_install
     THEN update_status' = "Installing" /\ BeginInstall(checks - 1)
     ELSE update_status' = "Idle" /\ BeginNothing(checks - 1)
  /\ UNCHANGED <<auto_install, advice, asks>>

\* check_for_update finds a newer release: the first result that does so for
\* an :update installs it.
CheckedNewer ==
  /\ checks > 0
  /\ available_update' = TRUE
  /\ auto_install' = FALSE
  /\ IF auto_install
     THEN update_status' = "Installing" /\ BeginInstall(checks - 1)
     ELSE update_status' = "Idle" /\ BeginNothing(checks - 1)
  /\ UNCHANGED <<advice, asks>>

\* It finds none, or fails: the network, the release's JSON or its tag.
CheckedNone ==
  /\ checks > 0
  /\ available_update' \in {FALSE, available_update}
  /\ auto_install' = FALSE
  /\ update_status' = "Idle"
  /\ BeginNothing(checks - 1)
  /\ UNCHANGED <<advice, asks>>

\* install_update succeeds: probed says whether the new binary told its
\* protocol version, and which; the supervisor is to be restarted if not.
Installed ==
  /\ installs > 0
  /\ \E probed \in {"same", "changed", "failed"} :
       advice' = IF probed = "same" THEN "client" ELSE "supervisor"
  /\ installs' = installs - 1
  /\ update_status' = "InstalledPendingRestart"
  /\ available_update' = FALSE
  /\ UNCHANGED <<auto_install, checks, asks, begun, checked, doubled>>

InstallFailed ==
  /\ installs > 0
  /\ installs' = installs - 1
  /\ update_status' = "Idle"
  /\ UNCHANGED <<available_update, auto_install, checks, advice, asks, begun, checked, doubled>>

UpdNext ==
  \/ Update \/ UpdateCheck \/ PeriodicUpdateCheck
  \/ CheckedNewer \/ CheckedNone
  \/ Installed \/ InstallFailed

UpdSpec == UpdInit /\ [][UpdNext]_updVars

---------------------------------------------------------------------------
\* No release is installed that the user did not ask for: every install is
\* the doing of an :update of its own, however many results arrive after it
\* (cmd_update; UpdateChecked in reducer.rs).
InstallsAsked == begun <= asks

\* Two install scripts do not run at once, and while one runs the status says
\* so, which is what refuses another :update; except when a check was running
\* as something else began: its result then resets the status (cmd_update;
\* UpdateChecked in reducer.rs).
OneInstall ==
  doubled \/ (installs <= 1 /\ (installs = 1 <=> update_status = "Installing"))
=============================================================================

---------------------------- MODULE ClientProofs ----------------------------
(***************************************************************************)
(* Theorems of the parts of the client that stand alone: the self-update,   *)
(* for any number of checks and commands; the two popups that hold on to     *)
(* something while the world goes on, for any supervisors and projects; the  *)
(* keys that are typed in Terminal mode, for any number of them; and the     *)
(* configuration directory, for any names, openings, restarts and mishaps.   *)
(***************************************************************************)
EXTENDS Updates, ProjectPopups, Interface, ConfigStore, FiniteSetTheorems, TLAPS

-----------------------------------------------------------------------------
(* Self-update *)

Flags ==
  /\ update_status \in {"Idle", "Checking", "Installing", "InstalledPendingRestart"}
  /\ auto_install \in BOOLEAN /\ doubled \in BOOLEAN
Counters == checks \in Nat /\ installs \in Nat /\ asks \in Nat /\ begun \in Nat

\* A command is spent on the install it begins, or on the wish to install once a check has
\* found something.
Spent == begun <= asks /\ (auto_install = TRUE => begun < asks)

\* Unless tasks have overlapped one runs at a time, and the status says so.
OneTask ==
  doubled = FALSE => /\ checks + installs <= 1
                     /\ installs = 1 <=> update_status = "Installing"

UpdInv == Flags /\ Counters /\ Spent /\ OneTask

\* A task that has overlapped no other began with none running.
LEMMA NoOverlap ==
  ASSUME NEW tasks \in Nat, BeginCheck(tasks) \/ BeginInstall(tasks), Flags,
         doubled' = FALSE
  PROVE  doubled = FALSE /\ tasks = 0
  <1>1. doubled' = (doubled \/ tasks > 0) BY DEF BeginCheck, BeginInstall
  <1>2. doubled = FALSE /\ ~(tasks > 0) BY <1>1 DEF Flags
  <1> QED BY <1>2

\* The invariant of the self-update holds always.
LEMMA UpdInvAlways == UpdSpec => []UpdInv
  <1>1. UpdInit => UpdInv
    <2>1. UpdInit => Flags BY DEF UpdInit, Flags
    <2>2. UpdInit => Counters BY DEF UpdInit, Counters
    <2>3. UpdInit => Spent BY DEF UpdInit, Spent
    <2>4. UpdInit => OneTask BY DEF UpdInit, OneTask
    <2> QED BY <2>1, <2>2, <2>3, <2>4 DEF UpdInv
  <1>2. UpdInv /\ [UpdNext]_updVars => UpdInv'
    <2> SUFFICES ASSUME UpdInv, [UpdNext]_updVars PROVE UpdInv'
      OBVIOUS
    <2> USE DEF UpdInv
    <2>1. CASE Update
      <3>1. BeginInstall(checks) \/ BeginCheck(checks) BY <2>1 DEF Update
      <3>2. Counters'
        BY <2>1 DEF Update, BeginCheck, BeginInstall, Counters
      <3>3. Flags'
        BY <2>1 DEF Update, BeginCheck, BeginInstall, Flags
      <3>4. Spent'
        BY <2>1 DEF Update, BeginCheck, BeginInstall, Counters, Spent
      <3>5. ASSUME doubled' = FALSE
            PROVE  checks' + installs' <= 1 /\ (installs' = 1 <=> update_status' = "Installing")
        <4>1. doubled = FALSE /\ checks = 0 BY <3>1, <3>5, NoOverlap DEF Counters
        <4>2. installs = 0 BY <2>1, <4>1 DEF Update, OneTask, Counters
        <4> QED BY <2>1, <4>1, <4>2 DEF Update, BeginCheck, BeginInstall
      <3> QED BY <3>2, <3>3, <3>4, <3>5 DEF OneTask
    <2>2. CASE UpdateCheck \/ PeriodicUpdateCheck
      <3>1. /\ BeginCheck(checks) /\ update_status # "Installing"
            /\ update_status' = "Checking"
        BY <2>2 DEF UpdateCheck, PeriodicUpdateCheck
      <3>2. Counters'
        BY <2>2 DEF UpdateCheck, PeriodicUpdateCheck, BeginCheck, Counters
      <3>3. Flags'
        BY <2>2 DEF UpdateCheck, PeriodicUpdateCheck, BeginCheck, Flags
      <3>4. Spent'
        BY <2>2 DEF UpdateCheck, PeriodicUpdateCheck, BeginCheck, Counters, Spent
      <3>5. ASSUME doubled' = FALSE
            PROVE  checks' + installs' <= 1 /\ (installs' = 1 <=> update_status' = "Installing")
        <4>1. doubled = FALSE /\ checks = 0 BY <3>1, <3>5, NoOverlap DEF Counters
        <4>2. installs = 0 BY <3>1, <4>1 DEF OneTask, Counters
        <4> QED BY <3>1, <4>1, <4>2 DEF BeginCheck
      <3> QED BY <3>2, <3>3, <3>4, <3>5 DEF OneTask
    <2>3. CASE CheckedNewer
      <3>1. Counters'
        BY <2>3 DEF CheckedNewer, BeginInstall, BeginNothing, Counters
      <3>2. Flags'
        BY <2>3 DEF CheckedNewer, BeginInstall, BeginNothing, Flags
      <3>3. Spent'
        BY <2>3 DEF CheckedNewer, BeginInstall, BeginNothing, Counters, Spent
      <3>4. OneTask'
        BY <2>3 DEF CheckedNewer, BeginInstall, BeginNothing, Counters, Flags, OneTask
      <3> QED BY <3>1, <3>2, <3>3, <3>4
    <2>4. CASE CheckedNone
      <3>1. Counters' BY <2>4 DEF CheckedNone, BeginNothing, Counters
      <3>2. Flags' BY <2>4 DEF CheckedNone, BeginNothing, Flags
      <3>3. Spent' BY <2>4 DEF CheckedNone, BeginNothing, Spent
      <3>4. OneTask' BY <2>4 DEF CheckedNone, BeginNothing, Counters, OneTask
      <3> QED BY <3>1, <3>2, <3>3, <3>4
    <2>5. CASE Installed \/ InstallFailed
      <3>1. Counters' BY <2>5 DEF Installed, InstallFailed, Counters
      <3>2. Flags' BY <2>5 DEF Installed, InstallFailed, Flags
      <3>3. Spent' BY <2>5 DEF Installed, InstallFailed, Spent
      <3>4. OneTask' BY <2>5 DEF Installed, InstallFailed, Counters, OneTask
      <3> QED BY <3>1, <3>2, <3>3, <3>4
    <2>6. CASE UNCHANGED updVars
      BY <2>6 DEF updVars, Flags, Counters, Spent, OneTask
    <2> QED BY <2>1, <2>2, <2>3, <2>4, <2>5, <2>6 DEF UpdNext
  <1> QED BY <1>1, <1>2, PTL DEF UpdSpec

\* InstallsAsked of Updates: nothing is installed that the user did not ask for.
THEOREM NothingInstallsUnasked == UpdSpec => []InstallsAsked
  <1>1. UpdInv => InstallsAsked BY DEF UpdInv, Spent, InstallsAsked
  <1> QED BY <1>1, UpdInvAlways, PTL

\* OneInstall of Updates: installs do not overlap, and the status refuses another, unless
\* a check was running as something else began.
THEOREM InstallsDoNotOverlap == UpdSpec => []OneInstall
  <1>1. UpdInv => OneInstall BY DEF UpdInv, Flags, Counters, OneTask, OneInstall
  <1> QED BY <1>1, UpdInvAlways, PTL

-----------------------------------------------------------------------------
(* Popups *)

BrowserType ==
  /\ browser \in [to : Supervisors, dir : Supervisors \cup {0}, path : Supervisors \cup {0},
                  mixed : BOOLEAN]
  /\ listings \subseteq Supervisors
EditType ==
  edit \in [at : Nat, meant : Projects \cup {0}, shifted : BOOLEAN]

\* Unless the browser is mixed, what it shows and what is on its way is of its supervisor.
BrowserTrue ==
  popup = "open" /\ browser.mixed = FALSE =>
    /\ browser.dir \in {0, browser.to}
    /\ listings \subseteq {browser.to}

\* Unless projects have shifted, the editor is at the project it is meant for.
EditTrue ==
  popup = "edit" /\ edit.shifted = FALSE =>
    edit.at \in DOMAIN projects /\ projects[edit.at] = edit.meant

PopupsInv ==
  /\ BrowserType /\ EditType /\ projects \in Seq(Projects)
  /\ BrowserTrue /\ EditTrue /\ PopupsMeanWhatTheyShow

\* What a removal from a sequence leaves alone and what it moves up.
LEMMA Removal ==
  ASSUME NEW S, NEW s \in Seq(S), NEW i \in DOMAIN s
  PROVE  /\ RemoveAt(s, i) \in Seq(S) /\ Len(RemoveAt(s, i)) = Len(s) - 1
         /\ \A k \in 1 .. Len(s) - 1 :
              RemoveAt(s, i)[k] = IF k < i THEN s[k] ELSE s[k + 1]
  <1> DEFINE a == SubSeq(s, 1, i - 1)
             b == SubSeq(s, i + 1, Len(s))
  <1>0. i \in 1 .. Len(s) /\ Len(s) \in Nat OBVIOUS
  <1>1. /\ a \in Seq(S) /\ Len(a) = i - 1
        /\ \A k \in 1 .. i - 1 : a[k] = s[k]
    BY <1>0
  <1>2. /\ b \in Seq(S) /\ Len(b) = Len(s) - i
        /\ \A k \in 1 .. Len(s) - i : b[k] = s[i + k]
    BY <1>0
  <1>3. RemoveAt(s, i) = a \o b BY DEF RemoveAt
  <1> HIDE DEF a, b
  <1> QED BY <1>0, <1>1, <1>2, <1>3

\* The projects are listed one after the other.
LEMMA ProjectsListed == SetToSeq(Projects) \in Seq(Projects)
  <1>1. Cardinality(Projects) \in Nat /\ ExistsBijection(1 .. Cardinality(Projects), Projects)
    BY PopupsAssumption, FS_CardinalityType
  <1>2. \E f \in [1 .. Cardinality(Projects) -> Projects] : IsInjective(f)
    BY <1>1 DEF ExistsBijection, Bijection, Injection
  <1>3. SetToSeq(Projects) \in [1 .. Cardinality(Projects) -> Projects]
    BY <1>2 DEF SetToSeq
  <1> QED BY <1>1, <1>3

\* The browser of the popup, step by step.
LEMMA BrowserNext ==
  ASSUME BrowserType, BrowserTrue, [PopupsNext]_popupVars
  PROVE  BrowserType' /\ BrowserTrue'
  <1> USE DEF BrowserType, BrowserTrue
  <1>0. NoBrowser.to = 1 /\ NoBrowser.mixed = FALSE /\ 1 \in Supervisors
    BY PopupsAssumption DEF NoBrowser, Supervisors
  <1>n. NoBrowser \in [to : Supervisors, dir : Supervisors \cup {0}, path : Supervisors \cup {0},
                       mixed : BOOLEAN]
    BY PopupsAssumption DEF NoBrowser, Supervisors
  <1>1. CASE CmdOpen
    <2>1. PICK b \in BOOLEAN : b = (listings \ {1} # {}) OBVIOUS
    <2>2. browser' = [NoBrowser EXCEPT !.mixed = b] /\ listings' = listings \cup {1}
      BY <1>1, <2>1 DEF CmdOpen
    <2>3. BrowserType' BY <1>0, <1>n, <2>2
    <2>4. browser'.to = 1 /\ browser'.dir = 0 /\ browser'.mixed = b BY <2>2 DEF NoBrowser
    <2>5. b = FALSE => listings \subseteq {1} BY <2>1
    <2> QED BY <2>2, <2>3, <2>4, <2>5
  <1>2. CASE NextSupervisor
    <2>1. PICK next \in Supervisors : next = NextAfter(browser.to)
      BY PopupsAssumption DEF NextAfter, Supervisors
    <2>2. PICK b \in BOOLEAN : b = (browser.mixed \/ listings \ {next} # {}) OBVIOUS
    <2>3. /\ browser' = [browser EXCEPT !.to = next, !.dir = 0, !.mixed = b]
          /\ listings' = listings \cup {next}
      BY <1>2, <2>1, <2>2 DEF NextSupervisor
    <2>4. BrowserType' BY <2>3
    <2>5. browser'.to = next /\ browser'.dir = 0 /\ browser'.mixed = b BY <2>3
    <2>6. b = FALSE => listings \subseteq {next} BY <2>2
    <2> QED BY <2>3, <2>4, <2>5, <2>6
  <1>3. CASE Browse BY <1>3 DEF Browse
  <1>4. CASE DirListed
    <2>1. PICK s \in listings :
            /\ listings' \in {listings, listings \ {s}}
            /\ browser' = IF popup = "open" THEN [browser EXCEPT !.dir = s, !.path = s] ELSE browser
      BY <1>4 DEF DirListed
    <2>2. popup' = popup BY <1>4 DEF DirListed
    <2> QED BY <2>1, <2>2
  <1>5. CASE SubmitOpen \/ SaveScript \/ Cancel
    <2>1. browser' = NoBrowser /\ popup' = "none" /\ listings' = listings
      BY <1>5 DEF SubmitOpen, SaveScript, Cancel, Dismiss
    <2> QED BY <1>n, <2>1
  <1>6. CASE CmdEdit BY <1>6 DEF CmdEdit
  <1>7. CASE TabFocus \/ ProjectRemoved \/ ProjectValidated \/ UNCHANGED popupVars
    BY <1>7 DEF TabFocus, ProjectRemoved, ProjectValidated, popupVars
  <1> QED BY <1>1, <1>2, <1>3, <1>4, <1>5, <1>6, <1>7 DEF PopupsNext

\* The editor, step by step.
LEMMA EditNext ==
  ASSUME EditType, EditTrue, projects \in Seq(Projects), [PopupsNext]_popupVars
  PROVE  EditType' /\ EditTrue' /\ projects' \in Seq(Projects)
  <1> USE DEF EditType, EditTrue
  <1>1. CASE CmdEdit
    <2>1. PICK i \in DOMAIN projects :
            edit' = [at |-> i, meant |-> projects[i], shifted |-> FALSE]
      BY <1>1 DEF CmdEdit
    <2>2. i \in Nat /\ projects[i] \in Projects /\ projects' = projects
      BY <1>1 DEF CmdEdit
    <2> QED BY <2>1, <2>2
  <1>2. CASE ProjectRemoved
    <2>1. PICK i \in DOMAIN projects :
            /\ projects' = RemoveAt(projects, i)
            /\ edit' = [edit EXCEPT !.shifted = @ \/ i <= edit.at]
      BY <1>2 DEF ProjectRemoved
    <2>2. PICK b \in BOOLEAN : b = (edit.shifted \/ i <= edit.at) OBVIOUS
    <2>3. edit' = [edit EXCEPT !.shifted = b] BY <2>1, <2>2
    <2>4. EditType' BY <2>3
    <2>5. edit'.at = edit.at /\ edit'.meant = edit.meant /\ edit'.shifted = b BY <2>3
    <2>6. b = FALSE => edit.shifted = FALSE /\ ~(i <= edit.at) BY <2>2
    <2>7. /\ projects' \in Seq(Projects) /\ Len(projects') = Len(projects) - 1
          /\ \A k \in 1 .. Len(projects) - 1 : k < i => projects'[k] = projects[k]
      BY <2>1, Removal
    <2>8. popup' = popup BY <1>2 DEF ProjectRemoved
    <2>9. ASSUME popup = "edit", b = FALSE
          PROVE  edit.at \in DOMAIN projects' /\ projects'[edit.at] = edit.meant
      <3>1. edit.at \in DOMAIN projects /\ projects[edit.at] = edit.meant /\ edit.at < i
        BY <2>6, <2>9
      <3>2. edit.at \in 1 .. Len(projects) - 1 BY <3>1
      <3>3. edit.at \in DOMAIN projects' BY <2>7, <3>2
      <3> QED BY <2>7, <3>1, <3>2, <3>3
    <2> QED BY <2>4, <2>5, <2>7, <2>8, <2>9
  <1>3. CASE ProjectValidated
    <2>1. PICK p \in Projects : projects' = Append(projects, p)
      BY <1>3 DEF ProjectValidated
    <2>2. \A k \in DOMAIN projects : k \in DOMAIN projects' /\ projects'[k] = projects[k]
      BY <2>1
    <2>3. projects' \in Seq(Projects) BY <2>1
    <2>4. popup' = popup /\ edit' = edit BY <1>3 DEF ProjectValidated
    <2> QED BY <2>2, <2>3, <2>4
  <1>4. CASE SubmitOpen \/ SaveScript \/ Cancel
    <2>1. popup' = "none" /\ edit' = NoEdit /\ projects' = projects
      BY <1>4 DEF SubmitOpen, SaveScript, Cancel, Dismiss
    <2>2. NoEdit \in [at : Nat, meant : Projects \cup {0}, shifted : BOOLEAN] BY DEF NoEdit
    <2> QED BY <2>1, <2>2
  <1>5. CASE CmdOpen BY <1>5 DEF CmdOpen
  <1>6. CASE TabFocus \/ NextSupervisor \/ Browse \/ DirListed \/ UNCHANGED popupVars
    BY <1>6 DEF TabFocus, NextSupervisor, Browse, DirListed, popupVars
  <1> QED BY <1>1, <1>2, <1>3, <1>4, <1>5, <1>6 DEF PopupsNext

\* What a popup makes of itself.
LEMMA OutcomeNext ==
  ASSUME BrowserType, BrowserTrue, EditType, EditTrue, PopupsMeanWhatTheyShow,
         [PopupsNext]_popupVars
  PROVE  PopupsMeanWhatTheyShow'
  <1> USE DEF PopupsMeanWhatTheyShow
  <1>1. CASE SubmitOpen
    <2>1. CASE browser.dir = 0 BY <1>1, <2>1 DEF SubmitOpen
    <2>2. CASE browser.dir # 0 /\ browser.mixed = TRUE
      BY <1>1, <2>2 DEF SubmitOpen
    <2>3. CASE browser.dir # 0 /\ browser.mixed = FALSE
      <3>1. browser.dir = browser.to BY <1>1, <2>3 DEF BrowserTrue, SubmitOpen
      <3>2. outcome' = <<"open", browser.to, browser.dir>>
        BY <1>1, <2>3 DEF SubmitOpen
      <3> QED BY <3>1, <3>2
    <2> QED BY <2>1, <2>2, <2>3 DEF BrowserType
  <1>2. CASE SaveScript
    <2>1. CASE edit.at \notin DOMAIN projects BY <1>2, <2>1 DEF SaveScript
    <2>2. CASE edit.at \in DOMAIN projects /\ edit.shifted = TRUE
      BY <1>2, <2>2 DEF SaveScript
    <2>3. CASE edit.at \in DOMAIN projects /\ edit.shifted = FALSE
      <3>1. projects[edit.at] = edit.meant BY <1>2, <2>3 DEF EditTrue, SaveScript
      <3>2. outcome' = <<"edit", edit.meant, projects[edit.at]>>
        BY <1>2, <2>3 DEF SaveScript
      <3> QED BY <3>1, <3>2
    <2> QED BY <2>1, <2>2, <2>3 DEF EditType
  <1>3. CASE outcome' = <<>> \/ outcome' = outcome BY <1>3
  <1> QED BY <1>1, <1>2, <1>3
          DEF PopupsNext, popupVars, CmdOpen, TabFocus, NextSupervisor, Browse, DirListed,
              CmdEdit, Cancel, ProjectRemoved, ProjectValidated

\* PopupsMeanWhatTheyShow of ProjectPopups: the open-project popup opens a directory of
\* the supervisor it was set to, and the editor saves to the project it was opened on, but
\* for the exceptions that are marked.
THEOREM PopupsDoWhatTheyShow == PopupsSpec => []PopupsMeanWhatTheyShow
  <1>1. PopupsInit => PopupsInv
    <2> SUFFICES ASSUME PopupsInit PROVE PopupsInv
      OBVIOUS
    <2> USE DEF PopupsInit
    <2>1. BrowserType /\ BrowserTrue
      BY PopupsAssumption DEF BrowserType, BrowserTrue, NoBrowser, Supervisors
    <2>2. EditType /\ EditTrue BY DEF EditType, EditTrue, NoEdit
    <2>3. projects \in Seq(Projects) BY ProjectsListed
    <2> QED BY <2>1, <2>2, <2>3 DEF PopupsInv, PopupsMeanWhatTheyShow
  <1>2. PopupsInv /\ [PopupsNext]_popupVars => PopupsInv'
    BY BrowserNext, EditNext, OutcomeNext DEF PopupsInv
  <1>3. PopupsInv => PopupsMeanWhatTheyShow BY DEF PopupsInv
  <1> QED BY <1>1, <1>2, <1>3, PTL DEF PopupsSpec
-----------------------------------------------------------------------------
(* Keys *)

\* Sequences, whatever they hold.
IsSeq(s) == s \in Seq({s[i] : i \in DOMAIN s})

UiFields == {"mode", "open", "chord", "held", "at", "hidden", "completing"}
UiType ==
  /\ DOMAIN ui = UiFields /\ IsSeq(ui.chord) /\ IsSeq(ui.held)
  /\ done \in Nat /\ typed \in Nat

\* Every key typed is done with or held.
Conserved == done + Len(ui.held) = typed

\* No chord is pending on the command line, nor under the palette, whose actions may
\* change the mode.
NoChordThere == ui.mode = "Command" \/ "palette" \in ui.open => ui.chord = <<>>

\* What is held was typed, in order, for the session in focus, as the chord pending.
Steady ==
  /\ \A i \in DOMAIN ui.held : ui.held[i] = <<done + i, Focused>>
  /\ Len(ui.held) = IF ui.mode = "Terminal" THEN Len(ui.chord) ELSE 0

SentTrue ==
  \A i \in DOMAIN sent : sent[i].to \in {0, sent[i].for} /\ sent[i].n = done - Len(sent) + i

KeysInv ==
  /\ UiType /\ Conserved /\ NoChordThere /\ strayed \in BOOLEAN
  /\ strayed = FALSE => Steady /\ SentTrue

\* What a sequence is, and one with an element more.
LEMMA IsSeqAppend ==
  ASSUME NEW s, IsSeq(s), NEW e
  PROVE  /\ Len(s) \in Nat /\ DOMAIN s = 1 .. Len(s)
         /\ IsSeq(Append(s, e)) /\ Len(Append(s, e)) = Len(s) + 1
         /\ Append(s, e)[Len(s) + 1] = e /\ DOMAIN Append(s, e) = 1 .. Len(s) + 1
         /\ \A i \in 1 .. Len(s) : Append(s, e)[i] = s[i]
  <1> DEFINE S == {s[i] : i \in DOMAIN s} \cup {e}
             t == Append(s, e)
  <1>1. s \in Seq(S)
    <2>1. s \in Seq({s[i] : i \in DOMAIN s}) BY DEF IsSeq
    <2>2. s \in [1 .. Len(s) -> S] /\ Len(s) \in Nat BY <2>1
    <2> QED BY <2>2
  <1> HIDE DEF S
  <1>2. e \in S BY DEF S
  <1>3. /\ Len(s) \in Nat /\ DOMAIN s = 1 .. Len(s)
        /\ Len(t) = Len(s) + 1 /\ t[Len(s) + 1] = e /\ DOMAIN t = 1 .. Len(s) + 1
        /\ \A i \in 1 .. Len(s) : t[i] = s[i]
    BY <1>1, <1>2
  <1>4. IsSeq(t)
    <2>1. t \in Seq(S) BY <1>1, <1>2
    <2> HIDE DEF t
    <2>2. t = [i \in 1 .. Len(t) |-> t[i]] /\ Len(t) \in Nat /\ DOMAIN t = 1 .. Len(t)
      BY <2>1
    <2> QED BY <2>2 DEF IsSeq
  <1> QED BY <1>3, <1>4

\* None is one.
LEMMA IsSeqEmpty == IsSeq(<<>>) /\ Len(<<>>) = 0 /\ DOMAIN <<>> = {}
  BY DEF IsSeq

\* Only the empty sequence has no elements.
LEMMA IsSeqLen == ASSUME NEW s, IsSeq(s), Len(s) = 0 PROVE s = <<>> /\ DOMAIN s = {}
  BY DEF IsSeq

\* What a step does to the keys that are held, unless they had strayed.
Orderly == UiType' /\ Conserved' /\ NoChordThere' /\ (Steady => Steady' /\ SentTrue')

\* A step that leaves the chord, the mode and the focus keeps order.
LEMMA StillOrderly ==
  ASSUME UiType, Conserved, NoChordThere, NotTyped, DOMAIN ui' = UiFields,
         ui'.chord = ui.chord, ui'.held = ui.held,
         ui.chord # <<>> => ui'.mode # "Command" /\ "palette" \notin ui'.open,
         Steady => \/ ui'.mode = ui.mode /\ Focused' = Focused
                   \/ ui.chord = <<>> /\ ui.held = <<>>
  PROVE  Orderly
  <1>1. done' = done /\ typed' = typed /\ sent' = <<>> BY DEF NotTyped
  <1>2. UiType' BY <1>1 DEF UiType
  <1>3. Conserved' BY <1>1 DEF Conserved
  <1>4. NoChordThere' BY DEF NoChordThere
  <1>5. SentTrue' BY <1>1 DEF SentTrue
  <1>6. ASSUME Steady PROVE Steady'
    <2>1. CASE ui'.mode = ui.mode /\ Focused' = Focused BY <1>1, <1>6, <2>1 DEF Steady
    <2>2. CASE ui.chord = <<>> /\ ui.held = <<>> BY <2>2, IsSeqEmpty DEF Steady
    <2> QED BY <1>6, <2>1, <2>2
  <1> QED BY <1>2, <1>3, <1>4, <1>5, <1>6 DEF Orderly

\* A step that clears the chord while nothing is held keeps order.
LEMMA ClearedOrderly ==
  ASSUME UiType, Conserved, NotTyped, DOMAIN ui' = UiFields,
         ui'.chord = <<>>, ui'.held = ui.held, Steady => ui.held = <<>>
  PROVE  Orderly
  <1>1. done' = done /\ typed' = typed /\ sent' = <<>> BY DEF NotTyped
  <1>2. UiType' BY <1>1, IsSeqEmpty DEF UiType
  <1>3. Conserved' BY <1>1 DEF Conserved
  <1>4. NoChordThere' BY DEF NoChordThere
  <1>5. SentTrue' BY <1>1 DEF SentTrue
  <1>6. Steady => Steady' BY IsSeqEmpty DEF Steady
  <1> QED BY <1>2, <1>3, <1>4, <1>5, <1>6 DEF Orderly

\* No action touches the chord or the keys held.
LEMMA DispatchKeeps ==
  ASSUME NEW u, DOMAIN u = UiFields, NEW action, Dispatch(u, action)
  PROVE  DOMAIN ui' = UiFields /\ ui'.chord = u.chord /\ ui'.held = u.held
  <1> USE DEF UiFields
  <1>1. CASE \E w \in {1, 2} : ActivateWorktree(u, w) BY <1>1 DEF ActivateWorktree
  <1>2. CASE \/ ui' = u \/ Only(u) \/ Only(Toggled(u))
             \/ Only([u EXCEPT !.hidden = FALSE, !.at = "Sidebar"])
             \/ Only([u EXCEPT !.at = "Terminal"])
             \/ Only([u EXCEPT !.mode = "Terminal"]) \/ Only([u EXCEPT !.mode = "Normal"])
    BY <1>2 DEF Only, Toggled
  <1>3. CASE Only([u EXCEPT !.mode = "Command", !.completing = TRUE, !.open = @ \ {"help"}])
    BY <1>3 DEF Only
  <1>4. CASE Only([u EXCEPT !.open = @ \cup {Opens[action]}]) BY <1>4 DEF Only
  <1> QED BY <1>1, <1>2, <1>3, <1>4 DEF Dispatch

\* The state of the interface that the keys of the modes start from.
StartsFrom(u) ==
  /\ DOMAIN u = UiFields /\ u.chord = ui.chord /\ u.held = ui.held /\ u.mode = ui.mode
  /\ "palette" \notin u.open

\* A key in Normal mode.
LEMMA NormalOrderly ==
  ASSUME UiType, Conserved, NoChordThere, NEW u, StartsFrom(u), u.mode = "Normal",
         NEW k, NormalKey(u, k), NotTyped
  PROVE  Orderly
  <1> USE DEF StartsFrom
  <1>1. Steady => ui.held = <<>> BY IsSeqLen DEF Steady, UiType
  <1>2. DOMAIN [u EXCEPT !.chord = <<>>] = UiFields /\ [u EXCEPT !.chord = <<>>].chord = <<>>
        /\ [u EXCEPT !.chord = <<>>].held = ui.held
    BY DEF UiFields
  <1>3. CASE \E action : Dispatch([u EXCEPT !.chord = <<>>], action)
    <2>1. DOMAIN ui' = UiFields /\ ui'.chord = <<>> /\ ui'.held = ui.held
      BY <1>2, <1>3, DispatchKeeps
    <2> QED BY <1>1, <2>1, ClearedOrderly
  <1>4. CASE Only([u EXCEPT !.chord = <<>>])
    BY <1>1, <1>2, <1>4, ClearedOrderly DEF Only
  <1>5. CASE Only([u EXCEPT !.chord = Append(u.chord, k)])
    <2>1. /\ DOMAIN ui' = UiFields /\ ui'.chord = Append(ui.chord, k) /\ ui'.held = ui.held
          /\ ui'.mode = "Normal" /\ ui'.open = u.open
      BY <1>5 DEF Only, UiFields
    <2>2. done' = done /\ typed' = typed /\ sent' = <<>> BY DEF NotTyped
    <2>3. UiType' BY <2>1, <2>2, IsSeqAppend DEF UiType
    <2>4. Conserved' BY <2>1, <2>2 DEF Conserved
    <2>5. NoChordThere' BY <2>1 DEF NoChordThere
    <2>6. SentTrue' BY <2>2 DEF SentTrue
    <2>7. Steady => Steady' BY <1>1, <2>1, IsSeqEmpty DEF Steady
    <2> QED BY <2>3, <2>4, <2>5, <2>6, <2>7 DEF Orderly
  <1> QED BY <1>3, <1>4, <1>5 DEF NormalKey

\* Keys done with, those held and one more: to nobody, or to the session in focus.
LEMMA FinishOrderly ==
  ASSUME UiType, Conserved, NEW u, StartsFrom(u), u.mode = "Terminal",
         NEW to \in {0, Focused}, Finish(Append(u.held, <<typed + 1, Focused>>), to),
         typed' = typed + 1, DOMAIN ui' = UiFields, ui'.chord = <<>>, ui'.held = <<>>
  PROVE  Orderly
  <1> DEFINE key == <<typed + 1, Focused>>
             keys == Append(ui.held, key)
             n == Len(ui.held)
  <1>1. Finish(keys, to) BY DEF StartsFrom
  <1>2. IsSeq(ui.held) BY DEF UiType
  <1>3. /\ n \in Nat /\ DOMAIN ui.held = 1 .. n /\ Len(keys) = n + 1
        /\ keys[n + 1] = key /\ DOMAIN keys = 1 .. n + 1
        /\ \A i \in 1 .. n : keys[i] = ui.held[i]
    BY <1>2, IsSeqAppend
  <1>4. key[1] = typed + 1 /\ key[2] = Focused OBVIOUS
  <1>5. sent' = [i \in DOMAIN keys |-> [n |-> keys[i][1], for |-> keys[i][2], to |-> to]]
        /\ done' = done + Len(keys)
    BY <1>1 DEF Finish
  <1> HIDE DEF key, keys, n
  <1>6. done' = done + n + 1 /\ done' = typed + 1 /\ done \in Nat /\ typed \in Nat
    BY <1>3, <1>5 DEF Conserved, UiType, n
  <1>7. UiType' BY <1>6, IsSeqEmpty DEF UiType
  <1>8. Conserved' BY <1>6, IsSeqEmpty DEF Conserved, UiType
  <1>9. NoChordThere' BY DEF NoChordThere
  <1>10. Steady' BY IsSeqEmpty DEF Steady
  <1>11. ASSUME Steady PROVE SentTrue'
    <2>1. DOMAIN sent' = 1 .. n + 1 BY <1>3, <1>5
    <2>2. Len(sent') = n + 1 BY <1>3, <2>1, <1>5
    <2>3. ASSUME NEW i \in 1 .. n + 1
          PROVE  keys[i][1] = done + i /\ keys[i][2] = Focused
      <3>1. CASE i = n + 1 BY <1>3, <1>4, <1>6, <3>1
      <3>2. CASE i \in 1 .. n
        <4>1. ui.held[i] = <<done + i, Focused>> BY <1>3, <1>11, <3>2 DEF Steady
        <4> QED BY <1>3, <3>2, <4>1
      <3> QED BY <1>3, <3>1, <3>2
    <2>4. ASSUME NEW i \in 1 .. n + 1
          PROVE  /\ sent'[i].n = done + i /\ sent'[i].for = Focused /\ sent'[i].to = to
      BY <1>3, <1>5, <2>3
    <2>5. \A i \in 1 .. n + 1 : done' - (n + 1) + i = done + i BY <1>3, <1>6
    <2> QED BY <2>1, <2>2, <2>4, <2>5 DEF SentTrue
  <1> QED BY <1>7, <1>8, <1>9, <1>10, <1>11 DEF Orderly

\* A key in Terminal mode.
LEMMA TerminalOrderly ==
  ASSUME UiType, Conserved, NoChordThere, NEW u, StartsFrom(u), u.mode = "Terminal",
         NEW k, TerminalKey(u, k)
  PROVE  Orderly
  <1> DEFINE keys == Append(u.chord, k)
             held == Append(u.held, <<typed + 1, Focused>>)
             cleared == [[u EXCEPT !.chord = <<>>] EXCEPT !.held = <<>>]
  <1>1. DOMAIN cleared = UiFields /\ cleared.chord = <<>> /\ cleared.held = <<>>
    BY DEF StartsFrom, UiFields
  <1>2. typed' = typed + 1 BY DEF TerminalKey
  <1>3. ASSUME NEW action, NEW to \in {0, Focused}, Finish(held, to), Dispatch(cleared, action)
        PROVE  Orderly
    BY <1>1, <1>2, <1>3, DispatchKeeps, FinishOrderly
  <1>4. CASE Replay(u, held)
    <2>1. ui' = cleared /\ Finish(held, Focused) BY <1>4 DEF Replay, Only
    <2> HIDE DEF cleared
    <2> QED BY <1>1, <1>2, <2>1, FinishOrderly
  <1>5. CASE Only([u EXCEPT !.chord = keys, !.held = held]) /\ sent' = <<>> /\ UNCHANGED done
    <2> DEFINE n == Len(ui.held)
               key == <<typed + 1, Focused>>
    <2>1. /\ DOMAIN ui' = UiFields /\ ui'.chord = Append(ui.chord, k)
          /\ ui'.held = Append(ui.held, key)
          /\ ui'.mode = "Terminal" /\ ui'.open = u.open
      BY <1>5 DEF Only, UiFields, StartsFrom
    <2>2. IsSeq(ui.chord) /\ IsSeq(ui.held) BY DEF UiType
    <2>3. UNCHANGED uiTabs BY <1>5 DEF Only
    <2>4. Focused' = Focused BY <2>3 DEF Focused, uiTabs
    <2> HIDE DEF n, key
    <2>5. /\ IsSeq(ui'.chord) /\ Len(ui'.chord) = Len(ui.chord) + 1 /\ Len(ui.chord) \in Nat
      BY <2>1, <2>2, IsSeqAppend
    <2>6. /\ IsSeq(ui'.held) /\ Len(ui'.held) = n + 1 /\ DOMAIN ui'.held = 1 .. n + 1
          /\ ui'.held[n + 1] = key /\ n \in Nat /\ DOMAIN ui.held = 1 .. n
          /\ \A i \in 1 .. n : ui'.held[i] = ui.held[i]
      BY <2>1, <2>2, IsSeqAppend DEF n
    <2>7. done' = done /\ done \in Nat /\ typed \in Nat /\ done + n = typed
      BY <1>5 DEF UiType, Conserved, n
    <2>8. UiType' BY <1>2, <2>1, <2>5, <2>6, <2>7 DEF UiType
    <2>9. Conserved' BY <1>2, <2>6, <2>7 DEF Conserved
    <2>10. NoChordThere' BY <2>1 DEF NoChordThere, StartsFrom
    <2>11. SentTrue' BY <1>5 DEF SentTrue
    <2>12. ASSUME Steady PROVE Steady'
      <3>1. n = Len(ui.chord) BY <2>12 DEF Steady, StartsFrom, n
      <3>2. key = <<done + (n + 1), Focused>> BY <2>6, <2>7 DEF key
      <3>3. \A i \in 1 .. n : ui.held[i] = <<done + i, Focused>> BY <2>6, <2>12 DEF Steady
      <3>4. \A i \in 1 .. n + 1 : i \in 1 .. n \/ i = n + 1 BY <2>6
      <3>5. \A i \in 1 .. n + 1 : ui'.held[i] = <<done + i, Focused>>
        BY <2>6, <3>2, <3>3, <3>4
      <3> QED BY <2>1, <2>4, <2>5, <2>6, <2>7, <3>1, <3>5 DEF Steady
    <2> QED BY <2>8, <2>9, <2>10, <2>11, <2>12 DEF Orderly
  <1> QED
    <2>1. CASE \E action : /\ Finish(held, IF action = "PasteClipboard" THEN Focused ELSE 0)
                           /\ Dispatch(cleared, action)
      BY <1>3, <2>1
    <2> QED BY <1>4, <1>5, <2>1 DEF TerminalKey

\* A popup closed, and nothing else.
LEMMA CloseOrderly ==
  ASSUME UiType, Conserved, NoChordThere, NEW box, Only(Close(box)), NotTyped
  PROVE  Orderly
  <1>1. /\ DOMAIN ui' = UiFields /\ ui'.chord = ui.chord /\ ui'.held = ui.held
        /\ ui'.mode = ui.mode /\ ui'.open \subseteq ui.open
    BY DEF Only, Close, UiType, UiFields
  <1>2. Focused' = Focused BY DEF Only, uiTabs, Focused
  <1> QED BY <1>1, <1>2, StillOrderly DEF NoChordThere

\* A key on the command line.
LEMMA CommandOrderly ==
  ASSUME UiType, Conserved, NoChordThere, NEW u, StartsFrom(u), u.mode = "Command",
         NEW k, CommandKey(u, k), NotTyped
  PROVE  Orderly
  <1> DEFINE left == [[u EXCEPT !.mode = "Normal"] EXCEPT !.completing = FALSE]
  <1> USE DEF StartsFrom
  <1>1. ui.chord = <<>> BY DEF NoChordThere
  <1>2. Steady => ui.held = <<>> BY IsSeqLen DEF Steady, UiType
  <1>3. DOMAIN left = UiFields /\ left.chord = ui.chord /\ left.held = ui.held BY DEF UiFields
  <1>4. DOMAIN ui' = UiFields /\ ui'.chord = ui.chord /\ ui'.held = ui.held
    <2>1. CASE \E b \in BOOLEAN : Only([u EXCEPT !.completing = b])
      BY <2>1 DEF Only, UiFields
    <2>2. CASE Only(u) BY <2>2 DEF Only
    <2>3. CASE \E action : Dispatch(left, action) BY <1>3, <2>3, DispatchKeeps
    <2>4. CASE Only([u EXCEPT !.completing = FALSE]) \/ Only(left)
      BY <2>4 DEF Only, UiFields
    <2> QED BY <2>1, <2>2, <2>3, <2>4 DEF CommandKey
  <1> QED BY <1>1, <1>2, <1>4, ClearedOrderly

\* A key that no modal popup takes.
LEMMA PastHelpOrderly ==
  ASSUME UiType, Conserved, NoChordThere, NEW u, StartsFrom(u), NEW k, PastHelp(u, k)
  PROVE  Orderly
  BY NormalOrderly, TerminalOrderly, CommandOrderly, CloseOrderly DEF PastHelp, PromptKey

\* Any key.
LEMMA KeyOrderly ==
  ASSUME UiType, Conserved, NoChordThere, NEW k, Key(k)
  PROVE  Orderly
  <1> DEFINE closed == Close("help")
  <1>1. Takes("help") \/ (\A box \in ToSet(Modal) : box \notin ui.open) =>
          "palette" \notin ui.open
    BY DEF Takes, Modal, ToSet
  <1>2. "palette" \notin ui.open => StartsFrom(ui) /\ StartsFrom(closed)
    BY DEF StartsFrom, UiType, UiFields, Close
  <1>3. CASE \E box : PromptKey(box, k) /\ NotTyped
    BY <1>3, CloseOrderly DEF PromptKey
  <1>4. CASE Takes("palette") /\ PaletteKey(k) /\ NotTyped
    <2> DEFINE rest == Close("palette")
               line == [[rest EXCEPT !.mode = "Command"] EXCEPT !.completing = FALSE]
    <2>1. "palette" \in ui.open BY <1>4 DEF Takes
    <2>2. ui.chord = <<>> BY <2>1 DEF NoChordThere
    <2>3. Steady => ui.held = <<>> BY <2>2, IsSeqLen, IsSeqEmpty DEF Steady, UiType
    <2>4. /\ DOMAIN rest = UiFields /\ rest.chord = ui.chord /\ rest.held = ui.held
          /\ DOMAIN line = UiFields /\ line.chord = ui.chord /\ line.held = ui.held
      BY DEF Close, UiType, UiFields
    <2> HIDE DEF rest
    <2>5. CASE Only(rest) BY <1>4, <2>2, <2>3, <2>4, <2>5, ClearedOrderly DEF Only
    <2>6. CASE \E action : Dispatch(rest, action)
      BY <1>4, <2>2, <2>3, <2>4, <2>6, DispatchKeeps, ClearedOrderly
    <2>7. CASE Only(line)
      <3> HIDE DEF line
      <3> QED BY <1>4, <2>2, <2>3, <2>4, <2>7, ClearedOrderly DEF Only
    <2> QED BY <1>4, <2>5, <2>6, <2>7 DEF PaletteKey, rest
  <1>5. CASE Takes("help") /\ HelpKey(k)
    BY <1>1, <1>2, <1>5, CloseOrderly, PastHelpOrderly DEF HelpKey
  <1>6. CASE (\A box \in ToSet(Modal) : box \notin ui.open) /\ PastHelp(ui, k)
    BY <1>1, <1>2, <1>6, PastHelpOrderly
  <1> QED BY <1>3, <1>4, <1>5, <1>6 DEF Key

\* An event of the mouse or the background; strayed' says whether it disturbed a chord.
LEMMA EventOrderly ==
  ASSUME UiType, Conserved, NoChordThere, NotTyped, MayStray, strayed \in BOOLEAN,
         DOMAIN ui' = UiFields, ui'.chord = ui.chord, ui'.held = ui.held,
         ui'.mode = "Command" => ui.mode = "Command", ui'.open \subseteq ui.open,
         strayed = FALSE => Steady
  PROVE  /\ UiType' /\ Conserved' /\ NoChordThere' /\ strayed' \in BOOLEAN
         /\ strayed' = FALSE => Steady' /\ SentTrue'
  <1>1. done' = done /\ typed' = typed /\ sent' = <<>> BY DEF NotTyped
  <1>2. UiType' BY <1>1 DEF UiType
  <1>3. Conserved' BY <1>1 DEF Conserved
  <1>4. NoChordThere' BY DEF NoChordThere
  <1>5. SentTrue' BY <1>1 DEF SentTrue
  <1>6. /\ strayed' \in BOOLEAN
        /\ strayed' = FALSE => \/ ui.chord = <<>> /\ ui.held = <<>>
                               \/ strayed = FALSE /\ ui'.mode = ui.mode /\ Focused' = Focused
    BY Zenon DEF MayStray, Pending
  <1>7. ASSUME ui.chord = <<>>, ui.held = <<>> PROVE Steady'
    BY <1>7, IsSeqEmpty DEF Steady
  <1>8. ASSUME Steady, ui'.mode = ui.mode, Focused' = Focused PROVE Steady'
    BY <1>1, <1>8 DEF Steady
  <1> QED BY <1>2, <1>3, <1>4, <1>5, <1>6, <1>7, <1>8

\* The invariant of the keys holds always.
LEMMA KeysAlways == IfcSpec => []KeysInv
  <1>1. IfcInit => KeysInv
    <2> SUFFICES ASSUME IfcInit PROVE KeysInv
      OBVIOUS
    <2>1. DOMAIN ui = UiFields /\ ui.chord = <<>> /\ ui.held = <<>> BY DEF IfcInit, UiFields
    <2>2. sent = <<>> /\ done = 0 /\ typed = 0 /\ strayed = FALSE BY DEF IfcInit
    <2>3. UiType BY <2>1, <2>2, IsSeqEmpty DEF UiType
    <2>4. Conserved BY <2>1, <2>2, IsSeqEmpty DEF Conserved
    <2>5. NoChordThere BY <2>1 DEF NoChordThere
    <2>6. Steady BY <2>1, IsSeqEmpty DEF Steady
    <2>7. SentTrue BY <2>2 DEF SentTrue
    <2> QED BY <2>2, <2>3, <2>4, <2>5, <2>6, <2>7 DEF KeysInv
  <1>2. KeysInv /\ [IfcNext]_ifcVars => KeysInv'
    <2> SUFFICES ASSUME KeysInv, [IfcNext]_ifcVars PROVE KeysInv'
      OBVIOUS
    <2>0. /\ UiType /\ Conserved /\ NoChordThere /\ strayed \in BOOLEAN
          /\ strayed = FALSE => Steady
      BY DEF KeysInv
    <2>1. ASSUME NEW k \in Keys, Key(k) PROVE KeysInv'
      <3>1. Orderly BY <2>0, <2>1, KeyOrderly
      <3>2. strayed' = (strayed /\ Pending) BY <2>1 DEF Key
      <3>3. /\ strayed' \in BOOLEAN
            /\ strayed' = FALSE => \/ strayed = FALSE
                                   \/ ui.chord = <<>> /\ ui.held = <<>>
        BY <2>0, <3>2, Zenon DEF Pending
      <3>4. ui.chord = <<>> /\ ui.held = <<>> => Steady BY IsSeqEmpty DEF Steady
      <3> QED BY <2>0, <3>1, <3>3, <3>4 DEF Orderly, KeysInv
    <2>2. ASSUME NotTyped, MayStray, DOMAIN ui' = UiFields, ui'.chord = ui.chord,
                 ui'.held = ui.held, ui'.mode = "Command" => ui.mode = "Command",
                 ui'.open \subseteq ui.open
          PROVE  KeysInv'
      BY <2>0, <2>2, EventOrderly DEF KeysInv
    <2>3. CASE Mouse
      <3>1. NotTyped /\ MayStray BY <2>3 DEF Mouse
      <3>2. /\ DOMAIN ui' = UiFields /\ ui'.chord = ui.chord /\ ui'.held = ui.held
            /\ ui'.mode = "Command" => ui.mode = "Command"
            /\ ui'.open \subseteq ui.open
        <4> USE DEF UiFields
        <4>0. DOMAIN ui = UiFields BY <2>0 DEF UiType
        <4>1. CASE ClickClosesPopup BY <4>0, <4>1 DEF ClickClosesPopup, Only, Close
        <4>2. CASE ClickTab BY <4>0, <4>2 DEF ClickTab
        <4>3. CASE ClickTerminal BY <4>0, <4>3 DEF ClickTerminal, Only
        <4>4. CASE ClickSidebar
          <5> DEFINE u == [ui EXCEPT !.at = "Sidebar"]
          <5>1. /\ DOMAIN u = UiFields /\ u.chord = ui.chord /\ u.held = ui.held
                /\ u.mode = ui.mode /\ u.open = ui.open
            BY <4>0
          <5>2. ui' = u \/ ui' = [u EXCEPT !.mode = "Normal"]
            BY <4>4 DEF ClickSidebar, Only, ActivateWorktree
          <5> HIDE DEF u
          <5> QED BY <5>1, <5>2
        <4> QED BY <2>3, <4>1, <4>2, <4>3, <4>4 DEF Mouse
      <3> QED BY <2>2, <3>1, <3>2
    <2>4. CASE SessionSpawned \/ SessionExited \/ WorktreeGone
      <3>1. NotTyped /\ MayStray /\ ui' = ui
        BY <2>4 DEF SessionSpawned, SessionExited, WorktreeGone
      <3> QED BY <2>0, <2>2, <3>1 DEF UiType
    <2>5. CASE Paste
      <3>1. /\ ui' = ui /\ typed' = typed + 1 /\ done' = done + 1 /\ Focused' = Focused
            /\ sent' = <<[n |-> typed + 1, for |-> Focused, to |-> Focused]>>
            /\ strayed' = Pending
        BY <2>5 DEF Paste, uiTabs, Focused
      <3>2. IsSeq(ui.held) /\ Len(ui.held) \in Nat BY <2>0, IsSeqAppend DEF UiType
      <3>3. UiType' BY <2>0, <3>1 DEF UiType
      <3>4. Conserved'
        <4>1. PICK n \in Nat : n = Len(ui.held) BY <3>2
        <4>2. done + n = typed /\ done \in Nat BY <2>0, <4>1 DEF Conserved, UiType
        <4>3. done' + n = typed' BY <3>1, <4>2
        <4> QED BY <3>1, <4>1, <4>3 DEF Conserved
      <3>5. NoChordThere' BY <2>0, <3>1 DEF NoChordThere
      <3>6. strayed' \in BOOLEAN /\ (strayed' = FALSE => ui.chord = <<>> /\ ui.held = <<>>)
        BY <3>1, Zenon DEF Pending
      <3>7. ASSUME ui.chord = <<>>, ui.held = <<>> PROVE Steady' /\ SentTrue'
        <4>1. Steady' BY <3>1, <3>7, IsSeqEmpty DEF Steady
        <4>2. done = typed /\ done \in Nat BY <2>0, <3>7, IsSeqEmpty DEF Conserved, UiType
        <4>3. SentTrue' BY <3>1, <4>2 DEF SentTrue
        <4> QED BY <4>1, <4>3
      <3> QED BY <3>3, <3>4, <3>5, <3>6, <3>7 DEF KeysInv
    <2>6. CASE UNCHANGED ifcVars
      <3>1. UNCHANGED <<ui, sent, done, typed, strayed>> /\ Focused' = Focused
        BY <2>6 DEF ifcVars, uiTabs, uiTyping, Focused
      <3> QED BY <3>1 DEF KeysInv, UiType, Conserved, NoChordThere, Steady, SentTrue
    <2> QED BY <2>1, <2>3, <2>4, <2>5, <2>6 DEF IfcNext
  <1> QED BY <1>1, <1>2, PTL DEF IfcSpec

\* TypedKeysArrive of Interface: what is typed reaches the session it was typed in, once and
\* in order, or is held, unless the chord it is held for was disturbed.
THEOREM TypedKeysReachTheirSession == IfcSpec => []TypedKeysArrive
  <1>1. KeysInv => TypedKeysArrive
    <2> SUFFICES ASSUME KeysInv, strayed = FALSE PROVE TypedKeysArrive
      BY Zenon DEF KeysInv, TypedKeysArrive
    <2>1. Conserved /\ Steady /\ SentTrue BY DEF KeysInv
    <2> QED BY <2>1 DEF Conserved, Steady, SentTrue, TypedKeysArrive
  <1> QED BY <1>1, KeysAlways, PTL

-----------------------------------------------------------------------------
(* Configuration *)

\* The minimum of a set of numbers is one of them.
LEMMA LeastOf ==
  ASSUME NEW S \in SUBSET Nat, S # {}
  PROVE  \E x \in S : \A y \in S : x <= y
  <1> DEFINE R == OpToRel(<, Nat)
  <1>1. IsWellFoundedOn(R, Nat) BY NatLessThanWellFounded
  <1> HIDE DEF R
  <1>2. PICK x \in S : \A y \in S : ~(<<y, x>> \in R) BY <1>1, WFMin
  <1>3. \A y \in S : ~(y < x) BY <1>2 DEF R, OpToRel
  <1> QED BY <1>3

Entries == [id : Nat \ {0}, slug : Slugs]
Write(op, p) == [op |-> op, slug |-> p.slug, id |-> p.id]

CfgTypes ==
  /\ running \in BOOLEAN /\ failed \in BOOLEAN /\ opens \in Nat
  /\ shown \subseteq Entries /\ listed \subseteq Slugs
  /\ files \in [Slugs -> [id : Nat, ok : BOOLEAN]]
  /\ ~running => shown = {} /\ queue = <<>>

\* The writes that may be pending: the list, then or alone a project that is shown, or the
\* deletion of one that is not, then the list.
Saving(p) == queue \in {<<Global, Write("project", p)>>, <<Write("project", p)>>}
Deleting(p) == queue = <<Write("delete", p), Global>>
Gone(p) ==
  /\ \A q \in shown : q.slug # p.slug /\ q.id # p.id
  /\ \A s \in Slugs : files[s].id = p.id => s = p.slug
Queued ==
  \/ queue = <<>> \/ queue = <<Global>>
  \/ \E p \in shown : Saving(p)
  \/ \E p \in Entries : Deleting(p) /\ Gone(p)
Relists == \E j \in DOMAIN queue : queue[j] = Global

\* A project has one slug and a slug one project.
Owners ==
  /\ \A p, q \in shown : p.slug = q.slug \/ p.id = q.id => p = q
  /\ \A p \in shown : p.id <= opens /\ \A s \in Slugs : files[s].id = p.id => s = p.slug
  /\ \A s \in Slugs : files[s].id <= opens
  /\ \A s, t \in Slugs : files[s].id = files[t].id /\ files[s].id # 0 => s = t

\* A removed project has left the screen and the disk, or its deletion is pending or failed.
Removals ==
  /\ removed \subseteq 1 .. opens
  /\ \A p \in shown : p.id \in removed => p.id \in undeleted
  /\ \A s \in Slugs : files[s].id \in removed =>
       files[s].id \in undeleted \/ Deleting([id |-> files[s].id, slug |-> s])

\* A project that was written is on screen, and listed with its file.
Kept(k) ==
  /\ running => k \in Ids(shown)
  /\ \E s \in listed : IsValidSlug(s) /\ files[s].id = k
Durables == 0 \notin durable /\ \A k \in durable \ (removed \cup unreadable) : Kept(k)

\* The files of the projects shown, and the list, are right or about to be.
Stored(p) == files[p.slug] = [id |-> p.id, ok |-> TRUE]
ListsShown == listed = SlugsOf(shown)
Valid == {p \in shown : IsValidSlug(p.slug)}
Restored == LoadOrDefault = Valid /\ \A p \in Valid : Stored(p)
Restorable ==
  running /\ ~failed =>
    /\ \A p \in Valid : Stored(p) \/ Saving(p)
    /\ Relists \/ \A p \in shown : p.slug \in listed
    /\ Relists \/ ListsShown \/ Restored

CfgInv == CfgTypes /\ Queued /\ Owners /\ Removals /\ Durables /\ Restorable

\* What is loaded: the valid, readable files of the list.
LEMMA LoadedAre ==
  ASSUME CfgTypes
  PROVE  /\ LoadOrDefault \subseteq Entries
         /\ \A p \in LoadOrDefault : /\ p.slug \in listed /\ IsValidSlug(p.slug)
                                     /\ files[p.slug] = [id |-> p.id, ok |-> TRUE]
                                     /\ p.id = files[p.slug].id
         /\ \A s \in listed : Loadable(s) =>
              \E p \in LoadOrDefault : p.slug = s /\ p.id = files[s].id
         /\ \A p, q \in LoadOrDefault : p.slug = q.slug => p = q
  <1>1. ASSUME NEW s \in listed, Loadable(s), NEW p, p = [id |-> files[s].id, slug |-> s]
        PROVE  /\ p \in Entries /\ p.slug = s /\ p.id = files[s].id
               /\ IsValidSlug(s) /\ files[s] = [id |-> p.id, ok |-> TRUE]
    <2>1. s \in Slugs /\ files[s] \in [id : Nat, ok : BOOLEAN] BY DEF CfgTypes
    <2>2. IsValidSlug(s) /\ files[s].id # 0 /\ files[s].ok BY <1>1 DEF Loadable
    <2>3. p.slug = s /\ p.id = files[s].id BY <1>1
    <2>4. files[s] = [id |-> files[s].id, ok |-> TRUE] BY <2>1, <2>2
    <2>5. files[s].id \in Nat \ {0} BY <2>1, <2>2
    <2>6. p \in Entries BY <1>1, <2>1, <2>5 DEF Entries
    <2> QED BY <2>2, <2>3, <2>4, <2>6
  <1>2. ASSUME NEW p \in LoadOrDefault
        PROVE  \E s \in listed : Loadable(s) /\ p = [id |-> files[s].id, slug |-> s]
    BY DEF LoadOrDefault
  <1>3. ASSUME NEW s \in listed, Loadable(s)
        PROVE  [id |-> files[s].id, slug |-> s] \in LoadOrDefault
    BY <1>3 DEF LoadOrDefault
  <1>4. ASSUME NEW p \in LoadOrDefault
        PROVE  /\ p \in Entries /\ p.slug \in listed /\ IsValidSlug(p.slug)
               /\ files[p.slug] = [id |-> p.id, ok |-> TRUE]
               /\ p.id = files[p.slug].id
               /\ p = [id |-> files[p.slug].id, slug |-> p.slug]
    <2>1. PICK s \in listed : Loadable(s) /\ p = [id |-> files[s].id, slug |-> s] BY <1>2
    <2>2. /\ p \in Entries /\ p.slug = s /\ p.id = files[s].id
          /\ IsValidSlug(s) /\ files[s] = [id |-> p.id, ok |-> TRUE]
      BY <1>1, <2>1
    <2> QED BY <2>1, <2>2
  <1>5. ASSUME NEW s \in listed, Loadable(s)
        PROVE  \E p \in LoadOrDefault : p.slug = s /\ p.id = files[s].id
    <2>1. PICK p : p = [id |-> files[s].id, slug |-> s] OBVIOUS
    <2>2. p \in LoadOrDefault BY <1>3, <1>5, <2>1
    <2>3. p.slug = s /\ p.id = files[s].id BY <1>1, <1>5, <2>1
    <2> QED BY <2>2, <2>3
  <1>6. ASSUME NEW p \in LoadOrDefault, NEW q \in LoadOrDefault, p.slug = q.slug PROVE p = q
    BY <1>4, <1>6
  <1>7. LoadOrDefault \subseteq Entries BY <1>4
  <1> QED BY <1>4, <1>5, <1>6, <1>7

\* A list of what is shown, with the files in place, loads what is shown.
LEMMA ListedLoads ==
  ASSUME CfgTypes, Owners, ListsShown, \A p \in Valid : Stored(p)
  PROVE  LoadOrDefault = Valid
  <1>1. ASSUME NEW p \in LoadOrDefault PROVE p \in Valid
    <2>1. /\ p \in Entries /\ p.slug \in listed /\ IsValidSlug(p.slug)
          /\ p.id = files[p.slug].id
      BY LoadedAre
    <2>2. PICK q \in shown : q.slug = p.slug BY <2>1 DEF ListsShown, SlugsOf
    <2>3. q \in Valid BY <2>1, <2>2 DEF Valid
    <2>4. files[q.slug] = [id |-> q.id, ok |-> TRUE] BY <2>3 DEF Stored
    <2>5. q.id = p.id BY <2>1, <2>2, <2>4
    <2>6. q \in Entries BY DEF CfgTypes
    <2>7. q = p BY <2>1, <2>2, <2>5, <2>6 DEF Entries
    <2> QED BY <2>3, <2>7
  <1>2. ASSUME NEW q \in Valid PROVE q \in LoadOrDefault
    <2>1. q \in shown /\ q \in Entries /\ IsValidSlug(q.slug) /\ q.slug \in listed
      BY DEF Valid, CfgTypes, ListsShown, SlugsOf
    <2>2. files[q.slug] = [id |-> q.id, ok |-> TRUE] BY DEF Stored
    <2>3. q.id # 0 BY <2>1 DEF Entries
    <2>4. Loadable(q.slug)
      <3>1. files[q.slug].id = q.id /\ files[q.slug].ok = TRUE BY <2>2
      <3> QED BY <2>1, <2>3, <3>1 DEF Loadable
    <2>5. PICK p \in LoadOrDefault : p.slug = q.slug /\ p.id = files[q.slug].id
      BY <2>1, <2>4, LoadedAre
    <2>6. p \in Entries BY LoadedAre
    <2>7. p.id = q.id BY <2>2, <2>5
    <2>8. p = q BY <2>1, <2>5, <2>6, <2>7 DEF Entries
    <2> QED BY <2>5, <2>8
  <1> QED BY <1>1, <1>2

\* What is loaded depends on the files with valid slugs only.
LEMMA LoadsSame ==
  ASSUME CfgTypes, listed' = listed,
         \A s \in Slugs : IsValidSlug(s) => files'[s] = files[s]
  PROVE  LoadOrDefault' = LoadOrDefault
  <1> DEFINE I == {s \in listed : Loadable(s)}
             J == {s \in listed : IsValidSlug(s) /\ files'[s].id # 0 /\ files'[s].ok}
  <1>1. listed \subseteq Slugs BY DEF CfgTypes
  <1>2. I = J BY <1>1 DEF Loadable
  <1>3. \A s \in I : files'[s] = files[s] BY <1>1 DEF Loadable
  <1>4. LoadOrDefault = {[id |-> files[s].id, slug |-> s] : s \in I} BY DEF LoadOrDefault
  <1>5. LoadOrDefault' = {[id |-> files'[s].id, slug |-> s] : s \in J}
    BY DEF LoadOrDefault, Loadable, IsValidSlug
  <1> HIDE DEF I, J
  <1> QED BY <1>2, <1>3, <1>4, <1>5

\* The pending writes, first and rest.
LEMMA QueueHas ==
  /\ Global.op = "global"
  /\ \A p : \A op : Write(op, p).op = op /\ Write(op, p).slug = p.slug /\ Write(op, p).id = p.id
  /\ \A p : Saving(p) => queue # <<>>
  /\ \A p : Deleting(p) => /\ queue # <<>> /\ Head(queue) = Write("delete", p)
                           /\ Tail(queue) = <<Global>> /\ Relists
  /\ queue = <<Global>> => Head(queue) = Global /\ Tail(queue) = <<>>
  /\ \A p : queue = <<Write("project", p)>> =>
       Head(queue) = Write("project", p) /\ Tail(queue) = <<>> /\ ~Relists
  /\ \A p : queue = <<Global, Write("project", p)>> =>
       Head(queue) = Global /\ Tail(queue) = <<Write("project", p)>> /\ Relists
  /\ queue = <<>> => ~Relists /\ \A p : ~Saving(p) /\ ~Deleting(p)
  <1>1. Global.op = "global" BY DEF Global
  <1>2. \A p : \A op : Write(op, p).op = op /\ Write(op, p).slug = p.slug /\ Write(op, p).id = p.id
    BY DEF Write
  <1>3. ASSUME NEW p PROVE Saving(p) => queue # <<>> BY DEF Saving
  <1>4. ASSUME NEW p, Deleting(p)
        PROVE  /\ queue # <<>> /\ Head(queue) = Write("delete", p) /\ Tail(queue) = <<Global>>
               /\ Relists
    <2> DEFINE w == Write("delete", p)
    <2>1. queue = <<w, Global>> BY <1>4 DEF Deleting
    <2> HIDE DEF w
    <2>2. queue[2] = Global /\ 2 \in DOMAIN queue BY <2>1
    <2>3. queue # <<>> /\ Head(queue) = w /\ Tail(queue) = <<Global>> BY <2>1
    <2> QED BY <2>2, <2>3 DEF w, Relists
  <1>5. queue = <<Global>> => Head(queue) = Global /\ Tail(queue) = <<>> OBVIOUS
  <1>6. ASSUME NEW p, queue = <<Write("project", p)>>
        PROVE  Head(queue) = Write("project", p) /\ Tail(queue) = <<>> /\ ~Relists
    <2> DEFINE w == Write("project", p)
    <2>1. w # Global BY <1>1, <1>2
    <2>2. queue = <<w>> BY <1>6
    <2> HIDE DEF w
    <2>3. DOMAIN queue = {1} /\ queue[1] = w BY <2>2
    <2>4. Head(queue) = w /\ Tail(queue) = <<>> BY <2>2
    <2> QED BY <2>1, <2>3, <2>4 DEF w, Relists
  <1>7. ASSUME NEW p, queue = <<Global, Write("project", p)>>
        PROVE  Head(queue) = Global /\ Tail(queue) = <<Write("project", p)>> /\ Relists
    <2> DEFINE w == Write("project", p)
    <2>1. queue = <<Global, w>> BY <1>7
    <2> HIDE DEF w
    <2>2. Head(queue) = Global /\ Tail(queue) = <<w>> BY <2>1
    <2>3. 1 \in DOMAIN queue /\ queue[1] = Global BY <2>1
    <2> QED BY <2>2, <2>3 DEF w, Relists
  <1>8. queue = <<>> => ~Relists /\ \A p : ~Saving(p) /\ ~Deleting(p)
    BY DEF Relists, Saving, Deleting
  <1> QED BY <1>1, <1>2, <1>3, <1>4, <1>5, <1>6, <1>7, <1>8

\* A start shows what loads, which is what a restart would show.
LEMMA StartKeeps ==
  ASSUME CfgInv, Start
  PROVE  CfgInv'
  <1> DEFINE t == LoadOrDefault
  <1> USE DEF CfgInv
  <1>1. /\ shown' = t /\ running' = TRUE /\ failed' = FALSE /\ queue' = <<>> /\ queue = <<>>
        /\ UNCHANGED <<listed, files, opens, durable, removed, undeleted>>
        /\ unreadable' = unreadable \cup
             {files[slug].id : slug \in {s \in listed : ~files[s].ok}}
    BY DEF Start, CfgTypes, counts
  <1>2. /\ t \subseteq Entries
        /\ \A p \in t : /\ p.slug \in listed /\ IsValidSlug(p.slug)
                        /\ files[p.slug] = [id |-> p.id, ok |-> TRUE]
                        /\ p.id = files[p.slug].id
        /\ \A s \in listed : Loadable(s) => \E p \in t : p.slug = s /\ p.id = files[s].id
        /\ \A p, q \in t : p.slug = q.slug => p = q
    BY LoadedAre
  <1> HIDE DEF t
  <1>3. \A p \in t : p.slug \in Slugs /\ p.id = files[p.slug].id /\ p.id # 0
    BY <1>2 DEF Entries
  <1>4. CfgTypes' BY <1>1, <1>2 DEF CfgTypes
  <1>5. Queued' BY <1>1 DEF Queued
  <1>6. Owners'
    <2>0. /\ \A s \in Slugs : files[s].id <= opens
          /\ \A s, u \in Slugs : files[s].id = files[u].id /\ files[s].id # 0 => s = u
      BY DEF Owners
    <2>1. \A p, q \in t : p.id = q.id => p.slug = q.slug BY <1>3, <2>0
    <2>2. \A p, q \in t : p.slug = q.slug => p = q BY <1>2
    <2>3. \A p \in t : p.id <= opens /\ \A s \in Slugs : files[s].id = p.id => s = p.slug
      BY <1>3, <2>0
    <2> QED BY <1>1, <2>1, <2>2, <2>3 DEF Owners
  <1>7. Removals'
    <2>1. \A p : ~Deleting(p) BY <1>1, QueueHas
    <2>2. \A s \in Slugs : files[s].id \in removed => files[s].id \in undeleted
      BY <2>1 DEF Removals
    <2>3. \A p \in t : p.id \in removed => p.id \in undeleted BY <1>3, <2>2
    <2> QED BY <1>1, <2>2, <2>3 DEF Removals
  <1>8. Durables'
    <2> SUFFICES ASSUME NEW k \in durable, k \notin removed, k \notin unreadable' PROVE Kept(k)'
      BY <1>1 DEF Durables
    <2>1. k # 0 /\ Kept(k) BY <1>1 DEF Durables
    <2>2. PICK s \in listed : IsValidSlug(s) /\ files[s].id = k BY <2>1 DEF Kept
    <2>3. files[s].ok
      <3> SUFFICES ASSUME ~files[s].ok PROVE FALSE
        OBVIOUS
      <3> QED BY <1>1, <2>2
    <2>4. Loadable(s) BY <2>1, <2>2, <2>3 DEF Loadable
    <2>5. PICK p \in t : p.slug = s /\ p.id = files[s].id BY <1>2, <2>4
    <2>6. k \in Ids(shown)' BY <1>1, <2>2, <2>5 DEF Ids
    <2> QED BY <1>1, <2>2, <2>6 DEF Kept, IsValidSlug
  <1>9. Restorable'
    <2>1. Valid' = t BY <1>1, <1>2 DEF Valid, IsValidSlug
    <2>2. \A p \in t : Stored(p)' BY <1>1, <1>2 DEF Stored
    <2>3. LoadOrDefault' = t
      <3>1. \A s \in Slugs : files'[s] = files[s] BY <1>1
      <3> QED BY <1>1, <3>1, LoadsSame DEF t
    <2>4. Restored' BY <2>1, <2>2, <2>3 DEF Restored
    <2>5. \A p \in t : p.slug \in listed BY <1>2
    <2> QED BY <1>1, <2>1, <2>2, <2>4, <2>5 DEF Restorable
  <1> QED BY <1>4, <1>5, <1>6, <1>7, <1>8, <1>9

\* While projects may be opened there is a free slug, and the one chosen is free.
LEMMA FreeSlugIs ==
  ASSUME CfgTypes, Owners, opens < MaxOpens, NEW name \in Names
  PROVE  FreeSlug(name) \in Slugs /\ \A p \in shown : p.slug # FreeSlug(name)
  <1> DEFINE taken == SlugsOf(shown)
             m == MaxOpens
             F == {n \in 1 .. m : <<name, n>> \notin taken}
  <1>0. m \in Nat /\ opens \in Nat /\ opens < m BY ConfigAssumption DEF CfgTypes
  <1>1. F # {}
    <2> SUFFICES ASSUME F = {} PROVE FALSE
      OBVIOUS
    <2> DEFINE At(n) == CHOOSE p \in shown : p.slug = <<name, n>>
               f == [n \in 1 .. m |-> At(n).id]
    <2>1. \A n \in 1 .. m : At(n) \in shown /\ At(n).slug = <<name, n>>
      <3> TAKE n \in 1 .. m
      <3>1. \E p \in shown : p.slug = <<name, n>> BY DEF SlugsOf
      <3> QED BY <3>1
    <2>2. \A p \in shown : p.id \in 1 .. opens
      <3> TAKE p \in shown
      <3>1. p.id \in Nat \ {0} BY DEF CfgTypes, Entries
      <3>2. p.id <= opens BY DEF Owners
      <3> QED BY <1>0, <3>1, <3>2
    <2> HIDE DEF At
    <2>3. f \in [1 .. m -> 1 .. opens] BY <2>1, <2>2
    <2> DEFINE S == 1 .. m
               T == 1 .. opens
    <2>4. IsFiniteSet(S) /\ Cardinality(S) = m /\ IsFiniteSet(T) /\ Cardinality(T) = opens
      <3> HIDE DEF m
      <3>1. m \in Int /\ opens \in Int /\ 1 \in Int BY <1>0
      <3>2. IsFiniteSet(S) /\ Cardinality(S) = IF 1 > m THEN 0 ELSE m - 1 + 1
        BY <3>1, FS_Interval
      <3>3. IsFiniteSet(T) /\ Cardinality(T) = IF 1 > opens THEN 0 ELSE opens - 1 + 1
        BY <3>1, FS_Interval
      <3> QED BY <1>0, <3>2, <3>3
    <2>5. PICK k, l \in S : k # l /\ f[k] = f[l]
      <3>1. f \in [S -> T] BY <2>3
      <3> SUFFICES \E k, l \in S : k # l /\ f[k] = f[l]
        OBVIOUS
      <3> HIDE DEF f, S, T, m
      <3>2. Cardinality(T) < Cardinality(S) BY <1>0, <2>4
      <3> QED BY <2>4, <3>1, <3>2, FS_PigeonHole
    <2>6. At(k).id = At(l).id BY <2>5
    <2>7. At(k) = At(l) BY <2>1, <2>5, <2>6 DEF Owners
    <2>8. <<name, k>> = <<name, l>> BY <2>1, <2>5, <2>7
    <2> QED BY <2>5, <2>8
  <1>2. F \in SUBSET Nat BY <1>0
  <1>3. PICK n \in F : \A k \in F : n <= k
    <2> HIDE DEF F
    <2> QED BY <1>1, <1>2, LeastOf
  <1>4. n \in 1 .. m /\ <<name, n>> \notin taken BY <1>3
  <1>5. \A k \in 1 .. n - 1 : <<name, k>> \in taken
    <2> SUFFICES ASSUME NEW k \in 1 .. n - 1, <<name, k>> \notin taken PROVE FALSE
      OBVIOUS
    <2> HIDE DEF m, taken
    <2>1. k \in 1 .. m /\ k < n BY <1>0, <1>4
    <2>2. k \in F BY <2>1
    <2> QED BY <1>0, <1>3, <1>4, <2>1, <2>2
  <1> DEFINE c == CHOOSE x \in 1 .. MaxOpens :
                    /\ <<name, x>> \notin taken
                    /\ \A y \in 1 .. x - 1 : <<name, y>> \in taken
  <1> HIDE DEF F, taken
  <1>6. c \in 1 .. MaxOpens /\ <<name, c>> \notin taken BY <1>4, <1>5
  <1>7. FreeSlug(name) = <<name, c>> BY DEF FreeSlug, taken
  <1> HIDE DEF c
  <1> QED BY <1>6, <1>7 DEF Slugs, SlugsOf, taken

\* A project that is opened has a number and a slug of its own.
LEMMA OpenKeeps ==
  ASSUME CfgInv, NEW name \in Names, OpenProjectAs(name)
  PROVE  CfgInv'
  <1> USE DEF CfgInv
  <1>0. PICK p : p = [id |-> opens + 1, slug |-> FreeSlug(name)] OBVIOUS
  <1>1. /\ shown' = shown \cup {p} /\ queue' = <<Global, Write("project", p)>>
        /\ opens' = opens + 1 /\ opens < MaxOpens /\ running = TRUE /\ queue = <<>>
        /\ UNCHANGED <<running, listed, files, durable, removed, undeleted, unreadable, failed>>
    BY <1>0 DEF OpenProjectAs, Idle, history, CfgTypes, Write
  <1>2. FreeSlug(name) \in Slugs /\ \A q \in shown : q.slug # FreeSlug(name)
    BY <1>1, FreeSlugIs
  <1>3. p \in Entries /\ p.id = opens + 1 /\ p.slug = FreeSlug(name)
    BY <1>0, <1>2 DEF Entries, CfgTypes
  <1>4. \A q \in shown : q \in Entries /\ q.id \in Nat /\ q \in shown'
    BY <1>1 DEF CfgTypes, Entries
  <1>5. CfgTypes' BY <1>1, <1>3 DEF CfgTypes
  <1>6. Saving(p)' BY <1>1 DEF Saving, Write
  <1>7. Queued' BY <1>1, <1>6 DEF Queued
  <1>8. opens \in Nat /\ \A s \in Slugs : files[s].id <= opens /\ files[s].id \in Nat
    BY DEF CfgTypes, Owners
  <1>9. Owners'
    <2>1. \A q \in shown : q.slug # p.slug /\ q.id <= opens /\ q.id # p.id
      BY <1>2, <1>3, <1>4, <1>8 DEF Owners
    <2>2. \A q, u \in shown' : q.slug = u.slug \/ q.id = u.id => q = u
      BY <1>1, <2>1 DEF Owners
    <2>3. \A s \in Slugs : files[s].id # p.id BY <1>3, <1>8
    <2>4. \A q \in shown' : /\ q.id <= opens + 1
                            /\ \A s \in Slugs : files[s].id = q.id => s = q.slug
      <3>1. \A q \in shown : q.id <= opens + 1 BY <1>4, <1>8, <2>1
      <3>2. p.id <= opens + 1 BY <1>3, <1>8
      <3> QED BY <1>1, <2>3, <3>1, <3>2 DEF Owners
    <2>5. \A s \in Slugs : files[s].id <= opens + 1 BY <1>8
    <2> QED BY <1>1, <2>2, <2>4, <2>5 DEF Owners
  <1>10. Removals'
    <2>1. \A k \in removed : k \in 1 .. opens + 1 /\ k # opens + 1
      <3>1. removed \subseteq 1 .. opens BY DEF Removals
      <3> QED BY <1>8, <3>1
    <2>2. \A q \in shown' : q.id \in removed => q.id \in undeleted
      BY <1>1, <1>3, <2>1 DEF Removals
    <2>3. \A s \in Slugs : files[s].id \in removed => files[s].id \in undeleted
      BY <1>1, QueueHas DEF Removals
    <2> QED BY <1>1, <2>1, <2>2, <2>3 DEF Removals
  <1>11. Durables'
    <2> SUFFICES ASSUME NEW k \in durable, k \notin removed, k \notin unreadable PROVE Kept(k)'
      BY <1>1 DEF Durables
    <2>1. Kept(k) BY DEF Durables
    <2>2. k \in Ids(shown)' BY <1>1, <2>1 DEF Ids, Kept
    <2> QED BY <1>1, <2>1, <2>2 DEF Kept, IsValidSlug
  <1>12. Restorable'
    <2>1. ASSUME ~failed, NEW q \in Valid' PROVE Stored(q)' \/ Saving(q)'
      <3>1. CASE q \in shown
        <4>1. q \in Valid BY <2>1, <3>1 DEF Valid, IsValidSlug
        <4>2. Stored(q) BY <1>1, <2>1, <4>1, QueueHas DEF Restorable
        <4> QED BY <1>1, <4>2 DEF Stored
      <3>2. CASE q = p BY <1>6, <3>2
      <3> QED BY <1>1, <3>1, <3>2 DEF Valid
    <2>2. Relists'
      <3>1. 1 \in DOMAIN queue' /\ queue'[1] = Global BY <1>1
      <3> QED BY <3>1 DEF Relists
    <2> QED BY <1>1, <2>1, <2>2 DEF Restorable
  <1> QED BY <1>5, <1>7, <1>9, <1>10, <1>11, <1>12

\* A change of a project or of the settings is written where it was.
LEMMA ChangeKeeps ==
  ASSUME CfgInv, ChangeSettings \/ \E p \in shown : ChangeProject(p)
  PROVE  CfgInv'
  <1> USE DEF CfgInv
  <1>1. /\ queue = <<>> /\ running = TRUE
        /\ UNCHANGED <<running, shown, listed, files, opens, durable, removed, undeleted,
                       unreadable, failed>>
        /\ \/ queue' = <<Global>>
           \/ \E p \in shown : queue' = <<Write("project", p)>>
    BY DEF ChangeSettings, ChangeProject, Idle, counts, history, CfgTypes, Write
  <1>2. CfgTypes' BY <1>1 DEF CfgTypes
  <1>3. Queued'
    <2>1. ASSUME NEW p \in shown, queue' = <<Write("project", p)>> PROVE Queued'
      <3>1. Saving(p)' BY <2>1 DEF Saving, Write
      <3> QED BY <1>1, <3>1 DEF Queued
    <2> QED BY <1>1, <2>1 DEF Queued
  <1>4. Owners' BY <1>1 DEF Owners
  <1>5. \A p : ~Saving(p) /\ ~Deleting(p) BY <1>1, QueueHas
  <1>6. Removals' BY <1>1, <1>5 DEF Removals
  <1>7. Durables' BY <1>1 DEF Durables, Kept, Ids, IsValidSlug
  <1>8. Restorable'
    <2>1. ~Relists BY <1>1, QueueHas
    <2>2. LoadOrDefault' = LoadOrDefault
      <3>1. \A s \in Slugs : files'[s] = files[s] BY <1>1
      <3> QED BY <1>1, <3>1, LoadsSame
    <2>3. Valid' = Valid BY <1>1 DEF Valid, IsValidSlug
    <2>4. \A p \in Valid : Stored(p)' <=> Stored(p) BY <1>1 DEF Stored
    <2>5. Restored => Restored' BY <1>1, <2>2, <2>3, <2>4 DEF Restored
    <2>6. ListsShown => ListsShown' BY <1>1 DEF ListsShown, SlugsOf
    <2>7. ASSUME running, ~failed
          PROVE  /\ \A p \in Valid : Stored(p)
                 /\ \A p \in shown : p.slug \in listed
                 /\ ListsShown \/ Restored
      BY <1>5, <2>1, <2>7 DEF Restorable
    <2> QED BY <1>1, <2>3, <2>4, <2>5, <2>6, <2>7 DEF Restorable
  <1> QED BY <1>2, <1>3, <1>4, <1>6, <1>7, <1>8

\* A project that is removed leaves the screen, with its deletion pending.
LEMMA RemoveKeeps ==
  ASSUME CfgInv, NEW p \in shown, RemoveShown(p)
  PROVE  CfgInv'
  <1> USE DEF CfgInv
  <1>1. /\ queue = <<>> /\ running = TRUE
        /\ shown' = shown \ {p} /\ queue' = <<Write("delete", p), Global>>
        /\ removed' = removed \cup {p.id}
        /\ UNCHANGED <<running, listed, files, opens, durable, undeleted, unreadable, failed>>
    BY DEF RemoveShown, Idle, counts, CfgTypes, Write
  <1>2. p \in Entries BY DEF CfgTypes
  <1>4. \A q, u \in shown : q.slug = u.slug \/ q.id = u.id => q = u BY DEF Owners
  <1>5. p.id <= opens /\ \A s \in Slugs : files[s].id = p.id => s = p.slug BY DEF Owners
  <1>6. CfgTypes' BY <1>1 DEF CfgTypes
  <1>7. Deleting(p)' BY <1>1 DEF Deleting, Write
  <1>8. \A q \in shown' : q \in shown /\ q.slug # p.slug /\ q.id # p.id BY <1>1, <1>4
  <1>9. Queued'
    <2>1. Gone(p)' BY <1>1, <1>5, <1>8 DEF Gone
    <2> QED BY <1>2, <1>7, <2>1 DEF Queued
  <1>10. Owners' BY <1>1, <1>8 DEF Owners
  <1>11. Removals'
    <2>1. p.id \in 1 .. opens
      <3>1. p.id \in Nat \ {0} BY <1>2 DEF Entries
      <3>2. p.id <= opens /\ opens \in Nat BY <1>5 DEF CfgTypes
      <3> QED BY <3>1, <3>2
    <2>2. removed' \subseteq 1 .. opens' BY <1>1, <2>1 DEF Removals
    <2>3. \A q \in shown' : q.id \in removed' => q.id \in undeleted'
      BY <1>1, <1>8 DEF Removals
    <2>4. ASSUME NEW s \in Slugs, files'[s].id \in removed'
          PROVE  files'[s].id \in undeleted' \/ Deleting([id |-> files[s].id, slug |-> s])'
      <3>1. CASE files[s].id = p.id
        <4>1. s = p.slug BY <1>5, <3>1
        <4>2. p = [id |-> p.id, slug |-> p.slug] BY <1>2 DEF Entries
        <4>3. PICK q : q = [id |-> files[s].id, slug |-> s] OBVIOUS
        <4>4. q = [id |-> files'[s].id, slug |-> s] BY <1>1, <4>3
        <4>5. q = p BY <3>1, <4>1, <4>2, <4>3
        <4> QED BY <1>7, <4>4, <4>5
      <3>2. CASE files[s].id # p.id
        <4>1. ~Deleting([id |-> files[s].id, slug |-> s]) BY <1>1, QueueHas
        <4>2. files[s].id \in removed BY <1>1, <2>4, <3>2
        <4> QED BY <1>1, <4>1, <4>2 DEF Removals
      <3> QED BY <3>1, <3>2
    <2> QED BY <2>2, <2>3, <2>4 DEF Removals
  <1>12. Durables'
    <2> SUFFICES ASSUME NEW k \in durable, k \notin removed, k # p.id, k \notin unreadable
                 PROVE  Kept(k)'
      BY <1>1 DEF Durables
    <2>1. Kept(k) BY DEF Durables
    <2>2. PICK q \in shown : q.id = k BY <1>1, <2>1 DEF Kept, Ids
    <2>3. k \in Ids(shown)' BY <1>1, <2>2 DEF Ids
    <2> QED BY <1>1, <2>1, <2>3 DEF Kept, IsValidSlug
  <1>13. Restorable'
    <2>1. Relists'
      <3>1. 2 \in DOMAIN queue' /\ queue'[2] = Global BY <1>1
      <3> QED BY <3>1 DEF Relists
    <2>2. ASSUME ~failed, NEW q \in Valid' PROVE Stored(q)'
      <3>1. q \in Valid BY <1>1, <2>2 DEF Valid, IsValidSlug
      <3>2. Stored(q) BY <1>1, <2>2, <3>1, QueueHas DEF Restorable
      <3> QED BY <1>1, <3>2 DEF Stored
    <2> QED BY <1>1, <2>1, <2>2 DEF Restorable
  <1> QED BY <1>6, <1>9, <1>10, <1>11, <1>12, <1>13

\* The list is written as it is shown.
LEMMA ListKeeps ==
  ASSUME CfgInv, Commit, Head(queue) = Global,
         queue = <<Global>> \/ \E p \in Entries : queue = <<Global, Write("project", p)>>
  PROVE  CfgInv'
  <1> USE DEF CfgInv
  <1>1. /\ queue # <<>> /\ queue' = Tail(queue)
        /\ listed' = SlugsOf(shown)
        /\ UNCHANGED <<running, shown, files, opens, durable, removed, undeleted, unreadable,
                       failed>>
    BY QueueHas DEF Commit, counts
  <1>2. running = TRUE BY <1>1 DEF CfgTypes
  <1>3. \A p \in shown : p.slug \in listed' BY <1>1 DEF SlugsOf
  <1>6. CfgTypes'
    <2>1. listed' \subseteq Slugs BY <1>1 DEF SlugsOf, CfgTypes, Entries
    <2> QED BY <1>1, <1>2, <2>1 DEF CfgTypes
  <1>7. ASSUME NEW p, Saving(p) PROVE Saving(p)'
    <2>1. queue # <<Write("project", p)>>
      <3>1. Write("project", p) # Global BY QueueHas
      <3> QED BY <3>1, QueueHas
    <2>2. queue = <<Global, Write("project", p)>> BY <1>7, <2>1 DEF Saving
    <2>3. queue' = <<Write("project", p)>> BY <1>1, <2>2, QueueHas
    <2> QED BY <2>3 DEF Saving, Write
  <1>8. \A p : ~Deleting(p)
    <2> SUFFICES ASSUME NEW p, Deleting(p) PROVE FALSE
      OBVIOUS
    <2>1. Write("delete", p).op = "delete" /\ Head(queue) = Write("delete", p) BY QueueHas
    <2> QED BY <2>1, QueueHas
  <1>9. Queued'
    <2>1. CASE queue = <<Global>> BY <1>1, <2>1, QueueHas DEF Queued
    <2>2. CASE queue # <<Global>>
      <3>1. queue # <<>> BY <1>1
      <3>2. PICK p \in shown : Saving(p) BY <1>8, <2>2, <3>1 DEF Queued
      <3>3. Saving(p)' BY <1>7, <3>2
      <3> QED BY <1>1, <3>3 DEF Queued
    <2> QED BY <2>1, <2>2
  <1>10. Owners' BY <1>1 DEF Owners
  <1>11. Removals'
    <2>1. \A s \in Slugs : files[s].id \in removed => files[s].id \in undeleted
      BY <1>8 DEF Removals
    <2> QED BY <1>1, <2>1 DEF Removals
  <1>12. Durables'
    <2> SUFFICES ASSUME NEW k \in durable, k \notin removed, k \notin unreadable PROVE Kept(k)'
      BY <1>1 DEF Durables
    <2>1. Kept(k) BY DEF Durables
    <2>2. PICK p \in shown : p.id = k BY <1>2, <2>1 DEF Kept, Ids
    <2>3. PICK s \in listed : IsValidSlug(s) /\ files[s].id = k BY <2>1 DEF Kept
    <2>4. s \in Slugs BY DEF CfgTypes
    <2>5. s = p.slug BY <2>2, <2>3, <2>4 DEF Owners
    <2>6. s \in listed' BY <1>3, <2>5
    <2>7. k \in Ids(shown)' BY <1>1, <2>2 DEF Ids
    <2> QED BY <1>1, <2>3, <2>6, <2>7 DEF Kept, IsValidSlug
  <1>13. Restorable'
    <2>1. ListsShown' BY <1>1 DEF ListsShown, SlugsOf
    <2>2. ASSUME ~failed, NEW p \in Valid' PROVE Stored(p)' \/ Saving(p)'
      <3>1. p \in Valid BY <1>1, <2>2 DEF Valid, IsValidSlug
      <3>2. Stored(p) \/ Saving(p) BY <1>2, <2>2, <3>1 DEF Restorable
      <3> QED BY <1>1, <1>7, <3>2 DEF Stored
    <2> QED BY <1>1, <1>3, <2>1, <2>2 DEF Restorable
  <1> QED BY <1>6, <1>9, <1>10, <1>11, <1>12, <1>13

\* A project is written under its slug.
LEMMA SaveKeeps ==
  ASSUME CfgInv, Commit, NEW p \in shown, queue = <<Write("project", p)>>
  PROVE  CfgInv'
  <1> USE DEF CfgInv
  <1>1. p \in Entries /\ p.slug \in Slugs /\ p.id \in Nat \ {0}
    <2>1. p \in Entries BY DEF CfgTypes
    <2> QED BY <2>1 DEF Entries
  <1>2. /\ queue # <<>> /\ queue' = <<>> /\ ~Relists
        /\ files' = [files EXCEPT ![p.slug] = [id |-> p.id, ok |-> TRUE]]
        /\ durable' = IF ~failed /\ IsValidSlug(p.slug) THEN durable \cup {p.id} ELSE durable
        /\ UNCHANGED <<running, shown, listed, opens, removed, undeleted, unreadable, failed>>
    <2>1. Head(queue).op = "project" /\ Head(queue).slug = p.slug /\ Head(queue).id = p.id
          /\ Tail(queue) = <<>> /\ ~Relists /\ queue # <<>>
      <3>2. Head(queue) = Write("project", p) /\ Tail(queue) = <<>> /\ ~Relists BY QueueHas
      <3>3. Saving(p) BY DEF Saving
      <3> QED BY <3>2, <3>3, QueueHas
    <2> QED BY <2>1 DEF Commit, counts
  <1>3. running = TRUE BY <1>2 DEF CfgTypes
  <1>4. \A s \in Slugs : files'[s] = IF s = p.slug THEN [id |-> p.id, ok |-> TRUE] ELSE files[s]
    BY <1>2 DEF CfgTypes
  <1>5. \A s \in Slugs : files'[s].id = IF s = p.slug THEN p.id ELSE files[s].id BY <1>4
  <1>6. CfgTypes'
    <2>1. files' \in [Slugs -> [id : Nat, ok : BOOLEAN]] BY <1>1, <1>2 DEF CfgTypes
    <2> QED BY <1>2, <2>1 DEF CfgTypes
  <1>7. Queued' BY <1>2 DEF Queued
  <1>8. /\ \A q \in shown : q.slug = p.slug \/ q.id = p.id => q = p
        /\ \A q \in shown : \A s \in Slugs : files[s].id = q.id => s = q.slug
        /\ p.id <= opens /\ \A s \in Slugs : files[s].id = p.id => s = p.slug
    BY DEF Owners
  <1>9. Owners'
    <2>1. \A q \in shown : \A s \in Slugs : files'[s].id = q.id => s = q.slug
      BY <1>5, <1>8
    <2>2. \A s \in Slugs : files'[s].id <= opens BY <1>5, <1>8 DEF Owners
    <2>3. \A s, t \in Slugs : files'[s].id = files'[t].id /\ files'[s].id # 0 => s = t
      <3>1. \A s, t \in Slugs : files[s].id = files[t].id /\ files[s].id # 0 => s = t
        BY DEF Owners
      <3> QED BY <1>5, <1>8, <3>1
    <2> QED BY <1>2, <2>1, <2>2, <2>3 DEF Owners
  <1>10. \A q : ~Deleting(q)
    <2> SUFFICES ASSUME NEW q, Deleting(q) PROVE FALSE
      OBVIOUS
    <2> QED BY <1>2, QueueHas
  <1>11. Removals'
    <2>1. \A s \in Slugs : files[s].id \in removed => files[s].id \in undeleted
      BY <1>10 DEF Removals
    <2>2. p.id \in removed => p.id \in undeleted BY DEF Removals
    <2>3. \A s \in Slugs : files'[s].id \in removed => files'[s].id \in undeleted
      BY <1>5, <2>1, <2>2
    <2> QED BY <1>2, <2>3 DEF Removals
  <1>12. Durables'
    <2>0. 0 \notin durable' BY <1>1, <1>2 DEF Durables
    <2> SUFFICES ASSUME NEW k \in durable', k \notin removed, k \notin unreadable PROVE Kept(k)'
      BY <1>2, <2>0 DEF Durables
    <2>1. CASE k = p.id /\ ~failed /\ IsValidSlug(p.slug)
      <3>1. p.slug \in listed BY <1>2, <1>3, <2>1 DEF Restorable
      <3>2. files'[p.slug].id = k BY <1>1, <1>5, <2>1
      <3>3. k \in Ids(shown)' BY <1>2, <2>1 DEF Ids
      <3> QED BY <1>2, <2>1, <3>1, <3>2, <3>3 DEF Kept, IsValidSlug
    <2>2. CASE k \in durable
      <3>1. Kept(k) BY <2>2 DEF Durables
      <3>2. PICK q \in shown : q.id = k BY <1>3, <3>1 DEF Kept, Ids
      <3>3. PICK s \in listed : IsValidSlug(s) /\ files[s].id = k BY <3>1 DEF Kept
      <3>4. s \in Slugs BY DEF CfgTypes
      <3>5. s = q.slug BY <1>8, <3>2, <3>3, <3>4
      <3>6. files'[s].id = k BY <1>5, <1>8, <3>2, <3>3, <3>4, <3>5
      <3>7. k \in Ids(shown)' BY <1>2, <3>2 DEF Ids
      <3> QED BY <1>2, <3>3, <3>6, <3>7 DEF Kept, IsValidSlug
    <2> QED BY <1>2, <2>1, <2>2
  <1>13. Restorable'
    <2> SUFFICES ASSUME ~failed PROVE Restorable'
      BY <1>2 DEF Restorable
    <2>1. ASSUME NEW q \in Valid' PROVE Stored(q)'
      <3>1. q \in Valid /\ q \in shown BY <1>2, <2>1 DEF Valid, IsValidSlug
      <3>2. q.slug \in Slugs BY <3>1 DEF CfgTypes, Entries
      <3>3. CASE q = p
        <4>1. files'[q.slug] = [id |-> q.id, ok |-> TRUE] BY <1>1, <1>4, <3>3
        <4> QED BY <4>1 DEF Stored
      <3>4. CASE q # p
        <4>1. q.slug # p.slug /\ q.id # p.id BY <1>8, <3>1, <3>4
        <4>2. ~Saving(q)
          <5> SUFFICES ASSUME Saving(q) PROVE FALSE
            OBVIOUS
          <5>1. queue # <<Global, Write("project", q)>> BY <1>2, QueueHas
          <5>2. queue = <<Write("project", q)>> BY <5>1 DEF Saving
          <5>3. Head(queue).id = q.id BY <5>2, QueueHas
          <5>4. Head(queue).id = p.id BY QueueHas
          <5> QED BY <4>1, <5>3, <5>4
        <4>3. Stored(q) BY <1>3, <3>1, <4>2 DEF Restorable
        <4>4. files'[q.slug] = [id |-> q.id, ok |-> TRUE]
          BY <1>4, <3>2, <4>1, <4>3 DEF Stored
        <4> QED BY <4>4 DEF Stored
      <3> QED BY <3>3, <3>4
    <2>2. \A q \in shown : q.slug \in listed
      BY <1>2, <1>3 DEF Restorable
    <2>3. CASE ListsShown
      <3>1. ListsShown' BY <1>2, <2>3 DEF ListsShown, SlugsOf
      <3> QED BY <1>2, <2>1, <2>2, <3>1 DEF Restorable
    <2>4. CASE Restored
      <3>1. \A s \in Slugs : IsValidSlug(s) => files'[s] = files[s]
        <4> SUFFICES ASSUME NEW s \in Slugs, IsValidSlug(s), s = p.slug
                     PROVE  files[s] = [id |-> p.id, ok |-> TRUE]
          BY <1>4
        <4>1. p \in Valid BY DEF Valid
        <4>2. Stored(p) BY <2>4, <4>1 DEF Restored
        <4> QED BY <4>2 DEF Stored
      <3>2. LoadOrDefault' = LoadOrDefault BY <1>2, <3>1, LoadsSame
      <3>3. Valid' = Valid BY <1>2 DEF Valid, IsValidSlug
      <3>4. Restored' BY <1>2, <2>1, <2>4, <3>2, <3>3 DEF Restored
      <3> QED BY <1>2, <2>1, <2>2, <3>4 DEF Restorable
    <2> QED BY <1>2, <1>3, <2>3, <2>4 DEF Restorable
  <1> QED BY <1>6, <1>7, <1>9, <1>11, <1>12, <1>13

\* The file of the project that is gone is deleted, if its slug is valid.
LEMMA DeletionKeeps ==
  ASSUME CfgInv, Commit, NEW p \in Entries, Deleting(p), Gone(p)
  PROVE  CfgInv'
  <1> USE DEF CfgInv
  <1>1. /\ queue # <<>> /\ queue' = <<Global>>
        /\ files' = IF IsValidSlug(p.slug) THEN [files EXCEPT ![p.slug] = NoFile] ELSE files
        /\ undeleted' = IF IsValidSlug(p.slug) THEN undeleted ELSE undeleted \cup {p.id}
        /\ UNCHANGED <<running, shown, listed, opens, durable, removed, unreadable, failed>>
    <2>1. /\ Head(queue).op = "delete" /\ Head(queue).slug = p.slug /\ Head(queue).id = p.id
          /\ Tail(queue) = <<Global>> /\ queue # <<>>
      BY QueueHas
    <2> QED BY <2>1 DEF Commit, counts
  <1>2. running = TRUE BY <1>1 DEF CfgTypes
  <1>3. p.slug \in Slugs /\ p.id # 0 BY DEF Entries
  <1>4. \A s \in Slugs : files'[s] = IF s = p.slug /\ IsValidSlug(p.slug) THEN NoFile ELSE files[s]
    BY <1>1 DEF CfgTypes
  <1>5. /\ \A s \in Slugs : files'[s].id = files[s].id \/ files'[s].id = 0
        /\ NoFile.id = 0 /\ NoFile \in [id : Nat, ok : BOOLEAN]
    BY <1>4 DEF NoFile
  <1>6. CfgTypes'
    <2>1. files' \in [Slugs -> [id : Nat, ok : BOOLEAN]] BY <1>1, <1>5 DEF CfgTypes
    <2> QED BY <1>1, <2>1 DEF CfgTypes
  <1>7. Queued' BY <1>1 DEF Queued
  <1>8. \A q \in shown : q.slug # p.slug /\ q.id # p.id /\ q.id # 0
    <2> TAKE q \in shown
    <2>1. q \in Entries BY DEF CfgTypes
    <2> QED BY <2>1 DEF Gone, Entries
  <1>9. Owners'
    <2>1. \A q \in shown : \A s \in Slugs : files'[s].id = q.id => s = q.slug
      BY <1>5, <1>8 DEF Owners
    <2>2. \A s \in Slugs : files'[s].id <= opens BY <1>5 DEF Owners, CfgTypes
    <2>3. \A s, t \in Slugs : files'[s].id = files'[t].id /\ files'[s].id # 0 => s = t
      BY <1>5 DEF Owners
    <2> QED BY <1>1, <2>1, <2>2, <2>3 DEF Owners
  <1>10. Removals'
    <2>1. ASSUME NEW s \in Slugs, files'[s].id \in removed PROVE files'[s].id \in undeleted'
      <3>1. files'[s].id # 0 BY <2>1 DEF Removals
      <3>2. files'[s].id = files[s].id BY <1>5, <3>1
      <3>3. CASE files[s].id = p.id
        <4>1. s = p.slug BY <3>3 DEF Gone
        <4>2. ~IsValidSlug(p.slug) BY <1>4, <1>5, <3>1, <4>1
        <4> QED BY <1>1, <3>2, <3>3, <4>2
      <3>4. CASE files[s].id # p.id
        <4>1. ~Deleting([id |-> files[s].id, slug |-> s])
          <5> SUFFICES ASSUME Deleting([id |-> files[s].id, slug |-> s]) PROVE FALSE
            OBVIOUS
          <5>1. Head(queue).id = p.id BY QueueHas
          <5>2. Head(queue).id = files[s].id
            <6>1. PICK q : q = [id |-> files[s].id, slug |-> s] OBVIOUS
            <6>2. Head(queue) = Write("delete", q) BY <6>1, QueueHas
            <6> QED BY <6>1, <6>2, QueueHas
          <5> QED BY <3>4, <5>1, <5>2
        <4>2. files[s].id \in undeleted BY <2>1, <3>2, <4>1 DEF Removals
        <4> QED BY <1>1, <3>2, <4>2
      <3> QED BY <3>3, <3>4
    <2>2. \A q \in shown : q.id \in removed => q.id \in undeleted'
      BY <1>1 DEF Removals
    <2> QED BY <1>1, <2>1, <2>2 DEF Removals
  <1>11. Durables'
    <2> SUFFICES ASSUME NEW k \in durable, k \notin removed, k \notin unreadable PROVE Kept(k)'
      BY <1>1 DEF Durables
    <2>1. Kept(k) BY DEF Durables
    <2>2. PICK q \in shown : q.id = k BY <1>2, <2>1 DEF Kept, Ids
    <2>3. PICK s \in listed : IsValidSlug(s) /\ files[s].id = k BY <2>1 DEF Kept
    <2>4. s \in Slugs BY DEF CfgTypes
    <2>5. s = q.slug BY <2>2, <2>3, <2>4 DEF Owners
    <2>6. files'[s].id = k BY <1>4, <1>8, <2>3, <2>4, <2>5
    <2>7. k \in Ids(shown)' BY <1>1, <2>2 DEF Ids
    <2> QED BY <1>1, <2>3, <2>6, <2>7 DEF Kept, IsValidSlug
  <1>12. Restorable'
    <2>1. Relists'
      <3>1. 1 \in DOMAIN queue' /\ queue'[1] = Global BY <1>1
      <3> QED BY <3>1 DEF Relists
    <2>2. ASSUME ~failed, NEW q \in Valid' PROVE Stored(q)'
      <3>1. q \in Valid /\ q \in shown BY <1>1, <2>2 DEF Valid, IsValidSlug
      <3>2. ~Saving(q)
        <4> SUFFICES ASSUME Saving(q) PROVE FALSE
          OBVIOUS
        <4>1. Head(queue).op = "delete" BY QueueHas
        <4>2. Head(queue) = Global \/ Head(queue) = Write("project", q)
          BY QueueHas DEF Saving
        <4> QED BY <4>1, <4>2, QueueHas
      <3>3. Stored(q) BY <1>2, <2>2, <3>1, <3>2 DEF Restorable
      <3>4. q.slug \in Slugs BY <3>1 DEF CfgTypes, Entries
      <3>5. files'[q.slug] = [id |-> q.id, ok |-> TRUE]
        BY <1>4, <1>8, <3>1, <3>3, <3>4 DEF Stored
      <3> QED BY <3>5 DEF Stored
    <2> QED BY <1>1, <2>1, <2>2 DEF Restorable
  <1> QED BY <1>6, <1>7, <1>9, <1>10, <1>11, <1>12

\* A write that fails is dropped: what is shown is no longer what a restart would show.
LEMMA FailureKeeps ==
  ASSUME CfgInv, WriteFails
  PROVE  CfgInv'
  <1> USE DEF CfgInv
  <1>1. /\ queue # <<>> /\ queue' = Tail(queue) /\ failed' = TRUE
        /\ undeleted' = IF Head(queue).op = "delete" THEN undeleted \cup {Head(queue).id}
                        ELSE undeleted
        /\ UNCHANGED <<running, shown, listed, files, opens, durable, removed, unreadable>>
    BY DEF WriteFails
  <1>2. running = TRUE BY <1>1 DEF CfgTypes
  <1>3. CfgTypes' BY <1>1, <1>2 DEF CfgTypes
  <1>4. Queued'
    <2>1. CASE queue = <<Global>> BY <1>1, <2>1, QueueHas DEF Queued
    <2>2. CASE \E p \in Entries : Deleting(p) BY <1>1, <2>2, QueueHas DEF Queued
    <2>3. ASSUME NEW p \in shown, Saving(p) PROVE Queued'
      <3>1. CASE queue = <<Write("project", p)>>
        <4>1. queue' = <<>> BY <1>1, <3>1, QueueHas
        <4> QED BY <4>1 DEF Queued
      <3>2. CASE queue = <<Global, Write("project", p)>>
        <4>1. queue' = <<Write("project", p)>> BY <1>1, <3>2, QueueHas
        <4>2. Saving(p)' BY <4>1 DEF Saving, Write
        <4> QED BY <1>1, <4>2 DEF Queued
      <3> QED BY <2>3, <3>1, <3>2 DEF Saving
    <2> QED BY <1>1, <2>1, <2>2, <2>3 DEF Queued
  <1>5. Owners' BY <1>1 DEF Owners
  <1>6. Removals'
    <2>1. \A s \in Slugs : files[s].id \in removed => files[s].id \in undeleted'
      <3> SUFFICES ASSUME NEW s \in Slugs, files[s].id \in removed
                   PROVE  files[s].id \in undeleted'
        OBVIOUS
      <3>1. CASE files[s].id \in undeleted BY <1>1, <3>1
      <3>2. CASE Deleting([id |-> files[s].id, slug |-> s])
        <4>1. PICK q : q = [id |-> files[s].id, slug |-> s] OBVIOUS
        <4>2. Head(queue).op = "delete" /\ Head(queue).id = q.id BY <3>2, <4>1, QueueHas
        <4> QED BY <1>1, <4>1, <4>2
      <3> QED BY <3>1, <3>2 DEF Removals
    <2>2. \A q \in shown : q.id \in removed => q.id \in undeleted'
      BY <1>1 DEF Removals
    <2> QED BY <1>1, <2>1, <2>2 DEF Removals
  <1>7. Durables' BY <1>1 DEF Durables, Kept, Ids, IsValidSlug
  <1>8. Restorable' BY <1>1 DEF Restorable
  <1> QED BY <1>3, <1>4, <1>5, <1>6, <1>7, <1>8

\* What a client that ends had not deleted stays.
LEMMA QuitKeeps ==
  ASSUME CfgInv, Quit
  PROVE  CfgInv'
  <1> USE DEF CfgInv
  <1>1. /\ running' = FALSE /\ shown' = {} /\ queue' = <<>>
        /\ undeleted' = undeleted \cup
             {queue[i].id : i \in {j \in DOMAIN queue : queue[j].op = "delete"}}
        /\ UNCHANGED <<listed, files, opens, durable, removed, unreadable, failed>>
    BY DEF Quit
  <1>3. CfgTypes' BY <1>1 DEF CfgTypes
  <1>4. Queued' BY <1>1 DEF Queued
  <1>5. Owners' BY <1>1 DEF Owners
  <1>6. Removals'
    <2>1. \A s \in Slugs : files[s].id \in removed => files[s].id \in undeleted'
      <3> SUFFICES ASSUME NEW s \in Slugs, files[s].id \in removed
                   PROVE  files[s].id \in undeleted'
        OBVIOUS
      <3>1. CASE files[s].id \in undeleted BY <1>1, <3>1
      <3>2. CASE Deleting([id |-> files[s].id, slug |-> s])
        <4>1. PICK q : q = [id |-> files[s].id, slug |-> s] OBVIOUS
        <4>2. queue = <<Write("delete", q), Global>> BY <3>2, <4>1 DEF Deleting
        <4>3. Write("delete", q).op = "delete" /\ Write("delete", q).id = q.id BY QueueHas
        <4>4. 1 \in DOMAIN queue /\ queue[1] = Write("delete", q)
          <5> DEFINE w == Write("delete", q)
          <5> HIDE DEF w
          <5>1. queue = <<w, Global>> BY <4>2 DEF w
          <5> QED BY <5>1 DEF w
        <4> QED BY <1>1, <4>1, <4>3, <4>4
      <3> QED BY <3>1, <3>2 DEF Removals
    <2> QED BY <1>1, <2>1 DEF Removals
  <1>7. Durables' BY <1>1 DEF Durables, Kept, IsValidSlug
  <1>8. Restorable' BY <1>1 DEF Restorable
  <1> QED BY <1>3, <1>4, <1>5, <1>6, <1>7, <1>8

\* A hand edit, which no client sees, breaks or mends a file.
LEMMA EditKeeps ==
  ASSUME CfgInv, NEW a \in Slugs, HandEdit(a)
  PROVE  CfgInv'
  <1> USE DEF CfgInv
  <1>1. /\ running = FALSE /\ files' = [files EXCEPT ![a].ok = ~@]
        /\ UNCHANGED <<running, shown, queue, listed, opens, durable, removed, undeleted,
                       unreadable, failed>>
    BY DEF HandEdit, history, CfgTypes
  <1>2. files' \in [Slugs -> [id : Nat, ok : BOOLEAN]]
    BY <1>1 DEF CfgTypes
  <1>3. \A s \in Slugs : files'[s].id = files[s].id BY <1>1 DEF CfgTypes
  <1>4. queue = <<>> /\ shown = {} BY <1>1 DEF CfgTypes
  <1>5. CfgTypes' BY <1>1, <1>2 DEF CfgTypes
  <1>6. Queued' BY <1>1, <1>4 DEF Queued
  <1>7. Owners' BY <1>1, <1>3, <1>4 DEF Owners
  <1>8. Removals'
    <2>1. \A s \in Slugs : files[s].id \in removed => files[s].id \in undeleted
      BY <1>4, QueueHas DEF Removals
    <2> QED BY <1>1, <1>3, <1>4, <2>1 DEF Removals
  <1>9. Durables'
    <2> SUFFICES ASSUME NEW k \in durable, k \notin removed, k \notin unreadable PROVE Kept(k)'
      BY <1>1 DEF Durables
    <2>1. PICK s \in listed : IsValidSlug(s) /\ files[s].id = k BY DEF Durables, Kept
    <2>2. s \in Slugs BY DEF CfgTypes
    <2> QED BY <1>1, <1>3, <2>1, <2>2 DEF Kept, IsValidSlug
  <1>10. Restorable' BY <1>1 DEF Restorable
  <1> QED BY <1>5, <1>6, <1>7, <1>8, <1>9, <1>10

\* A step that leaves what the invariant is about keeps it.
LEMMA NothingKeeps ==
  ASSUME CfgInv, UNCHANGED <<running, shown, queue, listed, files, opens, durable, removed,
                             undeleted, unreadable, failed>>
  PROVE  CfgInv'
  <1> USE DEF CfgInv
  <1>1. CfgTypes' BY DEF CfgTypes
  <1>2. Queued' BY DEF Queued, Saving, Deleting, Gone, Write
  <1>3. Owners' BY DEF Owners
  <1>4. Removals' BY DEF Removals, Deleting, Write
  <1>5. Durables' BY DEF Durables, Kept, Ids, IsValidSlug
  <1>6. Restorable'
    <2>1. LoadOrDefault' = LoadOrDefault
      <3>1. \A s \in Slugs : files'[s] = files[s] OBVIOUS
      <3> QED BY <3>1, LoadsSame
    <2>2. Valid' = Valid BY DEF Valid, IsValidSlug
    <2>3. Restored' <=> Restored BY <2>1, <2>2 DEF Restored, Stored
    <2> QED BY <2>2, <2>3 DEF Restorable, Stored, Saving, Relists, ListsShown, SlugsOf, Write
  <1> QED BY <1>1, <1>2, <1>3, <1>4, <1>5, <1>6

\* The invariant of the configuration holds always.
LEMMA CfgInvAlways == CfgSpec => []CfgInv
  <1>1. CfgInit => CfgInv
    <2> SUFFICES ASSUME CfgInit PROVE CfgInv
      OBVIOUS
    <2>1. /\ running = TRUE /\ shown = {} /\ queue = <<>> /\ listed = {} /\ opens = 0
          /\ files = [slug \in Slugs |-> NoFile] /\ failed = FALSE
          /\ durable = {} /\ removed = {} /\ undeleted = {} /\ unreadable = {}
      BY DEF CfgInit
    <2>3. \A s \in Slugs : files[s].id = 0 BY <2>1 DEF NoFile
    <2>4. CfgTypes
      <3>1. files \in [Slugs -> [id : Nat, ok : BOOLEAN]] BY <2>1 DEF NoFile
      <3>2. 0 \in Nat OBVIOUS
      <3> QED BY <2>1, <3>1, <3>2 DEF CfgTypes
    <2>5. Queued BY <2>1 DEF Queued
    <2>6. Owners BY <2>1, <2>3 DEF Owners
    <2>7. Removals BY <2>1 DEF Removals
    <2>8. Durables BY <2>1 DEF Durables
    <2>9. Restorable
      <3>1. Valid = {} BY <2>1 DEF Valid
      <3>2. ListsShown BY <2>1 DEF ListsShown, SlugsOf
      <3> QED BY <2>1, <3>1, <3>2 DEF Restorable
    <2> QED BY <2>4, <2>5, <2>6, <2>7, <2>8, <2>9 DEF CfgInv
  <1>2. CfgInv /\ [CfgNext]_cfgVars => CfgInv'
    <2> SUFFICES ASSUME CfgInv, [CfgNext]_cfgVars PROVE CfgInv'
      OBVIOUS
    <2>1. CASE Start BY <2>1, StartKeeps
    <2>2. CASE Stage BY <2>2, NothingKeeps DEF Stage, counts, history
    <2>3. CASE Commit
      <3>1. queue # <<>> BY <2>3 DEF Commit
      <3>2. CASE queue = <<Global>> BY <2>3, <3>2, ListKeeps, QueueHas
      <3>3. ASSUME NEW p \in shown, queue = <<Global, Write("project", p)>> PROVE CfgInv'
        <4>1. p \in Entries BY DEF CfgInv, CfgTypes
        <4>2. Head(queue) = Global BY <3>3, QueueHas
        <4> QED BY <2>3, <3>3, <4>1, <4>2, ListKeeps
      <3>4. ASSUME NEW p \in shown, queue = <<Write("project", p)>> PROVE CfgInv'
        BY <2>3, <3>4, SaveKeeps
      <3>5. ASSUME NEW p \in Entries, Deleting(p), Gone(p) PROVE CfgInv'
        BY <2>3, <3>5, DeletionKeeps
      <3> QED BY <3>1, <3>2, <3>3, <3>4, <3>5 DEF CfgInv, Queued, Saving
    <2>4. CASE WriteFails BY <2>4, FailureKeeps
    <2>5. CASE Quit BY <2>5, QuitKeeps
    <2>6. CASE ChangeSettings BY <2>6, ChangeKeeps
    <2>7. ASSUME NEW name \in Names, OpenProjectAs(name) PROVE CfgInv' BY <2>7, OpenKeeps
    <2>8. ASSUME NEW p \in shown, ChangeProject(p) PROVE CfgInv' BY <2>8, ChangeKeeps
    <2>9. ASSUME NEW p \in shown, RemoveShown(p) PROVE CfgInv' BY <2>9, RemoveKeeps
    <2>10. ASSUME NEW slug \in Slugs, HandEdit(slug) PROVE CfgInv' BY <2>10, EditKeeps
    <2>11. CASE UNCHANGED cfgVars BY <2>11, NothingKeeps DEF cfgVars
    <2> QED BY <2>1, <2>2, <2>3, <2>4, <2>5, <2>6, <2>7, <2>8, <2>9, <2>10, <2>11 DEF CfgNext
  <1> QED BY <1>1, <1>2, PTL DEF CfgSpec

\* RestartShows of ConfigStore: a restart would show what is on screen, no more and no
\* less, but for the projects whose slug cannot be read back, until a write fails.
THEOREM RestartsShowTheScreen == CfgSpec => []RestartShows
  <1>1. CfgInv => RestartShows
    <2> SUFFICES ASSUME CfgInv, Idle, ~failed
                 PROVE  LoadOrDefault = Valid
      BY DEF RestartShows, Valid
    <2>1. queue = <<>> /\ running BY DEF Idle
    <2>2. \A p \in Valid : Stored(p) BY <2>1, QueueHas DEF CfgInv, Restorable
    <2>3. ListsShown \/ Restored BY <2>1, QueueHas DEF CfgInv, Restorable
    <2> QED BY <2>2, <2>3, ListedLoads DEF CfgInv, Restored
  <1> QED BY <1>1, CfgInvAlways, PTL

\* NothingReturns of ConfigStore: no crash and no reuse of its slug brings a removed project
\* back, unless its file was not deleted.
THEOREM RemovedStaysRemoved == CfgSpec => []NothingReturns
  <1>1. CfgInv => NothingReturns BY DEF CfgInv, Removals, NothingReturns, Ids
  <1> QED BY <1>1, CfgInvAlways, PTL

\* WrittenIsKept of ConfigStore: a project that was written is shown by every client until
\* it is removed or a start finds its file broken.
THEOREM WrittenProjectsLast == CfgSpec => []WrittenIsKept
  <1>1. CfgInv => WrittenIsKept BY DEF CfgInv, Durables, Kept, Idle, WrittenIsKept
  <1> QED BY <1>1, CfgInvAlways, PTL
=============================================================================

------------------------------ MODULE ExitGuard ------------------------------
(***************************************************************************)
(* The ways out of the program: the title-bar X and Quit, the question     *)
(* about unsaved edits, the question about exploded clusters, and the      *)
(* restore that leaves the program when the board is back                  *)
(* (gui/exit_guard.py, gui/main_window.py closeEvent,                      *)
(* gui/explode_wiring.py return_clusters_before_quit).                     *)
(*                                                                         *)
(* A question is modal: nothing is edited under it, but a worker's answer  *)
(* may come.  The restore is one step here; ExplodeRestore has its own.    *)
(***************************************************************************)

Ways == {"close", "quit"}

VARIABLES
  form,       \* an edit in a node form nobody accepted yet: "clean", "valid", "invalid"
  staged,     \* is the working set dirty
  agreed,     \* did the user answer Discard to what is staged now (history)
  exploded,   \* explode_guard.active
  restoring,  \* what the restore in flight goes on with: "none", "stay" or a way out
  exitOk,     \* _explode_exit_ok
  tray,       \* is the tray icon enabled
  question,   \* the question on the screen: "none", "edits", "clusters"
  way,        \* the way out it was asked on
  program,    \* "running", "ended"
  late,       \* was anything edited after a restore was asked for at an exit (history)
  hidden,     \* did the exit after a restore only hide the window (history)
  failed      \* did the Save of the last exit fail (history)

exitVars == <<form, staged, agreed, exploded, restoring, exitOk, tray, question, way, program,
              late, hidden, failed>>

ExitTypeOK ==
  /\ form \in {"clean", "valid", "invalid"} /\ restoring \in {"none", "stay"} \cup Ways
  /\ question \in {"none", "edits", "clusters"} /\ way \in Ways
  /\ program \in {"running", "ended"}
  /\ {staged, agreed, exploded, exitOk, tray, late, hidden, failed} \subseteq BOOLEAN

ExitInit ==
  /\ form = "clean" /\ staged = FALSE /\ agreed = FALSE /\ exploded \in BOOLEAN
  /\ restoring = "none" /\ exitOk = FALSE /\ tray \in BOOLEAN
  /\ question = "none" /\ way = "close" /\ program = "running"
  /\ late = FALSE /\ hidden = FALSE /\ failed = FALSE

AtWork == program = "running" /\ question = "none"

-----------------------------------------------------------------------------
(* The user at work.                                                       *)

LateNow == late \/ exitOk \/ restoring \in Ways

StageEdit ==
  /\ AtWork /\ staged' = TRUE /\ agreed' = FALSE /\ late' = LateNow
  /\ UNCHANGED <<form, exploded, restoring, exitOk, tray, question, way, program, hidden,
                 failed>>

TypeIntoForm ==
  /\ AtWork /\ form' \in {"valid", "invalid"} /\ late' = LateNow
  /\ UNCHANGED <<staged, agreed, exploded, restoring, exitOk, tray, question, way, program, hidden,
                 failed>>

\* The Settings dialog.
SetTray ==
  /\ AtWork /\ tray' = ~tray
  /\ UNCHANGED <<form, staged, agreed, exploded, restoring, exitOk, question, way, program, late,
                 hidden, failed>>

Explode ==
  /\ AtWork /\ ~exploded /\ restoring = "none" /\ exploded' = TRUE
  /\ UNCHANGED <<form, staged, agreed, restoring, exitOk, tray, question, way, program, late,
                 hidden, failed>>

RestoreClicked ==
  /\ AtWork /\ exploded /\ restoring = "none" /\ restoring' = "stay"
  /\ UNCHANGED <<form, staged, agreed, exploded, exitOk, tray, question, way, program, late,
                 hidden, failed>>

-----------------------------------------------------------------------------
(* Saving.                                                                 *)

\* settle_forms: a touched form that validates is staged; one that does not
\* stays as it is, and is only reported.
SettledForm == IF form = "valid" THEN "clean" ELSE form
StagedWithForm == staged \/ form = "valid"

\* _save_project: an invalid form refuses it, and so may the validation of the
\* staged graph, with nothing written; a file that cannot be written is
\* reported, and the working set is cleared all the same.
Saved(left, fails) ==
  /\ form' = SettledForm /\ staged' = left
  /\ \/ left = StagedWithForm /\ fails = (left \/ form = "invalid")
     \/ form # "invalid" /\ StagedWithForm /\ ~left

Save ==
  /\ AtWork /\ (\E left, fails \in BOOLEAN : Saved(left, fails))
  /\ agreed' = (agreed /\ form # "valid")
  /\ UNCHANGED <<exploded, restoring, exitOk, tray, question, way, program, late, hidden,
                 failed>>

-----------------------------------------------------------------------------
(* The way out.                                                            *)

\* Mutant: clusters on their way back are not asked about.
ClustersUnlessRestoring == exploded /\ ~exitOk /\ restoring = "none"

ClustersInTheWay == exploded /\ ~exitOk

\* return_clusters_before_quit, and the exit when it lets it go on.
AskClusters(w) ==
  IF ClustersInTheWay
    THEN question' = "clusters" /\ way' = w /\ UNCHANGED program
    ELSE question' = "none" /\ way' = w /\ program' = "ended"

\* Mutant: the exit asks before the form is accepted.
FormIgnored == FALSE

\* confirm_unsaved_before_exit accepts the form first.
FormAccepted == form = "valid"

AskEdits(w) ==
  IF exitOk THEN AskClusters(w) /\ UNCHANGED <<form, staged, agreed>>
  ELSE /\ form' = IF FormAccepted THEN "clean" ELSE form
       /\ staged' = (staged \/ FormAccepted) /\ agreed' = (agreed /\ ~FormAccepted)
       /\ IF staged' THEN question' = "edits" /\ way' = w /\ UNCHANGED program
          ELSE AskClusters(w)

\* The title-bar X hides the window as long as there is a tray icon.
Close ==
  /\ AtWork /\ ~tray /\ AskEdits("close")
  /\ UNCHANGED <<exploded, restoring, exitOk, tray, late, hidden, failed>>

Quit ==
  /\ AtWork /\ AskEdits("quit")
  /\ UNCHANGED <<exploded, restoring, exitOk, tray, late, hidden, failed>>

Cancel ==
  /\ program = "running" /\ question # "none" /\ question' = "none"
  /\ UNCHANGED <<form, staged, agreed, exploded, restoring, exitOk, tray, way, program, late,
                 hidden, failed>>

\* The exit goes on when nothing is staged any more.
AnswerSave ==
  /\ program = "running" /\ question = "edits"
  /\ \E left, fails \in BOOLEAN :
       /\ Saved(left, fails) /\ failed' = fails
       /\ IF left THEN question' = "none" /\ UNCHANGED <<way, program>> ELSE AskClusters(way)
  /\ UNCHANGED <<agreed, exploded, restoring, exitOk, tray, late, hidden>>

\* Discard only lets the exit go on; the edits stay staged.
AnswerDiscard ==
  /\ program = "running" /\ question = "edits" /\ agreed' = TRUE /\ AskClusters(way)
  /\ UNCHANGED <<form, staged, exploded, restoring, exitOk, tray, late, hidden, failed>>

\* Yes to the clusters: the restore is asked for, and refused while another
\* runs or with no board connected.  The question is answered late when a
\* restore has ended meanwhile.
AnswerPutBack ==
  /\ program = "running" /\ question = "clusters" /\ question' = "none"
  /\ restoring' \in IF restoring = "none" THEN {"none", way} ELSE {restoring}
  /\ UNCHANGED <<form, staged, agreed, exploded, exitOk, tray, way, program, late, hidden,
                 failed>>

\* request_restore's success: the lock is cleared, and the exit goes on: with
\* Quit at once, with the X through closeEvent, which asks nothing again but may
\* only hide the window.
RestoreDone ==
  /\ program = "running" /\ restoring # "none"
  /\ exploded' = FALSE /\ restoring' = "none"
  /\ exitOk' = (exitOk \/ restoring \in Ways)
  /\ hidden' = (hidden \/ (restoring = "close" /\ tray))
  /\ program' = IF restoring = "quit" \/ (restoring = "close" /\ ~tray) THEN "ended" ELSE program
  /\ question' = IF program' = "ended" THEN "none" ELSE question
  /\ UNCHANGED <<form, staged, agreed, tray, way, late, failed>>

\* It fails, and nothing goes on.
RestoreFails ==
  /\ program = "running" /\ restoring # "none" /\ restoring' = "none"
  /\ UNCHANGED <<form, staged, agreed, exploded, exitOk, tray, question, way, program, late,
                 hidden, failed>>

ExitNext ==
  \/ StageEdit \/ TypeIntoForm \/ SetTray \/ Explode \/ RestoreClicked \/ Save
  \/ Close \/ Quit \/ Cancel \/ AnswerSave \/ AnswerDiscard \/ AnswerPutBack
  \/ RestoreDone \/ RestoreFails

ExitSpec == ExitInit /\ [][ExitNext]_exitVars

-----------------------------------------------------------------------------
(* Properties.                                                             *)

Unasked == form = "valid" \/ (staged /\ ~agreed)

\* The program never ends over an edit the user was not asked about, an
\* acceptable one in a form included, unless it was made after a restore had
\* been asked for at an exit (gui/exit_guard.py:47-97).
ExitAsked == program = "ended" /\ Unasked => late

\* ... nor over exploded clusters, unless an exit after a restore had only
\* hidden the window (gui/explode_wiring.py:213-243).
ExitBoardBack == program = "ended" /\ exploded => hidden

\* An exit asks about every edit, whenever it was made.
EveryEditAsked == program = "ended" => ~Unasked

\* A Save that failed does not let the program end (gui/exit_guard.py:67-68).
FailedSaveStays == program = "ended" => ~failed
=============================================================================

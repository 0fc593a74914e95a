-------------------------------- MODULE Upgrade --------------------------------
(***************************************************************************)
(* c2cupgrade: the upgrade of the files of a project in fifteen steps.  A step  *)
(* calls the next one, or stops and writes into .UPGRADE_INSTRUCTIONS which      *)
(* one the owner of the project has to run after a manual change or a fix; the   *)
(* files .UPGRADE<n> tell where a run was that was interrupted.                  *)
(***************************************************************************)
EXTENDS Integers, FiniteSets

CONSTANTS
  File,                       \* files of the project, outside of CONST_create_template
  Template, NewFile,          \* those of the new template, and of it alone
  Removed, Moved,             \* upgrade_files: files, and pairs of a file and its new place
  Include, Exclude, Extra,    \* the patterns of .upgrade.yaml
  Managed, NoTouch, Unmanaged,\* those of project.yaml
  MaxTroubles,                \* bound of the errors, interruptions and edits
  None

UpgradeAssumption ==
  /\ NewFile \subseteq Template /\ Template \subseteq File /\ Removed \subseteq File \ Template
  /\ Moved \subseteq (File \ Template) \X File /\ NoTouch \subseteq Managed
  /\ Managed \subseteq File /\ MaxTroubles \in Nat
  /\ None \notin 0..14 /\ None \notin (0..14) \X {"start", "half"}

VARIABLES
  running,       \* the step that runs and the part of it that comes next, None when none runs
  markers,       \* the files .UPGRADE<n>
  instructed,    \* the step of .UPGRADE_INSTRUCTIONS, or the one that the owner has begun since
  upgrade_yaml,  \* .upgrade.yaml is there; git ignores it
  template,      \* CONST_create_template on the disk, in the index and in the last commit
  content,       \* the files of the project on the disk
  head,          \* and in the last commit
  managed_files, \* project.yaml has managed_files, on the disk and in the last commit
  finished,
  troubles

upgradeVars == <<running, markers, instructed, upgrade_yaml, template, content, head, managed_files, finished, troubles>>

Step     == 0..14
Contents == {"none", "own", "old", "half", "new"}   \* half: a copy that was interrupted
Places   == {"none", "old", "moved", "new"}

TypeOK ==
  /\ running \in {None} \cup (Step \X {"start", "half"})
  /\ markers \in SUBSET (1..11) /\ instructed \in Step \cup {None}
  /\ upgrade_yaml \in BOOLEAN /\ finished \in BOOLEAN /\ troubles \in 0..MaxTroubles
  /\ template \in [disk : Places, index : Places, head : Places]
  /\ content \in [File -> Contents] /\ head \in [File -> Contents]
  /\ managed_files \in [disk : BOOLEAN, head : BOOLEAN]

Init ==
  /\ running = None /\ markers = {} /\ instructed = 0 /\ upgrade_yaml = FALSE
  /\ template = [disk |-> "old", index |-> "old", head |-> "old"]
  /\ head \in {c \in [File -> {"none", "own", "old"}] :
                 \A f \in File : c[f] = "none" <=> f \in NewFile \cup {m[2] : m \in Moved}}
  /\ content = head /\ managed_files \in [disk : BOOLEAN, head : {FALSE}]
  /\ finished = FALSE /\ troubles = 0

-----------------------------------------------------------------------------
(* Step.__call__: the marker of the step before is replaced by that of this step. *)
At(n, half) == running = <<n, half>>

(* mutant: the markers of the steps before stay *)
EnteredAndKept(n) == markers \cup {n}

Entered(n) == (markers \ {n - 1}) \cup (IF n \in 1..11 THEN {n} ELSE {})

Begin(n) == running' = <<n, "start">> /\ markers' = Entered(n) /\ UNCHANGED <<troubles, finished>>
Go(n)    == Begin(n) /\ UNCHANGED instructed

(* print_step, and the process ends. *)
Stop(n) == running' = None /\ instructed' = n /\ UNCHANGED <<markers, finished>>

Fine   == UNCHANGED troubles
GoOrStop(n) == Go(n) \/ (Stop(n) /\ Fine)

(* An error of step n, which the owner fixes. *)
Trouble  == troubles < MaxTroubles /\ troubles' = troubles + 1
Error(n) == Stop(n) /\ Trouble

Clean == content = head /\ template.disk = template.head /\ template.index = template.head
           /\ managed_files.disk = managed_files.head

(* ./upgrade: what the owner was told to run or ran before, from the start, or past a checker that
   failed. *)
RunStep(n) ==
  /\ running = None /\ ~finished
  /\ n \in {instructed, 0, 1} \cup (IF instructed = 12 /\ 11 \notin markers THEN {13} ELSE {})
  /\ Begin(n) /\ instructed' = n
  /\ UNCHANGED <<upgrade_yaml, template, content, head, managed_files>>

-----------------------------------------------------------------------------
step0 ==
  /\ At(0, "start")
  /\ IF ~managed_files.disk THEN Stop(0) /\ Fine
     ELSE IF Clean THEN Go(1) ELSE Stop(1) /\ Fine
  /\ UNCHANGED <<upgrade_yaml, template, content, head, managed_files>>

(* git reset --hard and git clean; project.yaml is put back afterwards. *)
step1_reset ==
  /\ At(1, "start")
  /\ running' = <<1, "half">>
  /\ content' = head /\ template' = [template EXCEPT !.disk = template.head, !.index = template.head]
  /\ UNCHANGED <<markers, instructed, upgrade_yaml, head, managed_files, finished, troubles>>

step1 == At(1, "half") /\ Go(2) /\ UNCHANGED <<upgrade_yaml, template, content, head, managed_files>>

(* The code style is committed, with whatever else was not; nobody looks whether the commit succeeds. *)
step2 ==
  /\ At(2, "start") /\ Go(3)
  /\ \/ /\ head' = content /\ managed_files' = [managed_files EXCEPT !.head = managed_files.disk]
        /\ template' = [template EXCEPT !.index = template.disk, !.head = template.disk]
     \/ UNCHANGED <<head, managed_files, template>>
  /\ UNCHANGED <<upgrade_yaml, content>>

(* The files of the old template are moved, as the new version does with those of the project: .upgrade.yaml
   comes from the new template and is taken away again. *)
step3_move ==
  /\ At(3, "start")
  /\ \/ /\ running' = <<3, "half">> /\ upgrade_yaml' = TRUE
        /\ template' = [template EXCEPT !.disk = IF @ = "old" THEN "moved" ELSE @]
        /\ UNCHANGED <<markers, instructed, finished, troubles>>
     \/ Error(3) /\ UNCHANGED <<upgrade_yaml, template>>
  /\ UNCHANGED <<content, head, managed_files>>

step3 ==
  /\ At(3, "half") /\ Go(4)
  /\ upgrade_yaml' = FALSE
  /\ template' = [template EXCEPT !.index = template.disk, !.head = template.disk]
  /\ UNCHANGED <<content, head, managed_files>>

(* git rm takes away what git knows, and fails when there is a folder that git does not know. *)
step4_remove ==
  /\ At(4, "start")
  /\ IF template.disk # "none" /\ template.index = "none"
     THEN Error(4) /\ UNCHANGED template
     ELSE /\ running' = <<4, "half">> /\ template' = [template EXCEPT !.disk = "none", !.index = "none"]
          /\ UNCHANGED <<markers, instructed, finished, troubles>>
  /\ UNCHANGED <<upgrade_yaml, content, head, managed_files>>

(* pcreate makes the new template and .upgrade.yaml; only then is the template added. *)
step4 ==
  /\ At(4, "half")
  /\ \/ Go(5) /\ template' = [template EXCEPT !.disk = "new", !.index = "new"]
     \/ Error(4) /\ template' = [template EXCEPT !.disk = "new"]
  /\ upgrade_yaml' = TRUE
  /\ UNCHANGED <<content, head, managed_files>>

step5 ==
  /\ At(5, "start")
  /\ IF managed_files.disk THEN Go(6) ELSE Stop(5) /\ Fine
  /\ UNCHANGED <<upgrade_yaml, template, content, head, managed_files>>

(* get_upgrade, in the steps 6, 7, 9 and 10: without .upgrade.yaml the process ends, and writes no
   instructions.  InstructedStepRuns says that this does not happen. *)
Exists(f) == content[f] # "none"

(* files_to_remove and files_to_move: the files that the owner does not want to be touched stay; the
   others that match a pattern are to be looked at. *)
Leaves(f)  == Exists(f) /\ f \notin NoTouch
Moves(m)   == Leaves(m[1]) /\ ~Exists(m[2])
TaskToDo   == \/ \E f \in Removed : Exists(f) /\ f \in (Managed \ NoTouch) \cup Unmanaged
              \/ \E m \in Moved : Exists(m[1]) /\ \/ m[1] \in (Managed \ NoTouch) \cup Unmanaged
                                                  \/ m[2] \in Managed \cup Unmanaged

step6 ==
  /\ At(6, "start") /\ upgrade_yaml
  /\ content' = [f \in File |->
       IF (f \in Removed /\ Leaves(f)) \/ \E m \in Moved : m[1] = f /\ Moves(m) THEN "none"
       ELSE IF \E m \in Moved : m[2] = f /\ Moves(m) THEN content[(CHOOSE m \in Moved : m[2] = f /\ Moves(m))[1]]
       ELSE content[f]]
  /\ IF TaskToDo THEN Stop(7) /\ Fine ELSE Go(7)
  /\ UNCHANGED <<upgrade_yaml, template, head, managed_files>>

(* is_managed, of files to get: by the owner of the project. *)
IsManaged(f) ==
  /\ \/ (Exists(f) \/ f \notin NewFile) /\ f \in Include \ Exclude
     \/ ~Exists(f) /\ f \in Extra
     \/ f \in Managed
  /\ f \notin Unmanaged

(* files_to_get: a copy may be interrupted, or refused for the rights of the file. *)
Got == {f \in Template : ~IsManaged(f)}

step7 ==
  /\ At(7, "start") /\ upgrade_yaml
  /\ \/ Go(8) /\ content' = [f \in File |-> IF f \in Got THEN "new" ELSE content[f]]
     \/ /\ Error(7)
        /\ \E some \in SUBSET Got : content' = [f \in File |-> IF f \in some THEN "new" ELSE content[f]]
  /\ UNCHANGED <<upgrade_yaml, template, head, managed_files>>

(* Whether there are differences that the owner has to apply is not looked into. *)
step8 ==
  /\ At(8, "start") /\ GoOrStop(9)
  /\ UNCHANGED <<upgrade_yaml, template, content, head, managed_files>>

step9 ==
  /\ At(9, "start") /\ upgrade_yaml /\ GoOrStop(10)
  /\ UNCHANGED <<upgrade_yaml, template, content, head, managed_files>>

step10 ==
  /\ At(10, "start") /\ upgrade_yaml /\ GoOrStop(11)
  /\ UNCHANGED <<upgrade_yaml, template, content, head, managed_files>>

step11 ==
  /\ At(11, "start") /\ Stop(12) /\ Fine
  /\ upgrade_yaml' = FALSE
  /\ UNCHANGED <<template, content, head, managed_files>>

(* test_checkers *)
step12 ==
  /\ At(12, "start") /\ (Go(13) \/ Error(12))
  /\ UNCHANGED <<upgrade_yaml, template, content, head, managed_files>>

step13 ==
  /\ At(13, "start") /\ Stop(14) /\ Fine
  /\ template' = [template EXCEPT !.index = template.disk]
  /\ UNCHANGED <<upgrade_yaml, content, head, managed_files>>

step14 ==
  /\ At(14, "start")
  /\ running' = None /\ instructed' = None /\ finished' = TRUE
  /\ head' = content /\ template' = [template EXCEPT !.head = template.index]
  /\ managed_files' = [managed_files EXCEPT !.head = managed_files.disk]
  /\ UNCHANGED <<markers, upgrade_yaml, content, troubles>>

-----------------------------------------------------------------------------
(* The process is killed: in step 1 project.yaml may be the one of the last commit, in step 7 a file may
   be a part of the new one. *)
Interrupt ==
  /\ running # None /\ Trouble /\ running' = None
  /\ managed_files' = IF At(1, "half") THEN [managed_files EXCEPT !.disk = managed_files.head] ELSE managed_files
  /\ \/ UNCHANGED content
     \/ /\ At(7, "start")
        /\ \E f \in {g \in Got : content[g] # "new"} : content' = [content EXCEPT ![f] = "half"]
  /\ UNCHANGED <<markers, instructed, upgrade_yaml, template, head, finished>>

(* The owner edits a file, or fills managed_files in. *)
Edit(f) ==
  /\ running = None /\ ~finished /\ Trouble
  /\ Exists(f) /\ content' = [content EXCEPT ![f] = "own"]
  /\ UNCHANGED <<running, markers, instructed, upgrade_yaml, template, head, managed_files, finished>>

FillManagedFiles ==
  /\ running = None /\ ~managed_files.disk
  /\ managed_files' = [managed_files EXCEPT !.disk = TRUE]
  /\ UNCHANGED <<running, markers, instructed, upgrade_yaml, template, content, head, finished, troubles>>

Next ==
  \/ \E n \in Step : RunStep(n)
  \/ step0 \/ step1_reset \/ step1 \/ step2 \/ step3_move \/ step3 \/ step4_remove \/ step4 \/ step5
  \/ step6 \/ step7 \/ step8 \/ step9 \/ step10 \/ step11 \/ step12 \/ step13 \/ step14
  \/ Interrupt \/ FillManagedFiles
  \/ \E f \in File : Edit(f)

Spec == Init /\ [][Next]_upgradeVars

-----------------------------------------------------------------------------
(* However often an upgrade was interrupted, failed, was resumed or begun again: what it commits at the
   end is the new template, with its files in the project but for those that the owner manages, and
   nothing is left of the upgrade itself.  A new file of which the patterns say that the owner manages
   it may be half a file: once it exists it is not taken again. *)
FinishedIsUpgraded ==
  finished => /\ template.head = "new" /\ markers = {} /\ ~upgrade_yaml
              /\ \A f \in Template : head[f] = "half" => f \in NewFile \cap Include
              /\ \A f \in Template \ (Include \cup Extra \cup Managed) : head[f] \in {"new", "own"}
              /\ \A f \in Managed \ Unmanaged : head[f] # "new"

(* The step that the owner is told to run finds what it needs. *)
InstructedStepRuns ==
  instructed \in {6, 7, 8, 9, 10, 11, 12} => (upgrade_yaml \/ instructed = 12) /\ template.index = "new"
=============================================================================

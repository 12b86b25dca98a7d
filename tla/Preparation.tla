---------------------------- MODULE Preparation ----------------------------
(***************************************************************************)
(* The files of one task of a direct workspace, and who touches them:      *)
(* submissions of its idempotency key (GeneralTaskPreparer), the start and *)
(* the finish of its claims (the launcher and GeneralFinalizer), startup   *)
(* recovery, and the owner and the runtime, who edit and commit.           *)
(*                                                                         *)
(* The task root, .agent-work/scratch/<key>, holds the private prompt and, *)
(* written last, the prepared record. The artifact root, one directory per *)
(* agent, holds changes.patch. Two submissions of one key are two          *)
(* Manifests; they differ in their prompt and agree in the rest. A file of *)
(* the workspace has version 0 or 1.                                       *)
(*                                                                         *)
(* Only the daemon's path is here: prepare_named_direct_submission never   *)
(* makes a worktree. resume_launcher creates the directories again and     *)
(* nothing in them, which none of the steps below can tell.                *)
(***************************************************************************)
EXTENDS Integers, FiniteSets

CONSTANTS Files,           \* paths of the workspace outside .git and .agent-work
          Context,         \* repo_context of the task
          WriteManifest,   \* write_manifest of a workspace_write task
          Manifests,       \* submissions under the key of the task
          None,
          MaxSubmissions, MaxClaims, MaxEdits, MaxCrashes

ASSUME PathsOfWorkspace == Context \subseteq Files /\ WriteManifest \subseteq Files

VARIABLES
  mode,      \* access mode of the task
  git,       \* the workspace is a Git repository
  tree,      \* the files of the workspace
  head,      \* the files as committed
  root,      \* the task root
  artifact,  \* changes.patch in the artifact root
  row,       \* the row of the task and its result
  sub,       \* the submission that holds GENERAL_PREPARATION_LOCK
  run,       \* the claim or the recovery of the task under way
  daemon,    \* "up", "recovering" or "refused"
  touched,   \* a context file was edited since the task was enqueued (history)
  spent      \* submissions, claims, edits and crashes so far

vars == <<mode, git, tree, head, root, artifact, row, sub, run, daemon, touched, spent>>
ws == <<mode, git, tree, head, touched>>

ReadOnly == mode = "read_only"
Trees == [Files -> {0, 1}]
Digests(S) == [f \in S |-> tree[f]]
Dirty == {f \in Files : tree[f] # head[f]}
DirectWorkspaceSnapshot == tree

\* What a preparation records: the prompt, the digests of the context and,
\* for a read-only task, the snapshot of the workspace.
Prepared == [manifest : Manifests, context : [Context -> {0, 1}], snapshot : Trees \cup {None}]

\* A patch has the new version of some files; a result names one of these outcomes, of
\* which FAILED stands for TIMED_OUT and BUDGET_EXHAUSTED too.
Patches == UNION {[S -> {0, 1}] : S \in SUBSET Files}
Outcomes == {"COMPLETED", "CANCELLED", "FAILED", "RESULT_INVALID", "RUNTIME_LOST"}
Reasons == {"PREPARED_CONTENT_INVALID", "READ_ONLY_MODIFIED_TRACKED_STATE", "ARTIFACT_ROOT_NOT_EMPTY",
            "CHANGED_PATH_NOT_ALLOWLISTED", "TASK_ROOT_CLEANUP_FAILED", "CANCELLED"}
Results == [outcome : Outcomes \cup {None}, reason : Reasons \cup {None}, patch : Patches \cup {None},
            claim : Nat, recovered : BOOLEAN]

ASSUME NoneIsNothing == /\ None \notin Manifests /\ None \notin Prepared /\ None \notin Patches
                        /\ None \notin Results /\ None \notin Reasons

NoRoot == [prompt |-> None, record |-> None]
NoRow == [phase |-> "NONE", prepared |-> None, session |-> FALSE, cancel |-> FALSE,
          claims |-> 0, result |-> None, reaped |-> FALSE]
NoSub == [at |-> "idle", manifest |-> None, prepared |-> None]
NoRun == [at |-> "idle", recovery |-> FALSE, resumed |-> FALSE, proved |-> FALSE,
          requested |-> None, outcome |-> None, reason |-> None, patch |-> None, cleaned |-> FALSE]

Spend(what) == spent' = [spent EXCEPT ![what] = @ + 1]

PreparationInit ==
  /\ mode \in {"read_only", "workspace_write"} /\ git \in BOOLEAN
  /\ tree \in Trees /\ head = [f \in Files |-> 0] /\ (git \/ tree = head)
  /\ root = NoRoot /\ artifact = None /\ row = NoRow
  /\ sub = NoSub /\ run = NoRun /\ daemon = "up" /\ touched = FALSE
  /\ spent = [submissions |-> 0, edits |-> 0, crashes |-> 0]

----------------------------------------------------------------------------
(* Content checks and cleanup *)

\* The prompt in the task root is the one the preparation digested.
ImmutableInputs(p) == root.prompt = p.manifest
ContextUnchanged(p, S) == \A f \in S : tree[f] = p.context[f]
ValidatePreparedContent(p) == ImmutableInputs(p) /\ ContextUnchanged(p, Context)

\* At the end of a workspace_write task its own context files may differ.
ValidateFinalizationContent(p) ==
  /\ ImmutableInputs(p)
  /\ ContextUnchanged(p, IF ReadOnly THEN Context ELSE Context \ WriteManifest)

\* Mutant: only the private inputs are removed.
RemovesInputsOnly == root' = IF git THEN [root EXCEPT !.prompt = None] ELSE root

\* cleanup_task_root_path refuses a root without a .git above it.
CleanupTaskRoot == root' = IF git THEN NoRoot ELSE root

\* The finalizer's cleanup looks for a scratch ancestor only; it may fail.
CleanupDirectTaskRoot(removed) == root' = IF removed THEN NoRoot ELSE root

----------------------------------------------------------------------------
(* Submissions *)

Submit(m) ==
  /\ daemon = "up" /\ sub = NoSub /\ spent.submissions < MaxSubmissions
  /\ sub' = [NoSub EXCEPT !.at = "prepare", !.manifest = m] /\ Spend("submissions")
  /\ UNCHANGED <<ws, root, artifact, row, run, daemon>>

\* Mutant: every error of the comparison, a conflict too, removes the root.
ConflictIsStale ==
  /\ sub.at = "prepare" /\ root.record # None
  /\ IF ~ValidatePreparedContent(root.record) \/ root.record.manifest # sub.manifest
       THEN CleanupTaskRoot /\ sub' = NoSub
       ELSE sub' = [sub EXCEPT !.at = "enqueue", !.prepared = root.record] /\ UNCHANGED root
  /\ UNCHANGED <<ws, artifact, row, run, daemon, spent>>

\* The record of an earlier submission is checked before it is compared: one
\* whose content has changed is removed, whoever it belongs to.
ReusePrepared ==
  /\ sub.at = "prepare" /\ root.record # None
  /\ IF ~ValidatePreparedContent(root.record)
       THEN CleanupTaskRoot /\ sub' = NoSub
       ELSE /\ sub' = IF root.record.manifest = sub.manifest
                        THEN [sub EXCEPT !.at = "enqueue", !.prepared = root.record] ELSE NoSub
            /\ UNCHANGED root
  /\ UNCHANGED <<ws, artifact, row, run, daemon, spent>>

\* Mutant: a preparation starts from an empty artifact root.
EmptiesArtifacts ==
  /\ sub.at = "prepare" /\ root.record = None
  /\ sub' = [sub EXCEPT !.at = "record",
       !.prepared = [manifest |-> sub.manifest, context |-> Digests(Context), snapshot |-> None]]
  /\ root' = [root EXCEPT !.prompt = sub.manifest] /\ artifact' = None
  /\ UNCHANGED <<ws, row, run, daemon, spent>>

\* The context is digested, then the private inputs are written.
WriteInputs ==
  /\ sub.at = "prepare" /\ root.record = None
  /\ sub' = [sub EXCEPT !.at = "record",
       !.prepared = [manifest |-> sub.manifest, context |-> Digests(Context), snapshot |-> None]]
  /\ root' = [root EXCEPT !.prompt = sub.manifest]
  /\ UNCHANGED <<ws, artifact, row, run, daemon, spent>>

\* The record is last; it cannot be written into a root removed meanwhile.
WriteRecord ==
  /\ sub.at = "record" /\ root.prompt # None
  /\ LET p == [sub.prepared EXCEPT !.snapshot = IF ReadOnly THEN DirectWorkspaceSnapshot ELSE None]
     IN sub' = [sub EXCEPT !.at = "enqueue", !.prepared = p] /\ root' = [root EXCEPT !.record = p]
  /\ UNCHANGED <<ws, artifact, row, run, daemon, spent>>

\* An attachment, the snapshot or the record fails.
BuildFails ==
  /\ sub.at = "record" /\ CleanupTaskRoot /\ sub' = NoSub
  /\ UNCHANGED <<ws, artifact, row, run, daemon, spent>>

\* A key with a row is Existing or a Conflict; the root stays either way.
Enqueue ==
  /\ sub.at = "enqueue" /\ sub' = NoSub
  /\ \/ /\ row = NoRow
        /\ row' = [NoRow EXCEPT !.phase = "QUEUED", !.prepared = sub.prepared]
        /\ touched' = (sub.prepared.context # Digests(Context))
     \/ row # NoRow /\ UNCHANGED <<row, touched>>
  /\ UNCHANGED <<mode, git, tree, head, root, artifact, run, daemon, spent>>

----------------------------------------------------------------------------
(* The workspace belongs to its owner, who works on it beside the runtime. *)

Edit(f) ==
  /\ spent.edits < MaxEdits /\ Spend("edits")
  /\ tree' = [tree EXCEPT ![f] = 1 - @]
  /\ touched' = (touched \/ (f \in Context /\ row # NoRow))
  /\ UNCHANGED <<mode, git, head, root, artifact, row, sub, run, daemon>>

Commit ==
  /\ git /\ Dirty # {} /\ head' = tree
  /\ UNCHANGED <<mode, git, tree, touched, root, artifact, row, sub, run, daemon, spent>>

----------------------------------------------------------------------------
(* A claim: launch, turn, finalization, result *)

ClaimTask ==
  /\ daemon = "up" /\ run = NoRun /\ row.phase = "QUEUED" /\ row.claims < MaxClaims
  /\ row' = [row EXCEPT !.phase = "PREPARING", !.claims = @ + 1]
  /\ run' = [NoRun EXCEPT !.at = "launch"]
  /\ UNCHANGED <<ws, root, artifact, sub, daemon, spent>>

\* A task with a session is resumed and its content is not looked at.
RoutePolicy ==
  /\ run.at = "launch"
  /\ IF row.session \/ ValidatePreparedContent(row.prepared)
       THEN /\ run' = [run EXCEPT !.at = "turn"]
            /\ row' = [row EXCEPT !.phase = "RUNNING", !.session = TRUE]
       ELSE /\ run' = [run EXCEPT !.at = "finalize", !.requested = "RESULT_INVALID", !.proved = TRUE,
                             !.reason = "PREPARED_CONTENT_INVALID"]
            /\ UNCHANGED row
  /\ UNCHANGED <<ws, root, artifact, sub, daemon, spent>>

RequestStop ==
  /\ daemon = "up" /\ row.phase = "RUNNING" /\ row' = [row EXCEPT !.cancel = TRUE]
  /\ UNCHANGED <<ws, root, artifact, sub, run, daemon, spent>>

\* The runtime ended; FAILED stands for every end that is neither a completed
\* turn nor a stop somebody asked for. A claim counts as resumed when its prompt
\* is gone; without a proof that the process group is gone no file is touched.
TurnEnds(outcome, proved) ==
  /\ run.at = "turn"
  /\ (outcome = "COMPLETED" => proved) /\ (outcome = "CANCELLED" => row.cancel)
  /\ run' = IF proved
       THEN [run EXCEPT !.at = "finalize", !.requested = outcome, !.proved = TRUE,
                        !.resumed = (root.prompt = None)]
       ELSE [run EXCEPT !.at = "store", !.outcome = outcome]
  /\ UNCHANGED <<ws, root, artifact, row, sub, daemon, spent>>

Allowlisted == IF ReadOnly THEN {} ELSE WriteManifest

\* try_finalize: the first check that fails, in the code's order.
FinalizeError ==
  IF ~run.resumed /\ ReadOnly /\ DirectWorkspaceSnapshot # row.prepared.snapshot
    THEN "READ_ONLY_MODIFIED_TRACKED_STATE"
  ELSE IF ~run.resumed /\ ~ValidateFinalizationContent(row.prepared) THEN "PREPARED_CONTENT_INVALID"
  ELSE IF artifact # None THEN "ARTIFACT_ROOT_NOT_EMPTY"
  ELSE IF git /\ ~(Dirty \subseteq Allowlisted) THEN "CHANGED_PATH_NOT_ALLOWLISTED"
  ELSE None

DirectPatch == IF git /\ Dirty # {} THEN Digests(Dirty) ELSE None

\* The tree is accepted: changes.patch is written.
FinalizeTree ==
  /\ run.at = "finalize" /\ FinalizeError = None
  /\ artifact' = DirectPatch
  /\ run' = [run EXCEPT !.at = "checks", !.outcome = run.requested, !.patch = DirectPatch]
  /\ UNCHANGED <<ws, root, row, sub, daemon, spent>>

\* The tree is refused: a patch left by a failed attempt is removed, unless the
\* artifact root was not empty to begin with. A refused tree is cleaned up at
\* once, which may fail; a refused path is cleaned up once more and then is the
\* cleanup's failure.
FailedOutputs == IF FinalizeError = "ARTIFACT_ROOT_NOT_EMPTY" THEN artifact ELSE None

FinalizeRefused(removed) ==
  /\ run.at = "finalize" /\ FinalizeError # None
  /\ artifact' = FailedOutputs
  /\ CleanupDirectTaskRoot(removed)
  /\ run' = [run EXCEPT !.at = "store", !.outcome = "RESULT_INVALID", !.cleaned = removed,
       !.reason = IF FinalizeError = "CHANGED_PATH_NOT_ALLOWLISTED" /\ ~removed
                    THEN "TASK_ROOT_CLEANUP_FAILED" ELSE FinalizeError]
  /\ UNCHANGED <<ws, row, sub, daemon, spent>>

\* The required checks of a completed task run on the accepted tree; they need
\* the prepared content.
RequiredChecks(succeed) ==
  /\ run.at = "checks"
  /\ succeed \/ run.requested = "COMPLETED"
  /\ run' = [run EXCEPT !.at = "clean", !.outcome = IF succeed THEN @ ELSE "FAILED"]
  /\ UNCHANGED <<ws, root, artifact, row, sub, daemon, spent>>

FinishCleanup(removed) ==
  /\ run.at = "clean"
  /\ CleanupDirectTaskRoot(removed)
  /\ run' = [run EXCEPT !.at = "store", !.cleaned = removed,
                        !.outcome = IF removed THEN @ ELSE "RESULT_INVALID",
                        !.reason = IF removed THEN @ ELSE "TASK_ROOT_CLEANUP_FAILED"]
  /\ UNCHANGED <<ws, artifact, row, sub, daemon, spent>>

\* Recovery persists nothing it could not clean up and refuses to start; for a
\* task that is TERMINAL already it only looks at the cleanup.
Refuses == run.recovery /\ ~run.cleaned

Result(outcome, reason, patch) ==
  [outcome |-> outcome, reason |-> reason, patch |-> patch, claim |-> row.claims,
   recovered |-> run.recovery]

StoreResult ==
  /\ run.at = "store"
  /\ IF Refuses THEN daemon' = "refused" /\ run' = NoRun /\ UNCHANGED row
     ELSE /\ row' = IF row.phase = "TERMINAL" THEN row
               ELSE [row EXCEPT !.phase = "TERMINAL",
                      !.result = IF row.cancel /\ run.outcome # "CANCELLED"
                                   THEN Result("CANCELLED", "CANCELLED", None)
                                   ELSE Result(run.outcome, run.reason, run.patch)]
          /\ run' = IF run.cleaned /\ run.proved THEN [run EXCEPT !.at = "reap"] ELSE NoRun
          /\ UNCHANGED daemon
  /\ UNCHANGED <<ws, root, artifact, sub, spent>>

\* A resume may have come first; then reap_task fails and changes nothing.
Reap ==
  /\ run.at = "reap" /\ run' = NoRun
  /\ row' = IF row.phase = "TERMINAL" THEN [row EXCEPT !.reaped = TRUE] ELSE row
  /\ daemon' = IF daemon = "recovering" THEN "up" ELSE daemon
  /\ UNCHANGED <<ws, root, artifact, sub, spent>>

\* A task_send to a terminal task with a session.
RequeueForResume ==
  /\ daemon = "up" /\ row.phase = "TERMINAL" /\ row.session
  /\ row' = [row EXCEPT !.phase = "QUEUED", !.result = None, !.reaped = FALSE, !.cancel = FALSE]
  /\ UNCHANGED <<ws, root, artifact, sub, run, daemon, spent>>

----------------------------------------------------------------------------
(* Crash and startup recovery *)

Crash ==
  /\ spent.crashes < MaxCrashes /\ Spend("crashes")
  /\ daemon' = "recovering" /\ sub' = NoSub /\ run' = NoRun
  /\ UNCHANGED <<ws, root, artifact, row>>

NeedsRecovery == row.phase \in {"PREPARING", "RUNNING"} \/ (row.phase = "TERMINAL" /\ ~row.reaped)

\* An interrupted claim, or a terminal task nobody reaped, is finalized as not
\* resumed; the process group was stopped or never recorded.
RecoverStartupTask ==
  /\ daemon = "recovering" /\ run = NoRun
  /\ IF NeedsRecovery
       THEN /\ run' = [NoRun EXCEPT !.at = "finalize", !.recovery = TRUE, !.proved = TRUE,
                         !.requested = IF row.cancel THEN "CANCELLED" ELSE "RUNTIME_LOST"]
            /\ UNCHANGED daemon
       ELSE daemon' = "up" /\ UNCHANGED run
  /\ UNCHANGED <<ws, root, artifact, row, sub, spent>>

----------------------------------------------------------------------------
Submission ==
  \/ \E m \in Manifests : Submit(m)
  \/ ReusePrepared
  \/ WriteInputs
  \/ WriteRecord
  \/ BuildFails
  \/ Enqueue

TurnOutcomes == {"COMPLETED", "CANCELLED", "FAILED"}

ClaimStep ==
  \/ ClaimTask
  \/ RoutePolicy
  \/ RequestStop
  \/ \E o \in TurnOutcomes, proved \in BOOLEAN : TurnEnds(o, proved)
  \/ FinalizeTree
  \/ \E removed \in BOOLEAN : FinalizeRefused(removed) \/ FinishCleanup(removed)
  \/ \E succeed \in BOOLEAN : RequiredChecks(succeed)
  \/ StoreResult
  \/ Reap
  \/ RequeueForResume

Next ==
  \/ Submission
  \/ ClaimStep
  \/ \E f \in Files : Edit(f)
  \/ Commit
  \/ Crash
  \/ RecoverStartupTask

PreparationSpec == PreparationInit /\ [][Next]_vars

----------------------------------------------------------------------------
(* Every variable holds what the code can put in it, and a record is in    *)
(* the task root only with the prompt it was made with.                    *)
PreparationTypeOK ==
  /\ tree \in Trees /\ head \in Trees
  /\ root.prompt \in Manifests \cup {None} /\ root.record \in Prepared \cup {None}
  /\ root.record # None => root.prompt = root.record.manifest
  /\ artifact = None \/ \E S \in SUBSET Files : artifact \in [S -> {0, 1}]
  /\ row.prepared \in Prepared \cup {None}
  /\ row.phase = "TERMINAL" <=> row.result # None
  /\ row.reaped => row.phase = "TERMINAL"

(* The patch a stored result names is in the artifact root, unchanged,     *)
(* until the task is resumed, whatever submissions, edits, commits and     *)
(* crashes come after it. The one step that loses it is the second         *)
(* finalization that startup recovery makes of a terminal task whose reap  *)
(* was lost: the task root is gone, so the content check fails and the     *)
(* outputs of the "failed" finalization are removed                        *)
(* (GeneralFinalizer::prepare, recover_startup_task).                      *)
Published == IF row.phase = "TERMINAL" THEN row.result.patch ELSE None

PatchKeptStep ==
  /\ Published # None /\ Published' = Published /\ ~run.recovery => artifact' = artifact
  /\ Published = None /\ Published' # None => artifact' = Published'

PatchKept == [][PatchKeptStep]_vars

(* A first claim whose context nobody edited since it was enqueued is      *)
(* never refused for its content, whatever other submissions of its key do *)
(* to the task root meanwhile, except by startup recovery.                 *)
UntouchedIsValid ==
  row.phase = "TERMINAL" /\ row.result.reason = "PREPARED_CONTENT_INVALID"
    => touched \/ row.result.recovered \/ row.result.claim > 1

=============================================================================

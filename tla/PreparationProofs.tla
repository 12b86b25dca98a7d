------------------------- MODULE PreparationProofs -------------------------
(***************************************************************************)
(* Machine-checked safety of the files of a task, for any set of files,    *)
(* any manifests under its key and any number of submissions, claims,      *)
(* edits and crashes.                                                      *)
(***************************************************************************)
EXTENDS Preparation, TLAPS

Roots == [prompt : Manifests \cup {None}, record : Prepared \cup {None}]
Rows == [phase : {"NONE", "QUEUED", "PREPARING", "RUNNING", "TERMINAL"}, prepared : Prepared \cup {None},
         session : BOOLEAN, cancel : BOOLEAN, claims : Nat, result : Results \cup {None}, reaped : BOOLEAN]
Subs == [at : {"idle", "prepare", "record", "enqueue"}, manifest : Manifests \cup {None},
         prepared : Prepared \cup {None}]
Runs == [at : {"idle", "launch", "turn", "finalize", "checks", "clean", "store", "reap"}, recovery : BOOLEAN,
         resumed : BOOLEAN, proved : BOOLEAN, requested : Outcomes \cup {None}, outcome : Outcomes \cup {None},
         reason : Reasons \cup {None}, patch : Patches \cup {None}, cleaned : BOOLEAN]

FileTypes == /\ mode \in {"read_only", "workspace_write"} /\ git \in BOOLEAN /\ touched \in BOOLEAN
             /\ tree \in Trees /\ head \in Trees
             /\ root \in Roots /\ artifact \in Patches \cup {None}
StepTypes == row \in Rows /\ sub \in Subs /\ run \in Runs

\* The submission that holds the lock writes the root it found without a record; one
\* that is about to enqueue the first row has its record there.
SubInv ==
  /\ root.record # None => root.prompt = root.record.manifest
  /\ sub.at # "idle" => sub.manifest \in Manifests
  /\ sub.at = "record" => /\ root.record = None /\ root.prompt \in {sub.manifest, None}
                          /\ sub.prepared \in Prepared /\ sub.prepared.manifest = sub.manifest
  /\ sub.at = "enqueue" => sub.prepared \in Prepared /\ (row.phase = "NONE" => root.record = sub.prepared)

\* The row and its result.
RowInv ==
  /\ row.phase = "NONE" <=> row = NoRow
  /\ row.phase # "NONE" => row.prepared \in Prepared
  /\ row.phase = "TERMINAL" <=> row.result # None
  /\ row.reaped => row.phase = "TERMINAL"
  /\ row.phase \notin {"NONE", "QUEUED"} => row.claims > 0
  /\ UntouchedIsValid

\* The claim or the recovery under way, the row it is about and the patch it wrote.
RunInv ==
  /\ run.at = "idle" <=> run = NoRun
  /\ run.recovery => row.phase \notin {"NONE", "QUEUED"} /\ run.at \notin {"launch", "turn"} /\ daemon = "recovering"
  /\ run.at \notin {"idle", "reap"} /\ ~run.recovery => row.phase \in {"PREPARING", "RUNNING"}
  /\ run.at = "reap" => row.claims > 0
  /\ run.at \in {"launch", "turn", "finalize"} => run.patch = None
  /\ run.at \in {"checks", "clean", "store"} => run.patch \in {None, artifact}
  /\ run.reason = "PREPARED_CONTENT_INVALID" /\ ~run.recovery => touched \/ row.claims > 1

\* The first claim, up to the cleanup at its end.
FirstClaim == \/ row.phase = "QUEUED" /\ row.claims = 0
              \/ run.at \in {"launch", "turn", "finalize", "checks", "clean"} /\ ~run.recovery /\ row.claims = 1

\* Until then the root is the one the row was enqueued with, unless somebody edited
\* the context.
FirstInv ==
  /\ row.phase # "NONE" /\ ~touched => row.prepared.context = Digests(Context)
  /\ FirstClaim /\ ~touched => root.record = row.prepared

PrepInv == FileTypes /\ StepTypes /\ SubInv /\ RowInv /\ RunInv /\ FirstInv

-----------------------------------------------------------------------------
(* What the checks of a preparation read: the digests of the context.      *)
LEMMA DigestsType ==
  ASSUME tree \in Trees
  PROVE  /\ Digests(Context) \in [Context -> {0, 1}]
         /\ \A S \in SUBSET Files : Digests(S) \in Patches
BY PathsOfWorkspace DEF Digests, Trees, Patches

(* A record whose context is the present one, in a root that has it, is    *)
(* valid prepared content, and so is any part of it.                       *)
LEMMA RecordIsValid ==
  ASSUME NEW p \in Prepared, root.prompt = p.manifest, p.context = Digests(Context)
  PROVE  ValidatePreparedContent(p) /\ ValidateFinalizationContent(p)
BY DEF ValidatePreparedContent, ValidateFinalizationContent, ImmutableInputs, ContextUnchanged, Digests, Prepared

(* No root, no submission and no run are of their types.                   *)
LEMMA NothingTypes == NoRoot \in Roots /\ NoSub \in Subs /\ NoRun \in Runs /\ NoRow \in Rows
BY DEF NoRoot, NoSub, NoRun, NoRow, Roots, Subs, Runs, Rows

(* Submissions: only the holder of the lock writes the root, and it leaves *)
(* a valid record of the row alone.                                        *)
LEMMA SubmissionKeeps ==
  ASSUME PrepInv, Submission
  PROVE  PrepInv'
<1> USE DEF PrepInv, FileTypes, StepTypes, ws
<1>1. ASSUME NEW m \in Manifests, Submit(m)
      PROVE  PrepInv'
  <2>1. /\ sub' = [NoSub EXCEPT !.at = "prepare", !.manifest = m]
        /\ UNCHANGED <<ws, root, artifact, row, run, daemon>>
    BY <1>1 DEF Submit
  <2>2. sub' \in Subs /\ sub'.at = "prepare" /\ sub'.manifest = m
    BY <2>1 DEF NoSub, Subs
  <2>3. SubInv'
    BY <2>1, <2>2 DEF SubInv
  <2> QED BY <2>1, <2>2, <2>3 DEF RowInv, UntouchedIsValid, RunInv, FirstInv, FirstClaim, Digests
<1>2. CASE ReusePrepared
  <2>0. /\ sub.at = "prepare" /\ root.record \in Prepared /\ root.prompt = root.record.manifest
        /\ UNCHANGED <<ws, artifact, row, run, daemon>>
    BY <1>2 DEF ReusePrepared, Roots, SubInv
  <2>1. CASE ~ValidatePreparedContent(root.record)
    <3>1. sub' = NoSub /\ root' \in {NoRoot, root}
      BY <1>2, <2>1 DEF ReusePrepared, CleanupTaskRoot
    <3>2. root' \in Roots /\ sub' \in Subs /\ sub'.at = "idle" /\ (root'.record = root.record \/ root'.record = None)
      BY <3>1, NothingTypes DEF NoRoot, NoSub
    <3>3. SubInv'
      BY <3>1, <3>2 DEF SubInv, NoRoot
    <3>4. ~(FirstClaim /\ ~touched)
      <4>1. FirstClaim => row.phase # "NONE"
        BY DEF FirstClaim, RunInv
      <4> QED BY <2>0, <2>1, <4>1, RecordIsValid DEF FirstInv
    <3>5. FirstInv'
      BY <2>0, <3>4 DEF FirstInv, FirstClaim, Digests
    <3> QED BY <2>0, <3>2, <3>3, <3>5 DEF RowInv, UntouchedIsValid, RunInv
  <2>2. CASE ValidatePreparedContent(root.record)
    <3>1. /\ sub' = IF root.record.manifest = sub.manifest
                      THEN [sub EXCEPT !.at = "enqueue", !.prepared = root.record] ELSE NoSub
          /\ UNCHANGED root
      BY <1>2, <2>2 DEF ReusePrepared
    <3>2. sub' \in Subs
      BY <2>0, <3>1, NothingTypes DEF Subs
    <3>3. SubInv'
      BY <2>0, <3>1 DEF SubInv, Subs, NoSub
    <3> QED BY <2>0, <3>1, <3>2, <3>3 DEF RowInv, UntouchedIsValid, RunInv, FirstInv, FirstClaim, Digests
  <2> QED BY <2>1, <2>2
<1>3. CASE WriteInputs
  <2> DEFINE p == [manifest |-> sub.manifest, context |-> Digests(Context), snapshot |-> None]
  <2>1. /\ sub.at = "prepare" /\ root.record = None /\ UNCHANGED <<ws, artifact, row, run, daemon>>
        /\ sub' = [sub EXCEPT !.at = "record", !.prepared = p]
        /\ root' = [root EXCEPT !.prompt = sub.manifest]
    BY <1>3 DEF WriteInputs
  <2>2. p \in Prepared /\ p.manifest = sub.manifest
    BY <2>1, DigestsType DEF Prepared, SubInv
  <2> HIDE DEF p
  <2>3. sub' \in Subs /\ root' \in Roots
    BY <2>1, <2>2 DEF Subs, Roots
  <2>4. SubInv'
    BY <2>1, <2>2 DEF SubInv, Subs, Roots
  <2>5. FirstInv'
    BY <2>1 DEF FirstInv, FirstClaim, Digests, Roots
  <2> QED BY <2>1, <2>3, <2>4, <2>5 DEF RowInv, UntouchedIsValid, RunInv
<1>4. CASE WriteRecord
  <2> DEFINE p == [sub.prepared EXCEPT !.snapshot = IF ReadOnly THEN DirectWorkspaceSnapshot ELSE None]
  <2>1. /\ sub.at = "record" /\ root.prompt # None /\ UNCHANGED <<ws, artifact, row, run, daemon>>
        /\ sub' = [sub EXCEPT !.at = "enqueue", !.prepared = p]
        /\ root' = [root EXCEPT !.record = p]
    BY <1>4 DEF WriteRecord
  <2>2. p \in Prepared /\ p.manifest = sub.manifest
    BY <2>1 DEF Prepared, SubInv, DirectWorkspaceSnapshot
  <2> HIDE DEF p
  <2>3. sub' \in Subs /\ root' \in Roots
    BY <2>1, <2>2 DEF Subs, Roots
  <2>4. SubInv'
    BY <2>1, <2>2 DEF SubInv, Subs, Roots
  <2>5. root.record = None
    BY <2>1 DEF SubInv
  <2>6. ~(FirstClaim /\ ~touched)
    BY <2>5, NoneIsNothing DEF FirstInv, FirstClaim, RowInv, RunInv
  <2>7. FirstInv'
    BY <2>1, <2>6 DEF FirstInv, FirstClaim, Digests
  <2> QED BY <2>1, <2>3, <2>4, <2>7 DEF RowInv, UntouchedIsValid, RunInv
<1>5. CASE BuildFails
  <2>1. sub.at = "record" /\ sub' = NoSub /\ root' \in {NoRoot, root} /\ UNCHANGED <<ws, artifact, row, run, daemon>>
    BY <1>5 DEF BuildFails, CleanupTaskRoot
  <2>2. root' \in Roots /\ sub' \in Subs /\ sub'.at = "idle" /\ root'.record = None /\ root.record = None
    BY <2>1, NothingTypes DEF NoRoot, NoSub, SubInv
  <2>3. SubInv' /\ FirstInv'
    BY <2>1, <2>2 DEF SubInv, FirstInv, FirstClaim, Digests
  <2> QED BY <2>1, <2>2, <2>3 DEF RowInv, UntouchedIsValid, RunInv
<1>6. CASE Enqueue
  <2>1. sub.at = "enqueue" /\ sub' = NoSub /\ UNCHANGED <<mode, git, tree, head, root, artifact, run, daemon>>
    BY <1>6 DEF Enqueue
  <2>2. sub' \in Subs /\ sub'.at = "idle" /\ sub.prepared \in Prepared
    BY <2>1, NothingTypes DEF NoSub, SubInv
  <2>3. CASE row = NoRow
    <3>1. /\ row' = [NoRow EXCEPT !.phase = "QUEUED", !.prepared = sub.prepared]
          /\ touched' = (sub.prepared.context # Digests(Context))
      BY <1>6, <2>3 DEF Enqueue
    <3>2. /\ row' \in Rows /\ touched' \in BOOLEAN /\ row'.phase = "QUEUED" /\ row'.prepared = sub.prepared
          /\ row'.claims = 0 /\ row'.result = None /\ ~row'.reaped /\ row.phase = "NONE"
      BY <2>2, <2>3, <3>1 DEF NoRow, Rows
    <3>3. RowInv'
      BY <2>2, <3>2 DEF RowInv, UntouchedIsValid, NoRow
    <3>4. run = NoRun
      BY <2>3, <3>2 DEF RunInv, NoRow
    <3>5. RunInv'
      BY <2>1, <3>4, NoneIsNothing DEF RunInv, NoRun, Reasons
    <3>6. FirstInv' /\ SubInv'
      BY <2>1, <2>2, <3>1, <3>2 DEF FirstInv, SubInv, Digests
    <3> QED BY <2>1, <2>2, <3>2, <3>3, <3>5, <3>6
  <2>4. CASE row # NoRow
    <3>1. UNCHANGED <<row, touched>>
      BY <1>6, <2>4 DEF Enqueue
    <3>2. SubInv'
      BY <2>1, <2>2, <3>1 DEF SubInv
    <3> QED BY <2>1, <2>2, <3>1, <3>2 DEF RowInv, UntouchedIsValid, RunInv, FirstInv, FirstClaim, Digests
  <2> QED BY <2>3, <2>4
<1> QED BY <1>1, <1>2, <1>3, <1>4, <1>5, <1>6 DEF Submission

(* The owner and the runtime: an edit of the context is noticed, a commit  *)
(* changes nothing the preparation recorded.                               *)
LEMMA WorkspaceKeeps ==
  ASSUME PrepInv, (\E f \in Files : Edit(f)) \/ Commit
  PROVE  PrepInv'
<1> USE DEF PrepInv, FileTypes, StepTypes
<1>1. ASSUME NEW f \in Files, Edit(f)
      PROVE  PrepInv'
  <2>1. /\ tree' = [tree EXCEPT ![f] = 1 - @] /\ touched' = (touched \/ (f \in Context /\ row # NoRow))
        /\ UNCHANGED <<mode, git, head, root, artifact, row, sub, run, daemon>>
    BY <1>1 DEF Edit
  <2>2. tree' \in Trees /\ touched' \in BOOLEAN
    BY <2>1 DEF Trees
  <2>3. f \notin Context => Digests(Context)' = Digests(Context)
    BY <2>1, PathsOfWorkspace DEF Digests, Trees
  <2>4. touched => touched'
    BY <2>1
  <2>5. SubInv' /\ RowInv' /\ RunInv'
    BY <2>1, <2>4 DEF SubInv, RowInv, UntouchedIsValid, RunInv
  <2>6. FirstInv'
    BY <2>1, <2>3 DEF FirstInv, FirstClaim, RowInv
  <2> QED BY <2>1, <2>2, <2>5, <2>6
<1>2. CASE Commit
  <2>1. head' = tree /\ UNCHANGED <<mode, git, tree, touched, root, artifact, row, sub, run, daemon>>
    BY <1>2 DEF Commit
  <2> QED BY <2>1 DEF SubInv, RowInv, UntouchedIsValid, RunInv, FirstInv, FirstClaim, Digests
<1> QED BY <1>1, <1>2

(* A crash and the recovery after it: nothing is taken back, and a         *)
(* recovered task is one that was claimed.                                 *)
LEMMA RecoveryKeeps ==
  ASSUME PrepInv, Crash \/ RecoverStartupTask
  PROVE  PrepInv'
<1> USE DEF PrepInv, FileTypes, StepTypes, ws
<1>1. CASE Crash
  <2>1. daemon' = "recovering" /\ sub' = NoSub /\ run' = NoRun /\ UNCHANGED <<ws, root, artifact, row>>
    BY <1>1 DEF Crash
  <2>2. sub' \in Subs /\ run' \in Runs
    BY <2>1, NothingTypes
  <2>3. SubInv' /\ RowInv'
    BY <2>1 DEF SubInv, RowInv, UntouchedIsValid, NoSub
  <2>4. RunInv'
    BY <2>1, NoneIsNothing DEF RunInv, NoRun, Reasons
  <2>5. FirstInv'
    BY <2>1 DEF FirstInv, FirstClaim, Digests, NoRun
  <2> QED BY <2>1, <2>2, <2>3, <2>4, <2>5
<1>2. CASE RecoverStartupTask
  <2>1. daemon = "recovering" /\ run = NoRun /\ UNCHANGED <<ws, root, artifact, row, sub>>
    BY <1>2 DEF RecoverStartupTask
  <2>2. SubInv' /\ RowInv'
    BY <2>1 DEF SubInv, RowInv, UntouchedIsValid
  <2>3. CASE NeedsRecovery
    <3>1. /\ run' = [NoRun EXCEPT !.at = "finalize", !.recovery = TRUE, !.proved = TRUE,
                         !.requested = IF row.cancel THEN "CANCELLED" ELSE "RUNTIME_LOST"]
          /\ daemon' = daemon
      BY <1>2, <2>3 DEF RecoverStartupTask
    <3>2. /\ run' \in Runs /\ run'.at = "finalize" /\ run'.recovery /\ run'.patch = None
      BY <3>1 DEF NoRun, Runs, Outcomes
    <3>3. RunInv'
      BY <2>1, <2>3, <3>1, <3>2 DEF RunInv, NeedsRecovery, NoRun
    <3>4. FirstInv'
      BY <2>1, <3>2 DEF FirstInv, FirstClaim, Digests
    <3> QED BY <2>1, <2>2, <3>2, <3>3, <3>4
  <2>4. CASE ~NeedsRecovery
    <3>1. daemon' = "up" /\ run' = run
      BY <1>2, <2>4 DEF RecoverStartupTask
    <3>2. RunInv'
      BY <2>1, <3>1 DEF RunInv, NoRun
    <3>3. FirstInv'
      BY <2>1, <3>1 DEF FirstInv, FirstClaim, Digests
    <3> QED BY <2>1, <2>2, <3>1, <3>2, <3>3
  <2> QED BY <2>3, <2>4
<1> QED BY <1>1, <1>2

(* The launch and the turn of a claim: the content of a first claim that   *)
(* nobody touched is valid, so the launch never refuses it.                *)
LEMMA LaunchKeeps ==
  ASSUME PrepInv, ClaimTask \/ RoutePolicy \/ RequestStop
                  \/ \E o \in TurnOutcomes, proved \in BOOLEAN : TurnEnds(o, proved)
  PROVE  PrepInv'
<1> USE DEF PrepInv, FileTypes, StepTypes, ws
<1>0. SubInv' <=> SubInv
  BY DEF SubInv, ClaimTask, RoutePolicy, RequestStop, TurnEnds, Rows
<1>1. CASE ClaimTask
  <2>1. /\ run = NoRun /\ row.phase = "QUEUED" /\ UNCHANGED <<ws, root, artifact, sub, daemon>>
        /\ row' = [row EXCEPT !.phase = "PREPARING", !.claims = @ + 1]
        /\ run' = [NoRun EXCEPT !.at = "launch"]
    BY <1>1 DEF ClaimTask
  <2>2. /\ run' \in Runs /\ run'.at = "launch" /\ ~run'.recovery /\ run'.patch = None /\ run'.reason = None
    BY <2>1 DEF NoRun, Runs
  <2>3. /\ row' \in Rows /\ row'.phase = "PREPARING" /\ row'.claims = row.claims + 1 /\ row'.result = row.result
        /\ row'.reaped = row.reaped /\ row'.prepared = row.prepared
    <3>1. row \in Rows /\ row.claims + 1 \in Nat
      BY DEF Rows
    <3>2. [row EXCEPT !.phase = "PREPARING", !.claims = row.claims + 1] \in Rows
      BY <3>1 DEF Rows
    <3>3. row' = [row EXCEPT !.phase = "PREPARING", !.claims = row.claims + 1]
      BY <2>1
    <3> QED BY <3>1, <3>2, <3>3 DEF Rows
  <2>c. row.claims \in Nat /\ row'.claims > 0
    BY <2>3 DEF Rows
  <2>4. RowInv'
    BY <2>1, <2>3, <2>c DEF RowInv, UntouchedIsValid, NoRow
  <2>5. RunInv'
    <3>1. run'.reason # "PREPARED_CONTENT_INVALID"
      BY <2>2, NoneIsNothing DEF Reasons
    <3> QED BY <2>1, <2>2, <2>3, <2>c, <3>1 DEF RunInv, NoRun
  <2>6. FirstInv'
    BY <2>1, <2>2, <2>3 DEF FirstInv, FirstClaim, Digests, Rows
  <2> QED BY <1>0, <2>1, <2>2, <2>3, <2>4, <2>5, <2>6
<1>2. CASE RoutePolicy
  <2>0. run.at = "launch" /\ ~run.recovery /\ row.phase \in {"PREPARING", "RUNNING"} /\ run.patch = None
        /\ UNCHANGED <<ws, root, artifact, sub, daemon>> /\ row.prepared \in Prepared /\ row.claims > 0
    BY <1>2 DEF RoutePolicy, RunInv, RowInv
  <2>1. CASE row.session \/ ValidatePreparedContent(row.prepared)
    <3>1. run' = [run EXCEPT !.at = "turn"] /\ row' = [row EXCEPT !.phase = "RUNNING", !.session = TRUE]
      BY <1>2, <2>1 DEF RoutePolicy
    <3>2. /\ run' \in Runs /\ run'.at = "turn" /\ ~run'.recovery /\ run'.patch = None /\ run'.reason = run.reason
      BY <2>0, <3>1 DEF Runs
    <3>3. /\ row' \in Rows /\ row'.phase = "RUNNING" /\ row'.claims = row.claims /\ row'.result = row.result
          /\ row'.reaped = row.reaped /\ row'.prepared = row.prepared
      BY <3>1 DEF Rows
    <3>4. RowInv'
      BY <2>0, <3>3 DEF RowInv, UntouchedIsValid, NoRow
    <3>5. RunInv'
      BY <2>0, <3>2, <3>3 DEF RunInv, NoRun
    <3>6. FirstInv'
      BY <2>0, <3>2, <3>3 DEF FirstInv, FirstClaim, Digests
    <3> QED BY <1>0, <2>0, <3>2, <3>3, <3>4, <3>5, <3>6
  <2>2. CASE ~(row.session \/ ValidatePreparedContent(row.prepared))
    <3>1. /\ run' = [run EXCEPT !.at = "finalize", !.requested = "RESULT_INVALID", !.proved = TRUE,
                               !.reason = "PREPARED_CONTENT_INVALID"]
          /\ UNCHANGED row
      BY <1>2, <2>2 DEF RoutePolicy
    <3>2. run' \in Runs /\ run'.at = "finalize" /\ ~run'.recovery /\ run'.patch = None
      BY <2>0, <3>1 DEF Runs, Outcomes, Reasons
    <3>3. ASSUME ~touched, row.claims = 1
          PROVE  FALSE
      <4>1. root.record = row.prepared /\ row.prepared.context = Digests(Context)
        BY <2>0, <3>3 DEF FirstInv, FirstClaim
      <4>2. root.prompt = row.prepared.manifest
        BY <2>0, <4>1, NoneIsNothing DEF SubInv
      <4> QED BY <2>0, <2>2, <4>1, <4>2, RecordIsValid
    <3>4. touched \/ row.claims > 1
      BY <2>0, <3>3 DEF Rows
    <3>5. RunInv'
      BY <2>0, <3>1, <3>2, <3>4 DEF RunInv, NoRun
    <3>6. RowInv' /\ FirstInv'
      BY <2>0, <3>1, <3>2 DEF RowInv, UntouchedIsValid, FirstInv, FirstClaim, Digests
    <3> QED BY <1>0, <2>0, <3>1, <3>2, <3>5, <3>6
  <2> QED BY <2>1, <2>2
<1>3. CASE RequestStop
  <2>1. /\ row.phase = "RUNNING" /\ row' = [row EXCEPT !.cancel = TRUE]
        /\ UNCHANGED <<ws, root, artifact, sub, run, daemon>>
    BY <1>3 DEF RequestStop
  <2>2. /\ row' \in Rows /\ row'.phase = "RUNNING" /\ row'.claims = row.claims /\ row'.result = row.result
        /\ row'.reaped = row.reaped /\ row'.prepared = row.prepared
    BY <2>1 DEF Rows
  <2>3. RowInv'
    BY <2>1, <2>2 DEF RowInv, UntouchedIsValid, NoRow
  <2>4. RunInv' /\ FirstInv'
    BY <2>1, <2>2 DEF RunInv, FirstInv, FirstClaim, Digests
  <2> QED BY <1>0, <2>1, <2>2, <2>3, <2>4
<1>4. ASSUME NEW o \in TurnOutcomes, NEW proved \in BOOLEAN, TurnEnds(o, proved)
      PROVE  PrepInv'
  <2>1. /\ run.at = "turn" /\ UNCHANGED <<ws, root, artifact, row, sub, daemon>>
        /\ run' = IF proved
             THEN [run EXCEPT !.at = "finalize", !.requested = o, !.proved = TRUE, !.resumed = (root.prompt = None)]
             ELSE [run EXCEPT !.at = "store", !.outcome = o]
    BY <1>4 DEF TurnEnds
  <2>2. o \in Outcomes
    BY DEF TurnOutcomes, Outcomes
  <2>3. /\ run' \in Runs /\ run'.at \in {"finalize", "store"} /\ run'.recovery = run.recovery
        /\ run'.patch = run.patch /\ run'.reason = run.reason
    BY <2>1, <2>2 DEF Runs
  <2>4. RunInv'
    BY <2>1, <2>3 DEF RunInv, NoRun
  <2>5. RowInv' /\ FirstInv'
    BY <2>1, <2>3 DEF RowInv, UntouchedIsValid, FirstInv, FirstClaim, Digests
  <2> QED BY <1>0, <2>1, <2>3, <2>4, <2>5
<1> QED BY <1>1, <1>2, <1>3, <1>4

(* The finalizer's check of the content never fails for a first claim that *)
(* nobody touched.                                                         *)
LEMMA UntouchedPassesFinalization ==
  ASSUME PrepInv, run.at = "finalize", ~run.recovery, row.claims = 1, ~touched
  PROVE  FinalizeError # "PREPARED_CONTENT_INVALID"
<1>1. row.prepared \in Prepared
  BY DEF PrepInv, RunInv, RowInv
<1>2. root.record = row.prepared /\ row.prepared.context = Digests(Context)
  BY DEF PrepInv, FirstInv, FirstClaim, RunInv
<1>3. root.prompt = row.prepared.manifest
  BY <1>1, <1>2, NoneIsNothing DEF PrepInv, SubInv
<1>4. ValidateFinalizationContent(row.prepared)
  BY <1>1, <1>2, <1>3, RecordIsValid
<1> QED BY <1>4, NoneIsNothing DEF FinalizeError, Reasons

(* Every error of the finalizer is one of the reasons.                     *)
LEMMA FinalizeErrorType == FinalizeError \in Reasons \cup {None}
BY DEF FinalizeError, Reasons

(* The end of a claim, up to the stored result.                            *)
LEMMA FinalizeKeeps ==
  ASSUME PrepInv, \/ FinalizeTree
                  \/ \E removed \in BOOLEAN : FinalizeRefused(removed) \/ FinishCleanup(removed)
                  \/ \E succeed \in BOOLEAN : RequiredChecks(succeed)
  PROVE  PrepInv'
<1> USE DEF PrepInv, FileTypes, StepTypes, ws
<1>a. row.phase \notin {"NONE", "QUEUED"} /\ run.at # "idle" /\ UNCHANGED <<ws, row, sub, daemon>>
  BY DEF FinalizeTree, FinalizeRefused, FinishCleanup, RequiredChecks, RunInv
<1>b. RowInv'
  BY <1>a DEF RowInv, UntouchedIsValid
<1>c. ASSUME root' \in {NoRoot, root}
      PROVE  root' \in Roots /\ SubInv'
  BY <1>a, <1>c, NothingTypes DEF SubInv, NoRoot
<1>d. row.claims \in Nat /\ row.claims > 0
  BY <1>a DEF Rows, RowInv
<1>1. CASE FinalizeTree
  <2>1. /\ run.at = "finalize" /\ UNCHANGED root /\ artifact' = DirectPatch
        /\ run' = [run EXCEPT !.at = "checks", !.outcome = run.requested, !.patch = DirectPatch]
    BY <1>1 DEF FinalizeTree
  <2>2. DirectPatch \in Patches \cup {None}
    BY DigestsType DEF DirectPatch, Dirty
  <2>3. /\ run' \in Runs /\ run'.at = "checks" /\ run'.patch = artifact' /\ run'.recovery = run.recovery
        /\ run'.reason = run.reason
    BY <2>1, <2>2 DEF Runs
  <2>4. RunInv'
    BY <1>a, <2>1, <2>3 DEF RunInv, NoRun
  <2>5. FirstInv'
    BY <1>a, <2>1, <2>3 DEF FirstInv, FirstClaim, Digests
  <2> QED BY <1>a, <1>b, <1>c, <2>1, <2>2, <2>3, <2>4, <2>5
<1>2. ASSUME NEW removed \in BOOLEAN, FinalizeRefused(removed)
      PROVE  PrepInv'
  <2> DEFINE why == IF FinalizeError = "CHANGED_PATH_NOT_ALLOWLISTED" /\ ~removed
                      THEN "TASK_ROOT_CLEANUP_FAILED" ELSE FinalizeError
  <2>1. /\ run.at = "finalize" /\ root' \in {NoRoot, root} /\ artifact' \in {artifact, None}
        /\ run' = [run EXCEPT !.at = "store", !.outcome = "RESULT_INVALID", !.cleaned = removed, !.reason = why]
    BY <1>2 DEF FinalizeRefused, CleanupDirectTaskRoot, FailedOutputs
  <2>2. why \in Reasons \cup {None}
    BY FinalizeErrorType DEF Reasons
  <2>3. why = "PREPARED_CONTENT_INVALID" /\ ~run.recovery => touched \/ row.claims > 1
    BY <1>d, <2>1, UntouchedPassesFinalization
  <2> HIDE DEF why
  <2>4. /\ run' \in Runs /\ run'.at = "store" /\ run'.patch = run.patch /\ run'.recovery = run.recovery
        /\ run'.reason = why
    BY <2>1, <2>2 DEF Runs, Outcomes
  <2>5. RunInv'
    BY <1>a, <2>1, <2>3, <2>4 DEF RunInv, NoRun
  <2>6. FirstInv'
    BY <1>a, <2>4 DEF FirstInv, FirstClaim, Digests
  <2> QED BY <1>a, <1>b, <1>c, <2>1, <2>4, <2>5, <2>6
<1>3. ASSUME NEW succeed \in BOOLEAN, RequiredChecks(succeed)
      PROVE  PrepInv'
  <2>1. /\ run.at = "checks" /\ UNCHANGED <<root, artifact>>
        /\ run' = [run EXCEPT !.at = "clean", !.outcome = IF succeed THEN @ ELSE "FAILED"]
    BY <1>3 DEF RequiredChecks
  <2>2. /\ run' \in Runs /\ run'.at = "clean" /\ run'.patch = run.patch /\ run'.recovery = run.recovery
        /\ run'.reason = run.reason
    BY <2>1 DEF Runs, Outcomes
  <2>3. RunInv'
    BY <1>a, <2>1, <2>2 DEF RunInv, NoRun
  <2>4. FirstInv'
    BY <1>a, <2>1, <2>2 DEF FirstInv, FirstClaim, Digests
  <2> QED BY <1>a, <1>b, <1>c, <2>1, <2>2, <2>3, <2>4
<1>4. ASSUME NEW removed \in BOOLEAN, FinishCleanup(removed)
      PROVE  PrepInv'
  <2>1. /\ run.at = "clean" /\ root' \in {NoRoot, root} /\ UNCHANGED artifact
        /\ run' = [run EXCEPT !.at = "store", !.cleaned = removed,
                        !.outcome = IF removed THEN @ ELSE "RESULT_INVALID",
                        !.reason = IF removed THEN @ ELSE "TASK_ROOT_CLEANUP_FAILED"]
    BY <1>4 DEF FinishCleanup, CleanupDirectTaskRoot
  <2>2. /\ run' \in Runs /\ run'.at = "store" /\ run'.patch = run.patch /\ run'.recovery = run.recovery
        /\ run'.reason \in {run.reason, "TASK_ROOT_CLEANUP_FAILED"}
    BY <2>1 DEF Runs, Outcomes, Reasons
  <2>3. RunInv'
    BY <1>a, <2>1, <2>2 DEF RunInv, NoRun
  <2>4. FirstInv'
    BY <1>a, <2>2 DEF FirstInv, FirstClaim, Digests
  <2> QED BY <1>a, <1>b, <1>c, <2>1, <2>2, <2>3, <2>4
<1> QED BY <1>1, <1>2, <1>3, <1>4

(* The result, the reap and the resume of a terminal task.                 *)
LEMMA ResultKeeps ==
  ASSUME PrepInv, StoreResult \/ Reap \/ RequeueForResume
  PROVE  PrepInv'
<1> USE DEF PrepInv, FileTypes, StepTypes, ws
<1>a. /\ row.phase # "NONE" /\ row.claims > 0 /\ row.claims \in Nat /\ UNCHANGED <<ws, root, artifact, sub>>
  BY DEF StoreResult, Reap, RequeueForResume, RunInv, RowInv, Rows, NoRow
<1>1. CASE StoreResult
  <2>0. run.at = "store" /\ row.phase # "QUEUED"
    BY <1>1 DEF StoreResult, RunInv
  <2>1. CASE Refuses
    <3>1. daemon' = "refused" /\ run' = NoRun /\ UNCHANGED row
      BY <1>1, <2>1 DEF StoreResult
    <3>2. run' \in Runs
      BY <3>1, NothingTypes
    <3>3. RunInv'
      BY <3>1, NoneIsNothing DEF RunInv, NoRun, Reasons
    <3>4. SubInv' /\ RowInv' /\ FirstInv'
      BY <1>a, <2>0, <3>1 DEF SubInv, RowInv, UntouchedIsValid, FirstInv, FirstClaim, Digests, NoRun
    <3> QED BY <1>a, <3>1, <3>2, <3>3, <3>4
  <2>2. CASE ~Refuses
    <3> DEFINE new == IF row.cancel /\ run.outcome # "CANCELLED" THEN Result("CANCELLED", "CANCELLED", None)
                                                               ELSE Result(run.outcome, run.reason, run.patch)
    <3>1. /\ row' = IF row.phase = "TERMINAL" THEN row ELSE [row EXCEPT !.phase = "TERMINAL", !.result = new]
          /\ run' = IF run.cleaned /\ run.proved THEN [run EXCEPT !.at = "reap"] ELSE NoRun
          /\ UNCHANGED daemon
      BY <1>1, <2>2 DEF StoreResult
    <3>2. new \in Results /\ new.claim = row.claims /\ new.recovered = run.recovery
          /\ (new.reason = "PREPARED_CONTENT_INVALID" => run.reason = "PREPARED_CONTENT_INVALID")
      BY <1>a DEF Result, Results, Outcomes, Reasons, Runs
    <3> HIDE DEF new
    <3>3. /\ row' \in Rows /\ row'.phase = "TERMINAL" /\ row'.claims = row.claims /\ row'.reaped = row.reaped
          /\ row'.prepared = row.prepared
          /\ row'.result = IF row.phase = "TERMINAL" THEN row.result ELSE new
      BY <3>1, <3>2 DEF Rows
    <3>4. RowInv'
      <4>1. row'.result # None
        BY <3>2, <3>3, NoneIsNothing DEF RowInv
      <4>2. UntouchedIsValid'
        BY <1>a, <2>0, <3>2, <3>3 DEF UntouchedIsValid, RowInv, RunInv
      <4> QED BY <1>a, <3>3, <4>1, <4>2 DEF RowInv, NoRow
    <3>5. run' \in Runs /\ run'.at \in {"reap", "idle"} /\ (run'.at = "idle" => run' = NoRun)
      BY <3>1, NothingTypes DEF Runs, NoRun
    <3>6. RunInv'
      <4>1. CASE run' = NoRun
        BY <4>1, NoneIsNothing DEF RunInv, NoRun, Reasons
      <4>2. CASE run' = [run EXCEPT !.at = "reap"]
        <5>1. run'.at = "reap" /\ run'.recovery = run.recovery /\ run'.reason = run.reason
          BY <4>2 DEF Runs
        <5> QED BY <1>a, <3>1, <3>3, <5>1 DEF RunInv, NoRun
      <4> QED BY <3>1, <4>1, <4>2
    <3>7. SubInv' /\ FirstInv'
      BY <1>a, <3>3, <3>5 DEF SubInv, FirstInv, FirstClaim, Digests
    <3> QED BY <1>a, <3>3, <3>4, <3>5, <3>6, <3>7
  <2> QED BY <2>1, <2>2
<1>2. CASE Reap
  <2>1. /\ run' = NoRun /\ row' = IF row.phase = "TERMINAL" THEN [row EXCEPT !.reaped = TRUE] ELSE row
    BY <1>2 DEF Reap
  <2>2. /\ row' \in Rows /\ row'.phase = row.phase /\ row'.claims = row.claims /\ row'.result = row.result
        /\ row'.prepared = row.prepared /\ (row'.reaped => row.reaped \/ row.phase = "TERMINAL")
        /\ run' \in Runs
    BY <2>1, NothingTypes DEF Rows
  <2>3. RowInv'
    BY <1>a, <2>2 DEF RowInv, UntouchedIsValid, NoRow
  <2>4. RunInv'
    BY <2>1, NoneIsNothing DEF RunInv, NoRun, Reasons
  <2>5. SubInv' /\ FirstInv'
    BY <1>a, <2>1, <2>2 DEF SubInv, FirstInv, FirstClaim, Digests, NoRun
  <2> QED BY <1>a, <2>2, <2>3, <2>4, <2>5
<1>3. CASE RequeueForResume
  <2>1. /\ daemon = "up" /\ row.phase = "TERMINAL" /\ UNCHANGED <<run, daemon>>
        /\ row' = [row EXCEPT !.phase = "QUEUED", !.result = None, !.reaped = FALSE, !.cancel = FALSE]
    BY <1>3 DEF RequeueForResume
  <2>2. /\ row' \in Rows /\ row'.phase = "QUEUED" /\ row'.claims = row.claims /\ row'.result = None
        /\ row'.prepared = row.prepared /\ ~row'.reaped
    BY <2>1 DEF Rows
  <2>3. RowInv'
    BY <1>a, <2>2 DEF RowInv, UntouchedIsValid, NoRow
  <2>4. RunInv' /\ SubInv' /\ FirstInv'
    BY <1>a, <2>1, <2>2 DEF RunInv, SubInv, FirstInv, FirstClaim, Digests
  <2> QED BY <1>a, <2>1, <2>2, <2>3, <2>4
<1> QED BY <1>1, <1>2, <1>3

(* The invariant is inductive.                                             *)
LEMMA PreparationInvariant == PreparationSpec => []PrepInv
<1>1. ASSUME PreparationInit
      PROVE  PrepInv
  <2>1. FileTypes /\ StepTypes
    <3>1. root \in Roots /\ row \in Rows /\ sub \in Subs /\ run \in Runs
      BY <1>1, NothingTypes DEF PreparationInit
    <3>2. head \in Trees
      BY <1>1 DEF PreparationInit, Trees
    <3> QED BY <1>1, <3>1, <3>2 DEF PreparationInit, FileTypes, StepTypes
  <2>2. SubInv
    BY <1>1 DEF PreparationInit, SubInv, NoRoot, NoSub
  <2>3. RowInv
    BY <1>1 DEF PreparationInit, RowInv, UntouchedIsValid, NoRow
  <2>4. RunInv
    BY <1>1, NoneIsNothing DEF PreparationInit, RunInv, NoRun, NoRow, Reasons
  <2>5. FirstInv
    BY <1>1 DEF PreparationInit, FirstInv, FirstClaim, NoRun, NoRow
  <2> QED BY <2>1, <2>2, <2>3, <2>4, <2>5 DEF PrepInv
<1>2. PrepInv /\ [Next]_vars => PrepInv'
  <2> SUFFICES ASSUME PrepInv, [Next]_vars
               PROVE  PrepInv'
    OBVIOUS
  <2>1. CASE UNCHANGED vars
    BY <2>1 DEF vars, PrepInv, FileTypes, StepTypes, SubInv, RowInv, UntouchedIsValid, RunInv, FirstInv, FirstClaim,
       Digests
  <2>2. CASE ClaimStep
    BY <2>2, LaunchKeeps, FinalizeKeeps, ResultKeeps DEF ClaimStep
  <2> QED BY <2>1, <2>2, SubmissionKeeps, WorkspaceKeeps, RecoveryKeeps DEF Next
<1> QED BY <1>1, <1>2, PTL DEF PreparationSpec

(* Every variable holds what the code can put in it, and a record is in    *)
(* the task root only with the prompt it was made with.                    *)
THEOREM PreparationTypeCorrect == PreparationSpec => []PreparationTypeOK
<1>1. PrepInv => PreparationTypeOK
  <2> SUFFICES ASSUME PrepInv
               PROVE  PreparationTypeOK
    OBVIOUS
  <2>1. artifact = None \/ \E S \in SUBSET Files : artifact \in [S -> {0, 1}]
    BY DEF PrepInv, FileTypes, Patches
  <2>2. root.prompt \in Manifests \cup {None} /\ root.record \in Prepared \cup {None}
        /\ row.prepared \in Prepared \cup {None}
    BY DEF PrepInv, FileTypes, StepTypes, Roots, Rows
  <2> QED BY <2>1, <2>2 DEF PrepInv, FileTypes, SubInv, RowInv, PreparationTypeOK
<1> QED BY <1>1, PreparationInvariant, PTL

(* A first claim whose context nobody edited since it was enqueued is      *)
(* never refused for its content, except by startup recovery.              *)
THEOREM UntouchedStaysValid == PreparationSpec => []UntouchedIsValid
<1>1. PrepInv => UntouchedIsValid
  BY DEF PrepInv, RowInv
<1> QED BY <1>1, PreparationInvariant, PTL

(* The patch a stored result names is in the artifact root when the result *)
(* is published and stays there unchanged until the task is resumed,       *)
(* outside a second finalization by startup recovery.                      *)
THEOREM PatchIsKept == PreparationSpec => PatchKept
<1>1. PrepInv /\ [Next]_vars => [PatchKeptStep]_vars
  <2> SUFFICES ASSUME PrepInv, Next
               PROVE  PatchKeptStep
    OBVIOUS
  <2> USE DEF PatchKeptStep, Published
  <2>1. ASSUME UNCHANGED <<artifact, row>>
        PROVE  PatchKeptStep
    BY <2>1
  <2>2. ASSUME UNCHANGED artifact, row'.phase # "TERMINAL"
        PROVE  PatchKeptStep
    BY <2>2
  <2>3. CASE \/ (\E m \in Manifests : Submit(m)) \/ ReusePrepared \/ WriteInputs \/ WriteRecord \/ BuildFails
             \/ (\E o \in TurnOutcomes, proved \in BOOLEAN : TurnEnds(o, proved))
             \/ (\E succeed \in BOOLEAN : RequiredChecks(succeed)) \/ (\E f \in Files : Edit(f)) \/ Commit \/ Crash
             \/ RecoverStartupTask \/ (\E removed \in BOOLEAN : FinishCleanup(removed))
    <3>1. UNCHANGED <<artifact, row>>
      BY <2>3 DEF Submit, ReusePrepared, WriteInputs, WriteRecord, BuildFails, TurnEnds, RequiredChecks, Edit, Commit,
         Crash, RecoverStartupTask, FinishCleanup
    <3> QED BY <2>1, <3>1
  <2>4. CASE Enqueue
    <3>1. UNCHANGED artifact /\ (row' = row \/ row' = [NoRow EXCEPT !.phase = "QUEUED", !.prepared = sub.prepared])
      BY <2>4 DEF Enqueue
    <3>2. [NoRow EXCEPT !.phase = "QUEUED", !.prepared = sub.prepared].phase = "QUEUED"
      BY DEF NoRow
    <3> QED BY <2>1, <2>2, <3>1, <3>2
  <2>5. CASE ClaimTask \/ RoutePolicy \/ RequestStop \/ RequeueForResume
    <3>1. UNCHANGED artifact
      BY <2>5 DEF ClaimTask, RoutePolicy, RequestStop, RequeueForResume
    <3>2. row'.phase # "TERMINAL"
      <4>1. row \in Rows /\ (run.at = "launch" => row.phase # "TERMINAL")
        BY DEF PrepInv, StepTypes, RunInv
      <4>2. CASE ClaimTask
        BY <4>1, <4>2 DEF ClaimTask, Rows
      <4>3. CASE RoutePolicy
        BY <4>1, <4>3 DEF RoutePolicy, Rows
      <4>4. CASE RequestStop
        <5>1. row.phase = "RUNNING" /\ row' = [row EXCEPT !.cancel = TRUE]
          BY <4>4 DEF RequestStop
        <5> QED BY <4>1, <5>1 DEF Rows
      <4>5. CASE RequeueForResume
        <5>1. row' = [row EXCEPT !.phase = "QUEUED", !.result = None, !.reaped = FALSE, !.cancel = FALSE]
          BY <4>5 DEF RequeueForResume
        <5> QED BY <4>1, <5>1 DEF Rows
      <4> QED BY <2>5, <4>2, <4>3, <4>4, <4>5
    <3> QED BY <2>2, <3>1, <3>2
  <2>6. CASE FinalizeTree \/ \E removed \in BOOLEAN : FinalizeRefused(removed)
    <3>1. run.at = "finalize" /\ UNCHANGED row
      BY <2>6 DEF FinalizeTree, FinalizeRefused
    <3>2. ~run.recovery => row.phase # "TERMINAL"
      BY <3>1 DEF PrepInv, RunInv
    <3> QED BY <3>1, <3>2
  <2>7. CASE StoreResult
    <3>1. run.at = "store" /\ UNCHANGED artifact /\ run.patch \in {None, artifact}
      BY <2>7 DEF StoreResult, PrepInv, RunInv
    <3>2. CASE row' = row
      BY <2>1, <3>1, <3>2
    <3>3. CASE row' # row
      <4>1. PICK r \in {Result("CANCELLED", "CANCELLED", None), Result(run.outcome, run.reason, run.patch)} :
              row' = [row EXCEPT !.phase = "TERMINAL", !.result = r]
        BY <2>7, <3>3 DEF StoreResult
      <4>2. row'.result = r /\ r.patch \in {None, run.patch}
        BY <4>1 DEF PrepInv, StepTypes, Rows, Result
      <4>3. Published' \in {None, artifact'} /\ UNCHANGED artifact
        BY <3>1, <4>2
      <4> QED BY <4>3
    <3> QED BY <3>2, <3>3
  <2>8. CASE Reap
    <3>1. UNCHANGED artifact /\ row' \in {row, [row EXCEPT !.reaped = TRUE]}
      BY <2>8 DEF Reap
    <3>2. row'.phase = row.phase /\ row'.result = row.result
      BY <3>1 DEF PrepInv, StepTypes, Rows
    <3> QED BY <3>1, <3>2
  <2> QED BY <2>3, <2>4, <2>5, <2>6, <2>7, <2>8 DEF Next, Submission, ClaimStep
<1> QED BY <1>1, PreparationInvariant, PTL DEF PreparationSpec, PatchKept

=============================================================================

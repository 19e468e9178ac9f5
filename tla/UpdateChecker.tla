---------------------------- MODULE UpdateChecker ----------------------------
(***************************************************************************)
(* CheckForUpdates (pkg/updatechecker/updatechecker.go) and the detached   *)
(* staging goroutine it spawns.  Every invocation of CheckForUpdates is a  *)
(* process k \in Checks with its own program counter; the store (task      *)
(* status "update-download", version records, the primary downstream's     *)
(* parent sequence) and the upstream release stream are shared state.      *)
(* A process runs the synchronous part of the call, returns to its caller  *)
(* (ret[k]) and, when releases were found, goes on as the goroutine.       *)
(*                                                                         *)
(* Data is abstracted: a release is its cursor (0..MaxCursor, ordered as   *)
(* integers); a version record is [cursor, source]; sequence s is the      *)
(* record at index s + 1 of versions[a] (the install is sequence 0).       *)
(***************************************************************************)
EXTENDS Naturals, Sequences

CONSTANTS
    Apps,         \* application ids
    Checks,       \* CheckForUpdates invocations (scheduler ticks, "check now")
    MaxCursor,    \* newest cursor the upstream may publish
    MaxCrashes,   \* bound on process restarts
    Downstreamless \* apps whose ListDownstreamsForApp list is empty

ASSUME ConstantsAssumption ==
    /\ Apps # {}
    /\ MaxCursor \in Nat
    /\ MaxCrashes \in Nat
    /\ Downstreamless \subseteq Apps

VARIABLES
    taskStatus,   \* store task status "update-download": "running" or not
    versions,     \* versions[a]: the app's version records, by sequence
    parentSeq,    \* parentSeq[a]: current parent sequence of downstreams[0]
    upstream,     \* upstream[a]: newest cursor published upstream
    pc,           \* pc[k]: where invocation k is
    app,          \* app[k]: appID argument
    deploy,       \* deploy[k]: deploy argument
    updates,      \* updates[k]: cursors returned by GetUpdates
    idx,          \* idx[k]: 1-based index of the next update to stage
    seq,          \* seq[k]: latestVersion.Sequence / sequence DownloadUpdate returned
    ret,          \* ret[k]: what CheckForUpdates returned to its caller
    tmpDirs,      \* invocations whose archiveDir exists on disk
    crashes       \* restarts so far

vars == <<taskStatus, versions, parentSeq, upstream, pc, app, deploy,
          updates, idx, seq, ret, tmpDirs, crashes>>

Cursors == 0..MaxCursor
Sources == {"install", "license", "release"}
VersionRec == [cursor : Cursors, source : Sources]

\* Program counters: the synchronous call, then the goroutine.
SyncPCs == {"init", "clear", "sync", "fetch", "lastupd", "versions",
            "parent", "setstatus"}
PCs == SyncPCs \cup {"stage", "deploy", "done", "crashed"}

LatestSeq(a) == Len(versions[a]) - 1
CurrentCursor(a) == versions[a][Len(versions[a])].cursor

\* kotspull.GetUpdates: every release newer than the cursor, ascending.
NewerReleases(a, cur) == [i \in 1..(upstream[a] - cur) |-> cur + i]

Init ==
    /\ taskStatus = "idle"
    /\ versions = [a \in Apps |-> <<[cursor |-> 0, source |-> "install"]>>]
    /\ parentSeq = [a \in Apps |-> 0]
    /\ upstream = [a \in Apps |-> 0]
    /\ pc = [k \in Checks |-> "init"]
    /\ app \in [Checks -> Apps]
    /\ deploy \in [Checks -> BOOLEAN]
    /\ updates = [k \in Checks |-> <<>>]
    /\ idx = [k \in Checks |-> 1]
    /\ seq = [k \in Checks |-> 0]
    /\ ret = [k \in Checks |-> "none"]
    /\ tmpDirs = {}
    /\ crashes = 0

Goto(k, l) == pc' = [pc EXCEPT ![k] = l]
Return(k, r) == /\ pc' = [pc EXCEPT ![k] = "done"]
                /\ ret' = [ret EXCEPT ![k] = r]
                /\ tmpDirs' = tmpDirs \ {k}

-----------------------------------------------------------------------------
(* The synchronous part of CheckForUpdates.                                *)

\* GetTaskStatus: return (0, nil) when an update-download is running.
GateCheck(k) ==
    /\ pc[k] = "init"
    /\ IF taskStatus = "running"
         THEN Return(k, "ok")
         ELSE /\ Goto(k, "clear")
              /\ UNCHANGED <<ret, tmpDirs>>
    /\ UNCHANGED <<taskStatus, versions, parentSeq, upstream, app, deploy,
                   updates, idx, seq, crashes>>

\* ClearTaskStatus("update-download").
ClearStatus(k) ==
    /\ pc[k] = "clear"
    /\ taskStatus' = "idle"
    /\ Goto(k, "sync")
    /\ UNCHANGED <<versions, parentSeq, upstream, app, deploy, updates, idx,
                   seq, ret, tmpDirs, crashes>>

\* GetApp, license.Sync (which may create a new version), GetApp again.
SyncLicense(k) ==
    LET a == app[k] IN
    /\ pc[k] = "sync"
    /\ \/ UNCHANGED versions
       \/ versions' = [versions EXCEPT ![a] =
                         Append(@, [cursor |-> CurrentCursor(a),
                                    source |-> "license"])]
    /\ Goto(k, "fetch")
    /\ UNCHANGED <<taskStatus, parentSeq, upstream, app, deploy, updates,
                   idx, seq, ret, tmpDirs, crashes>>

\* TempDir, GetAppVersionArchive(a.CurrentSequence), LoadKotsKinds and
\* GetUpdates from the installation's update cursor.
FetchUpdates(k) ==
    LET a == app[k] IN
    /\ pc[k] = "fetch"
    /\ tmpDirs' = tmpDirs \cup {k}
    /\ updates' = [updates EXCEPT ![k] = NewerReleases(a, CurrentCursor(a))]
    /\ Goto(k, "lastupd")
    /\ UNCHANGED <<taskStatus, versions, parentSeq, upstream, app, deploy,
                   idx, seq, ret, crashes>>

\* app.LastUpdateAtTime.  On failure the code returns
\* errors.Wrap(err, ...) with err = nil, i.e. (0, nil).
LastUpdate(k) ==
    /\ pc[k] = "lastupd"
    /\ \/ Return(k, "ok")
       \/ /\ updates[k] = <<>>
          /\ ~deploy[k]
          /\ Return(k, "ok")
       \/ /\ updates[k] = <<>>
          /\ deploy[k]
          /\ Goto(k, "versions")
          /\ UNCHANGED <<ret, tmpDirs>>
       \/ /\ updates[k] # <<>>
          /\ Goto(k, "setstatus")
          /\ UNCHANGED <<ret, tmpDirs>>
    /\ UNCHANGED <<taskStatus, versions, parentSeq, upstream, app, deploy,
                   updates, idx, seq, crashes>>

\* Mutant: latestVersion := allVersions[len] (index off by one).
GetLatestVersionOffByOne(k) ==
    /\ pc[k] = "versions"
    /\ seq' = [seq EXCEPT ![k] = Len(versions[app[k]])]
    /\ Goto(k, "parent")
    /\ UNCHANGED <<taskStatus, versions, parentSeq, upstream, app, deploy,
                   updates, idx, ret, tmpDirs, crashes>>

\* version.GetVersions; latestVersion := allVersions[len - 1].
GetLatestVersion(k) ==
    /\ pc[k] = "versions"
    /\ seq' = [seq EXCEPT ![k] = LatestSeq(app[k])]
    /\ Goto(k, "parent")
    /\ UNCHANGED <<taskStatus, versions, parentSeq, upstream, app, deploy,
                   updates, idx, ret, tmpDirs, crashes>>

\* ListDownstreamsForApp, GetCurrentParentSequence(downstreams[0]) and
\* DeployVersion(latest) unless it is already the parent sequence.
Reassert(k) ==
    LET a == app[k] IN
    /\ pc[k] = "parent"
    /\ a \notin Downstreamless
    /\ parentSeq' = [parentSeq EXCEPT ![a] =
                        IF seq[k] # @ THEN seq[k] ELSE @]
    /\ Return(k, "ok")
    /\ UNCHANGED <<taskStatus, versions, upstream, app, deploy, updates, idx,
                   seq, crashes>>

\* downstreams[0] of an empty list: the index panics; the deferred
\* RemoveAll runs while the panic unwinds and the caller gets no result.
ReassertNoDownstream(k) ==
    /\ pc[k] = "parent"
    /\ app[k] \in Downstreamless
    /\ Goto(k, "done")
    /\ tmpDirs' = tmpDirs \ {k}
    /\ UNCHANGED <<taskStatus, versions, parentSeq, upstream, app, deploy,
                   updates, idx, seq, ret, crashes>>

\* Mutant: the goroutine's loop index starts at 0.
SetRunningZeroIndex(k) ==
    /\ pc[k] = "setstatus"
    /\ taskStatus' = "running"
    /\ ret' = [ret EXCEPT ![k] = "ok"]
    /\ idx' = [idx EXCEPT ![k] = 0]
    /\ Goto(k, "stage")
    /\ UNCHANGED <<versions, parentSeq, upstream, app, deploy, updates, seq,
                   tmpDirs, crashes>>

\* SetTaskStatus running, hand archiveDir to the goroutine, return.
SetRunning(k) ==
    /\ pc[k] = "setstatus"
    /\ taskStatus' = "running"
    /\ ret' = [ret EXCEPT ![k] = "ok"]
    /\ idx' = [idx EXCEPT ![k] = 1]
    /\ Goto(k, "stage")
    /\ UNCHANGED <<versions, parentSeq, upstream, app, deploy, updates, seq,
                   tmpDirs, crashes>>

\* Any of the store, license or upstream calls of the synchronous part
\* failing: return the wrapped error, the deferred RemoveAll runs.
CallFails(k) ==
    /\ pc[k] \in SyncPCs \ {"lastupd"}
    /\ Return(k, "err")
    /\ UNCHANGED <<taskStatus, versions, parentSeq, upstream, app, deploy,
                   updates, idx, seq, crashes>>

-----------------------------------------------------------------------------
(* The goroutine.                                                          *)

\* The store's status clear when the staging of the batch is over
\* (owned by the staging step, spec section 4.3).
StagingClearsStatus == taskStatus' = "idle"

\* Mutant: the goroutine deploys after every staged release when asked to
\* deploy (the index == len(updates)-1 test dropped).
StageReleaseDeployEach(k) ==
    LET a == app[k]
        i == idx[k]
    IN
    /\ pc[k] = "stage"
    /\ i <= Len(updates[k])
    /\ \/ /\ versions' = [versions EXCEPT ![a] =
                  Append(@, [cursor |-> updates[k][i], source |-> "release"])]
          /\ seq' = [seq EXCEPT ![k] = Len(versions[a])]
          /\ IF deploy[k]
               THEN /\ Goto(k, "deploy")
                    /\ UNCHANGED idx
               ELSE /\ idx' = [idx EXCEPT ![k] = i + 1]
                    /\ UNCHANGED pc
       \/ /\ idx' = [idx EXCEPT ![k] = i + 1]
          /\ UNCHANGED <<versions, seq, pc>>
    /\ UNCHANGED <<taskStatus, parentSeq, upstream, app, deploy, updates,
                   ret, tmpDirs, crashes>>

\* upstream.DownloadUpdate of the next cursor: on success a new version
\* record with the next sequence; on failure log and continue.
StageRelease(k) ==
    LET a == app[k]
        i == idx[k]
        last == i = Len(updates[k])
    IN
    /\ pc[k] = "stage"
    /\ i <= Len(updates[k])
    /\ \/ /\ versions' = [versions EXCEPT ![a] =
                  Append(@, [cursor |-> updates[k][i], source |-> "release"])]
          /\ seq' = [seq EXCEPT ![k] = Len(versions[a])]
          /\ IF deploy[k] /\ last
               THEN /\ Goto(k, "deploy")
                    /\ UNCHANGED idx
               ELSE /\ idx' = [idx EXCEPT ![k] = i + 1]
                    /\ UNCHANGED pc
       \/ /\ idx' = [idx EXCEPT ![k] = i + 1]
          /\ UNCHANGED <<versions, seq, pc>>
    /\ UNCHANGED <<taskStatus, parentSeq, upstream, app, deploy, updates,
                   ret, tmpDirs, crashes>>

\* Mutant: the sequence after the staged one is deployed.
DeployStagedNextSeq(k) ==
    /\ pc[k] = "deploy"
    /\ \/ parentSeq' = [parentSeq EXCEPT ![app[k]] = seq[k] + 1]
       \/ UNCHANGED parentSeq
    /\ idx' = [idx EXCEPT ![k] = @ + 1]
    /\ Goto(k, "stage")
    /\ UNCHANGED <<taskStatus, versions, upstream, app, deploy, updates, seq,
                   ret, tmpDirs, crashes>>

\* version.DeployVersion of the last update's sequence; an error is logged.
DeployStaged(k) ==
    /\ pc[k] = "deploy"
    /\ \/ parentSeq' = [parentSeq EXCEPT ![app[k]] = seq[k]]
       \/ UNCHANGED parentSeq
    /\ idx' = [idx EXCEPT ![k] = @ + 1]
    /\ Goto(k, "stage")
    /\ UNCHANGED <<taskStatus, versions, upstream, app, deploy, updates, seq,
                   ret, tmpDirs, crashes>>

\* Mutant: the goroutine ends without its deferred RemoveAll(archiveDir).
FinishStagingKeepsDir(k) ==
    /\ pc[k] = "stage"
    /\ idx[k] > Len(updates[k])
    /\ StagingClearsStatus
    /\ Goto(k, "done")
    /\ UNCHANGED <<versions, parentSeq, upstream, app, deploy, updates, idx,
                   seq, ret, tmpDirs, crashes>>

\* Mutant: the goroutine ends with the task status left "running".
FinishStagingKeepsStatus(k) ==
    /\ pc[k] = "stage"
    /\ idx[k] > Len(updates[k])
    /\ Goto(k, "done")
    /\ tmpDirs' = tmpDirs \ {k}
    /\ UNCHANGED <<taskStatus, versions, parentSeq, upstream, app, deploy,
                   updates, idx, seq, ret, crashes>>

\* The loop is over: the deferred RemoveAll(archiveDir) runs.
FinishStaging(k) ==
    /\ pc[k] = "stage"
    /\ idx[k] > Len(updates[k])
    /\ StagingClearsStatus
    /\ Goto(k, "done")
    /\ tmpDirs' = tmpDirs \ {k}
    /\ UNCHANGED <<versions, parentSeq, upstream, app, deploy, updates, idx,
                   seq, ret, crashes>>

-----------------------------------------------------------------------------
(* Environment.                                                            *)

\* The vendor publishes a newer release.
Publish(a) ==
    /\ upstream[a] < MaxCursor
    /\ upstream' = [upstream EXCEPT ![a] = @ + 1]
    /\ UNCHANGED <<taskStatus, versions, parentSeq, pc, app, deploy, updates,
                   idx, seq, ret, tmpDirs, crashes>>

\* The kotsadm process restarts: in-flight calls and goroutines are gone,
\* the container's temp dirs with them; the store survives.
Crash ==
    /\ crashes < MaxCrashes
    /\ crashes' = crashes + 1
    /\ pc' = [k \in Checks |->
                IF pc[k] \in {"init", "done"} THEN pc[k] ELSE "crashed"]
    /\ tmpDirs' = {}
    /\ UNCHANGED <<taskStatus, versions, parentSeq, upstream, app, deploy,
                   updates, idx, seq, ret>>

\* Every invocation has returned and every goroutine ended.
Terminated ==
    /\ \A k \in Checks : pc[k] \in {"done", "crashed"}
    /\ UNCHANGED vars

Step(k) ==
    \/ GateCheck(k) \/ ClearStatus(k) \/ SyncLicense(k) \/ FetchUpdates(k)
    \/ LastUpdate(k) \/ GetLatestVersion(k) \/ Reassert(k)
    \/ ReassertNoDownstream(k) \/ SetRunning(k)
    \/ CallFails(k) \/ StageRelease(k) \/ DeployStaged(k)
    \/ FinishStaging(k)

Next ==
    \/ \E k \in Checks : Step(k)
    \/ \E a \in Apps : Publish(a)
    \/ Crash
    \/ Terminated

Spec == Init /\ [][Next]_vars

\* Once CheckForUpdates has been entered, the Go runtime keeps running the
\* call and its goroutine: every store, upstream and deploy call returns.
Progress(k) == Step(k) /\ pc[k] # "init"

FairSpec == Spec /\ \A k \in Checks : WF_vars(Progress(k))

-----------------------------------------------------------------------------
(* Properties.                                                             *)

TypeOK ==
    /\ taskStatus \in {"idle", "running"}
    /\ versions \in [Apps -> Seq(VersionRec)]
    /\ \A a \in Apps : versions[a] # <<>>
    /\ parentSeq \in [Apps -> Nat]
    /\ upstream \in [Apps -> Cursors]
    /\ pc \in [Checks -> PCs]
    /\ app \in [Checks -> Apps]
    /\ deploy \in [Checks -> BOOLEAN]
    /\ updates \in [Checks -> Seq(Cursors)]
    /\ idx \in [Checks -> Nat \ {0}]
    /\ seq \in [Checks -> Nat]
    /\ ret \in [Checks -> {"none", "ok", "err"}]
    /\ tmpDirs \subseteq Checks
    /\ crashes \in 0..MaxCrashes

\* The primary downstream's parent sequence always names a version record
\* that exists: DeployVersion is only ever called, by the re-assert path or
\* by the goroutine, with a sequence the store has assigned.
ParentIsExistingVersion ==
    \A a \in Apps : parentSeq[a] \in 0..LatestSeq(a)

\* The sequence an invocation is about to deploy (the re-assert path's
\* latestVersion, the goroutine's staged sequence) is an existing version:
\* version records are never removed while the call is between reading it
\* and calling DeployVersion.
DeployTargetExists ==
    \A k \in Checks : pc[k] \in {"parent", "deploy"} =>
        seq[k] \in 0..LatestSeq(app[k])

\* The inductive invariant behind ParentIsExistingVersion.
InductiveInv == TypeOK /\ ParentIsExistingVersion /\ DeployTargetExists

\* The goroutine deploys only after staging the batch's last release, and
\* what it deploys is the version record that release produced.
DeployOnlyLastOfBatch ==
    \A k \in Checks : pc[k] = "deploy" =>
        /\ idx[k] = Len(updates[k])
        /\ seq[k] \in 0..LatestSeq(app[k])
        /\ versions[app[k]][seq[k] + 1] =
               [cursor |-> updates[k][idx[k]], source |-> "release"]

\* A call that has returned and whose goroutine (if any) has ended has
\* removed its archiveDir: the removeArchiveDir hand-over loses none.
NoLeakedArchiveDir ==
    \A k \in Checks : pc[k] = "done" => k \notin tmpDirs

\* The control points at which invocation k owns an archiveDir: from
\* TempDir in FetchUpdates until its deferred RemoveAll runs on return, or,
\* once handed over at SetRunning, until the goroutine ends.
HoldsArchiveDir == {"lastupd", "versions", "parent", "setstatus", "stage",
                    "deploy"}

\* Every archiveDir on disk belongs to an invocation that still holds it:
\* the strengthening behind NoLeakedArchiveDir.
ArchiveDirsHeld ==
    \A k \in tmpDirs : pc[k] \in HoldsArchiveDir

\* Spec 3 / 5: at most one update-check batch stages releases at a time
\* across the installation (the single-flight gate of GetTaskStatus).
AtMostOneBatch ==
    \A k1, k2 \in Checks :
        (pc[k1] \in {"stage", "deploy"} /\ pc[k2] \in {"stage", "deploy"})
            => k1 = k2

\* "ensure that the latest version is deployed": the zero-updates path
\* never moves the primary downstream back to an older sequence.
ReassertNeverRollsBack ==
    [][\A k \in Checks :
          (pc[k] = "parent" /\ pc'[k] = "done")
          => parentSeq'[app[k]] >= parentSeq[app[k]]]_vars

\* Spec 4.3 / 5: a "running" status does not stay forever: the staging
\* goroutine, or the next check after a restart, clears it.
GateEventuallyReopens ==
    taskStatus = "running" ~> taskStatus = "idle"

=============================================================================

------------------------- MODULE UpdateCheckerProofs -------------------------
(***************************************************************************)
(* Proofs about UpdateChecker for every value of the constants: the type   *)
(* invariant, and that the primary downstream's parent sequence always     *)
(* names an existing version record (ParentIsExistingVersion).             *)
(*                                                                         *)
(* ParentIsExistingVersion alone is not inductive: DeployVersion writes    *)
(* seq[k], a value the invocation read or was returned earlier.  The       *)
(* strengthening DeployTargetExists says that this value is an existing    *)
(* sequence while the invocation is about to deploy it; it stays one       *)
(* because no step removes a version record.  Each action case first      *)
(* derives the action's effect as equations, then the invariant from them. *)
(*                                                                         *)
(* On top of it: every archiveDir on disk is held by a live invocation     *)
(* (NoLeakedArchiveDir, strengthened to ArchiveDirsHeld); the goroutine    *)
(* deploys only the last release of its batch (DeployOnlyLastOfBatch,      *)
(* inductive because version lists only grow and only StageRelease of the  *)
(* last cursor enters "deploy").                                          *)
(***************************************************************************)
EXTENDS UpdateChecker, SequenceTheorems, TLAPS

\* GetUpdates returns a sequence of cursors when the current cursor is one.
LEMMA NewerReleasesType ==
    ASSUME TypeOK, NEW a \in Apps, NEW cur \in Cursors
    PROVE  NewerReleases(a, cur) \in Seq(Cursors)
<1>1. CASE upstream[a] - cur \in Nat
    <2>1. \A i \in 1..(upstream[a] - cur) : cur + i \in Cursors
        BY ConstantsAssumption DEF TypeOK, Cursors
    <2>2. QED
        BY <1>1, <2>1 DEF NewerReleases
<1>2. CASE upstream[a] - cur \notin Nat
    <2>1. 1..(upstream[a] - cur) = {}
        BY <1>2, ConstantsAssumption DEF TypeOK, Cursors
    <2>2. NewerReleases(a, cur) = <<>>
        BY <2>1 DEF NewerReleases
    <2>3. QED
        BY <2>2, EmptySeq
<1>3. QED
    BY <1>1, <1>2

\* The cursor of an app's newest version record is a cursor.
LEMMA CurrentCursorType ==
    ASSUME TypeOK, NEW a \in Apps
    PROVE  CurrentCursor(a) \in Cursors
<1>1. versions[a] \in Seq(VersionRec) /\ versions[a] # <<>>
    BY DEF TypeOK
<1>2. Len(versions[a]) \in 1..Len(versions[a])
    BY <1>1, EmptySeq, LenProperties
<1>3. versions[a][Len(versions[a])] \in VersionRec
    BY <1>1, <1>2, ElementOfSeq
<1>4. QED
    BY <1>3 DEF CurrentCursor, VersionRec

\* Appending a version record to one app: the store stays well typed and
\* no app loses a version.
LEMMA AppendVersion ==
    ASSUME TypeOK, NEW a \in Apps, NEW r \in VersionRec
    PROVE  LET vs == [versions EXCEPT ![a] = Append(versions[a], r)]
           IN  /\ vs \in [Apps -> Seq(VersionRec)]
               /\ \A b \in Apps : vs[b] # <<>>
               /\ \A b \in Apps : Len(vs[b]) >= Len(versions[b])
               /\ Len(vs[a]) = Len(versions[a]) + 1
<1>1. versions[a] \in Seq(VersionRec)
    BY DEF TypeOK
<1>2. /\ Append(versions[a], r) \in Seq(VersionRec)
      /\ Append(versions[a], r) # <<>>
      /\ Len(Append(versions[a], r)) = Len(versions[a]) + 1
    BY <1>1, AppendProperties
<1>3. \A b \in Apps : Len(versions[b]) \in Nat
    BY LenProperties DEF TypeOK
<1>4. QED
    BY <1>2, <1>3 DEF TypeOK

\* The control points, and the two from which a deploy follows.
LEMMA Labels ==
    /\ {"init", "clear", "sync", "fetch", "lastupd", "versions", "setstatus",
        "stage", "done", "crashed"} \subseteq PCs \ {"parent", "deploy"}
    /\ {"parent", "deploy"} \subseteq PCs
BY DEF PCs, SyncPCs

\* A step that changes no version record, parent sequence, argument or
\* read sequence, and moves no invocation into "parent" or "deploy".
LEMMA FrameStep ==
    ASSUME InductiveInv,
           pc' \in [Checks -> PCs],
           \A j \in Checks : pc'[j] \in {"parent", "deploy"} => pc'[j] = pc[j],
           ret' \in [Checks -> {"none", "ok", "err"}],
           tmpDirs' \subseteq Checks,
           taskStatus' \in {"idle", "running"},
           upstream' \in [Apps -> Cursors],
           updates' \in [Checks -> Seq(Cursors)],
           idx' \in [Checks -> Nat \ {0}],
           crashes' \in 0..MaxCrashes,
           UNCHANGED <<versions, parentSeq, app, deploy, seq>>
    PROVE  InductiveInv'
<1>1. TypeOK'
    BY DEF InductiveInv, TypeOK
<1>2. ParentIsExistingVersion'
    BY DEF InductiveInv, ParentIsExistingVersion, LatestSeq
<1>3. DeployTargetExists'
    BY DEF InductiveInv, TypeOK, DeployTargetExists, LatestSeq
<1>4. QED
    BY <1>1, <1>2, <1>3 DEF InductiveInv

\* Moving invocation k to a control point l other than "parent" and
\* "deploy" keeps pc well typed and moves no one into those points.
LEMMA GotoType ==
    ASSUME TypeOK, NEW k \in Checks, NEW l \in PCs \ {"parent", "deploy"},
           pc' = [pc EXCEPT ![k] = l]
    PROVE  /\ pc' \in [Checks -> PCs]
           /\ \A j \in Checks :
                 pc'[j] \in {"parent", "deploy"} => pc'[j] = pc[j]
BY DEF TypeOK

\* Setting invocation k's return value.
LEMMA ReturnType ==
    ASSUME TypeOK, NEW k \in Checks, NEW r \in {"none", "ok", "err"}
    PROVE  /\ [ret EXCEPT ![k] = r] \in [Checks -> {"none", "ok", "err"}]
           /\ tmpDirs \ {k} \subseteq Checks
BY DEF TypeOK

\* Every step preserves the inductive invariant.
LEMMA InductiveInvStep == InductiveInv /\ [Next]_vars => InductiveInv'
<1> SUFFICES ASSUME InductiveInv, [Next]_vars PROVE InductiveInv'
    OBVIOUS
<1>0. TypeOK
    BY DEF InductiveInv
<1>1. ASSUME NEW k \in Checks, GateCheck(k) PROVE InductiveInv'
    <2>1. CASE taskStatus = "running"
        <3>1. /\ pc' = [pc EXCEPT ![k] = "done"]
              /\ ret' = [ret EXCEPT ![k] = "ok"]
              /\ tmpDirs' = tmpDirs \ {k}
              /\ UNCHANGED <<taskStatus, versions, parentSeq, upstream, app,
                             deploy, updates, idx, seq, crashes>>
            BY <1>1, <2>1 DEF GateCheck, Return
        <3>2. QED
            BY <1>0, <3>1, GotoType, ReturnType, FrameStep, Labels
            DEF TypeOK
    <2>2. CASE taskStatus # "running"
        <3>1. /\ pc' = [pc EXCEPT ![k] = "clear"]
              /\ UNCHANGED <<ret, tmpDirs, taskStatus, versions, parentSeq,
                             upstream, app, deploy, updates, idx, seq, crashes>>
            BY <1>1, <2>2 DEF GateCheck, Goto
        <3>2. QED
            BY <1>0, <3>1, GotoType, FrameStep, Labels DEF TypeOK
    <2>3. QED
        BY <2>1, <2>2
<1>2. ASSUME NEW k \in Checks, ClearStatus(k) PROVE InductiveInv'
    <2>1. /\ pc' = [pc EXCEPT ![k] = "sync"]
          /\ taskStatus' = "idle"
          /\ UNCHANGED <<ret, tmpDirs, versions, parentSeq, upstream, app,
                         deploy, updates, idx, seq, crashes>>
        BY <1>2 DEF ClearStatus, Goto
    <2>2. QED
        BY <1>0, <2>1, GotoType, FrameStep, Labels DEF TypeOK
<1>3. ASSUME NEW k \in Checks, FetchUpdates(k) PROVE InductiveInv'
    <2>1. /\ pc' = [pc EXCEPT ![k] = "lastupd"]
          /\ tmpDirs' = tmpDirs \cup {k}
          /\ updates' = [updates EXCEPT ![k] =
                           NewerReleases(app[k], CurrentCursor(app[k]))]
          /\ UNCHANGED <<taskStatus, ret, versions, parentSeq, upstream, app,
                         deploy, idx, seq, crashes>>
        BY <1>3 DEF FetchUpdates, Goto
    <2>2. NewerReleases(app[k], CurrentCursor(app[k])) \in Seq(Cursors)
        BY <1>0, CurrentCursorType, NewerReleasesType DEF TypeOK
    <2>3. QED
        BY <1>0, <2>1, <2>2, GotoType, FrameStep, Labels DEF TypeOK
<1>4. ASSUME NEW k \in Checks, LastUpdate(k) PROVE InductiveInv'
    <2>1. UNCHANGED <<taskStatus, versions, parentSeq, upstream, app,
                      deploy, updates, idx, seq, crashes>>
        BY <1>4 DEF LastUpdate
    <2>2. CASE Return(k, "ok")
        <3>1. /\ pc' = [pc EXCEPT ![k] = "done"]
              /\ ret' = [ret EXCEPT ![k] = "ok"]
              /\ tmpDirs' = tmpDirs \ {k}
            BY <2>2 DEF Return
        <3>2. QED
            BY <1>0, <2>1, <3>1, GotoType, ReturnType, FrameStep, Labels
            DEF TypeOK
    <2>3. CASE /\ pc' = [pc EXCEPT ![k] = "versions"]
               /\ UNCHANGED <<ret, tmpDirs>>
        BY <1>0, <2>1, <2>3, GotoType, FrameStep, Labels DEF TypeOK
    <2>4. CASE /\ pc' = [pc EXCEPT ![k] = "setstatus"]
               /\ UNCHANGED <<ret, tmpDirs>>
        BY <1>0, <2>1, <2>4, GotoType, FrameStep, Labels DEF TypeOK
    <2>5. QED
        BY <1>4, <2>2, <2>3, <2>4 DEF LastUpdate, Goto
<1>5. ASSUME NEW k \in Checks, SyncLicense(k) PROVE InductiveInv'
    <2>1. /\ pc' = [pc EXCEPT ![k] = "fetch"]
          /\ UNCHANGED <<taskStatus, parentSeq, upstream, app, deploy, updates,
                         idx, seq, ret, tmpDirs, crashes>>
        BY <1>5 DEF SyncLicense, Goto
    <2>2. CASE UNCHANGED versions
        BY <1>0, <2>1, <2>2, GotoType, FrameStep, Labels DEF TypeOK
    <2>3. CASE versions' = [versions EXCEPT ![app[k]] =
                  Append(versions[app[k]],
                         [cursor |-> CurrentCursor(app[k]),
                          source |-> "license"])]
        <3>0. app[k] \in Apps
            BY <1>0 DEF TypeOK
        <3>1. [cursor |-> CurrentCursor(app[k]), source |-> "license"]
                \in VersionRec
            <4>1. CurrentCursor(app[k]) \in Cursors
                BY <1>0, <3>0, CurrentCursorType
            <4>2. QED
                BY <4>1 DEF VersionRec, Sources
        <3>2. /\ versions' \in [Apps -> Seq(VersionRec)]
              /\ \A b \in Apps : versions'[b] # <<>>
              /\ \A b \in Apps : Len(versions'[b]) >= Len(versions[b])
            <4>1. LET vs == [versions EXCEPT ![app[k]] =
                                Append(versions[app[k]],
                                       [cursor |-> CurrentCursor(app[k]),
                                        source |-> "license"])]
                  IN  /\ vs \in [Apps -> Seq(VersionRec)]
                      /\ \A b \in Apps : vs[b] # <<>>
                      /\ \A b \in Apps : Len(vs[b]) >= Len(versions[b])
                BY <1>0, <3>0, <3>1, AppendVersion
            <4>2. QED
                BY <2>3, <4>1
        <3>3. \A b \in Apps : Len(versions[b]) \in Nat
            BY <1>0, LenProperties DEF TypeOK
        <3>4. pc' \in [Checks -> PCs]
            BY <1>0, <2>1, Labels DEF TypeOK
        <3>5. TypeOK'
            BY <1>0, <2>1, <3>2, <3>4 DEF TypeOK
        <3>6. ParentIsExistingVersion'
            BY <2>1, <3>2, <3>3 DEF InductiveInv, ParentIsExistingVersion,
                                     LatestSeq
        <3>7. DeployTargetExists'
            BY <1>0, <2>1, <3>2, <3>3 DEF InductiveInv, DeployTargetExists,
                                          LatestSeq, TypeOK
        <3>8. QED
            BY <3>5, <3>6, <3>7 DEF InductiveInv
    <2>4. QED
        BY <1>5, <2>2, <2>3 DEF SyncLicense
<1>6. ASSUME NEW k \in Checks, GetLatestVersion(k) PROVE InductiveInv'
    <2>1. /\ pc' = [pc EXCEPT ![k] = "parent"]
          /\ seq' = [seq EXCEPT ![k] = LatestSeq(app[k])]
          /\ UNCHANGED <<taskStatus, versions, parentSeq, upstream, app,
                         deploy, updates, idx, ret, tmpDirs, crashes>>
        BY <1>6 DEF GetLatestVersion, Goto
    <2>2. LatestSeq(app[k]) \in Nat
        BY <1>0, EmptySeq, LenProperties DEF TypeOK, LatestSeq
    <2>3. TypeOK'
        BY <1>0, <2>1, <2>2, Labels DEF TypeOK
    <2>4. ParentIsExistingVersion'
        BY <2>1 DEF InductiveInv, ParentIsExistingVersion, LatestSeq
    <2>5. DeployTargetExists'
        <3> SUFFICES ASSUME NEW j \in Checks, pc'[j] \in {"parent", "deploy"}
                     PROVE  seq'[j] \in 0..LatestSeq(app[j])'
            BY DEF DeployTargetExists
        <3>1. CASE j = k
            BY <1>0, <2>1, <2>2, <3>1 DEF TypeOK, LatestSeq
        <3>2. CASE j # k
            BY <1>0, <2>1, <3>2 DEF InductiveInv, DeployTargetExists, TypeOK,
                                    LatestSeq
        <3>3. QED
            BY <3>1, <3>2
    <2>6. QED
        BY <2>3, <2>4, <2>5 DEF InductiveInv
<1>7. ASSUME NEW k \in Checks, Reassert(k) PROVE InductiveInv'
    <2>1. /\ parentSeq' = [parentSeq EXCEPT ![app[k]] =
                             IF seq[k] # parentSeq[app[k]]
                               THEN seq[k] ELSE parentSeq[app[k]]]
          /\ pc' = [pc EXCEPT ![k] = "done"]
          /\ ret' = [ret EXCEPT ![k] = "ok"]
          /\ tmpDirs' = tmpDirs \ {k}
          /\ UNCHANGED <<taskStatus, versions, upstream, app, deploy, updates,
                         idx, seq, crashes>>
        BY <1>7 DEF Reassert, Return
    <2>2. seq[k] \in 0..LatestSeq(app[k])
        BY <1>7 DEF Reassert, InductiveInv, DeployTargetExists
    <2>3. TypeOK'
        BY <1>0, <2>1, <2>2, Labels DEF TypeOK, LatestSeq
    <2>4. ParentIsExistingVersion'
        BY <1>0, <2>1, <2>2 DEF InductiveInv, ParentIsExistingVersion,
                                 LatestSeq, TypeOK
    <2>5. DeployTargetExists'
        BY <1>0, <2>1 DEF InductiveInv, DeployTargetExists, TypeOK, LatestSeq
    <2>6. QED
        BY <2>3, <2>4, <2>5 DEF InductiveInv
<1>8. ASSUME NEW k \in Checks, SetRunning(k) PROVE InductiveInv'
    <2>1. /\ pc' = [pc EXCEPT ![k] = "stage"]
          /\ taskStatus' = "running"
          /\ ret' = [ret EXCEPT ![k] = "ok"]
          /\ idx' = [idx EXCEPT ![k] = 1]
          /\ UNCHANGED <<versions, parentSeq, upstream, app, deploy, updates,
                         seq, tmpDirs, crashes>>
        BY <1>8 DEF SetRunning, Goto
    <2>2. QED
        BY <1>0, <2>1, GotoType, ReturnType, FrameStep, Labels DEF TypeOK
<1>9. ASSUME NEW k \in Checks, CallFails(k) PROVE InductiveInv'
    <2>1. /\ pc' = [pc EXCEPT ![k] = "done"]
          /\ ret' = [ret EXCEPT ![k] = "err"]
          /\ tmpDirs' = tmpDirs \ {k}
          /\ UNCHANGED <<taskStatus, versions, parentSeq, upstream, app,
                         deploy, updates, idx, seq, crashes>>
        BY <1>9 DEF CallFails, Return
    <2>2. QED
        BY <1>0, <2>1, GotoType, ReturnType, FrameStep, Labels DEF TypeOK

<1>16. ASSUME NEW k \in Checks, ReassertNoDownstream(k) PROVE InductiveInv'
    <2>1. /\ pc' = [pc EXCEPT ![k] = "done"]
          /\ tmpDirs' = tmpDirs \ {k}
          /\ UNCHANGED <<taskStatus, versions, parentSeq, upstream, app,
                         deploy, updates, idx, seq, ret, crashes>>
        BY <1>16 DEF ReassertNoDownstream, Goto
    <2>2. QED
        BY <1>0, <2>1, GotoType, FrameStep, Labels DEF TypeOK

<1>10. ASSUME NEW k \in Checks, StageRelease(k) PROVE InductiveInv'
    <2> DEFINE a == app[k]
               rec == [cursor |-> updates[k][idx[k]], source |-> "release"]
    <2>0. a \in Apps
        BY <1>0 DEF TypeOK
    <2>1. /\ pc[k] = "stage"
          /\ idx[k] \in 1..Len(updates[k])
          /\ UNCHANGED <<taskStatus, parentSeq, upstream, app, deploy, updates,
                         ret, tmpDirs, crashes>>
        BY <1>10, <1>0 DEF StageRelease, TypeOK
    <2>2. CASE /\ versions' = [versions EXCEPT ![a] = Append(versions[a], rec)]
               /\ seq' = [seq EXCEPT ![k] = Len(versions[a])]
               /\ \/ /\ pc' = [pc EXCEPT ![k] = "deploy"]
                     /\ UNCHANGED idx
                  \/ /\ idx' = [idx EXCEPT ![k] = idx[k] + 1]
                     /\ UNCHANGED pc
        <3>1. rec \in VersionRec
            <4>1. updates[k] \in Seq(Cursors)
                BY <1>0 DEF TypeOK
            <4>2. updates[k][idx[k]] \in Cursors
                BY <2>1, <4>1, ElementOfSeq
            <4>3. QED
                BY <4>2 DEF VersionRec, Sources
        <3>2. /\ versions' \in [Apps -> Seq(VersionRec)]
              /\ \A b \in Apps : versions'[b] # <<>>
              /\ \A b \in Apps : Len(versions'[b]) >= Len(versions[b])
              /\ Len(versions'[a]) = Len(versions[a]) + 1
            <4>1. LET vs == [versions EXCEPT ![a] = Append(versions[a], rec)]
                  IN  /\ vs \in [Apps -> Seq(VersionRec)]
                      /\ \A b \in Apps : vs[b] # <<>>
                      /\ \A b \in Apps : Len(vs[b]) >= Len(versions[b])
                      /\ Len(vs[a]) = Len(versions[a]) + 1
                BY <1>0, <2>0, <3>1, AppendVersion
            <4>2. QED
                BY <2>2, <4>1
        <3>3. \A b \in Apps : Len(versions[b]) \in Nat
            BY <1>0, LenProperties DEF TypeOK
        <3>4. /\ pc' \in [Checks -> PCs]
              /\ idx' \in [Checks -> Nat \ {0}]
              /\ \A j \in Checks \ {k} : pc'[j] = pc[j]
            <4>1. CASE pc' = [pc EXCEPT ![k] = "deploy"] /\ UNCHANGED idx
                BY <1>0, <4>1, Labels DEF TypeOK
            <4>2. CASE idx' = [idx EXCEPT ![k] = idx[k] + 1] /\ UNCHANGED pc
                BY <1>0, <4>2 DEF TypeOK
            <4>3. QED
                BY <2>2, <4>1, <4>2
        <3>5. seq' \in [Checks -> Nat]
            BY <1>0, <2>2, <3>3, <2>0 DEF TypeOK
        <3>6. TypeOK'
            BY <1>0, <2>1, <3>2, <3>4, <3>5 DEF TypeOK
        <3>7. ParentIsExistingVersion'
            BY <2>1, <3>2, <3>3 DEF InductiveInv, ParentIsExistingVersion,
                                     LatestSeq
        <3>8. DeployTargetExists'
            <4> SUFFICES ASSUME NEW j \in Checks,
                                pc'[j] \in {"parent", "deploy"}
                         PROVE  seq'[j] \in 0..LatestSeq(app[j])'
                BY DEF DeployTargetExists
            <4>1. CASE j = k
                BY <1>0, <2>0, <2>1, <2>2, <3>2, <3>3, <4>1
                DEF TypeOK, LatestSeq
            <4>2. CASE j # k
                <5>1. pc[j] \in {"parent", "deploy"} /\ seq'[j] = seq[j]
                    BY <1>0, <2>2, <3>4, <4>2 DEF TypeOK
                <5>2. seq[j] \in 0..LatestSeq(app[j])
                    BY <5>1 DEF InductiveInv, DeployTargetExists
                <5>3. app[j] \in Apps
                    BY <1>0 DEF TypeOK
                <5>4. QED
                    BY <2>1, <3>2, <3>3, <5>1, <5>2, <5>3 DEF LatestSeq
            <4>3. QED
                BY <4>1, <4>2
        <3>9. QED
            BY <3>6, <3>7, <3>8 DEF InductiveInv
    <2>3. CASE /\ idx' = [idx EXCEPT ![k] = idx[k] + 1]
               /\ UNCHANGED <<versions, seq, pc>>
        BY <1>0, <2>1, <2>3, FrameStep DEF TypeOK
    <2>4. QED
        BY <1>10, <2>2, <2>3 DEF StageRelease, Goto
<1>11. ASSUME NEW k \in Checks, DeployStaged(k) PROVE InductiveInv'
    <2>1. /\ pc[k] = "deploy"
          /\ pc' = [pc EXCEPT ![k] = "stage"]
          /\ idx' = [idx EXCEPT ![k] = idx[k] + 1]
          /\ UNCHANGED <<taskStatus, versions, upstream, app, deploy, updates,
                         seq, ret, tmpDirs, crashes>>
        BY <1>11 DEF DeployStaged, Goto
    <2>2. seq[k] \in 0..LatestSeq(app[k])
        BY <2>1 DEF InductiveInv, DeployTargetExists
    <2>3. /\ pc' \in [Checks -> PCs]
          /\ idx' \in [Checks -> Nat \ {0}]
          /\ \A j \in Checks : pc'[j] \in {"parent", "deploy"} => pc'[j] = pc[j]
        BY <1>0, <2>1, Labels DEF TypeOK
    <2>4. DeployTargetExists'
        BY <2>1, <2>3 DEF InductiveInv, DeployTargetExists, LatestSeq
    <2>5. CASE UNCHANGED parentSeq
        <3>1. TypeOK'
            BY <1>0, <2>1, <2>3, <2>5 DEF TypeOK
        <3>2. ParentIsExistingVersion'
            BY <2>1, <2>5 DEF InductiveInv, ParentIsExistingVersion, LatestSeq
        <3>3. QED
            BY <2>4, <3>1, <3>2 DEF InductiveInv
    <2>6. CASE parentSeq' = [parentSeq EXCEPT ![app[k]] = seq[k]]
        <3>0. app[k] \in Apps /\ seq[k] \in Nat
            BY <1>0 DEF TypeOK
        <3>1. parentSeq' \in [Apps -> Nat]
            BY <1>0, <2>6, <3>0 DEF TypeOK
        <3>2. TypeOK'
            BY <1>0, <2>1, <2>3, <3>1 DEF TypeOK
        <3>3. ParentIsExistingVersion'
            BY <2>1, <2>2, <2>6, <3>0 DEF InductiveInv, ParentIsExistingVersion,
                                          LatestSeq
        <3>4. QED
            BY <2>4, <3>2, <3>3 DEF InductiveInv
    <2>7. QED
        BY <1>11, <2>5, <2>6 DEF DeployStaged
<1>12. ASSUME NEW k \in Checks, FinishStaging(k) PROVE InductiveInv'
    <2>1. /\ pc' = [pc EXCEPT ![k] = "done"]
          /\ taskStatus' = "idle"
          /\ tmpDirs' = tmpDirs \ {k}
          /\ UNCHANGED <<versions, parentSeq, upstream, app, deploy, updates,
                         idx, seq, ret, crashes>>
        BY <1>12 DEF FinishStaging, StagingClearsStatus, Goto
    <2>2. QED
        BY <1>0, <2>1, GotoType, ReturnType, FrameStep, Labels DEF TypeOK
<1>13. ASSUME NEW a \in Apps, Publish(a) PROVE InductiveInv'
    <2>1. /\ upstream' = [upstream EXCEPT ![a] = upstream[a] + 1]
          /\ upstream[a] < MaxCursor
          /\ UNCHANGED <<taskStatus, versions, parentSeq, pc, app, deploy,
                         updates, idx, seq, ret, tmpDirs, crashes>>
        BY <1>13 DEF Publish
    <2>2. upstream' \in [Apps -> Cursors]
        BY <1>0, <2>1, ConstantsAssumption DEF TypeOK, Cursors
    <2>3. QED
        BY <1>0, <2>1, <2>2, FrameStep DEF TypeOK
<1>14. CASE Crash
    <2>1. /\ crashes' = crashes + 1
          /\ crashes < MaxCrashes
          /\ pc' = [j \in Checks |->
                      IF pc[j] \in {"init", "done"} THEN pc[j] ELSE "crashed"]
          /\ tmpDirs' = {}
          /\ UNCHANGED <<taskStatus, versions, parentSeq, upstream, app,
                         deploy, updates, idx, seq, ret>>
        BY <1>14 DEF Crash
    <2>2. /\ pc' \in [Checks -> PCs]
          /\ \A j \in Checks : pc'[j] \in {"parent", "deploy"} => pc'[j] = pc[j]
          /\ crashes' \in 0..MaxCrashes
        BY <1>0, <2>1, ConstantsAssumption, Labels DEF TypeOK
    <2>3. QED
        BY <1>0, <2>1, <2>2, FrameStep DEF TypeOK
<1>15. CASE Terminated \/ UNCHANGED vars
    <2>1. UNCHANGED vars
        BY <1>15 DEF Terminated
    <2>2. QED
        BY <2>1 DEF vars, InductiveInv, TypeOK, ParentIsExistingVersion,
                    DeployTargetExists, LatestSeq
<1>17. QED
    BY <1>1, <1>2, <1>3, <1>4, <1>5, <1>6, <1>7, <1>8, <1>9, <1>10, <1>11,
       <1>12, <1>13, <1>14, <1>15, <1>16 DEF Next, Step

\* The initial state satisfies the inductive invariant.
LEMMA InductiveInvInit == Init => InductiveInv
<1> SUFFICES ASSUME Init PROVE InductiveInv
    OBVIOUS
<1>1. [cursor |-> 0, source |-> "install"] \in VersionRec
    BY ConstantsAssumption DEF VersionRec, Cursors, Sources
<1>2. <<[cursor |-> 0, source |-> "install"]>> \in Seq(VersionRec)
    BY <1>1
<1>3. TypeOK
    BY <1>2, EmptySeq, ConstantsAssumption
    DEF Init, TypeOK, Cursors, PCs, SyncPCs
<1>4. ParentIsExistingVersion /\ DeployTargetExists
    BY DEF Init, ParentIsExistingVersion, DeployTargetExists, LatestSeq
<1>5. QED
    BY <1>3, <1>4 DEF InductiveInv

\* Type correctness: every reachable state satisfies TypeOK.
THEOREM TypeCorrect == Spec => []TypeOK
<1>1. InductiveInv => TypeOK
    BY DEF InductiveInv
<1>2. QED
    BY <1>1, InductiveInvInit, InductiveInvStep, PTL DEF Spec

\* DeployVersion is only ever called with a sequence the store assigned:
\* in every reachable state the primary downstream's parent sequence is
\* the sequence of an existing version record of its app.
THEOREM ParentAlwaysExists == Spec => []ParentIsExistingVersion
<1>1. InductiveInv => ParentIsExistingVersion
    BY DEF InductiveInv
<1>2. QED
    BY <1>1, InductiveInvInit, InductiveInvStep, PTL DEF Spec

\* The sequence the re-assert path or the deploy goroutine passes to
\* DeployVersion is, in every reachable state, an existing version of its
\* app, however the goroutine and a concurrent check interleave.
THEOREM DeployTargetAlwaysExists == Spec => []DeployTargetExists
<1>1. InductiveInv => DeployTargetExists
    BY DEF InductiveInv
<1>2. QED
    BY <1>1, InductiveInvInit, InductiveInvStep, PTL DEF Spec

-----------------------------------------------------------------------------
(* Archive directories: NoLeakedArchiveDir, from ArchiveDirsHeld.           *)

\* A step that moves invocation k and removes its archiveDir, as a return
\* with its deferred RemoveAll or the end of the goroutine does.
LEMMA DropDir ==
    ASSUME ArchiveDirsHeld, NEW k \in Checks, NEW l,
           pc' = [pc EXCEPT ![k] = l], tmpDirs' = tmpDirs \ {k}
    PROVE  ArchiveDirsHeld'
BY DEF ArchiveDirsHeld

\* A step that moves invocation k and leaves the directories alone: k holds
\* no directory, or it moves to another point at which it holds one.
LEMMA KeepDir ==
    ASSUME TypeOK, ArchiveDirsHeld, NEW k \in Checks, NEW l,
           pc' = [pc EXCEPT ![k] = l], tmpDirs' = tmpDirs,
           k \in tmpDirs => l \in HoldsArchiveDir
    PROVE  ArchiveDirsHeld'
BY DEF ArchiveDirsHeld, TypeOK

\* An invocation at a point before FetchUpdates holds no directory.
LEMMA NoDirYet ==
    ASSUME ArchiveDirsHeld, NEW k \in Checks,
           pc[k] \in {"init", "clear", "sync", "fetch"}
    PROVE  k \notin tmpDirs
BY DEF ArchiveDirsHeld, HoldsArchiveDir

\* Every step keeps each archiveDir owned by an invocation that holds it.
LEMMA ArchiveStep ==
    InductiveInv /\ ArchiveDirsHeld /\ [Next]_vars => ArchiveDirsHeld'
<1> SUFFICES ASSUME InductiveInv, ArchiveDirsHeld, [Next]_vars
             PROVE  ArchiveDirsHeld'
    OBVIOUS
<1>0. TypeOK
    BY DEF InductiveInv
<1>1. ASSUME NEW k \in Checks, GateCheck(k) PROVE ArchiveDirsHeld'
    <2>1. CASE taskStatus = "running"
        BY <1>1, <2>1, DropDir DEF GateCheck, Return
    <2>2. CASE taskStatus # "running"
        BY <1>0, <1>1, <2>2, KeepDir, NoDirYet DEF GateCheck, Goto
    <2>3. QED
        BY <2>1, <2>2
<1>2. ASSUME NEW k \in Checks, ClearStatus(k) \/ SyncLicense(k)
      PROVE ArchiveDirsHeld'
    BY <1>0, <1>2, KeepDir, NoDirYet DEF ClearStatus, SyncLicense, Goto
<1>3. ASSUME NEW k \in Checks, FetchUpdates(k) PROVE ArchiveDirsHeld'
    <2>1. tmpDirs' = tmpDirs \cup {k} /\ pc' = [pc EXCEPT ![k] = "lastupd"]
        BY <1>3 DEF FetchUpdates, Goto
    <2>2. QED
        BY <1>0, <2>1 DEF ArchiveDirsHeld, HoldsArchiveDir, TypeOK
<1>4. ASSUME NEW k \in Checks, LastUpdate(k) PROVE ArchiveDirsHeld'
    <2>1. CASE Return(k, "ok")
        BY <2>1, DropDir, Zenon DEF Return
    <2>2. CASE ~Return(k, "ok")
        <3>1. \E l \in {"versions", "setstatus"} :
                 pc' = [pc EXCEPT ![k] = l] /\ tmpDirs' = tmpDirs
            BY <1>4, <2>2 DEF LastUpdate, Goto
        <3>2. PICK l \in {"versions", "setstatus"} :
                     pc' = [pc EXCEPT ![k] = l] /\ tmpDirs' = tmpDirs
            BY <3>1, Zenon
        <3>3. l \in HoldsArchiveDir
            BY DEF HoldsArchiveDir
        <3>4. QED
            BY <1>0, <3>2, <3>3, KeepDir, Zenon
    <2>3. QED
        BY <2>1, <2>2
<1>5. ASSUME NEW k \in Checks,
             GetLatestVersion(k) \/ SetRunning(k) \/ DeployStaged(k)
      PROVE ArchiveDirsHeld'
    BY <1>0, <1>5, KeepDir
    DEF GetLatestVersion, SetRunning, DeployStaged, Goto, HoldsArchiveDir
<1>6. ASSUME NEW k \in Checks,
             \/ Reassert(k) \/ ReassertNoDownstream(k) \/ CallFails(k)
             \/ FinishStaging(k)
      PROVE ArchiveDirsHeld'
    BY <1>6, DropDir
    DEF Reassert, ReassertNoDownstream, CallFails, FinishStaging, Return, Goto
<1>7. ASSUME NEW k \in Checks, StageRelease(k) PROVE ArchiveDirsHeld'
    <2>1. tmpDirs' = tmpDirs /\ pc[k] = "stage"
        BY <1>7 DEF StageRelease
    <2>2. pc' = pc \/ pc' = [pc EXCEPT ![k] = "deploy"]
        BY <1>7 DEF StageRelease, Goto
    <2>3. QED
        BY <1>0, <2>1, <2>2, KeepDir DEF ArchiveDirsHeld, HoldsArchiveDir
<1>8. CASE \/ \E a \in Apps : Publish(a)
           \/ Crash \/ Terminated \/ UNCHANGED vars
    BY <1>8 DEF Publish, Crash, Terminated, vars, ArchiveDirsHeld
<1>9. QED
    BY <1>1, <1>2, <1>3, <1>4, <1>5, <1>6, <1>7, <1>8 DEF Next, Step

\* Both invariants hold initially, and every step preserves them.
LEMMA ArchiveInvariant == Spec => [](InductiveInv /\ ArchiveDirsHeld)
<1>1. Init => ArchiveDirsHeld
    BY DEF Init, ArchiveDirsHeld
<1>2. QED
    BY <1>1, InductiveInvInit, InductiveInvStep, ArchiveStep, PTL DEF Spec

\* No archiveDir is leaked: once a call has returned and its goroutine, if
\* it had one, has ended, the directory it created at FetchUpdates has been
\* removed, by the call's deferred RemoveAll or by the goroutine's.
THEOREM NoArchiveDirLeaks == Spec => []NoLeakedArchiveDir
<1>1. ArchiveDirsHeld => NoLeakedArchiveDir
    BY DEF ArchiveDirsHeld, NoLeakedArchiveDir, HoldsArchiveDir
<1>2. QED
    BY <1>1, ArchiveInvariant, PTL

-----------------------------------------------------------------------------
(* DeployOnlyLastOfBatch: what the goroutine deploys is the record its     *)
(* batch's last release produced.                                           *)

\* A step keeps every version record and may add more: the store's version
\* lists only grow at the end.
VersionsGrow ==
    \A b \in Apps :
        /\ Len(versions'[b]) >= Len(versions[b])
        /\ \A i \in 1..Len(versions[b]) : versions'[b][i] = versions[b][i]

\* Appending a record to one app's list keeps every record of every app.
LEMMA AppendGrows ==
    ASSUME TypeOK, NEW a \in Apps, NEW r \in VersionRec,
           versions' = [versions EXCEPT ![a] = Append(versions[a], r)]
    PROVE  VersionsGrow
<1>1. /\ Len(Append(versions[a], r)) = Len(versions[a]) + 1
      /\ \A i \in 1..Len(versions[a]) :
             Append(versions[a], r)[i] = versions[a][i]
    BY AppendProperties DEF TypeOK
<1>2. \A b \in Apps : Len(versions[b]) \in Nat
    BY LenProperties DEF TypeOK
<1>3. QED
    BY <1>1, <1>2 DEF VersionsGrow, TypeOK

\* Invocation j is at "deploy" before and after the step, with the same
\* batch, index, staged sequence and app.
StaysDeploying(j) ==
    /\ pc[j] = "deploy" /\ idx'[j] = idx[j] /\ updates'[j] = updates[j]
    /\ seq'[j] = seq[j] /\ app'[j] = app[j]

\* An invocation that stays at "deploy" while the version lists grow still
\* deploys the record of its batch's last release.
LEMMA BatchKeep ==
    ASSUME InductiveInv, DeployOnlyLastOfBatch, TypeOK', VersionsGrow,
           NEW j \in Checks, StaysDeploying(j)
    PROVE  DeployOnlyLastOfBatch!(j)'
<1>1. /\ idx[j] = Len(updates[j])
      /\ seq[j] \in 0..LatestSeq(app[j])
      /\ versions[app[j]][seq[j] + 1] =
             [cursor |-> updates[j][idx[j]], source |-> "release"]
    BY DEF DeployOnlyLastOfBatch, StaysDeploying
<1>2. app[j] \in Apps /\ Len(versions[app[j]]) \in Nat
    BY LenProperties DEF InductiveInv, TypeOK
<1>3. /\ idx'[j] = idx[j] /\ updates'[j] = updates[j] /\ seq'[j] = seq[j]
      /\ app'[j] = app[j]
    BY DEF StaysDeploying
<1> DEFINE a == app[j]
<1>4. seq[j] + 1 \in 1..Len(versions[a])
    BY <1>1, <1>2 DEF LatestSeq
<1>5. /\ Len(versions'[a]) >= Len(versions[a])
      /\ versions'[a][seq[j] + 1] = versions[a][seq[j] + 1]
    BY <1>2, <1>4 DEF VersionsGrow
<1>6. QED
    BY <1>1, <1>2, <1>3, <1>4, <1>5 DEF LatestSeq

\* Invocation j stages the last release of its batch, with deploy set: the
\* new record is appended to its app and becomes its staged sequence.
EntersDeploy(j) ==
    LET a == app[j]
        rec == [cursor |-> updates[j][idx[j]], source |-> "release"]
    IN  /\ pc[j] = "stage" /\ idx[j] = Len(updates[j])
        /\ versions' = [versions EXCEPT ![a] = Append(versions[a], rec)]
        /\ seq' = [seq EXCEPT ![j] = Len(versions[a])]
        /\ UNCHANGED <<idx, updates, app>>

\* Every step keeps the version records, and the only way into "deploy" is
\* staging the last release of a batch.
LEMMA BatchStep ==
    InductiveInv /\ DeployOnlyLastOfBatch /\ [Next]_vars
        => DeployOnlyLastOfBatch'
<1> SUFFICES ASSUME InductiveInv, DeployOnlyLastOfBatch, [Next]_vars
             PROVE  DeployOnlyLastOfBatch'
    OBVIOUS
<1>0. TypeOK /\ TypeOK'
    BY InductiveInvStep DEF InductiveInv
<1>1. VersionsGrow
    <2>1. CASE UNCHANGED versions
        BY <1>0, <2>1 DEF VersionsGrow
    <2>2. CASE \E k \in Checks : \E r \in VersionRec :
                   versions' = [versions EXCEPT ![app[k]] =
                                  Append(versions[app[k]], r)]
        <3>1. PICK k \in Checks, r \in VersionRec :
                  versions' = [versions EXCEPT ![app[k]] =
                                 Append(versions[app[k]], r)]
            BY <2>2, Zenon
        <3>2. app[k] \in Apps
            BY <1>0 DEF TypeOK
        <3>3. QED
            BY <1>0, <3>1, <3>2, AppendGrows, Zenon
    <2>3. ASSUME NEW k \in Checks, SyncLicense(k) \/ StageRelease(k)
          PROVE  \/ UNCHANGED versions
                 \/ \E r \in VersionRec :
                       versions' = [versions EXCEPT ![app[k]] =
                                      Append(versions[app[k]], r)]
        <3>1. CASE SyncLicense(k)
            <4>1. app[k] \in Apps
                BY <1>0 DEF TypeOK
            <4>2. [cursor |-> CurrentCursor(app[k]), source |-> "license"]
                      \in VersionRec
                BY <1>0, <4>1, CurrentCursorType DEF VersionRec, Sources
            <4>3. QED
                BY <3>1, <4>2, Zenon DEF SyncLicense
        <3>2. CASE StageRelease(k)
            <4>1. idx[k] \in 1..Len(updates[k]) /\ updates[k] \in Seq(Cursors)
                BY <1>0, <3>2 DEF StageRelease, TypeOK
            <4>2. updates[k][idx[k]] \in Cursors
                BY <4>1, ElementOfSeq
            <4>3. QED
                BY <3>2, <4>2 DEF StageRelease, VersionRec, Sources
        <3>3. QED
            BY <2>3, <3>1, <3>2
    <2>4. QED
        BY <2>1, <2>2, <2>3
        DEF Next, Step, GateCheck, ClearStatus, FetchUpdates, LastUpdate,
            GetLatestVersion, Reassert, ReassertNoDownstream, SetRunning,
            CallFails, DeployStaged, FinishStaging, Publish, Crash,
            Terminated, vars
<1>2. SUFFICES ASSUME NEW j \in Checks, pc'[j] = "deploy"
               PROVE  DeployOnlyLastOfBatch!(j)'
    BY DEF DeployOnlyLastOfBatch
<1>3. StaysDeploying(j) \/ EntersDeploy(j)
    <2>1. ASSUME NEW k \in Checks,
                 \/ GateCheck(k) \/ ClearStatus(k) \/ SyncLicense(k)
                 \/ FetchUpdates(k) \/ LastUpdate(k) \/ GetLatestVersion(k)
          PROVE  StaysDeploying(j)
        <3>1. CASE GateCheck(k)
            BY <1>0, <1>2, <3>1 DEF GateCheck, Goto, Return,
                                 StaysDeploying, TypeOK
        <3>2. CASE ClearStatus(k)
            BY <1>0, <1>2, <3>2 DEF ClearStatus, Goto, Return,
                                 StaysDeploying, TypeOK
        <3>3. CASE SyncLicense(k)
            BY <1>0, <1>2, <3>3 DEF SyncLicense, Goto, Return,
                                 StaysDeploying, TypeOK
        <3>4. CASE FetchUpdates(k)
            BY <1>0, <1>2, <3>4 DEF FetchUpdates, Goto, Return,
                                 StaysDeploying, TypeOK
        <3>5. CASE LastUpdate(k)
            BY <1>0, <1>2, <3>5 DEF LastUpdate, Goto, Return,
                                 StaysDeploying, TypeOK
        <3>6. CASE GetLatestVersion(k)
            BY <1>0, <1>2, <3>6 DEF GetLatestVersion, Goto, Return,
                                 StaysDeploying, TypeOK
        <3>7. QED
            BY <2>1, <3>1, <3>2, <3>3, <3>4, <3>5, <3>6
    <2>2. ASSUME NEW k \in Checks,
                 \/ Reassert(k) \/ ReassertNoDownstream(k) \/ SetRunning(k)
                 \/ CallFails(k) \/ DeployStaged(k) \/ FinishStaging(k)
          PROVE  StaysDeploying(j)
        <3>1. CASE Reassert(k)
            BY <1>0, <1>2, <3>1 DEF Reassert, Goto, Return,
                                 StaysDeploying, TypeOK
        <3>2. CASE ReassertNoDownstream(k)
            BY <1>0, <1>2, <3>2 DEF ReassertNoDownstream, Goto, Return,
                                 StaysDeploying, TypeOK
        <3>3. CASE SetRunning(k)
            BY <1>0, <1>2, <3>3 DEF SetRunning, Goto, Return,
                                 StaysDeploying, TypeOK
        <3>4. CASE CallFails(k)
            BY <1>0, <1>2, <3>4 DEF CallFails, Goto, Return,
                                 StaysDeploying, TypeOK
        <3>5. CASE DeployStaged(k)
            BY <1>0, <1>2, <3>5 DEF DeployStaged, Goto, Return,
                                 StaysDeploying, TypeOK
        <3>6. CASE FinishStaging(k)
            BY <1>0, <1>2, <3>6 DEF FinishStaging, Goto, Return, StagingClearsStatus,
                                 StaysDeploying, TypeOK
        <3>7. QED
            BY <2>2, <3>1, <3>2, <3>3, <3>4, <3>5, <3>6
    <2>3. ASSUME NEW k \in Checks, StageRelease(k)
          PROVE  StaysDeploying(j) \/ EntersDeploy(j)
        <3>1. CASE k # j
            <4>1. /\ pc'[j] = pc[j] /\ idx'[j] = idx[j] /\ seq'[j] = seq[j]
                  /\ updates' = updates /\ app' = app
                <5>1. CASE deploy[k] /\ idx[k] = Len(updates[k])
                    BY <1>0, <2>3, <3>1, <5>1 DEF StageRelease, Goto, TypeOK
                <5>2. CASE ~(deploy[k] /\ idx[k] = Len(updates[k]))
                    BY <1>0, <2>3, <3>1, <5>2 DEF StageRelease, Goto, TypeOK
                <5>3. QED
                    BY <5>1, <5>2
            <4>2. QED
                BY <1>2, <4>1 DEF StaysDeploying
        <3>2. CASE k = j
            BY <1>0, <1>2, <2>3, <3>2 DEF StageRelease, Goto, EntersDeploy,
                                          TypeOK
        <3>3. QED
            BY <3>1, <3>2
    <2>4. CASE \/ \E a \in Apps : Publish(a)
               \/ Crash \/ Terminated \/ UNCHANGED vars
        BY <1>0, <1>2, <2>4 DEF Publish, Crash, Terminated, vars,
                                StaysDeploying, TypeOK
    <2>5. QED
        BY <2>1, <2>2, <2>3, <2>4 DEF Next, Step
<1>4. CASE StaysDeploying(j)
    BY <1>0, <1>1, <1>4, BatchKeep
<1>5. CASE EntersDeploy(j)
    <2> DEFINE a == app[j]
               rec == [cursor |-> updates[j][idx[j]], source |-> "release"]
    <2>1. a \in Apps /\ versions[a] \in Seq(VersionRec)
        BY <1>0 DEF TypeOK
    <2>2. idx[j] \in 1..Len(updates[j]) /\ updates[j] \in Seq(Cursors)
        BY <1>0, <1>5 DEF EntersDeploy, TypeOK
    <2>3. rec \in VersionRec
        BY <2>2, ElementOfSeq DEF VersionRec, Sources
    <2>4. /\ Len(Append(versions[a], rec)) = Len(versions[a]) + 1
          /\ Append(versions[a], rec)[Len(versions[a]) + 1] = rec
          /\ Len(versions[a]) \in Nat
        BY <2>1, <2>3, AppendProperties, LenProperties
    <2>5. /\ versions'[a] = Append(versions[a], rec)
          /\ seq'[j] = Len(versions[a])
          /\ idx'[j] = idx[j] /\ updates'[j] = updates[j] /\ app'[j] = a
        BY <1>0, <1>5, <2>1 DEF EntersDeploy, TypeOK
    <2>6. QED
        BY <1>5, <2>4, <2>5 DEF EntersDeploy, LatestSeq
<1>6. QED
    BY <1>3, <1>4, <1>5

\* Both invariants hold initially, and every step preserves them.
LEMMA BatchInvariant == Spec => [](InductiveInv /\ DeployOnlyLastOfBatch)
<1>1. Init => DeployOnlyLastOfBatch
    BY DEF Init, DeployOnlyLastOfBatch
<1>2. QED
    BY <1>1, InductiveInvInit, InductiveInvStep, BatchStep, PTL DEF Spec

\* The goroutine deploys only after staging the last release of its batch,
\* and what it deploys is the version record that release produced, however
\* other checks append versions, fail downloads or restart the process.
THEOREM DeploysLastOfBatch == Spec => []DeployOnlyLastOfBatch
BY BatchInvariant, PTL

=============================================================================

-------------------------- MODULE JobRegistryProofs --------------------------
(***************************************************************************)
(* Proofs about JobRegistry for every set of apps, calls and offsets: the  *)
(* type invariant.  It is not inductive alone: the install step resolves  *)
(* readSpec[p] for app target[p], so the invariant also says a call in    *)
(* progress has read both (CallArgsRead).                                 *)
(***************************************************************************)
EXTENDS JobRegistry, SequenceTheorems, TLAPS

\* Finish moves only p, to Start's loop or to done.
LEMMA FinishType ==
    ASSUME TypeOK, NEW p \in Procs, Finish(p)
    PROVE  /\ pc' \in [Procs -> PCs]
           /\ pc'[p] \in {"next", "done"}
           /\ \A q \in Procs \ {p} : pc'[q] = pc[q]
BY DEF Finish, TypeOK, PCs

\* The entry list Configure installs is a one-element list of schedules.
LEMMA InstalledEntryType ==
    ASSUME NEW c \in Cadences \ (Disabled \cup {"bad"}), NEW off \in Offsets
    PROVE  /\ <<ResolveSpec(c, off)>> \in Seq(Schedules)
           /\ Len(<<ResolveSpec(c, off)>>) = 1
<1>1. c \in {"@default", "hourly"}
    BY Zenon DEF Cadences, Disabled
<1>2. ResolveSpec(c, off) \in Schedules
    BY <1>1 DEF ResolveSpec, Schedules
<1>3. QED
    BY <1>2

\* Stop's effect keeps the running flags well typed.
LEMMA StopJobType ==
    ASSUME TypeOK, NEW a \in Apps, StopJob(a)
    PROVE  running' \in [Apps -> BOOLEAN]
BY DEF StopJob, TypeOK

\* Every step preserves the inductive invariant.
LEMMA RegistryInvStep == RegistryInv /\ [Next]_vars => RegistryInv'
<1> SUFFICES ASSUME RegistryInv, [Next]_vars PROVE RegistryInv'
    OBVIOUS
<1>0. TypeOK /\ AtMostOneEntry /\ CallArgsRead
    BY DEF RegistryInv
<1>1. CASE ListApps
    BY <1>0, <1>1 DEF ListApps, registry, RegistryInv, TypeOK, AtMostOneEntry,
                      CallArgsRead, PCs, Procs
<1>2. CASE BootNext
    <2>1. CASE todo = {} /\ pc' = [pc EXCEPT ![Boot] = "done"]
                /\ UNCHANGED <<todo, target>>
        BY <1>0, <1>2, <2>1 DEF BootNext, registry, RegistryInv, TypeOK, AtMostOneEntry,
                                CallArgsRead, PCs, Procs
    <2>2. ASSUME NEW a \in todo, todo' = todo \ {a},
                 IF airgap[a] THEN UNCHANGED <<pc, target>>
                 ELSE /\ target' = [target EXCEPT ![Boot] = a]
                      /\ pc' = [pc EXCEPT ![Boot] = "getapp"]
          PROVE RegistryInv'
        <3>1. a \in Apps
            BY <1>0 DEF TypeOK
        <3>2. CASE airgap[a]
            BY <1>0, <1>2, <2>2, <3>2 DEF BootNext, registry, RegistryInv, TypeOK,
                                         AtMostOneEntry, CallArgsRead
        <3>3. CASE ~airgap[a]
            BY <1>0, <1>2, <2>2, <3>1, <3>3 DEF BootNext, registry, RegistryInv, TypeOK,
                                               AtMostOneEntry, CallArgsRead,
                                               PCs, Procs
        <3>4. QED
            BY <3>2, <3>3
    <2>3. QED
        BY <1>2, <2>1, <2>2 DEF BootNext, registry
<1>3. ASSUME NEW p \in Calls, NEW a \in Apps, NEW c \in Cadences,
             RequestConfigure(p, a, c)
      PROVE  RegistryInv'
    BY <1>0, <1>3 DEF RequestConfigure, registry, RegistryInv, TypeOK, AtMostOneEntry,
                      CallArgsRead, PCs, Procs
<1>4. ASSUME NEW p \in Procs, GetApp(p) PROVE RegistryInv'
    <2>1. target[p] \in Apps
        BY <1>0, <1>4 DEF GetApp, registry, CallArgsRead
    <2>0. UNCHANGED <<cadence, airgap, jobs, entries, running, mtx, target,
                      todo, mapFault>>
        BY <1>4 DEF GetApp, registry
    <2>2. CASE Finish(p) /\ UNCHANGED readSpec /\ failed' \subseteq Procs
        <3>1. pc' \in [Procs -> PCs] /\ pc'[p] \in {"next", "done"}
              /\ \A q \in Procs \ {p} : pc'[q] = pc[q]
            BY <1>0, <2>2, FinishType
        <3>2. QED
            BY <1>0, <2>0, <2>2, <3>1 DEF RegistryInv, TypeOK, AtMostOneEntry,
                                          CallArgsRead
    <2>3. CASE /\ readSpec' = [readSpec EXCEPT ![p] = cadence[target[p]]]
               /\ pc' = [pc EXCEPT ![p] = "lock"]
               /\ UNCHANGED failed
        BY <1>0, <2>0, <2>1, <2>3 DEF RegistryInv, TypeOK, AtMostOneEntry,
                                      CallArgsRead, PCs
    <2>4. failed \cup {p} \subseteq Procs
        BY <1>0 DEF TypeOK
    <2>5. QED
        BY <1>4, <2>2, <2>3, <2>4 DEF GetApp, registry
<1>5. ASSUME NEW p \in Procs, Lock(p) PROVE RegistryInv'
    BY <1>0, <1>5 DEF Lock, registry, RegistryInv, TypeOK, AtMostOneEntry,
                      CallArgsRead, PCs
<1>6. ASSUME NEW p \in Procs, ConfigureDisable(p) PROVE RegistryInv'
    <2>1. target[p] \in Apps
        BY <1>0, <1>6 DEF ConfigureDisable, registry, CallArgsRead
    <2>2. /\ StopJob(target[p])
          /\ UNCHANGED <<jobs, entries>>
          /\ mtx' = Free
          /\ Finish(p)
          /\ UNCHANGED <<cadence, airgap, target, readSpec, todo, failed,
                         mapFault>>
        BY <1>6 DEF ConfigureDisable, registry
    <2>3. pc' \in [Procs -> PCs] /\ pc'[p] \in {"next", "done"}
          /\ \A q \in Procs \ {p} : pc'[q] = pc[q]
        BY <1>0, <2>2, FinishType
    <2>4. running' \in [Apps -> BOOLEAN]
        BY <1>0, <2>1, <2>2, StopJobType
    <2>5. QED
        BY <1>0, <2>2, <2>3, <2>4 DEF RegistryInv, TypeOK, AtMostOneEntry,
                                      CallArgsRead
<1>7. ASSUME NEW p \in Procs, ConfigureInstall(p) PROVE RegistryInv'
    <2>1. target[p] \in Apps /\ readSpec[p] \in Cadences \ (Disabled \cup {"bad"})
        BY <1>0, <1>7 DEF ConfigureInstall, registry, CallArgsRead
    <2>2. PICK off \in Offsets :
            entries' = [entries EXCEPT ![target[p]] =
                          <<ResolveSpec(readSpec[p], off)>>]
        BY <1>7, Zenon DEF ConfigureInstall, registry
    <2>3. /\ running' = [running EXCEPT ![target[p]] = TRUE]
          /\ pc' = [pc EXCEPT ![p] = "store"]
          /\ UNCHANGED <<jobs, mtx, cadence, airgap, target, readSpec, todo,
                         failed, mapFault>>
        BY <1>7 DEF ConfigureInstall, registry
    <2>4. pc' \in [Procs -> PCs] /\ pc'[p] = "store"
          /\ \A q \in Procs \ {p} : pc'[q] = pc[q]
        BY <1>0, <2>3 DEF TypeOK, PCs
    <2>5. /\ <<ResolveSpec(readSpec[p], off)>> \in Seq(Schedules)
          /\ Len(<<ResolveSpec(readSpec[p], off)>>) = 1
        BY <2>1, InstalledEntryType
    <2>6. entries' \in [Apps -> Seq(Schedules)] /\ AtMostOneEntry'
        BY <1>0, <2>1, <2>2, <2>5 DEF TypeOK, AtMostOneEntry
    <2>7. TypeOK'
        <3>1. running' \in [Apps -> BOOLEAN] /\ jobs' \subseteq Apps
            BY <1>0, <2>1, <2>3 DEF TypeOK
        <3>2. mtx' \in Procs \cup {Free}
            BY <1>0, <2>3 DEF TypeOK
        <3>3. QED
            BY <1>0, <2>3, <2>4, <2>6, <3>1, <3>2 DEF TypeOK
    <2>8. CallArgsRead'
        BY <1>0, <2>1, <2>3, <2>4 DEF CallArgsRead
    <2>9. QED
        BY <2>6, <2>7, <2>8 DEF RegistryInv
<1>12. ASSUME NEW p \in Procs, StoreJob(p) PROVE RegistryInv'
    <2>1. target[p] \in Apps
        BY <1>0, <1>12 DEF StoreJob, CallArgsRead
    <2>2. /\ jobs' = jobs \cup {target[p]}
          /\ mtx' = Free
          /\ Finish(p)
          /\ UNCHANGED <<cadence, airgap, entries, running, target, readSpec,
                         todo, failed, mapFault>>
        BY <1>12 DEF StoreJob
    <2>3. pc' \in [Procs -> PCs] /\ pc'[p] \in {"next", "done"}
          /\ \A q \in Procs \ {p} : pc'[q] = pc[q]
        BY <1>0, <2>2, FinishType
    <2>4. QED
        BY <1>0, <2>1, <2>2, <2>3 DEF RegistryInv, TypeOK, AtMostOneEntry,
                                      CallArgsRead
<1>8. ASSUME NEW p \in Procs, ConfigureAddFails(p) PROVE RegistryInv'
    <2>1. target[p] \in Apps
        BY <1>0, <1>8 DEF ConfigureAddFails, registry, CallArgsRead
    <2>2. /\ entries' = IF target[p] \in jobs
                          THEN [entries EXCEPT ![target[p]] = <<>>]
                          ELSE entries
          /\ UNCHANGED <<jobs, running>>
          /\ mtx' = Free
          /\ Finish(p)
          /\ failed' = failed \cup {p}
          /\ UNCHANGED <<cadence, airgap, target, readSpec, todo, mapFault>>
        BY <1>8 DEF ConfigureAddFails, registry
    <2>3. pc' \in [Procs -> PCs] /\ pc'[p] \in {"next", "done"}
          /\ \A q \in Procs \ {p} : pc'[q] = pc[q]
        BY <1>0, <2>2, FinishType
    <2>4. entries' \in [Apps -> Seq(Schedules)] /\ AtMostOneEntry'
        BY <1>0, <2>1, <2>2, EmptySeq DEF TypeOK, AtMostOneEntry
    <2>5. QED
        BY <1>0, <2>2, <2>3, <2>4 DEF RegistryInv, TypeOK, CallArgsRead
<1>9. ASSUME NEW a \in Apps, Stop(a) PROVE RegistryInv'
    <2>0. UNCHANGED <<jobs, entries, cadence, airgap, mtx, pc, target, readSpec,
                      todo, failed>>
        BY <1>9 DEF Stop
    <2>1. CASE StopJob(a) /\ UNCHANGED mapFault
        <3>1. running' \in [Apps -> BOOLEAN]
            BY <1>0, <2>1, StopJobType
        <3>2. QED
            BY <1>0, <2>0, <2>1, <3>1 DEF RegistryInv, TypeOK, AtMostOneEntry,
                                          CallArgsRead
    <2>2. CASE mapFault' = TRUE /\ UNCHANGED running
        <3>1. mapFault' \in BOOLEAN
            BY <2>2, Zenon
        <3>2. QED
            BY <1>0, <2>0, <2>2, <3>1 DEF RegistryInv, TypeOK, AtMostOneEntry,
                                          CallArgsRead
    <2>3. QED
        BY <1>9, <2>1, <2>2, Zenon DEF Stop
<1>10. CASE Aborted \/ Terminated \/ UNCHANGED vars
    BY <1>0, <1>10 DEF Aborted, Terminated, vars, RegistryInv, TypeOK,
                       AtMostOneEntry, CallArgsRead
<1>11. QED
    BY <1>1, <1>2, <1>3, <1>4, <1>5, <1>6, <1>7, <1>8, <1>9, <1>10, <1>12
    DEF Next, ProcStep

\* The initial states satisfy the inductive invariant.
LEMMA RegistryInvInit == Init => RegistryInv
<1> SUFFICES ASSUME Init PROVE RegistryInv
    OBVIOUS
<1>1. mapFault \in BOOLEAN
    BY Zenon DEF Init
<1>2. QED
    BY <1>1, EmptySeq DEF Init, RegistryInv, TypeOK, AtMostOneEntry,
                          CallArgsRead, PCs, Procs

\* Every state's variables have their types (Start's loop, Configure and
\* Stop never store an ill-formed job, cadence or control point).
THEOREM RegistryTypeCorrect == Spec => []TypeOK
<1>1. RegistryInv => TypeOK
    BY DEF RegistryInv
<1>2. QED
    BY <1>1, RegistryInvInit, RegistryInvStep, PTL DEF Spec
=============================================================================

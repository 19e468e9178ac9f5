----------------------------- MODULE JobRegistry -----------------------------
(***************************************************************************)
(* The per-app scheduled-job registry of pkg/updatechecker/updatechecker.go*)
(* (Start, Configure, Stop) and the cadence resolution inside Configure.   *)
(*                                                                         *)
(* Processes: Boot runs Start() at process start; every p \in Calls is a   *)
(* call of Configure(appID) made after the app's cadence was changed in    *)
(* the store (the settings handler writes the cadence, then configures).   *)
(* The registry map jobs, the package mutex mtx and the store's cadence   *)
(* are shared.  An app's cron job is abstracted to its entry list and     *)
(* whether its scheduler runs; an entry is the schedule it fires on.      *)
(***************************************************************************)
EXTENDS Naturals, Sequences

CONSTANTS
    Apps,          \* installed application ids
    Calls,         \* Configure invocations made after a cadence change
    Offsets        \* (minute, hour mod 4) pairs "@default" may resolve to

ASSUME RegistryAssumption ==
    /\ Apps # {}
    /\ Offsets # {}

VARIABLES
    cadence,    \* cadence[a]: the app's UpdateCheckerSpec in the store
    airgap,     \* airgap[a]: the app's IsAirgap flag
    jobs,       \* the apps that have a cron job in the jobs map
    entries,    \* entries[a]: the trigger entries of the app's cron job
    running,    \* running[a]: the app's cron scheduler is started
    mtx,        \* holder of the package mutex, or Free
    pc,         \* pc[p]: where process p is
    target,     \* target[p]: appID of p's current Configure call
    readSpec,   \* readSpec[p]: a.UpdateCheckerSpec as GetApp returned it
    todo,       \* apps of Start's list not yet visited
    failed,     \* processes a call of which returned (or logged) an error
    mapFault    \* the Go runtime aborted on a concurrent map read and write

registry == <<jobs, entries, running>>
vars == <<cadence, airgap, jobs, entries, running, mtx, pc, target, readSpec,
          todo, failed, mapFault>>

Boot == "boot"
Procs == Calls \cup {Boot}
Free == "free"
None == "none"

\* Cadence strings: disabled ones, the spread default, one valid cron
\* expression and one malformed one that AddFunc rejects.
Disabled == {"@never", ""}
Cadences == Disabled \cup {"@default", "hourly", "bad"}

\* Where a process can be: Start's list and loop, then Configure's steps;
\* at "store" it is executing the map assignment of line 124.
PCs == {"idle", "list", "next", "getapp", "lock", "body", "store", "done"}

\* A resolved cron spec: the expression and, for "@default", its offset.
Schedules == [spec : {"every4h", "hourly", "bad"}, offset : Offsets \cup {0}]

\* cronSpec after the "@default" rewrite, the clock giving offset off.
ResolveSpec(c, off) ==
    IF c = "@default" THEN [spec |-> "every4h", offset |-> off]
                      ELSE [spec |-> c, offset |-> 0]

\* Stop's effect: the app's job, if the map has one, stops running.
StopJob(a) ==
    running' = IF a \in jobs THEN [running EXCEPT ![a] = FALSE] ELSE running

\* Where a process goes when its Configure call returns: Start's loop
\* logs the error and moves on; any other caller is done.
Finish(p) == pc' = [pc EXCEPT ![p] = IF p = Boot THEN "next" ELSE "done"]

Init ==
    /\ cadence \in [Apps -> Cadences]
    /\ airgap \in [Apps -> BOOLEAN]
    /\ jobs = {}
    /\ entries = [a \in Apps |-> <<>>]
    /\ running = [a \in Apps |-> FALSE]
    /\ mtx = Free
    /\ pc = [p \in Procs |-> IF p = Boot THEN "list" ELSE "idle"]
    /\ target = [p \in Procs |-> None]
    /\ readSpec = [p \in Procs |-> None]
    /\ todo = {}
    /\ failed = {}
    /\ mapFault = FALSE

-----------------------------------------------------------------------------
(* Start.                                                                  *)

\* ListInstalledApps; on error Start returns it.
ListApps ==
    /\ pc[Boot] = "list"
    /\ \/ /\ todo' = Apps
          /\ pc' = [pc EXCEPT ![Boot] = "next"]
          /\ UNCHANGED failed
       \/ /\ pc' = [pc EXCEPT ![Boot] = "done"]
          /\ failed' = failed \cup {Boot}
          /\ UNCHANGED todo
    /\ UNCHANGED <<cadence, airgap, registry, mtx, target, readSpec, mapFault>>

\* The loop over the list: skip airgapped apps, Configure the others.
BootNext ==
    /\ pc[Boot] = "next"
    /\ \/ /\ todo = {}
          /\ pc' = [pc EXCEPT ![Boot] = "done"]
          /\ UNCHANGED <<todo, target>>
       \/ \E a \in todo :
            /\ todo' = todo \ {a}
            /\ IF airgap[a]
                 THEN UNCHANGED <<pc, target>>
                 ELSE /\ target' = [target EXCEPT ![Boot] = a]
                      /\ pc' = [pc EXCEPT ![Boot] = "getapp"]
    /\ UNCHANGED <<cadence, airgap, registry, mtx, readSpec, failed, mapFault>>

-----------------------------------------------------------------------------
(* Configure(appID).                                                       *)

\* The settings handler stores a new cadence, then calls Configure.
RequestConfigure(p, a, c) ==
    /\ pc[p] = "idle"
    /\ cadence' = [cadence EXCEPT ![a] = c]
    /\ target' = [target EXCEPT ![p] = a]
    /\ pc' = [pc EXCEPT ![p] = "getapp"]
    /\ UNCHANGED <<airgap, registry, mtx, readSpec, todo, failed, mapFault>>

\* GetApp, before the mutex is taken; airgapped apps return nil.
GetApp(p) ==
    LET a == target[p] IN
    /\ pc[p] = "getapp"
    /\ \/ /\ Finish(p)
          /\ failed' = failed \cup {p}
          /\ UNCHANGED readSpec
       \/ /\ airgap[a]
          /\ Finish(p)
          /\ UNCHANGED <<readSpec, failed>>
       \/ /\ ~airgap[a]
          /\ readSpec' = [readSpec EXCEPT ![p] = cadence[a]]
          /\ pc' = [pc EXCEPT ![p] = "lock"]
          /\ UNCHANGED failed
    /\ UNCHANGED <<cadence, airgap, registry, mtx, target, todo, mapFault>>

\* mtx.Lock(); the deferred Unlock runs on every return below.
Lock(p) ==
    /\ pc[p] = "lock"
    /\ mtx = Free
    /\ mtx' = p
    /\ pc' = [pc EXCEPT ![p] = "body"]
    /\ UNCHANGED <<cadence, airgap, registry, target, readSpec, todo, failed,
                   mapFault>>

\* "@never" or "": Stop(a.ID) and return nil.
ConfigureDisable(p) ==
    /\ pc[p] = "body"
    /\ readSpec[p] \in Disabled
    /\ StopJob(target[p])
    /\ UNCHANGED <<jobs, entries>>
    /\ mtx' = Free
    /\ Finish(p)
    /\ UNCHANGED <<cadence, airgap, target, readSpec, todo, failed, mapFault>>

\* Mutant: the empty cadence is not treated as disabled.
ConfigureInstallEmptySpec(p) ==
    LET a == target[p] IN
    /\ pc[p] = "body"
    /\ readSpec[p] \notin {"@never", "bad"}
    /\ \E off \in Offsets :
         entries' = [entries EXCEPT ![a] = <<ResolveSpec(readSpec[p], off)>>]
    /\ running' = [running EXCEPT ![a] = TRUE]
    /\ pc' = [pc EXCEPT ![p] = "store"]
    /\ UNCHANGED <<jobs, mtx, cadence, airgap, target, readSpec, todo, failed,
                   mapFault>>

\* Remove the existing job's entries (or create a job), AddFunc the
\* resolved spec and Start the job.
ConfigureInstall(p) ==
    LET a == target[p] IN
    /\ pc[p] = "body"
    /\ readSpec[p] \notin Disabled \cup {"bad"}
    /\ \E off \in Offsets :
         entries' = [entries EXCEPT ![a] = <<ResolveSpec(readSpec[p], off)>>]
    /\ running' = [running EXCEPT ![a] = TRUE]
    /\ pc' = [pc EXCEPT ![p] = "store"]
    /\ UNCHANGED <<jobs, mtx, cadence, airgap, target, readSpec, todo, failed,
                   mapFault>>

\* jobs[a.ID] = job, then return nil and unlock.
StoreJob(p) ==
    /\ pc[p] = "store"
    /\ jobs' = jobs \cup {target[p]}
    /\ mtx' = Free
    /\ Finish(p)
    /\ UNCHANGED <<cadence, airgap, entries, running, target, readSpec, todo,
                   failed, mapFault>>

\* Mutant: the AddFunc error path returns without unlocking the mutex.
ConfigureAddFailsNoUnlock(p) ==
    LET a == target[p] IN
    /\ pc[p] = "body"
    /\ readSpec[p] = "bad"
    /\ entries' = IF a \in jobs THEN [entries EXCEPT ![a] = <<>>]
                                ELSE entries
    /\ UNCHANGED <<jobs, running>>
    /\ Finish(p)
    /\ failed' = failed \cup {p}
    /\ UNCHANGED <<cadence, airgap, mtx, target, readSpec, todo, mapFault>>

\* AddFunc rejects the spec: "failed to add func" is returned after the
\* existing job's entries were already removed; a new job is dropped.
ConfigureAddFails(p) ==
    LET a == target[p] IN
    /\ pc[p] = "body"
    /\ readSpec[p] = "bad"
    /\ entries' = IF a \in jobs THEN [entries EXCEPT ![a] = <<>>]
                                ELSE entries
    /\ UNCHANGED <<jobs, running>>
    /\ mtx' = Free
    /\ Finish(p)
    /\ failed' = failed \cup {p}
    /\ UNCHANGED <<cadence, airgap, target, readSpec, todo, mapFault>>

\* Stop(appID) called by another component; it takes no lock.  Its read
\* of jobs at line 135 may overlap a Configure's write at line 124; the Go
\* runtime then either goes unnoticed or aborts the process with "concurrent
\* map read and map write".
Stop(a) ==
    /\ \/ /\ StopJob(a)
          /\ UNCHANGED mapFault
       \/ /\ \E p \in Procs : pc[p] = "store"
          /\ mapFault' = TRUE
          /\ UNCHANGED running
    /\ UNCHANGED <<jobs, entries>>
    /\ UNCHANGED <<cadence, airgap, mtx, pc, target, readSpec, todo, failed>>

\* The process has aborted.
Aborted == mapFault /\ UNCHANGED vars

\* Every process has returned.
Terminated ==
    /\ \A p \in Procs : pc[p] \in {"idle", "done"}
    /\ UNCHANGED vars

ProcStep(p) ==
    \/ GetApp(p) \/ Lock(p)
    \/ ConfigureDisable(p) \/ ConfigureInstall(p) \/ StoreJob(p)
    \/ ConfigureAddFails(p)

Next ==
    \/ /\ ~mapFault
       /\ \/ ListApps \/ BootNext
          \/ \E p \in Calls, a \in Apps, c \in Cadences : RequestConfigure(p, a, c)
          \/ \E p \in Procs : ProcStep(p)
          \/ \E a \in Apps : Stop(a)
    \/ Aborted
    \/ Terminated

Spec == Init /\ [][Next]_vars

\* Start runs to its end and every Configure call returns: the store calls
\* return, and a Go mutex is eventually granted to a waiting goroutine.
FairSpec ==
    /\ Spec
    /\ WF_vars(ListApps \/ BootNext)
    /\ \A p \in Procs : WF_vars(ProcStep(p))

-----------------------------------------------------------------------------
(* Properties.                                                             *)

TypeOK ==
    /\ cadence \in [Apps -> Cadences]
    /\ airgap \in [Apps -> BOOLEAN]
    /\ jobs \subseteq Apps
    /\ entries \in [Apps -> Seq(Schedules)]
    /\ running \in [Apps -> BOOLEAN]
    /\ mtx \in Procs \cup {Free}
    /\ pc \in [Procs -> PCs]
    /\ target \in [Procs -> Apps \cup {None}]
    /\ readSpec \in [Procs -> Cadences \cup {None}]
    /\ todo \subseteq Apps
    /\ failed \subseteq Procs
    /\ mapFault \in BOOLEAN

\* A job holds at most one trigger entry: ConfigureInstall replaces the
\* list and ConfigureAddFails empties it.  A conjunct of RegistryInv.
AtMostOneEntry ==
    \A a \in Apps : Len(entries[a]) <= 1

\* A Configure call in progress has its appID, and once GetApp returned,
\* the cadence it read: the body never resolves an unread spec.
CallArgsRead ==
    \A p \in Procs :
        /\ pc[p] \in {"getapp", "lock", "body", "store"} => target[p] \in Apps
        /\ pc[p] \in {"lock", "body"} => readSpec[p] \in Cadences

\* The inductive invariant behind TypeOK.
RegistryInv == TypeOK /\ AtMostOneEntry /\ CallArgsRead

\* Start finishes, and every Configure call returns (none waits for the
\* mutex forever), unless the process has aborted.
ConfigureReturns ==
    /\ <>(pc[Boot] = "done" \/ mapFault)
    /\ \A p \in Calls : pc[p] = "getapp" ~> (pc[p] = "done" \/ mapFault)

\* Spec 4.2: all registry mutation happens under the lock so that two
\* concurrent Configure calls for one app cannot clobber each other: once
\* every call has returned without error, each non-airgapped app's job
\* follows the cadence the store holds for it (stopped when disabled, one
\* entry on the resolved spec otherwise).
ScheduleFollowsStore ==
    (\A p \in Procs : pc[p] \in {"idle", "done"} /\ p \notin failed) =>
        \A a \in Apps : ~airgap[a] =>
            /\ cadence[a] \in Disabled =>
                   ~running[a]
            /\ cadence[a] \notin Disabled =>
                   /\ a \in jobs
                   /\ Len(entries[a]) = 1
                   /\ entries[a][1].spec = ResolveSpec(cadence[a], 0).spec

\* Spec 1 calls the registry a thread-safe map, and Stop is exposed to
\* collaborators (spec 6): no call of Stop, Configure or Start ever makes
\* the Go runtime abort on a concurrent access to the jobs map.
JobsMapRaceFree == ~mapFault

=============================================================================

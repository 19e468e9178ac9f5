# TLA+ models of the kots update checker and install command

This directory holds TLA+ models of two parts of kots:
- the scheduled update checker in `src/pkg/updatechecker/updatechecker.go`;
- the `kots install` command in `src/cmd/kots/cli/install.go`.

It has TLC configurations that model-check them on small instances, and
TLAPS proofs of their main invariants for every instance.

## The system

The update checker has two cooperating parts, and both live in `updatechecker.go`.

- **Job registry** (`Start`, `Configure`, `Stop`, lines 24-140).
  - A package-level map `jobs` from app id to a cron scheduler, guarded by `mtx`.
  - `Start` walks the installed apps and calls `Configure` for each app that is not airgapped.
  - `Configure` loads the app and reads its cadence. It then takes the mutex and does one of two things:
    - stops the job, when the cadence is `@never` or empty;
    - resolves `@default` to a 4-hourly spec, removes the job's entries, and installs a new entry with `AddFunc`.
  - The UI's settings handler calls `Configure` again whenever a cadence changes.
  - `Stop` stops a job without taking the mutex.
- **Update check** (`CheckForUpdates`, lines 142-302). It is called by cron ticks, the UI and the CLI, possibly concurrently. It runs these steps in order:
  1. Reads the shared task status `update-download`. If it is `running`, it returns (0, nil). This is the single-flight gate.
  2. Clears the status, syncs the license, and reloads the app.
  3. Fetches the current version's archive into a temp dir and asks upstream for newer releases.
  4. Records the last-checked time.
  5. If there are no updates and `deploy` is set, it redeploys the latest version if the downstream's parent sequence differs (the reassert path).
  6. Otherwise it sets the status to `running` and spawns a goroutine. The goroutine downloads each release in cursor order, deploys only the last one, and removes the temp dir.

The store, license sync, upstream download and `DeployVersion` are collaborators outside `src/`. Only their effects on the state the checker reads are modelled. They are marked `spec_modelled` in `PROJECT.json`:
- each synced license or downloaded release adds a version;
- `DeployVersion` sets the parent sequence;
- a finished download clears the task status.

`kots install` (`install.go`, `RunE`) is a sequential command with two helpers running beside it:
- a watcher goroutine on the port forwarder's `errChan` and `stopCh`;
- the Go runtime's handling of Ctrl+C.

Its resources are the hidden terminal cursor, a temp dir and `stopCh`. Each is released by a `defer`, and the defers run only when `RunE` returns, never on `os.Exit`.

## Modules

| module | models |
|---|---|
| `UpdateChecker.tla` | `CheckForUpdates` and its staging goroutine, with concurrent invocations, vendor publications and process restarts |
| `MC_UpdateChecker.tla` | model values for apps and invocations, symmetry |
| `UpdateCheckerProofs.tla` | TLAPS proofs of the type invariant and of every safety invariant `uc_safety` checks |
| `JobRegistry.tla` | `Start`, `Configure` (called at boot and by settings changes), `Stop` |
| `MC_JobRegistry.tla` | model values for apps and `Configure` calls, symmetry |
| `JobRegistryProofs.tla` | TLAPS proof of the type invariant |
| `InstallCmd.tla` | `RunE` of `kots install`, the watcher goroutine, the forwarder and Ctrl+C |
| `MC_InstallCmd.tla` | namespace flags and stdin kinds |
| `InstallCmdProofs.tla` | TLAPS proofs of the type invariant and `CleanupOnReturn` |

### UpdateChecker

Each invocation `k \in Checks` is a process with a program counter `pc[k]`.
Each action models one stretch of the code between two store or upstream calls, and keeps that stretch's guard and error return:

| action | lines |
|---|---|
| `GateCheck` | 146-154 |
| `ClearStatus` | 156-158 |
| `SyncLicense` | 160-175 |
| `FetchUpdates` | 177-219 |
| `LastUpdate` | 221-231 |
| `GetLatestVersion` | 233-245 |
| `Reassert` | 246-263 |
| `ReassertNoDownstream` | 246-251, the panic of `downstreams[0]` |
| `SetRunning` | 266-274 |
| `StageRelease` | 277-285 |
| `DeployStaged` | 285-298 |
| `FinishStaging` | 275-276, 299-300 |

`CallFails` is every synchronous error return, and it runs the deferred `RemoveAll` (`Return`).

The shared state is:
- `taskStatus`;
- `versions[a]`, the version records, where sequence s is record s+1;
- `parentSeq[a]`, the parent sequence of `downstreams[0]`;
- `upstream[a]`, the newest published cursor.

Per invocation, the state is `app`, `deploy`, `updates`, `idx`, `seq` and `ret`, the value returned to the caller. `tmpDirs` holds the invocations whose archive dir exists on disk.

The environment has two actions:
- `Publish(a)` publishes a newer release;
- `Crash` restarts kotsadm. The in-flight calls, the goroutines and the temp dirs are lost, and the store survives.

Data is abstracted to cursors `0..MaxCursor` and version records `[cursor, source]`.

The constant `Downstreamless` is the set of apps whose `ListDownstreamsForApp` returns an empty list. For such an app, the re-assert path panics at line 251 (`ReassertNoDownstream`):
- the deferred `RemoveAll` runs while the panic unwinds;
- the caller gets no result (`ret` stays `"none"`).

### JobRegistry

`Boot` is the `Start` goroutine, and each `p \in Calls` is a settings-handler `Configure` call.

The state follows the Go objects:
- `jobs` is the set of keys of the `jobs` map;
- `entries[a]` is the job's trigger entries;
- `running[a]` is whether its cron is started;
- `mtx` is the mutex owner;
- `cadence` and `airgap` are the store's app fields.

Per call, `target` is the app and `readSpec` is the cadence read at line 56.

The actions are:

| action | models |
|---|---|
| `ListApps` | lines 33-36 |
| `BootNext` | the loop, lines 38-47 |
| `GetApp` | lines 55-66 |
| `Lock` | lines 68-69 |
| `ConfigureDisable` | lines 71-76 |
| `ConfigureInstall` | lines 78-126 |
| `ConfigureAddFails` | the `AddFunc` error at 119-121, with the entries already removed at 89-92 |
| `StoreJob` | the map assignment `jobs[a.ID] = job` and the unlock, lines 124-126 |
| `Stop` | lines 129-140 |

`ConfigureInstall` ends at `"store"`, still holding the mutex. When `Stop` runs while some call is at `"store"`, it reads the map that is being written. That is the Go runtime's fatal "concurrent map read and map write": `mapFault` becomes true, and from then on only `Aborted` (stuttering) steps remain.

`ResolveSpec` turns `@default` into an every-4-hours spec with a nondeterministic offset, which stands for the wall clock. Any other spec passes through. `bad` stands for a spec that cron cannot parse.

### InstallCmd

The main flow has a program counter `pc`, with one action per call of `RunE`:

| action | lines |
|---|---|
| `CheckArgs` | 39-42 (usage and `os.Exit(1)`) |
| `MakeTempDir` | 44-53 (hide cursor, temp dir, two defers) |
| `Namespace` | 55-74 |
| `PromptRun` | 249-289 (one turn of the `promptForNamespace` loop) |
| `Pull` | 76-113 |
| `Deploy` | 115-134 |
| `GetClientset` | 136-140 |
| `WaitForKotsadm` | 142-145 |
| `PortForward` | 147-153 (`stopCh` and its deferred close) |
| `SpawnWatcher` | 155-156 |
| `Mode` | 166-191 |
| `WaitSignal` | 178-186 |
| `Unwind` | 193-194 (one deferred call per step, LIFO) |

Each call either succeeds or returns an error. `deferred` counts the registered defers over `DeferOrder = <<"show", "rmdir", "close">>`, and `Unwind` pops them from the top. The other state is:
- `cursorHidden`, `rootDir` and `stopCh`, the three resources;
- `result`, what `RunE` returns;
- `exit`, how the process ended (`usage`, `ok`, `error`, `os_exit`, `killed`).

The watcher goroutine is `WatchErrChan` (an error logs and calls `os.Exit(-1)`) and `WatchStopCh`. The environment actions are outside `src/` and marked `spec_modelled`:
- `ForwarderFails` and `ForwarderStops`, the forwarder's send on `errChan`;
- `Interrupt`, a Ctrl+C, at most `MaxInterrupts` of them;
- `SignalKills`, the runtime ending the process on SIGINT when no handler is installed.

## Runs

| run | cfg | expect | shows |
|---|---|---|---|
| uc_safety | `UpdateChecker_safety.cfg` | pass | `TypeOK`, `ParentIsExistingVersion`, `DeployTargetExists`, `DeployOnlyLastOfBatch`, and `NoLeakedArchiveDir` hold with 3 invocations, 1 app, cursors 0..2 and 1 restart (5M states, about 2 minutes) |
| uc_gate_live | `UpdateChecker_gate_live.cfg` | pass | without restarts, with two apps of which one has no downstream, the `running` status is always eventually cleared (`GateEventuallyReopens`) |
| uc_gate_race | `UpdateChecker_gate_race.cfg` | violation | `AtMostOneBatch`: two checks both pass the gate, because the gate is tested at 151 and set only at 270 |
| uc_reassert | `UpdateChecker_reassert.cfg` | violation | `ReassertNeverRollsBack`: the reassert path deploys a stale latest version over one just deployed by another check's goroutine |
| uc_crash_gate | `UpdateChecker_crash_gate.cfg` | violation | `GateEventuallyReopens`: after a restart during staging, every later check returns at 151 for ever |
| jr_safety | `JobRegistry_safety.cfg` | pass | `TypeOK`, with 2 apps, boot, 2 concurrent `Configure` calls and `Stop` (2.1M states) |
| jr_live | `JobRegistry_live.cfg` | pass | `ConfigureReturns`: `Start` and every `Configure` call return, so the mutex is always released |
| jr_stale | `JobRegistry_stale.cfg` | violation | `ScheduleFollowsStore`: a `Configure` that read `@default` before the lock installs a schedule after a later call disabled it for `@never` |
| jr_map_race | `JobRegistry_map_race.cfg` | violation | `JobsMapRaceFree`: `Stop` reads `jobs` without `mtx` while `Configure` assigns it at 124, so the runtime can abort kotsadm |
| install_safety | `InstallCmd_safety.cfg` | pass | `CleanupOnReturn`: whenever `RunE` returns, its defers have shown the cursor, removed the temp dir and closed `stopCh` |
| install_prompt_spin | `InstallCmd_prompt_spin.cfg` | violation | `InstallReturns`: without `--namespace` and with stdin closed, `prompt.Run` fails with `ErrEOF` on every turn and the loop at 278-288 `continue`s for ever. Each turn leaves the state as it was, so TLC shows the spin as a behaviour that stutters at `pc = "prompt"` while the loop's step is always enabled |
| install_exit_leak | `InstallCmd_exit_leak.cfg` | violation | `CleanupOnEveryExit`, with no Ctrl+C: the forwarder fails while `RunE` is at `--port-forward`, and the watcher's `os.Exit(-1)` (line 160) ends the process past the defers, leaving the temp dir and the hidden cursor |

The seven `findings` in `PROJECT.json` come from the violation runs.

Some of what the model contains is not checked by any run. `PROJECT.json` lists it under `hazards`, each with a note:
- the nil-wrapped `LastUpdateAtTime` error of line 224, which returns (0, nil);
- the panic at `downstreams[0]` (`ReassertNoDownstream`), which fires in `uc_gate_live`;
- the prior schedule lost when `AddFunc` fails (line 119);
- a Ctrl+C before `signal.Notify` (line 179), which `SignalKills` models; `install_exit_leak` runs without Ctrl+C so that its trace is the `os.Exit` of line 160;
- the 3-minute timeout of `WaitForKotsadm` (line 142), which `WaitForKotsadm` keeps as an error return.

**Bounds.** Every interesting case appears within these bounds:
- Two or three invocations give every gate and reassert race.
- Cursors 0..2 give batches of two releases, so "deploy only the last" is a real choice and a failed download in the middle of a batch is reachable.
- One restart reaches the stuck gate and the loss of temp dirs.
- One app suffices for `CheckForUpdates`, because the task status is global and not per app.
- The registry uses two apps in its safety run, because `Start` and `Configure` can work on different apps at once.
- `install` runs with every namespace flag kind (none, valid, invalid) and every stdin kind (terminal, closed). One Ctrl+C reaches each place where a signal lands: the prompt, the wait, and no handler at all. `install_exit_leak` allows none, so that the watcher's `os.Exit` is the shortest way out past the defers.

**Fairness.**
- `UpdateChecker.FairSpec` puts weak fairness on each started invocation (`Progress(k)`). Once a call is entered, Go keeps running it and its goroutine, and every store and upstream call returns.
- Not starting a call (`pc = "init"`) is not forced, because nobody has to ask for an update.
- `JobRegistry.FairSpec` puts weak fairness on each process's steps. A Go `sync.Mutex` eventually grants a waiting goroutine, since its starvation mode bounds the wait. After a runtime abort (`mapFault`) nothing is owed: `ConfigureReturns` allows that exit.
- `InstallCmd.FairSpec` puts weak fairness on:
  - the main flow and the watcher goroutine, which the Go scheduler runs;
  - `ForwarderStops`, since the forwarder returns once `stopCh` is closed;
  - `SignalKills`, since a delivered SIGINT is acted on.

  The user's Ctrl+C and a lost forwarder connection are not forced.

**Mutants.** For each property of a passing run, `PROJECT.json` lists a mutant of the mapped action that a plausible bug would produce, and the run fails on it:
- `SetRunningZeroIndex`;
- `DeployStagedNextSeq`;
- `GetLatestVersionOffByOne`;
- `StageReleaseDeployEach`;
- `FinishStagingKeepsDir`;
- `FinishStagingKeepsStatus`;
- `ConfigureInstallEmptySpec`;
- `ConfigureAddFailsNoUnlock`;
- `PortForwardNoClose`.

## Proofs

`UpdateCheckerProofs.tla` proves these theorems for all `Apps`, `Checks`, `MaxCursor` and `MaxCrashes` satisfying `ConstantsAssumption`:
- `TypeCorrect`: `Spec => []TypeOK`;
- `ParentAlwaysExists`: `Spec => []ParentIsExistingVersion`;
- `DeployTargetAlwaysExists`: `Spec => []DeployTargetExists`.

All three follow from the inductive invariant `InductiveInv == TypeOK /\ ParentIsExistingVersion /\ DeployTargetExists`.

`ParentIsExistingVersion` alone is not inductive. A deploy uses the sequence an invocation read or obtained earlier (`seq[k]`), so the invariant must also say that this sequence still names an existing version. That is `DeployTargetExists`, and it holds because versions are only appended. TLC checks all three invariants in `uc_safety`.

The proof has one case per action. It rests on these lemmas:
- types of `NewerReleases` and `CurrentCursor`;
- `AppendVersion`, about appending a record;
- the frame lemmas `FrameStep`, `GotoType` and `ReturnType`.

Two more invariants of `uc_safety` are proved on top of `InductiveInv`:
- `NoArchiveDirLeaks`: `Spec => []NoLeakedArchiveDir`. It is not inductive as stated, since it only says that a directory's owner has not finished. The strengthening `ArchiveDirsHeld` (TLC checks it in `uc_safety`) says that an owner of a directory on disk is at one of the control points between `TempDir` and the deferred `RemoveAll`, or in the goroutine that took the directory over at `SetRunning`. Lemmas `DropDir` and `KeepDir` cover the steps that remove a directory and those that leave `tmpDirs` alone.
- `DeploysLastOfBatch`: `Spec => []DeployOnlyLastOfBatch`. It is inductive relative to `InductiveInv`, for two reasons:
  - Every step only appends to version lists (`VersionsGrow`, via lemma `AppendGrows`). So a record the goroutine staged keeps its sequence while other checks append.
  - The only step into `deploy` is `StageRelease` of the last cursor with `deploy` set (`EntersDeploy`), and it writes that record and its sequence.
  
  Lemma `BatchKeep` covers a goroutine that stays in `deploy`. Lemma `BatchStep` shows that one of the two cases holds.

`JobRegistryProofs.tla` proves `RegistryTypeCorrect`: `Spec => []TypeOK` for all `Apps`, `Calls` and `Offsets`.

It comes from `RegistryInv == TypeOK /\ AtMostOneEntry /\ CallArgsRead`. `AtMostOneEntry` (a job holds at most one entry) is not checked on its own: every write of `entries` is a one-element or empty list, so it holds by the model's shape. `CallArgsRead` says that a call past `GetApp` holds an app id and a cadence it read. Without it, the installed entry's type is unknown in the install step.

`InstallCmdProofs.tla` proves two theorems for all `NamespaceFlags`, `Stdins` and `MaxInterrupts` satisfying `InstallAssumption`:
- `InstallTypeCorrect`: `Spec => []TypeOK`;
- `ReturnCleansUp`: `Spec => []CleanupOnReturn`.

Both come from `CleanupInv == TypeOK /\ DefersMatchResources /\ CleanupOnReturn`. `DefersMatchResources` says three things:
- which defers are registered at each `pc`;
- that each registered defer undoes a resource still held;
- that `result` is set while unwinding.

Without it, `Unwind` could not be shown to release everything before `exit` takes the result. The type part is split into Boolean and other variables, because Zenon proves the Boolean ones and SMT the arithmetic.

**TLC only.** These stay with the model checker:
- the liveness properties (`GateEventuallyReopens`, `ConfigureReturns`, `InstallReturns`), since TLAPS does not handle liveness under fairness;
- the properties of the violation runs (`AtMostOneBatch`, `ReassertNeverRollsBack`, `ScheduleFollowsStore`, `JobsMapRaceFree`, `CleanupOnEveryExit`, and `InstallReturns` on a closed stdin), which TLC shows the code breaks, so there is nothing to prove.

Every invariant checked by a passing run has a TLAPS proof.

## Not modelled

- In `install.go`, the contents of manifests, flags other than `--namespace` and `--port-forward`, and printed text. Each call is reduced to success or error.
- The other racing map accesses. `Start` and `Configure` write under `mtx`, so only the unlocked `Stop` can race.
- The preflight reporting goroutine (292-297), which is best-effort telemetry.
- The time arithmetic of `@default` and cron parsing. They are abstracted to an offset set and a `bad` spec.

## Plan

- Compose the registry's cron firing with `CheckForUpdates` (deploy = false).
- Prove, for the fixed variants of the violation runs (gate taken atomically, `Stop` under `mtx`), the properties the current code breaks.

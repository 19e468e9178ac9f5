----------------------------- MODULE InstallCmd -----------------------------
(***************************************************************************)
(* The RunE of `kots install` (cmd/kots/cli/install.go) and the goroutine  *)
(* it starts to watch the port forward.  The main goroutine is a state     *)
(* machine over pc; its deferred calls are the first `deferred` entries of *)
(* DeferOrder, registered at lines 45, 53 and 148 and run last-in first-   *)
(* out when RunE returns.  The watcher goroutine, the port forwarder (in   *)
(* pkg/k8sutil) and the user's Ctrl+C are further actors.  The process    *)
(* ends when RunE has returned (exit = its result), on os.Exit, or when    *)
(* Go's default SIGINT handling kills it; deferred calls run only in the  *)
(* first case.  Flags and the outside world are fixed by Init.            *)
(***************************************************************************)
EXTENDS Naturals

CONSTANTS
    NamespaceFlags,  \* --namespace: "unset", "valid" or "invalid"
    Stdins,          \* what the prompt reads from: "tty" or "eof"
    MaxInterrupts    \* bound on the user's Ctrl+C presses

ASSUME InstallAssumption ==
    /\ NamespaceFlags \subseteq {"unset", "valid", "invalid"}
    /\ Stdins \subseteq {"tty", "eof"}
    /\ NamespaceFlags # {} /\ Stdins # {}
    /\ MaxInterrupts \in Nat

VARIABLES
    hasArgs, nsFlag, portForwardFlag, stdin, podReady,  \* inputs
    pc,            \* main goroutine's control point
    deferred,      \* number of deferred calls registered so far
    result,        \* what RunE is returning: "ok" or "error"
    cursorHidden,  \* the terminal cursor is hidden (line 44)
    rootDir,       \* the temp dir of line 49 exists
    stopCh,        \* "none", "open" or "closed"
    forwarder,     \* "off", "running", or sending "err"/"nil" on errChan
    watcher,       \* the goroutine of line 155: "none", "select", "done"
    notified,      \* signal.Notify(signalChan, os.Interrupt) has run
    sigPending,    \* a Ctrl+C not yet handled
    interrupts,    \* Ctrl+C presses so far
    exit           \* "running", or how the process ended

inputs == <<hasArgs, nsFlag, portForwardFlag, stdin, podReady>>
vars == <<inputs, pc, deferred, result, cursorHidden, rootDir, stopCh,
          forwarder, watcher, notified, sigPending, interrupts, exit>>

DeferOrder == <<"show", "rmdir", "close">>

PCs == {"args", "mktemp", "namespace", "prompt", "pull", "deploy",
        "clientset", "wait", "forward", "spawn", "mode", "signal", "unwind",
        "exited"}
Exits == {"running", "usage", "ok", "error", "os_exit", "killed"}

Init ==
    /\ hasArgs \in BOOLEAN /\ nsFlag \in NamespaceFlags
    /\ portForwardFlag \in BOOLEAN /\ stdin \in Stdins /\ podReady \in BOOLEAN
    /\ pc = "args" /\ deferred = 0 /\ result = "none"
    /\ cursorHidden = FALSE /\ rootDir = FALSE /\ stopCh = "none"
    /\ forwarder = "off" /\ watcher = "none" /\ notified = FALSE
    /\ sigPending = FALSE /\ interrupts = 0 /\ exit = "running"

Goto(l) == pc' = l

\* `return err` / `return nil`: RunE starts running its deferred calls.
Return(r) == result' = r /\ pc' = "unwind"

-----------------------------------------------------------------------------
(* The main goroutine.                                                     *)

\* No upstream URI: print help and os.Exit(1), before anything is deferred.
CheckArgs ==
    /\ pc = "args"
    /\ IF hasArgs THEN Goto("mktemp") /\ UNCHANGED exit
                  ELSE Goto("exited") /\ exit' = "usage"
    /\ UNCHANGED <<inputs, deferred, result, cursorHidden, rootDir, stopCh,
                   forwarder, watcher, notified, sigPending, interrupts>>

\* Hide the cursor (Show deferred), then create rootDir (RemoveAll deferred).
MakeTempDir ==
    /\ pc = "mktemp"
    /\ cursorHidden' = TRUE
    /\ \/ deferred' = 1 /\ Return("error") /\ UNCHANGED rootDir
       \/ deferred' = 2 /\ rootDir' = TRUE /\ Goto("namespace")
          /\ UNCHANGED result
    /\ UNCHANGED <<inputs, stopCh, forwarder, watcher, notified, sigPending,
                   interrupts, exit>>

\* A --namespace flag is validated; without one, promptForNamespace first
\* parses the upstream URI (failing on a bad one) and then prompts.
Namespace ==
    /\ pc = "namespace"
    /\ \/ nsFlag = "valid" /\ Goto("pull") /\ UNCHANGED result
       \/ nsFlag = "invalid" /\ Return("error")
       \/ nsFlag = "unset" /\ Return("error")
       \/ nsFlag = "unset" /\ Goto("prompt") /\ UNCHANGED result
    /\ UNCHANGED <<inputs, deferred, cursorHidden, rootDir, stopCh, forwarder,
                   watcher, notified, sigPending, interrupts, exit>>

\* One turn of the prompt loop.  On a terminal, prompt.Run returns a valid
\* namespace or, on Ctrl+C (read as a key in raw mode), ErrInterrupt and the
\* code calls os.Exit(-1) (promptui shows the cursor first).  Any other
\* error, such as ErrEOF from a closed stdin, is `continue`d: a no-op turn.
PromptRun ==
    /\ pc = "prompt"
    /\ \/ stdin = "tty" /\ Goto("pull")
          /\ UNCHANGED <<cursorHidden, sigPending, exit>>
       \/ stdin = "tty" /\ sigPending
          /\ sigPending' = FALSE /\ cursorHidden' = FALSE /\ exit' = "os_exit"
          /\ UNCHANGED pc
       \/ stdin = "eof" /\ UNCHANGED <<pc, cursorHidden, sigPending, exit>>
    /\ UNCHANGED <<inputs, deferred, result, rootDir, stopCh, forwarder,
                   watcher, notified, interrupts>>

\* Pull app metadata and parse the license and config values files.
Pull ==
    /\ pc = "pull"
    /\ \/ Return("error")
       \/ Goto("deploy") /\ UNCHANGED result
    /\ UNCHANGED <<inputs, deferred, cursorHidden, rootDir, stopCh, forwarder,
                   watcher, notified, sigPending, interrupts, exit>>

\* kotsadm.Deploy.
Deploy ==
    /\ pc = "deploy"
    /\ \/ Return("error")
       \/ Goto("clientset") /\ UNCHANGED result
    /\ UNCHANGED <<inputs, deferred, cursorHidden, rootDir, stopCh, forwarder,
                   watcher, notified, sigPending, interrupts, exit>>

\* k8sutil.GetClientset.
GetClientset ==
    /\ pc = "clientset"
    /\ \/ Return("error")
       \/ Goto("wait") /\ UNCHANGED result
    /\ UNCHANGED <<inputs, deferred, cursorHidden, rootDir, stopCh, forwarder,
                   watcher, notified, sigPending, interrupts, exit>>

\* WaitForKotsadm: the pod becomes ready, or the 3-minute timeout expires.
WaitForKotsadm ==
    /\ pc = "wait"
    /\ \/ Return("error")
       \/ podReady /\ Goto("forward") /\ UNCHANGED result
    /\ UNCHANGED <<inputs, deferred, cursorHidden, rootDir, stopCh, forwarder,
                   watcher, notified, sigPending, interrupts, exit>>

\* Mutant: close(stopCh) is never deferred.
PortForwardNoClose ==
    /\ pc = "forward"
    /\ stopCh' = "open" /\ UNCHANGED deferred
    /\ \/ Return("error") /\ UNCHANGED forwarder
       \/ forwarder' = "running" /\ Goto("spawn") /\ UNCHANGED result
    /\ UNCHANGED <<inputs, cursorHidden, rootDir, watcher, notified,
                   sigPending, interrupts, exit>>

\* make(stopCh) with close deferred, then k8sutil.PortForward.
PortForward ==
    /\ pc = "forward"
    /\ stopCh' = "open" /\ deferred' = 3
    /\ \/ Return("error") /\ UNCHANGED forwarder
       \/ forwarder' = "running" /\ Goto("spawn") /\ UNCHANGED result
    /\ UNCHANGED <<inputs, cursorHidden, rootDir, watcher, notified,
                   sigPending, interrupts, exit>>

\* go func() { select { case err := <-errChan: ... case <-stopCh: } }()
SpawnWatcher ==
    /\ pc = "spawn"
    /\ watcher' = "select" /\ Goto("mode")
    /\ UNCHANGED <<inputs, deferred, result, cursorHidden, rootDir, stopCh,
                   forwarder, notified, sigPending, interrupts, exit>>

\* --port-forward: install the Ctrl+C handler and wait; otherwise return.
Mode ==
    /\ pc = "mode"
    /\ IF portForwardFlag
       THEN notified' = TRUE /\ Goto("signal") /\ UNCHANGED result
       ELSE Return("ok") /\ UNCHANGED notified
    /\ UNCHANGED <<inputs, deferred, cursorHidden, rootDir, stopCh, forwarder,
                   watcher, sigPending, interrupts, exit>>

\* <-signalChan, then `return nil`.
WaitSignal ==
    /\ pc = "signal" /\ sigPending
    /\ sigPending' = FALSE /\ Return("ok")
    /\ UNCHANGED <<inputs, deferred, cursorHidden, rootDir, stopCh, forwarder,
                   watcher, notified, interrupts, exit>>

\* The deferred calls.
ShowCursor == cursorHidden' = FALSE /\ UNCHANGED <<rootDir, stopCh>>
RemoveRootDir == rootDir' = FALSE /\ UNCHANGED <<cursorHidden, stopCh>>
CloseStopCh == stopCh' = "closed" /\ UNCHANGED <<cursorHidden, rootDir>>

\* RunE has returned: run the last deferred call; with none left, the
\* command's result becomes the process's exit.
Unwind ==
    /\ pc = "unwind"
    /\ IF deferred > 0
       THEN /\ deferred' = deferred - 1
            /\ CASE DeferOrder[deferred] = "show" -> ShowCursor
                 [] DeferOrder[deferred] = "rmdir" -> RemoveRootDir
                 [] DeferOrder[deferred] = "close" -> CloseStopCh
            /\ UNCHANGED <<pc, exit>>
       ELSE /\ exit' = result /\ Goto("exited")
            /\ UNCHANGED <<deferred, cursorHidden, rootDir, stopCh>>
    /\ UNCHANGED <<inputs, result, forwarder, watcher, notified, sigPending,
                   interrupts>>

MainStep ==
    \/ CheckArgs \/ MakeTempDir \/ Namespace \/ PromptRun \/ Pull \/ Deploy
    \/ GetClientset \/ WaitForKotsadm \/ PortForward \/ SpawnWatcher \/ Mode
    \/ WaitSignal \/ Unwind

-----------------------------------------------------------------------------
(* The watcher goroutine.  errChan is unbuffered: the forwarder offers its *)
(* one result until the watcher takes it.                                  *)

\* case err := <-errChan: a non-nil error logs and calls os.Exit(-1).
WatchErrChan ==
    /\ watcher = "select" /\ forwarder \in {"err", "nil"}
    /\ forwarder' = "off"
    /\ IF forwarder = "err"
       THEN exit' = "os_exit" /\ UNCHANGED watcher
       ELSE watcher' = "done" /\ UNCHANGED exit
    /\ UNCHANGED <<inputs, pc, deferred, result, cursorHidden, rootDir,
                   stopCh, notified, sigPending, interrupts>>

\* case <-stopCh: the deferred close has run.
WatchStopCh ==
    /\ watcher = "select" /\ stopCh = "closed"
    /\ watcher' = "done"
    /\ UNCHANGED <<inputs, pc, deferred, result, cursorHidden, rootDir,
                   stopCh, forwarder, notified, sigPending, interrupts, exit>>

-----------------------------------------------------------------------------
(* The environment.                                                        *)

\* The forwarder loses its connection while forwarding, or returns nil
\* once stopCh is closed; either way it sends its result on errChan.
ForwarderFails ==
    /\ forwarder = "running" /\ stopCh = "open"
    /\ forwarder' = "err"
    /\ UNCHANGED <<inputs, pc, deferred, result, cursorHidden, rootDir,
                   stopCh, watcher, notified, sigPending, interrupts, exit>>

ForwarderStops ==
    /\ forwarder = "running" /\ stopCh = "closed"
    /\ forwarder' = "nil"
    /\ UNCHANGED <<inputs, pc, deferred, result, cursorHidden, rootDir,
                   stopCh, watcher, notified, sigPending, interrupts, exit>>

\* The user presses Ctrl+C.
Interrupt ==
    /\ interrupts < MaxInterrupts
    /\ interrupts' = interrupts + 1 /\ sigPending' = TRUE
    /\ UNCHANGED <<inputs, pc, deferred, result, cursorHidden, rootDir,
                   stopCh, forwarder, watcher, notified, exit>>

\* With no handler installed and the prompt not reading the terminal in
\* raw mode, Go's runtime exits the process on SIGINT.
SignalKills ==
    /\ sigPending /\ ~notified /\ ~(pc = "prompt" /\ stdin = "tty")
    /\ sigPending' = FALSE /\ exit' = "killed"
    /\ UNCHANGED <<inputs, pc, deferred, result, cursorHidden, rootDir,
                   stopCh, forwarder, watcher, notified, interrupts>>

\* The process has ended.
Terminated == exit # "running" /\ UNCHANGED vars

\* Blocked on <-signalChan while no Ctrl+C is pending.
AwaitsCtrlC ==
    /\ pc = "signal" /\ ~sigPending
    /\ UNCHANGED vars

WatcherStep == WatchErrChan \/ WatchStopCh

Next ==
    \/ exit = "running" /\ (MainStep \/ WatcherStep \/ ForwarderFails
                           \/ ForwarderStops \/ Interrupt \/ SignalKills)
    \/ AwaitsCtrlC
    \/ Terminated

Spec == Init /\ [][Next]_vars

\* The Go scheduler runs both goroutines, the forwarder returns once stopCh
\* is closed, and a delivered signal is acted on.  The user's Ctrl+C and
\* the forwarder losing its connection are not forced.
FairSpec ==
    /\ Spec
    /\ WF_vars(exit = "running" /\ MainStep)
    /\ WF_vars(exit = "running" /\ WatcherStep)
    /\ WF_vars(exit = "running" /\ ForwarderStops)
    /\ WF_vars(exit = "running" /\ SignalKills)

-----------------------------------------------------------------------------
(* Properties.                                                             *)

TypeOK ==
    /\ hasArgs \in BOOLEAN /\ nsFlag \in NamespaceFlags
    /\ portForwardFlag \in BOOLEAN /\ stdin \in Stdins /\ podReady \in BOOLEAN
    /\ pc \in PCs /\ deferred \in 0..3 /\ result \in {"none", "ok", "error"}
    /\ cursorHidden \in BOOLEAN /\ rootDir \in BOOLEAN
    /\ stopCh \in {"none", "open", "closed"}
    /\ forwarder \in {"off", "running", "err", "nil"}
    /\ watcher \in {"none", "select", "done"}
    /\ notified \in BOOLEAN /\ sigPending \in BOOLEAN
    /\ interrupts \in 0..MaxInterrupts /\ exit \in Exits

\* When RunE returns, with an error or not, its deferred calls have shown
\* the cursor again, removed the temp dir and closed stopCh before the
\* process exits, whichever step failed.
CleanupOnReturn ==
    exit \in {"ok", "error"} =>
        ~cursorHidden /\ ~rootDir /\ stopCh # "open"

\* The cleanup that the defers of lines 45 and 53 promise holds however the
\* process ends: no exit leaves the terminal cursor hidden or the temp dir
\* behind.
CleanupOnEveryExit ==
    exit \notin {"running", "usage"} => ~cursorHidden /\ ~rootDir

\* Which deferred calls are registered at each point of RunE, that each
\* registered call is what undoes a resource still held, and that RunE has
\* its result when it unwinds.
DefersMatchResources ==
    /\ pc \in {"args", "mktemp"} => deferred = 0
    /\ pc \in {"namespace", "prompt", "pull", "deploy", "clientset", "wait",
              "forward"} => deferred = 2
    /\ pc \in {"spawn", "mode", "signal"} => deferred = 3
    /\ pc = "unwind" => result \in {"ok", "error"}
    /\ exit = "running" =>
           /\ cursorHidden <=> deferred >= 1
           /\ rootDir <=> deferred >= 2
           /\ stopCh = "open" <=> deferred = 3

CleanupInv == TypeOK /\ DefersMatchResources /\ CleanupOnReturn

\* Every failure of RunE is meant to end `kots install` with an error, as
\* each call from line 49 on does: the command always finishes, or
\* reaches the point where it waits for the user's Ctrl+C to stop the
\* port forward.  The namespace prompt loop of lines 278-288 is the one
\* place that retries instead of returning.
InstallReturns == <>(exit # "running" \/ pc = "signal")
====

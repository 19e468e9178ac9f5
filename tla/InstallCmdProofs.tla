-------------------------- MODULE InstallCmdProofs --------------------------
(***************************************************************************)
(* Proofs about InstallCmd for every choice of flags, stdin and bound on   *)
(* Ctrl+C: the type invariant and CleanupOnReturn.  CleanupOnReturn alone  *)
(* is not inductive: the last deferred call can only leave everything     *)
(* clean if the registered calls are exactly those undoing what is still  *)
(* held, and if RunE has a result when it unwinds (DefersMatchResources). *)
(* The type invariant is proved in two parts: the Boolean-valued          *)
(* variables (by Zenon) and the others (by SMT).                          *)
(***************************************************************************)
EXTENDS InstallCmd, TLAPS

\* The Boolean-valued variables of TypeOK.
BoolsOK ==
    /\ hasArgs \in BOOLEAN /\ portForwardFlag \in BOOLEAN /\ podReady \in BOOLEAN
    /\ cursorHidden \in BOOLEAN /\ rootDir \in BOOLEAN
    /\ notified \in BOOLEAN /\ sigPending \in BOOLEAN

\* The other variables of TypeOK.
DataOK ==
    /\ nsFlag \in NamespaceFlags /\ stdin \in Stdins
    /\ pc \in PCs /\ deferred \in 0..3 /\ result \in {"none", "ok", "error"}
    /\ stopCh \in {"none", "open", "closed"}
    /\ forwarder \in {"off", "running", "err", "nil"}
    /\ watcher \in {"none", "select", "done"}
    /\ interrupts \in 0..MaxInterrupts /\ exit \in Exits

\* TypeOK is the conjunction of the two parts.
LEMMA TypeSplit == TypeOK <=> BoolsOK /\ DataOK
BY Zenon DEF TypeOK, BoolsOK, DataOK

\* Every step keeps the Boolean-valued variables Boolean.
LEMMA BoolsStep == BoolsOK /\ DataOK /\ [Next]_vars => BoolsOK'
<1> SUFFICES ASSUME BoolsOK, DataOK, [Next]_vars PROVE BoolsOK'
    OBVIOUS
<1>1. CASE CheckArgs \/ MakeTempDir \/ Namespace \/ PromptRun
    BY <1>1, Zenon DEF CheckArgs, MakeTempDir, Namespace, PromptRun, Goto,
                       Return, BoolsOK, inputs
<1>2. CASE Pull \/ Deploy \/ GetClientset \/ WaitForKotsadm \/ PortForward
    BY <1>2, Zenon DEF Pull, Deploy, GetClientset, WaitForKotsadm, PortForward,
                       Goto, Return, BoolsOK, inputs
<1>3. CASE SpawnWatcher \/ Mode \/ WaitSignal
    BY <1>3, Zenon DEF SpawnWatcher, Mode, WaitSignal, Goto, Return, BoolsOK,
                       inputs
<1>7. CASE Unwind
    <2>1. CASE deferred \in {1, 2, 3}
        <3>1. deferred > 0 /\ DeferOrder[deferred] \in {"show", "rmdir", "close"}
            BY <2>1 DEF DeferOrder
        <3>2. QED
            BY <1>7, <3>1, Zenon DEF Unwind, ShowCursor, RemoveRootDir,
                                     CloseStopCh, BoolsOK, inputs
    <2>2. CASE ~(deferred > 0)
        BY <1>7, <2>2, Zenon DEF Unwind, Goto, BoolsOK, inputs
    <2>3. QED
        BY <2>1, <2>2 DEF DataOK
<1>4. CASE WatcherStep \/ ForwarderFails \/ ForwarderStops \/ SignalKills
           \/ Interrupt
    BY <1>4, Zenon DEF WatcherStep, WatchErrChan, WatchStopCh, ForwarderFails,
                       ForwarderStops, SignalKills, Interrupt, BoolsOK, inputs
<1>5. CASE AwaitsCtrlC \/ Terminated \/ UNCHANGED vars
    BY <1>5, Zenon DEF AwaitsCtrlC, Terminated, vars, BoolsOK, inputs
<1>6. QED
    BY <1>1, <1>2, <1>3, <1>4, <1>5, <1>7 DEF Next, MainStep

\* Every step keeps the other variables in their sets; exit takes RunE's
\* result only once RunE has one.
LEMMA DataStep == DataOK /\ DefersMatchResources /\ [Next]_vars => DataOK'
<1> SUFFICES ASSUME DataOK, DefersMatchResources, [Next]_vars PROVE DataOK'
    OBVIOUS
<1>1. CASE CheckArgs \/ MakeTempDir \/ Namespace \/ PromptRun
    BY <1>1 DEF CheckArgs, MakeTempDir, Namespace, PromptRun, Goto,
                Return, DataOK, inputs, PCs, Exits
<1>2. CASE Pull \/ Deploy \/ GetClientset \/ WaitForKotsadm \/ PortForward
    BY <1>2 DEF Pull, Deploy, GetClientset, WaitForKotsadm, PortForward,
                Goto, Return, DataOK, inputs, PCs
<1>3. CASE SpawnWatcher \/ Mode \/ WaitSignal
    BY <1>3 DEF SpawnWatcher, Mode, WaitSignal, Goto, Return, DataOK, inputs,
                PCs
<1>7. CASE Unwind
    <2>1. CASE deferred > 0
        <3>0. DeferOrder[deferred] \in {"show", "rmdir", "close"}
            BY <2>1 DEF DataOK, DeferOrder
        <3>1. deferred' = deferred - 1 /\ UNCHANGED <<pc, exit>>
              /\ stopCh' \in {stopCh, "closed"}
            <4>1. deferred' = deferred - 1 /\ UNCHANGED <<pc, exit>>
                  /\ CASE DeferOrder[deferred] = "show" -> ShowCursor
                       [] DeferOrder[deferred] = "rmdir" -> RemoveRootDir
                       [] DeferOrder[deferred] = "close" -> CloseStopCh
                BY <1>7, <2>1, Zenon DEF Unwind
            <4>2. CASE DeferOrder[deferred] = "show"
                BY <4>1, <4>2 DEF ShowCursor
            <4>3. CASE DeferOrder[deferred] = "rmdir"
                BY <4>1, <4>3 DEF RemoveRootDir
            <4>4. CASE DeferOrder[deferred] = "close"
                BY <4>1, <4>4 DEF CloseStopCh
            <4>5. QED
                BY <3>0, <4>2, <4>3, <4>4
        <3>2. UNCHANGED <<inputs, result, forwarder, watcher, notified,
                           sigPending, interrupts>>
            BY <1>7 DEF Unwind
        <3>3. QED
            BY <2>1, <3>1, <3>2 DEF DataOK, inputs
    <2>2. CASE ~(deferred > 0)
        <3>1. exit' = result /\ pc' = "exited"
              /\ UNCHANGED <<inputs, deferred, stopCh, result, forwarder,
                             watcher, interrupts>>
            BY <1>7, <2>2 DEF Unwind, Goto
        <3>2. result \in {"ok", "error"}
            BY <1>7 DEF Unwind, DefersMatchResources
        <3>3. QED
            BY <3>1, <3>2 DEF DataOK, inputs, PCs, Exits
    <2>3. QED
        BY <2>1, <2>2
<1>4. CASE WatcherStep \/ ForwarderFails \/ ForwarderStops \/ SignalKills
           \/ Interrupt
    BY <1>4, InstallAssumption DEF WatcherStep, WatchErrChan, WatchStopCh,
                ForwarderFails, ForwarderStops, SignalKills, Interrupt, DataOK,
                inputs, Exits
<1>5. CASE AwaitsCtrlC \/ Terminated \/ UNCHANGED vars
    BY <1>5 DEF AwaitsCtrlC, Terminated, vars, DataOK, inputs
<1>6. QED
    BY <1>1, <1>2, <1>3, <1>4, <1>5, <1>7 DEF Next, MainStep

\* Every step preserves DefersMatchResources and CleanupOnReturn, given the
\* types before and after the step.
LEMMA CleanupStep ==
    ASSUME TypeOK, DefersMatchResources, CleanupOnReturn, TypeOK', [Next]_vars
    PROVE  DefersMatchResources' /\ CleanupOnReturn'
<1>1. CASE exit = "running"
          /\ (CheckArgs \/ MakeTempDir \/ Namespace \/ PromptRun)
    BY <1>1 DEF CheckArgs, MakeTempDir, Namespace, PromptRun, Goto, Return,
                TypeOK, DefersMatchResources, CleanupOnReturn, inputs
<1>2. CASE exit = "running"
          /\ (Pull \/ Deploy \/ GetClientset \/ WaitForKotsadm \/ PortForward)
    BY <1>2 DEF Pull, Deploy, GetClientset, WaitForKotsadm, PortForward, Goto,
                Return, TypeOK, DefersMatchResources, CleanupOnReturn, inputs
<1>3. CASE exit = "running" /\ (SpawnWatcher \/ Mode \/ WaitSignal)
    BY <1>3 DEF SpawnWatcher, Mode, WaitSignal, Goto, Return, TypeOK,
                DefersMatchResources, CleanupOnReturn, inputs
<1>4. CASE exit = "running" /\ Unwind
    <2>0. exit = "running" /\ pc = "unwind"
          /\ UNCHANGED <<inputs, result, forwarder, watcher, notified,
                         sigPending, interrupts>>
        BY <1>4 DEF Unwind
    <2>1. CASE deferred > 0
        <3>1. deferred' = deferred - 1 /\ UNCHANGED <<pc, exit>>
              /\ CASE DeferOrder[deferred] = "show" -> ShowCursor
                   [] DeferOrder[deferred] = "rmdir" -> RemoveRootDir
                   [] DeferOrder[deferred] = "close" -> CloseStopCh
            BY <1>4, <2>1, Zenon DEF Unwind
        <3>2. CASE deferred = 1
            <4>1. cursorHidden' = FALSE /\ UNCHANGED <<rootDir, stopCh>>
                BY <3>1, <3>2 DEF DeferOrder, ShowCursor
            <4>2. QED
                BY <2>0, <3>1, <3>2, <4>1 DEF TypeOK, DefersMatchResources,
                                              CleanupOnReturn
        <3>3. CASE deferred = 2
            <4>1. rootDir' = FALSE /\ UNCHANGED <<cursorHidden, stopCh>>
                BY <3>1, <3>3 DEF DeferOrder, RemoveRootDir
            <4>2. QED
                BY <2>0, <3>1, <3>3, <4>1 DEF TypeOK, DefersMatchResources,
                                              CleanupOnReturn
        <3>4. CASE deferred = 3
            <4>1. stopCh' = "closed" /\ UNCHANGED <<cursorHidden, rootDir>>
                BY <3>1, <3>4 DEF DeferOrder, CloseStopCh
            <4>2. QED
                BY <2>0, <3>1, <3>4, <4>1 DEF TypeOK, DefersMatchResources,
                                              CleanupOnReturn
        <3>5. QED
            BY <2>1, <3>2, <3>3, <3>4 DEF TypeOK
    <2>2. CASE ~(deferred > 0)
        <3>1. exit' = result /\ pc' = "exited"
              /\ UNCHANGED <<deferred, cursorHidden, rootDir, stopCh>>
            BY <1>4, <2>2 DEF Unwind, Goto
        <3>2. QED
            BY <2>0, <2>2, <3>1 DEF TypeOK, DefersMatchResources,
                                    CleanupOnReturn
    <2>3. QED
        BY <2>1, <2>2
<1>5. CASE exit = "running" /\ (WatcherStep \/ ForwarderFails \/ ForwarderStops
                                \/ SignalKills \/ Interrupt)
    BY <1>5 DEF WatcherStep, WatchErrChan, WatchStopCh, ForwarderFails,
                ForwarderStops, SignalKills, Interrupt, TypeOK,
                DefersMatchResources, CleanupOnReturn, inputs
<1>6. CASE AwaitsCtrlC \/ Terminated \/ UNCHANGED vars
    BY <1>6 DEF AwaitsCtrlC, Terminated, vars, DefersMatchResources,
                CleanupOnReturn, inputs
<1>7. QED
    BY <1>1, <1>2, <1>3, <1>4, <1>5, <1>6 DEF Next, MainStep

\* Every step preserves CleanupInv.
LEMMA CleanupInvStep == CleanupInv /\ [Next]_vars => CleanupInv'
<1> SUFFICES ASSUME CleanupInv, [Next]_vars PROVE CleanupInv'
    OBVIOUS
<1>1. BoolsOK /\ DataOK /\ DefersMatchResources /\ CleanupOnReturn
    BY TypeSplit DEF CleanupInv
<1>2. BoolsOK' /\ DataOK'
    BY <1>1, BoolsStep, DataStep
<1>3. TypeOK'
    BY <1>2, Zenon DEF TypeOK, BoolsOK, DataOK
<1>4. QED
    BY <1>1, <1>3, CleanupStep, TypeSplit DEF CleanupInv

\* The initial states satisfy CleanupInv.
LEMMA CleanupInvInit == Init => CleanupInv
<1> SUFFICES ASSUME Init PROVE CleanupInv
    OBVIOUS
<1>1. BoolsOK
    BY Zenon DEF Init, BoolsOK
<1>2. DataOK
    BY InstallAssumption DEF Init, DataOK, PCs, Exits
<1>3. DefersMatchResources /\ CleanupOnReturn
    BY DEF Init, DefersMatchResources, CleanupOnReturn
<1>4. QED
    BY <1>1, <1>2, <1>3, TypeSplit DEF CleanupInv

\* The install command's variables always have their types.
THEOREM InstallTypeCorrect == Spec => []TypeOK
<1>1. CleanupInv => TypeOK
    BY DEF CleanupInv
<1>2. QED
    BY <1>1, CleanupInvInit, CleanupInvStep, PTL DEF Spec

\* Whatever step of `kots install` fails and wherever it returns, RunE's
\* deferred calls restore the cursor, remove the temp dir and close stopCh
\* before the process exits with RunE's result.
THEOREM ReturnCleansUp == Spec => []CleanupOnReturn
<1>1. CleanupInv => CleanupOnReturn
    BY DEF CleanupInv
<1>2. QED
    BY <1>1, CleanupInvInit, CleanupInvStep, PTL DEF Spec
====

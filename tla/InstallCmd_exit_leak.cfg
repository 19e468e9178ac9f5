CONSTANTS
    NamespaceFlags <- MCAllNamespaces
    Stdins <- MCAnyStdin
    MaxInterrupts = 0
SPECIFICATION Spec
INVARIANT CleanupOnEveryExit

CONSTANTS
    NamespaceFlags <- MCAllNamespaces
    Stdins <- MCAnyStdin
    MaxInterrupts = 1
SPECIFICATION Spec

INVARIANT CleanupOnReturn

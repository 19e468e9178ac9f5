CONSTANTS
    NamespaceFlags <- MCAllNamespaces
    Stdins <- MCAnyStdin
    MaxInterrupts = 1
SPECIFICATION FairSpec
PROPERTY InstallReturns

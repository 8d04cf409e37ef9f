CONSTANTS
    MaxVersion <- MCMaxVersion

SPECIFICATION Spec

INVARIANTS
    TypeOK

PROPERTIES
    InstallPreservesEnabledState
    ImplementsHost

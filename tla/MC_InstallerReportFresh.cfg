CONSTANTS
    MaxVersion <- MCMaxVersion

SPECIFICATION Spec

INVARIANTS
    InstallerReportFresh

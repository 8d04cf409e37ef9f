CONSTANTS
    MaxVersion <- MCMaxVersion

SPECIFICATION Spec

INVARIANTS
    InstalledReportTrue

CONSTANTS
    MaxVersion <- MCMaxVersion

SPECIFICATION Spec

INVARIANTS
    LoadedReportTrue

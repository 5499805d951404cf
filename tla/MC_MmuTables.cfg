SPECIFICATION Spec
CONSTANTS
    Configs <- MCConfigs
    Tables = 9
    Entries <- MCEntries
    Page <- MCPage
    Small = 32
    Large = 256
CHECK_DEADLOCK FALSE
INVARIANTS
    MmuTypeOK
    TablesFormTree
    AreaRespected
    TranslatesRight
PROPERTY MmuInitReturns

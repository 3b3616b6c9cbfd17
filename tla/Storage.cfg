SPECIFICATION Spec
CONSTANTS
    StringKeys <- MCStringKeys
    OtherKeys = {"1"}
    QuotedKeys = {"it's"}
    Unquoted <- MCUnquoted
    Column <- MCColumn
    Inputs <- BothInputs
    Removals <- BothRemovals
    Faults = {"drop", "create", "insert"}
    NoTable = NoTable
    NoRow = NoRow
INVARIANTS StorageInv RestartGivesBackLastSave
PROPERTIES ImplementsDurableStore

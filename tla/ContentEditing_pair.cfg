SPECIFICATION Spec
CHECK_DEADLOCK FALSE
CONSTANTS
    Source = "en"
    MaxDocumentBlocks = 10
    HalfRange = 2
    Editors = {e1, e2}
    Uuid = {1, 2}
    Kinds = {"rich-text", "paragraph"}
    Columns = {}
    Forms <- PairForms
    OtherLocales = {"ko"}
    Members <- OneMember
    MaxEdits = 2
    MaxRevision = 2
INVARIANT TypeOK
INVARIANT EditorsInSync
INVARIANT QuietBatchesKeepSource
SYMMETRY EditorsAlike

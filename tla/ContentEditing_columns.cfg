SPECIFICATION Spec
CHECK_DEADLOCK FALSE
CONSTANTS
    Source = "en"
    MaxDocumentBlocks = 10
    HalfRange = 2
    Editors = {e1}
    Uuid = {1, 2}
    Kinds = {"rich-text", "columns", "paragraph", "map"}
    Columns = {1}
    Forms <- ColumnForms
    OtherLocales = {"ko"}
    Members <- Contributors
    MaxEdits = 2
    MaxRevision = 3
INVARIANT EditorsInSync
INVARIANT ValidPagesSave
INVARIANT SentBatchesAccepted
INVARIANT SavedPagesOpen
INVARIANT QuietBatchesKeepSource

SPECIFICATION Spec
CHECK_DEADLOCK FALSE
CONSTANTS
    Source = "en"
    MaxDocumentBlocks = 10
    HalfRange = 2
    Uuid = {1, 2, 3}
    Spelled <- AnySpelling
    Kinds = {"rich-text", "columns", "paragraph"}
    Settings = {FALSE}
    Columns = {1}
    Indexes = {0, 2}
    Medias = {"none", "active", "missing"}
    OtherLocales = {"ko"}
    MaxNodes = 3
    MaxVaried = 2
    Modes = {"WRITE", "RESTORE_SNAPSHOT"}
INVARIANT CheckedRowsReload
INVARIANT FlattenedRowsPlaced
INVARIANT TypeOK
INVARIANT TranslationsKept
INVARIANT LocalizedViewsAgree

SPECIFICATION Spec
CHECK_DEADLOCK FALSE
CONSTANTS
    Source = "en"
    MaxDocumentBlocks = 10
    HalfRange = 2
    Uuid = {1, 2, 3}
    Spelled <- AsStored
    Kinds = {"rich-text", "mermaid", "paragraph"}
    Settings = {FALSE}
    Columns = {}
    Indexes = {0, 1, 2}
    Medias = {"none"}
    OtherLocales = {}
    MaxNodes = 3
    MaxVaried = 3
    Modes = {"WRITE"}
INVARIANT RebuildIgnoresRowOrder
INVARIANT BothRuntimesRebuild
INVARIANT BrowserReadsServerRows

SPECIFICATION Spec
CHECK_DEADLOCK FALSE
CONSTANTS
    Source = "en"
    MaxDocumentBlocks = 10
    HalfRange = 2
    Uuid = {1, 2}
    Spelled <- AsStored
    Kinds = {"rich-text", "mermaid"}
    Settings = {FALSE}
    Columns = {1}
    Indexes = {0}
    Medias = {"none"}
    OtherLocales = {}
    MaxNodes = 2
    MaxVaried = 2
    Modes = {"WRITE"}
INVARIANT FlattenedRowsPlaced

----------------------------- MODULE ContentStorage -----------------------------
(***************************************************************************)
(* A page on its way through storage: an author's program composes a page  *)
(* document, the Go runtime flattens it, the store keeps the rows in an    *)
(* order of its own, and both runtimes rebuild the page from them.         *)
(*                                                                         *)
(* The author's program and the store are outside the repository.  The     *)
(* program composes any document of the protobuf types within the bounds,  *)
(* with dangling parents, repeated ids, parents that form a cycle and ids  *)
(* spelled in capitals among them.                                         *)
(***************************************************************************)
EXTENDS ContentUniverse

CONSTANTS Spelled,     \* the spellings of ids the program uses
          Settings,    \* whether its sections have settings: a subset of BOOLEAN
          Indexes,     \* sibling positions
          Medias,      \* states of a block's file attachment
          Modes,       \* normalisation modes the page is saved in
          MaxNodes,    \* bound on the sections and blocks of a page
          MaxVaried    \* bound: pages of more nodes are plain (see Plain) and written

ASSUME SpelledAssumption == Spelled \subseteq Spellings
ASSUME IndexesAssumption == Indexes \subseteq UInt32
ASSUME SettingsAssumption == Settings \subseteq BOOLEAN
ASSUME MediasAssumption == Medias \subseteq {"none", "active", "missing"}
ASSUME ModesAssumption == Modes \subseteq {"WRITE", "RESTORE_SNAPSHOT"}

VARIABLES draft,   \* the page document the author's program holds
          saved,   \* the mode it was saved in, "none" while it is edited
          rows     \* the rows in the store, in the order it returns them

vars == <<draft, saved, rows>>

Payload(kind, settings, columns, media) ==
    [case |-> kind, settings |-> settings, columns |-> columns, media |-> media]

SectionPayloads ==
    {Payload(k, s, c, "none") : k \in (Kinds \cap PageKinds) \ {"columns"}, s \in Settings, c \in {{}}}
    \cup {Payload("columns", s, c, "none") : s \in Settings, c \in {c \in SUBSET Columns : "columns" \in Kinds}}
BlockPayloads   == {Payload(k, FALSE, {}, m) : k \in Kinds \cap RichKinds, m \in Medias}

\* The sections and blocks of the draft.
Nodes == Len(draft.nodes) + Len(FlattenSeq([i \in DOMAIN draft.nodes |-> draft.nodes[i].blocks]))

\* Spellings of one id.  A bound: it is an id the page has already or the next one.
SameNewId(id, oid) == normalizeUUID(id) = normalizeUUID(oid) /\ normalizeUUID(id) <= Nodes + 1

Init ==
    /\ draft = [nodes |-> <<>>, overlays |-> [l \in Locales |-> NoValues]]
    /\ saved = "none"
    /\ rows = <<>>

\* The overlays with a value for id in every locale of ls.
Translated(overlays, ls, id, value) ==
    LET before(l) == IF l \in DOMAIN overlays THEN overlays[l] ELSE NoValues
    IN [l \in DOMAIN overlays \cup ls |-> IF l \in ls THEN With(before(l), id, value) ELSE before(l)]

(***************************************************************************)
(* The author's program adds a section with its values in some locales.    *)
(***************************************************************************)
AddSection(id, oid, parent, column, index, shared, ls) ==
    /\ saved = "none"
    /\ Nodes < MaxNodes
    /\ draft' = [nodes |-> Append(draft.nodes, [id |-> id, parent |-> parent, column |-> column, index |-> index,
                                                shared |-> shared, blocks |-> <<>>]),
                 overlays |-> Translated(draft.overlays, ls, oid,
                                         [case |-> shared.case, text |-> "text", blocks |-> NoValues])]
    /\ UNCHANGED <<saved, rows>>

(***************************************************************************)
(* It adds a block to the rich text of the last section, with its values   *)
(* in some of the locales that section has a value in.                     *)
(***************************************************************************)
AddBlock(id, oid, parent, index, shared, ls) ==
    LET n     == Len(draft.nodes)
        s     == draft.nodes[n].id
        named == {l \in ls \cap DOMAIN draft.overlays : s \in DOMAIN draft.overlays[l]}
    IN /\ saved = "none"
       /\ n > 0 /\ draft.nodes[n].shared.case = "rich-text"
       /\ Nodes < MaxNodes
       /\ draft' = [nodes |-> [draft.nodes EXCEPT ![n].blocks =
                                 Append(@, [id |-> id, parent |-> parent, index |-> index, shared |-> shared])],
                    overlays |-> [l \in DOMAIN draft.overlays |->
                       IF l \in named
                       THEN [draft.overlays[l] EXCEPT ![s].blocks = With(@, oid, [case |-> shared.case, text |-> "text"])]
                       ELSE draft.overlays[l]]]
       /\ UNCHANGED <<saved, rows>>

(***************************************************************************)
(* The Go runtime flattens the page; the store may return its rows in      *)
(* another order.                                                          *)
(***************************************************************************)
Save(mode) ==
    /\ saved = "none"
    /\ draft.nodes # <<>>
    /\ FlattenPageDocumentStorageAccepts(draft, mode)
    /\ saved' = mode
    /\ LET flat == FlattenPageDocumentStorage(draft) IN rows' \in {flat, Reverse(flat)}
    /\ UNCHANGED draft

(***************************************************************************)
(* The page is rebuilt from the rows, to be edited and saved again.        *)
(***************************************************************************)
Open ==
    /\ saved # "none"
    /\ MaterializePageDocumentStorageAccepts(Source, rows)
    /\ draft' = MaterializePageDocumentStorage(Source, rows)
    /\ saved' = "none"
    /\ UNCHANGED rows

(***************************************************************************)
(* Files have become unavailable: the stored references to them become     *)
(* placeholders that only a restore may hold, and every row is normalised  *)
(* again, with its source value.                                           *)
(***************************************************************************)
RewriteMissing(gone) ==
    LET Rewritten(r) == IF r.id \in gone /\ r.shared.media = "active" THEN [r EXCEPT !.shared.media = "missing"] ELSE r
        result == [i \in DOMAIN rows |-> Rewritten(rows[i])]
    IN /\ saved # "none"
       /\ \A i \in DOMAIN result :
             /\ Source \in DOMAIN result[i].locales
             /\ NormalizeContentStorageShared("page", result[i].kind, result[i].shared, "RESTORE_SNAPSHOT")
             /\ NormalizeContentStorageLocale("page", result[i].kind, result[i].locales[Source])
       /\ rows' = result
       /\ saved' = "RESTORE_SNAPSHOT"
       /\ UNCHANGED draft

(***************************************************************************)
(* A plain page varies in its shape only: ids as they are stored, values   *)
(* in the source locale, no attachments, and what is added is added first. *)
(***************************************************************************)
Plain ==
    /\ \A l \in DOMAIN draft.overlays :
          LET sections == draft.overlays[l]
          IN /\ l = Source \/ sections = NoValues
             /\ \A s \in DOMAIN sections : {s} \cup DOMAIN sections[s].blocks \subseteq Uuid
    /\ \A i \in DOMAIN draft.nodes :
          LET n == draft.nodes[i]
          IN /\ n.id \in Uuid
             /\ \A j \in DOMAIN n.blocks : n.blocks[j].id \in Uuid /\ n.blocks[j].shared.media = "none"

\* A node that makes the page larger than MaxVaried keeps it plain.
Varied == Nodes < MaxVaried
SpelledIds == IF Varied THEN Spelled ELSE Uuid
ValueLocales == IF Varied THEN Locales ELSE {Source}
Positions == IF Varied THEN Indexes ELSE Indexes \cap {0}

Compose ==
    /\ saved = "none" /\ Nodes < MaxNodes
    /\ Varied \/ Plain
    /\ \E id, oid \in SpelledIds : SameNewId(id, oid) /\
          \E parent \in Uuid \cup {0}, index \in Positions :
             \/ \E column \in Columns \cup {0}, shared \in SectionPayloads, ls \in {{Source}, ValueLocales} :
                   AddSection(id, oid, parent, column, index, shared, ls)
             \/ \E shared \in BlockPayloads, ls \in SUBSET ValueLocales :
                   /\ Varied \/ shared.media = "none"
                   /\ AddBlock(id, oid, parent, index, shared, ls)

Next ==
    \/ Compose
    \/ \E mode \in Modes : (mode = "WRITE" \/ Nodes <= MaxVaried) /\ Save(mode)
    \/ Open
    \/ \E gone \in SUBSET Ids(rows) \ {{}} : RewriteMissing(gone)

Spec == Init /\ [][Next]_vars

-------------------------------------------------------------------------------
(***************************************************************************)
(* Every stored row has a lower-cased id of this page and keeps a value in *)
(* the source locale.                                                      *)
(***************************************************************************)
TypeOK ==
    /\ saved \in {"none", "WRITE", "RESTORE_SNAPSHOT"}
    /\ \A i \in DOMAIN rows :
          /\ rows[i].id \in Uuid
          /\ rows[i].parent \in Uuid \cup {0}
          /\ rows[i].slot \in {Sections, Content} \cup {Column(c) : c \in Columns \cup {NotAColumn}}
          /\ rows[i].kind = rows[i].shared.case
          /\ Source \in DOMAIN rows[i].locales /\ DOMAIN rows[i].locales \subseteq Locales

(***************************************************************************)
(* Rows that form a tree and each pass the store's check of a row under    *)
(* its parent can be rebuilt, can be saved again in the mode they were     *)
(* saved in, and come back as the same rows: checks of single rows are     *)
(* enough for the whole page, and flattening loses nothing of a page.      *)
(* That is so for kinds that name a section or a block but not both: the   *)
(* check lets a block be below a mermaid section, which has no rich text.  *)
(***************************************************************************)
CheckedRowsReload ==
    saved # "none" /\ Tree(rows) /\ ParentChecked("page", rows) /\ (\A i \in DOMAIN rows : rows[i].kind \notin PageKinds \cap RichKinds) =>
        /\ MaterializePageDocumentStorageAccepts(Source, rows)
        /\ LET page == MaterializePageDocumentStorage(Source, rows)
           IN /\ FlattenPageDocumentStorageAccepts(page, saved)
              /\ ToSet(FlattenPageDocumentStorage(page)) = {Completed(rows, rows[i]) : i \in DOMAIN rows}

(***************************************************************************)
(* The page that is rebuilt does not depend on the order in which the      *)
(* store returns the rows.                                                 *)
(***************************************************************************)
RebuildIgnoresRowOrder ==
    saved # "none" /\ MaterializePageDocumentStorageAccepts(Source, rows) =>
        /\ MaterializePageDocumentStorageAccepts(Source, Reverse(rows))
        /\ MaterializePageDocumentStorage(Source, Reverse(rows)) = MaterializePageDocumentStorage(Source, rows)

(***************************************************************************)
(* Rows that the TypeScript runtime rebuilds the Go runtime rebuilds, to   *)
(* the same page, although one tells blocks from sections by their family  *)
(* and the other by their ancestors.                                       *)
(***************************************************************************)
BothRuntimesRebuild ==
    saved # "none" /\ TsMaterializePageAccepts(Source, rows) =>
        /\ MaterializePageDocumentStorageAccepts(Source, rows)
        /\ TsMaterializePage(Source, rows) = MaterializePageDocumentStorage(Source, rows)

(***************************************************************************)
(* A page both runtimes accept is rebuilt by the TypeScript runtime from   *)
(* the rows the Go runtime flattened it to, once they form a tree, unless  *)
(* an index of it is 2^31 or more: TypeScript accepts such a page, Go      *)
(* stores a negative position, and TypeScript does not read it again.      *)
(***************************************************************************)
BrowserReadsServerRows ==
    saved # "none" /\ TsFlattenPageAccepts(draft, saved) /\ Tree(rows) =>
        (TsMaterializePageAccepts(Source, rows) <=> PageFits(draft))

(***************************************************************************)
(* When both runtimes accept a page and no two rows share an id, every     *)
(* value of every locale reaches the row of its section or block, whatever *)
(* case its id is spelled in.  Sections that differ in the spelling of     *)
(* their id only are accepted by both, and lose values.                    *)
(***************************************************************************)
Stored(l, id) == \E i \in DOMAIN rows : rows[i].id = normalizeUUID(id) /\ l \in DOMAIN rows[i].locales

TranslationsKept ==
    saved # "none" /\ TsFlattenPageAccepts(draft, saved) /\ UniqueIds(rows) =>
        \A l \in DOMAIN draft.overlays : \A id \in DOMAIN draft.overlays[l] :
            /\ Stored(l, id)
            /\ \A block \in DOMAIN draft.overlays[l][id].blocks : Stored(l, block)

(***************************************************************************)
(* The rows a page is flattened to pass the store's check of their place,  *)
(* when the page is one the TypeScript runtime accepts and they are a      *)
(* tree.                                                                   *)
(***************************************************************************)
FlattenedRowsPlaced ==
    saved # "none" /\ TsFlattenPageAccepts(draft, saved) /\ Tree(rows) => ParentChecked("page", rows)
================================================================================

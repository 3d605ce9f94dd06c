------------------------------ MODULE ContentRows ------------------------------
(***************************************************************************)
(* The content contract of the Go runtime: a page document (sections, each *)
(* rich-text section with a graph of blocks of its own, and one overlay of *)
(* translated values per locale) is flattened to storage rows and rebuilt  *)
(* from them.  A runtime function is two operators here, the inputs it     *)
(* accepts and what it returns for them; which error it reports is not     *)
(* modelled.  What depends on the source locale takes it first.            *)
(*                                                                         *)
(* A UUID is a positive integer, ordered as its text is; the upper-case    *)
(* spelling of UUID n is -n and the empty text is 0.  The index of a node  *)
(* is a uint32 and the position of a row an int32.  Field values, which    *)
(* the functions pass through, are the translated text of a block and the  *)
(* state of its file attachment.  The other fields a normalisation touches *)
(* (defaults dropped, colours lower-cased) are not kept.                   *)
(***************************************************************************)
EXTENDS Integers, Sequences, FiniteSets, SequencesExt

CONSTANTS Source,             \* the source locale documents are saved in
          MaxDocumentBlocks,  \* limits.max_document_blocks of the catalog
          HalfRange           \* 2^31 in the code, less in the runs

ASSUME MaxDocumentBlocksAssumption == MaxDocumentBlocks \in Nat
ASSUME HalfRangeAssumption == HalfRange \in Nat \ {0}

(***************************************************************************)
(* Conversions keep the bits: an index from HalfRange on is stored as a    *)
(* negative position, which is the same index again when it is read.       *)
(***************************************************************************)
UInt32 == 0..2 * HalfRange - 1
Int32  == -HalfRange..HalfRange - 1

(* Mutant: an index too large for a position is cut off at the largest.    *)
int32Clamped(index) == IF index < HalfRange THEN index ELSE HalfRange - 1

int32(index) == IF index < HalfRange THEN index ELSE index - 2 * HalfRange
uint32(pos) == IF pos < 0 THEN pos + 2 * HalfRange ELSE pos

(***************************************************************************)
(* The catalog: a kind is named alike in both families when the page has a *)
(* section and rich text a block of that name ("map" and "mermaid").  The  *)
(* page profile of rich text has mermaid blocks but no map blocks.         *)
(***************************************************************************)
RichKinds == {"paragraph", "map", "mermaid"}
PageKinds == {"rich-text", "columns", "embed", "map", "mermaid"}
ColumnChildKinds == PageKinds \ {"columns"}
ProfileBlocks == [post |-> RichKinds, page |-> RichKinds \ {"map"}]

(* Mutant: ids are kept as they were sent.                                 *)
normalizeUUIDAsSent(id) == id

normalizeUUID(id) == IF id < 0 THEN -id ELSE id

Sections  == <<"sections", 0>>
Content   == <<"content", 0>>
Column(c) == <<"column", c>>
NotAColumn == 1000   \* the column id read out of the name of a slot that is none

\* The elements of a sequence that pass a test, in their order.
Where(s, Test(_)) == FlattenSeq([i \in DOMAIN s |-> IF Test(s[i]) THEN <<s[i]>> ELSE <<>>])

\* A function that gives value for x; a record in which what patch says replaces what r says.
With(f, x, value) == [y \in {x} \cup DOMAIN f |-> IF y = x THEN value ELSE f[y]]
Merged(patch, r) == [y \in DOMAIN patch \cup DOMAIN r |-> IF y \in DOMAIN patch THEN patch[y] ELSE r[y]]

(***************************************************************************)
(* Row payloads.  shared: the oneof case, whether section settings are     *)
(* present, the column ids of a columns section and the state of the file  *)
(* attachment ("none", "active" or "missing").  The decoder of a rich kind *)
(* knows no settings and no columns, and a kind of both families is        *)
(* decoded as a rich one.                                                  *)
(***************************************************************************)
KindAllowed(profile, kind) ==
    IF kind \in RichKinds THEN kind \in ProfileBlocks[profile]
                          ELSE profile = "page" /\ kind \in PageKinds

NormalizeContentStorageShared(profile, kind, shared, mode) ==
    /\ KindAllowed(profile, kind)
    /\ shared.case = kind
    /\ kind \in RichKinds => ~shared.settings /\ shared.columns = {}
    /\ shared.media = "missing" => mode = "RESTORE_SNAPSHOT"

NormalizeContentStorageLocale(profile, kind, value) ==
    KindAllowed(profile, kind) /\ value.case = kind

(***************************************************************************)
(* A rich-text document: nodes [id, parent, index, shared] and, per        *)
(* locale, the values [case, text] by block id.  Its overlays are looked   *)
(* up by the id that was lower-cased, under the ids they were sent with.   *)
(***************************************************************************)
(* Mutant: only the source locale is stored.                               *)
LocalesWithSource(overlays, id) == {Source} \cap {l \in DOMAIN overlays : id \in DOMAIN overlays[l]}

LocalesWith(overlays, id) == {l \in DOMAIN overlays : id \in DOMAIN overlays[l]}

RichRow(node, overlays) ==
    LET id == normalizeUUID(node.id)
    IN [id |-> id, parent |-> normalizeUUID(node.parent), slot |-> Content,
        pos |-> int32(node.index), kind |-> node.shared.case, shared |-> node.shared,
        locales |-> [l \in LocalesWith(overlays, id) |-> overlays[l][id]]]

RichRows(nodes, overlays) == [i \in DOMAIN nodes |-> RichRow(nodes[i], overlays)]

RowValid(source, profile, row, mode) ==
    /\ source \in DOMAIN row.locales
    /\ NormalizeContentStorageShared(profile, row.kind, row.shared, mode)
    /\ \A l \in DOMAIN row.locales : NormalizeContentStorageLocale(profile, row.kind, row.locales[l])

Ids(rows) == {rows[i].id : i \in DOMAIN rows}
UniqueIds(rows) == Cardinality(Ids(rows)) = Len(rows)

FlattenRichTextDocumentStorageAccepts(source, profile, nodes, overlays, mode) ==
    LET rows == RichRows(nodes, overlays)
    IN /\ source \in DOMAIN overlays
       /\ UniqueIds(rows)
       /\ \A i \in DOMAIN rows : rows[i].kind \in RichKinds /\ RowValid(source, profile, rows[i], mode)
       /\ Len(rows) <= MaxDocumentBlocks

(***************************************************************************)
(* A page document: nodes [id, parent, column, index, shared, blocks] and, *)
(* per locale, the values [case, text, blocks] by section id, blocks being *)
(* the overlay of the section's rich text.                                 *)
(***************************************************************************)
(* Mutant: the column is dropped.                                          *)
SectionSlotRoot(node) == Sections

SectionSlot(node) == IF node.column = 0 THEN Sections ELSE Column(normalizeUUID(node.column))

SectionRow(node, overlays) ==
    LET id == normalizeUUID(node.id)
    IN [id |-> id, parent |-> normalizeUUID(node.parent),
        slot |-> SectionSlot(node),
        pos |-> int32(node.index), kind |-> node.shared.case, shared |-> node.shared,
        locales |-> [l \in LocalesWith(overlays, id) |->
                        [case |-> overlays[l][id].case, text |-> overlays[l][id].text]]]

NoValues == [id \in {} |-> 0]

\* The overlays of the rich text of one section, in every locale of the page.
NestedOverlays(node, overlays) ==
    LET id == normalizeUUID(node.id)
    IN [l \in DOMAIN overlays |->
          IF id \in DOMAIN overlays[l] /\ overlays[l][id].case = "rich-text"
          THEN overlays[l][id].blocks ELSE NoValues]

(* Mutants: the roots stay roots; every block becomes a child of the section. *)
OwnedNot(nested, id) == nested
OwnedAll(nested, id) == [i \in DOMAIN nested |-> [nested[i] EXCEPT !.parent = id]]

\* The rows of a section's blocks, whose roots the section becomes the parent of.
Owned(nested, id) ==
    [i \in DOMAIN nested |-> IF nested[i].parent = 0 THEN [nested[i] EXCEPT !.parent = id] ELSE nested[i]]

NodeRows(node, overlays) ==
    LET section == SectionRow(node, overlays)
        nested  == RichRows(node.blocks, NestedOverlays(node, overlays))
    IN <<section>> \o IF node.shared.case = "rich-text" THEN Owned(nested, section.id) ELSE <<>>

FlattenPageDocumentStorage(page) ==
    FlattenSeq([i \in DOMAIN page.nodes |-> NodeRows(page.nodes[i], page.overlays)])

FlattenPageDocumentStorageAccepts(page, mode) ==
    /\ Source \in DOMAIN page.overlays
    /\ \A i \in DOMAIN page.nodes :
          LET node == page.nodes[i]
          IN /\ RowValid(Source, "page", SectionRow(node, page.overlays), mode)
             /\ node.shared.case = "rich-text" =>
                   FlattenRichTextDocumentStorageAccepts(Source, "page", node.blocks,
                                                         NestedOverlays(node, page.overlays), mode)
    /\ Len(FlattenPageDocumentStorage(page)) <= MaxDocumentBlocks

(***************************************************************************)
(* The check of one row's placement under its parent row, for the store.   *)
(* parent is {} for a root, else a set with the parent row.                *)
(***************************************************************************)
ValidateContentStorageParent(profile, parent, row) ==
    IF profile = "page" /\ row.kind \in PageKinds
    THEN IF parent = {} THEN row.slot = Sections
         ELSE \A p \in parent : /\ p.kind = "columns"
                                /\ row.slot \in {Column(c) : c \in p.shared.columns}
                                /\ row.kind \in ColumnChildKinds
    ELSE /\ row.kind \in RichKinds
         /\ row.slot = Content
         /\ \A p \in parent : p.kind \in RichKinds \/ (profile = "page" /\ p.kind = "rich-text")

(***************************************************************************)
(* Rebuilding.  Rows are put in placement order, so that the document does *)
(* not depend on the order the store returned them in.                     *)
(***************************************************************************)
SlotRank == [column |-> 1, content |-> 2, sections |-> 3]   \* the order of the slots' names

compareContentStorageRowPlacement(l, r) ==
    \/ l.parent < r.parent
    \/ /\ l.parent = r.parent
       /\ \/ SlotRank[l.slot[1]] < SlotRank[r.slot[1]]
          \/ l.slot[1] = r.slot[1] /\ l.slot[2] < r.slot[2]
          \/ l.slot = r.slot /\ l.pos < r.pos
          \/ l.slot = r.slot /\ l.pos = r.pos /\ l.id < r.id

(* Mutant: the order the store returned them in.                           *)
InPlacementOrderAsStored(rows) == rows

\* The rows in placement order, for rows with distinct ids.
InPlacementOrder(rows) ==
    LET Rank(r) == 1 + Cardinality({i \in DOMAIN rows : compareContentStorageRowPlacement(rows[i], r)})
    IN [k \in DOMAIN rows |-> rows[CHOOSE i \in DOMAIN rows : Rank(rows[i]) = k]]

RowOf(rows, id) == rows[CHOOSE i \in DOMAIN rows : rows[i].id = id]

\* The id reached from id by k parent links; it stays at 0 and at an id no row has.
Chain(rows, id) ==
    LET up[k \in 0..Len(rows)] ==
          IF k = 0 THEN id
          ELSE IF up[k-1] \in Ids(rows) THEN RowOf(rows, up[k-1]).parent ELSE up[k-1]
    IN up
Lineage(rows, id) == LET up == Chain(rows, id) IN {up[k] : k \in 0..Len(rows)}

\* No orphan and no cycle: every row's parents end at a root.
Grounded(rows) == \A id \in Ids(rows) : 0 \in Lineage(rows, id)

\* A row is a section unless one of its ancestors or itself is content of a rich-text section.
IsSection(rows, id) ==
    \A a \in Lineage(rows, id) \cap Ids(rows) :
        LET r == RowOf(rows, a)
        IN r.parent \in Ids(rows) => ~(RowOf(rows, r.parent).kind = "rich-text" /\ r.slot = Content)

SectionRows(rows) == Where(rows, LAMBDA r : IsSection(rows, r.id))
RichTextRows(rows) == Where(rows, LAMBDA r : ~IsSection(rows, r.id))

(* Mutant: only the section's own children.                                *)
DescendantsChildren(rows, section) ==
    LET below == Where(rows, LAMBDA r : r.parent = section)
    IN [i \in DOMAIN below |-> [below[i] EXCEPT !.parent = 0]]

\* The rich-text rows below a section, its own children made roots of the nested graph again.
Descendants(rows, section) ==
    LET rich == RichTextRows(rows)
        below == Where(rich, LAMBDA r : section \in Lineage(rows, r.id))
    IN [i \in DOMAIN below |->
          IF below[i].parent = section THEN [below[i] EXCEPT !.parent = 0] ELSE below[i]]

RichNodes(rows) ==
    LET ordered == InPlacementOrder(rows)
    IN [i \in DOMAIN ordered |->
          [id |-> ordered[i].id, parent |-> ordered[i].parent,
           index |-> uint32(ordered[i].pos), shared |-> ordered[i].shared]]

RowLocales(rows) == UNION {DOMAIN rows[i].locales : i \in DOMAIN rows}

(* Mutant: only the source locale is rebuilt.                              *)
RichOverlaysSource(source, rows) == [l \in {source} |-> [id \in Ids(rows) |-> RowOf(rows, id).locales[l]]]

RichOverlays(source, rows) ==
    [l \in RowLocales(rows) \cup {source} |->
        [id \in {rows[i].id : i \in {i \in DOMAIN rows : l \in DOMAIN rows[i].locales}} |->
            RowOf(rows, id).locales[l]]]

MaterializeRichTextDocumentStorageAccepts(source, profile, rows) ==
    /\ UniqueIds(rows)
    /\ \A i \in DOMAIN rows : rows[i].kind \in RichKinds
    /\ FlattenRichTextDocumentStorageAccepts(source, profile, RichNodes(rows), RichOverlays(source, rows), "RESTORE_SNAPSHOT")

(***************************************************************************)
(* A page of section rows, with the blocks of each section by its id.      *)
(***************************************************************************)
SectionNode(blocks, row) ==
    [id |-> row.id, parent |-> row.parent, index |-> uint32(row.pos), shared |-> row.shared,
     column |-> IF row.parent = 0 THEN 0 ELSE IF row.slot[1] = "column" THEN row.slot[2] ELSE NotAColumn,
     blocks |-> IF row.kind = "rich-text" THEN RichNodes(blocks[row.id]) ELSE <<>>]

\* The value of a section in a locale; the rich-text descendants may have locales the section row lacks.
SectionValue(source, blocks, row, l) ==
    LET own    == IF l \in DOMAIN row.locales THEN row.locales[l] ELSE [case |-> "rich-text", text |-> ""]
        nested == RichOverlays(source, blocks[row.id])
    IN [case |-> own.case, text |-> own.text,
        blocks |-> IF row.kind = "rich-text" /\ l \in DOMAIN nested THEN nested[l] ELSE NoValues]

LocalesOf(source, blocks, row) ==
    DOMAIN row.locales \cup
    (IF row.kind = "rich-text" THEN RowLocales(blocks[row.id]) \cup {source} ELSE {})

PageOf(source, sections, blocks) ==
    LET locales == {source} \cup UNION {LocalesOf(source, blocks, sections[i]) : i \in DOMAIN sections}
    IN [nodes |-> [i \in DOMAIN sections |-> SectionNode(blocks, sections[i])],
        overlays |-> [l \in locales |->
            [id \in {sections[i].id : i \in {i \in DOMAIN sections : l \in LocalesOf(source, blocks, sections[i])}} |->
                SectionValue(source, blocks, RowOf(sections, id), l)]]]

BlocksOf(rows) == [id \in Ids(rows) |-> Descendants(rows, id)]

MaterializePageDocumentStorage(source, rows) == PageOf(source, InPlacementOrder(SectionRows(rows)), BlocksOf(rows))

MaterializePageDocumentStorageAccepts(source, rows) ==
    /\ UniqueIds(rows)
    /\ Grounded(rows)
    /\ \A i \in DOMAIN rows :
          LET r == rows[i]
          IN IF ~IsSection(rows, r.id) THEN r.kind \in RichKinds
             ELSE /\ r.kind \in PageKinds
                  /\ r.kind = "rich-text" =>
                        /\ MaterializeRichTextDocumentStorageAccepts(source, "page", Descendants(rows, r.id))
                        /\ \A l \in DOMAIN r.locales \cap (RowLocales(Descendants(rows, r.id)) \cup {source}) :
                              SectionValue(source, BlocksOf(rows), r, l).case = "rich-text"
================================================================================

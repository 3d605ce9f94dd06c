-------------------------- MODULE ContentEditingProofs --------------------------
(***************************************************************************)
(* Editors of one document and the store, for any editors, documents,      *)
(* kinds, locales, ids, members and bounds.  The invariant EditingInvariant *)
(* says what documents, rows and unsent mutations look like; the invariant *)
(* SyncInvariant says that an editor at the current revision sees what the *)
(* rows and its unsent mutations say; the invariant MadeInvariant says what *)
(* may be unsent together, and that nothing an editor sees as a section is *)
(* stored as a block.                                                      *)
(***************************************************************************)
EXTENDS ContentEditingLemmas

(***************************************************************************)
(* A document that is opened again says what the rows say.                 *)
(***************************************************************************)
RowSays(stored, l, id, v) == Says(l, v) /\ \E r \in ToSet(stored) : r.id = id /\ l \in DOMAIN r.locales /\ v = r.locales[l]

SaysTheRows(p, stored) ==
    /\ \A x : x \in ShapesOf(p) <=> \E r \in ToSet(stored) : x = RowShape(r)
    /\ \A l, id, v : SaysOf(p, l, id, v) <=> RowSays(stored, l, id, v)

\* The overlays of a document in every locale of the service.
InLocales(overlays) == [l \in Locales |-> IF l \in DOMAIN overlays THEN overlays[l] ELSE NoValues]

\* A section of rows whose page is opened.
SectionOf(rows_, n, x) ==
    /\ x \in ToSet(rows_) /\ ~IsRichFamily(x) /\ n = SectionNode(BlocksOf(rows_), x)

\* The block of a row below the section x.
BlockFrom(x, r) ==
    [id |-> r.id, parent |-> IF r.parent = x.id THEN 0 ELSE r.parent, index |-> uint32(r.pos), shared |-> r.shared]

BlockFor(y) == [id |-> y.id, parent |-> y.parent, index |-> uint32(y.pos), shared |-> y.shared]

\* Whether r is a row of a block of the section x.
Below(rows_, x, r) == x.kind = "rich-text" /\ r \in ToSet(rows_) /\ IsRichFamily(r) /\ x.id \in Lineage(rows_, r.id)

\* The sections of a page are those of the rows.
LEMMA OpenedSections ==
    ASSUME NEW rows_, NEW mode, RowsChecked(rows_, mode), NEW p, p = MaterializePageDocumentStorage(Source, rows_)
    PROVE  /\ p \in Page /\ Source \in DOMAIN p.overlays
           /\ \A n : n \in ToSet(p.nodes) <=> \E x : SectionOf(rows_, n, x)
           /\ DistinctIds(p.nodes)
           /\ \A x \in ToSet(rows_) : ~IsRichFamily(x) => \A l :
                 /\ (l \in DOMAIN p.overlays /\ x.id \in DOMAIN p.overlays[l]) <=> l \in LocalesOf(Source, BlocksOf(rows_), x)
                 /\ l \in LocalesOf(Source, BlocksOf(rows_), x) => p.overlays[l][x.id] = SectionValue(Source, BlocksOf(rows_), x, l)
           /\ \A l \in DOMAIN p.overlays : \A id \in DOMAIN p.overlays[l] :
                 \E x \in ToSet(rows_) : ~IsRichFamily(x) /\ x.id = id
<1> DEFINE sections == InPlacementOrder(SectionRows(rows_))
           blocks == BlocksOf(rows_)
           values(l) == [id \in SectionsIn(Source, sections, blocks, l) |-> SectionValue(Source, blocks, RowOf(sections, id), l)]
<1>1. /\ p \in Page
      /\ sections \in Seq(Row) /\ DistinctIds(sections)
      /\ \A x : x \in ToSet(sections) <=> x \in ToSet(rows_) /\ ~IsRichFamily(x)
      /\ DOMAIN p.nodes = DOMAIN sections
      /\ \A k \in DOMAIN sections : p.nodes[k] = SectionNode(blocks, sections[k])
      /\ Source \in DOMAIN p.overlays
      /\ \A x \in ToSet(sections) : \A l :
            /\ (l \in DOMAIN p.overlays /\ x.id \in DOMAIN p.overlays[l]) <=> l \in LocalesOf(Source, blocks, x)
            /\ l \in LocalesOf(Source, blocks, x) => p.overlays[l][x.id] = SectionValue(Source, blocks, x, l)
  BY PageParts
<1>2. p.overlays = [l \in PageLocales(Source, sections, blocks) |-> values(l)]
  BY PageOfParts DEF MaterializePageDocumentStorage
<1> HIDE DEF sections, blocks
<1>3. \A l, id : id \in SectionsIn(Source, sections, blocks, l) => \E x \in ToSet(sections) : x.id = id
  BY DEF SectionsIn, ToSet
<1>4. \A l : DOMAIN values(l) = SectionsIn(Source, sections, blocks, l)
  OBVIOUS
<1> HIDE DEF values
<1>5. \A l \in DOMAIN p.overlays : \A id \in DOMAIN p.overlays[l] : \E x \in ToSet(rows_) : ~IsRichFamily(x) /\ x.id = id
  BY <1>1, <1>2, <1>3, <1>4
<1>6. \A n : n \in ToSet(p.nodes) <=> \E x : SectionOf(rows_, n, x)
  <2>1. \A n : n \in ToSet(p.nodes) <=> \E x \in ToSet(sections) : n = SectionNode(blocks, x)
    BY <1>1 DEF ToSet
  <2> QED BY <1>1, <2>1 DEF SectionOf, blocks
<1>7. DistinctIds(p.nodes)
  <2>0. \A b, r : SectionNode(b, r).id = r.id
    BY DEF SectionNode
  <2>1. \A k \in DOMAIN sections : p.nodes[k].id = sections[k].id
    BY <1>1, <2>0
  <2> QED BY <1>1, <2>1 DEF DistinctIds
<1> QED BY <1>1, <1>5, <1>6, <1>7 DEF blocks

\* The blocks of a section are those of the rows below it.
LEMMA OpenedBlocks ==
    ASSUME NEW rows_, NEW mode, RowsChecked(rows_, mode), NEW n, NEW x, SectionOf(rows_, n, x)
    PROVE  /\ n.id = x.id /\ n.shared = x.shared /\ n.parent = x.parent /\ n.index = uint32(x.pos)
           /\ HasBlocks(n) <=> x.kind = "rich-text"
           /\ n.blocks \in Seq(Block) /\ DistinctIds(n.blocks)
           /\ \A b : b \in ToSet(n.blocks) <=> \E r : Below(rows_, x, r) /\ b = BlockFrom(x, r)
<1>1. /\ rows_ \in Seq(Row) /\ DistinctIds(rows_) /\ RowSet(Row) /\ ShapedRows(Row, rows_) /\ Grounded(rows_)
      /\ x \in ToSet(rows_) /\ ~IsRichFamily(x) /\ x \in Row /\ x.kind = x.shared.case
      /\ \A r \in ToSet(rows_) : r \in Row /\ r.id \in Ids(rows_)
  BY CheckedFacts, CheckedShaped DEF SectionOf
<1>2. /\ n.id = x.id /\ n.shared = x.shared /\ n.parent = x.parent /\ n.index = uint32(x.pos)
      /\ n.blocks = IF x.kind = "rich-text" THEN RichNodes(BlocksOf(rows_)[x.id]) ELSE <<>>
  BY DEF SectionOf, SectionNode
<1>3. HasBlocks(n) <=> x.kind = "rich-text"
  BY <1>1, <1>2 DEF HasBlocks
<1>4. CASE x.kind # "rich-text"
  <2>1. n.blocks = <<>>
    BY <1>2, <1>4
  <2>2. n.blocks \in Seq(Block) /\ DistinctIds(n.blocks) /\ \A b : b \notin ToSet(n.blocks)
    BY <2>1 DEF DistinctIds, ToSet
  <2>3. \A r : ~Below(rows_, x, r)
    BY <1>4 DEF Below
  <2> QED BY <1>2, <1>3, <2>2, <2>3
<1>5. CASE x.kind = "rich-text"
  <2> DEFINE below == Descendants(rows_, x.id)
             ordered == InPlacementOrder(below)
  <2>1. n.blocks = RichNodes(below)
    BY <1>1, <1>2, <1>5 DEF BlocksOf
  <2>2. below \in Seq(Row) /\ DistinctIds(below) /\ \A y : y \in ToSet(below) <=> \E r : BlockOf(rows_, x.id, r) /\ y = Rooted(x.id, r)
    BY <1>1, DescendantsElements
  <2> HIDE DEF below
  <2>3. ordered \in Seq(Row) /\ ToSet(ordered) = ToSet(below) /\ DistinctIds(ordered)
    BY <1>1, <2>2, PlacementOrder
  <2>4. /\ n.blocks \in Seq(Block)
        /\ DOMAIN n.blocks = DOMAIN ordered
        /\ \A k \in DOMAIN n.blocks : n.blocks[k] = BlockFor(ordered[k])
    BY <2>1, <2>2, RichNodesTyped DEF BlockFor
  <2> HIDE DEF ordered
  <2>5. DistinctIds(n.blocks)
    <3>1. \A k \in DOMAIN ordered : n.blocks[k].id = ordered[k].id
      <4>1. \A y : BlockFor(y).id = y.id
        BY DEF BlockFor
      <4> QED BY <2>4, <4>1
    <3> QED BY <2>3, <2>4, <3>1 DEF DistinctIds
  <2>6. \A r : BlockOf(rows_, x.id, r) <=> Below(rows_, x, r)
    BY <1>1, <1>5, SectionLineage, BlockLineage DEF BlockOf, Grounded, Below
  <2>7. \A r : Below(rows_, x, r) => BlockFrom(x, r) = BlockFor(Rooted(x.id, r))
    <3> SUFFICES ASSUME NEW r, Below(rows_, x, r)
                 PROVE  BlockFrom(x, r) = BlockFor(Rooted(x.id, r))
      OBVIOUS
    <3>1. r \in Row
      BY <1>1 DEF Below
    <3>2. CASE r.parent = x.id
      BY <3>1, <3>2 DEF BlockFrom, BlockFor, Rooted, AsRoot, Row
    <3>3. CASE r.parent # x.id
      BY <3>1, <3>3 DEF BlockFrom, BlockFor, Rooted
    <3> QED BY <3>2, <3>3
  <2>8. \A b : b \in ToSet(n.blocks) <=> \E y \in ToSet(ordered) : b = BlockFor(y)
    BY <2>4 DEF ToSet
  <2>9. \A b : b \in ToSet(n.blocks) <=> \E r : Below(rows_, x, r) /\ b = BlockFrom(x, r)
    BY <2>2, <2>3, <2>6, <2>7, <2>8
  <2> QED BY <1>2, <1>3, <2>4, <2>5, <2>9
<1> QED BY <1>4, <1>5

\* The value of a section in a locale: its own, or an empty one, with the values of the blocks below it.
OpenedValue(rows_, x, l, w) ==
    /\ w.case = x.kind
    /\ l \in DOMAIN x.locales => x.locales[l] = [case |-> w.case, text |-> w.text]
    /\ l \notin DOMAIN x.locales => w.case = "rich-text" /\ w.text = "" /\ l # Source
    /\ \A id : id \in DOMAIN w.blocks <=> \E r : Below(rows_, x, r) /\ r.id = id /\ l \in DOMAIN r.locales
    /\ \A r : Below(rows_, x, r) /\ l \in DOMAIN r.locales => w.blocks[r.id] = r.locales[l]

\* The values that a section is opened with, in the locales it has or a block below it has.
LEMMA ValueOpened ==
    ASSUME NEW rows_, NEW mode, RowsChecked(rows_, mode), NEW x \in ToSet(rows_), ~IsRichFamily(x)
    PROVE  /\ \A l \in LocalesOf(Source, BlocksOf(rows_), x) : OpenedValue(rows_, x, l, SectionValue(Source, BlocksOf(rows_), x, l))
           /\ \A l \in DOMAIN x.locales : l \in LocalesOf(Source, BlocksOf(rows_), x)
           /\ \A r : Below(rows_, x, r) => \A l \in DOMAIN r.locales : l \in LocalesOf(Source, BlocksOf(rows_), x)
<1> DEFINE blocks == BlocksOf(rows_)
           below == Descendants(rows_, x.id)
<1>1. /\ rows_ \in Seq(Row) /\ DistinctIds(rows_) /\ RowSet(Row) /\ ShapedRows(Row, rows_) /\ Grounded(rows_)
      /\ x \in Row /\ RowValid(Source, "page", x, mode)
      /\ \A r \in ToSet(rows_) : r \in Row /\ r.id \in Ids(rows_)
  BY CheckedFacts, CheckedShaped
<1>2. blocks[x.id] = below
  BY <1>1 DEF BlocksOf
<1>3. /\ below \in Seq(Row) /\ DistinctIds(below)
      /\ \A y : y \in ToSet(below) <=> \E r : BlockOf(rows_, x.id, r) /\ y = Rooted(x.id, r)
  BY <1>1, DescendantsElements
<1>4. \A r : BlockOf(rows_, x.id, r) /\ x.kind = "rich-text" <=> Below(rows_, x, r)
  BY <1>1, SectionLineage, BlockLineage DEF BlockOf, Grounded, Below
<1>5. \A r \in ToSet(rows_) : Rooted(x.id, r).id = r.id /\ Rooted(x.id, r).locales = r.locales
  BY <1>1 DEF Rooted, AsRoot, Row
<1>6. x.shared.case = x.kind /\ Source \in DOMAIN x.locales /\ \A l \in DOMAIN x.locales : x.locales[l].case = x.kind
  BY <1>1, RowValidFacts
<1>7. \A l \in DOMAIN x.locales : x.locales[l] \in Values
  BY <1>1, PartialFunctionOf DEF Row
<1> HIDE DEF below
<1>8. /\ DOMAIN RichOverlays(Source, below) = RowLocales(below) \cup {Source}
      /\ \A l \in DOMAIN RichOverlays(Source, below) :
            /\ DOMAIN RichOverlays(Source, below)[l] = IdsIn(below, l)
            /\ \A id \in IdsIn(below, l) : RichOverlays(Source, below)[l][id] = RowOf(below, id).locales[l]
  BY <1>3, RichOverlaysTyped
<1>9. x.kind = "rich-text" => \A l, id : id \in IdsIn(below, l) <=> \E r : Below(rows_, x, r) /\ r.id = id /\ l \in DOMAIN r.locales
  <2> SUFFICES ASSUME x.kind = "rich-text", NEW l, NEW id
               PROVE  id \in IdsIn(below, l) <=> \E r : Below(rows_, x, r) /\ r.id = id /\ l \in DOMAIN r.locales
    OBVIOUS
  <2>1. id \in IdsIn(below, l) <=> \E y \in ToSet(below) : y.id = id /\ l \in DOMAIN y.locales
    BY IdsInLocale
  <2>2. \A y : y \in ToSet(below) <=> \E r : Below(rows_, x, r) /\ y = Rooted(x.id, r)
    BY <1>3, <1>4
  <2>3. \A r : Below(rows_, x, r) => r \in ToSet(rows_)
    BY DEF Below
  <2> QED BY <1>5, <2>1, <2>2, <2>3
<1>10. x.kind = "rich-text" => \A r : Below(rows_, x, r) => RowOf(below, r.id).locales = r.locales
  <2> SUFFICES ASSUME x.kind = "rich-text", NEW r, Below(rows_, x, r) PROVE RowOf(below, r.id).locales = r.locales
    OBVIOUS
  <2>1. Rooted(x.id, r) \in ToSet(below) /\ r \in ToSet(rows_)
    BY <1>3, <1>4 DEF Below
  <2> QED BY <1>3, <1>5, <2>1, RowOfRow
<1>11. x.kind = "rich-text" => \A r : Below(rows_, x, r) => \A l \in DOMAIN r.locales : l \in RowLocales(below)
  <2> SUFFICES ASSUME x.kind = "rich-text", NEW r, Below(rows_, x, r), NEW l \in DOMAIN r.locales PROVE l \in RowLocales(below)
    OBVIOUS
  <2>1. Rooted(x.id, r) \in ToSet(below) /\ r \in ToSet(rows_)
    BY <1>3, <1>4 DEF Below
  <2>2. PICK i \in DOMAIN below : below[i] = Rooted(x.id, r)
    BY <2>1 DEF ToSet
  <2>3. l \in DOMAIN below[i].locales
    BY <1>5, <2>1, <2>2
  <2> QED BY <2>3 DEF RowLocales
<1>12. ASSUME NEW l \in LocalesOf(Source, blocks, x) PROVE OpenedValue(rows_, x, l, SectionValue(Source, blocks, x, l))
  <2> DEFINE w == SectionValue(Source, blocks, x, l)
  <2>1. /\ w.blocks = IF x.kind = "rich-text" /\ l \in DOMAIN RichOverlays(Source, below) THEN RichOverlays(Source, below)[l] ELSE NoValues
        /\ w.case = IF l \in DOMAIN x.locales THEN x.locales[l].case ELSE "rich-text"
        /\ w.text = IF l \in DOMAIN x.locales THEN x.locales[l].text ELSE ""
    BY <1>2 DEF SectionValue
  <2> HIDE DEF w
  <2>2. l \notin DOMAIN x.locales => x.kind = "rich-text" /\ l # Source
    BY <1>6 DEF LocalesOf
  <2>3. l \in DOMAIN x.locales => x.locales[l] = [case |-> w.case, text |-> w.text]
    BY <1>7, <2>1 DEF Values
  <2>4. w.case = x.kind
    BY <1>6, <2>1, <2>2
  <2>5. CASE x.kind = "rich-text" /\ l \in DOMAIN RichOverlays(Source, below)
    <3>1. DOMAIN w.blocks = IdsIn(below, l) /\ \A id \in IdsIn(below, l) : w.blocks[id] = RowOf(below, id).locales[l]
      BY <1>8, <2>1, <2>5
    <3>2. \A id : id \in DOMAIN w.blocks <=> \E r : Below(rows_, x, r) /\ r.id = id /\ l \in DOMAIN r.locales
      BY <1>9, <2>5, <3>1
    <3>3. \A r : Below(rows_, x, r) /\ l \in DOMAIN r.locales => w.blocks[r.id] = r.locales[l]
      BY <1>9, <1>10, <2>5, <3>1
    <3> QED BY <2>1, <2>2, <2>3, <2>4, <3>2, <3>3 DEF OpenedValue, w
  <2>6. CASE ~(x.kind = "rich-text" /\ l \in DOMAIN RichOverlays(Source, below))
    <3>1. w.blocks = NoValues
      BY <2>1, <2>6
    <3>2. DOMAIN w.blocks = {}
      BY <3>1 DEF NoValues
    <3>3. \A r : Below(rows_, x, r) => l \notin DOMAIN r.locales
      BY <1>8, <1>11, <2>6 DEF Below
    <3> QED BY <2>1, <2>2, <2>3, <2>4, <3>2, <3>3 DEF OpenedValue, w
  <2> QED BY <2>5, <2>6
<1>13. \A l \in DOMAIN x.locales : l \in LocalesOf(Source, blocks, x)
  BY DEF LocalesOf
<1>14. \A r : Below(rows_, x, r) => \A l \in DOMAIN r.locales : l \in LocalesOf(Source, blocks, x)
  BY <1>2, <1>11 DEF LocalesOf, Below
<1> QED BY <1>12, <1>13, <1>14

\* The sections and blocks that are opened have the shapes of the rows.
LEMMA ShapesOpened ==
    ASSUME NEW rows_, NEW mode, RowsChecked(rows_, mode), NEW n, NEW x, SectionOf(rows_, n, x)
    PROVE  /\ SectionShape(n) = RowShape(x)
           /\ \A r : Below(rows_, x, r) => BlockShape(n.id, BlockFrom(x, r)) = RowShape(r)
<1>1. /\ x \in ToSet(rows_) /\ ~IsRichFamily(x) /\ n = SectionNode(BlocksOf(rows_), x)
      /\ \A r \in ToSet(rows_) : r \in Row /\ r.kind = r.shared.case
      /\ ShapedRows(Row, rows_)
  BY CheckedFacts, CheckedShaped DEF SectionOf
<1>2. /\ x.parent = 0 => x.slot = Sections
      /\ x.parent # 0 => \E c \in Columns : x.slot = Column(c)
  BY <1>1, SectionChecked
<1>3. /\ n.id = x.id /\ n.parent = x.parent /\ n.index = uint32(x.pos) /\ n.shared = x.shared
      /\ n.column = IF x.parent = 0 THEN 0 ELSE IF x.slot[1] = "column" THEN x.slot[2] ELSE NotAColumn
  BY <1>1 DEF SectionNode
<1>4. (IF n.column = 0 THEN Sections ELSE Column(n.column)) = x.slot
  <2>1. CASE x.parent = 0
    BY <1>2, <1>3, <2>1
  <2>2. CASE x.parent # 0
    <3>1. PICK c \in Columns : x.slot = Column(c)
      BY <1>2, <2>2
    <3>2. n.column = c
      BY <1>3, <2>2, <3>1, SlotsDiffer
    <3>3. c # 0
      BY ColumnsAssumption
    <3> QED BY <3>1, <3>2, <3>3
  <2> QED BY <2>1, <2>2
<1>4a. \A r \in ToSet(rows_) : int32(uint32(r.pos)) = r.pos
  <2>1. \A r \in ToSet(rows_) : r.pos \in Int32
    BY <1>1 DEF Row
  <2> QED BY <2>1, Conversions
<1>5. SectionShape(n) = RowShape(x)
  <2>1. x.kind = x.shared.case /\ int32(n.index) = x.pos
    BY <1>1, <1>3, <1>4a
  <2> QED BY <1>3, <1>4, <2>1 DEF SectionShape, RowShape
<1>6. ASSUME NEW r, Below(rows_, x, r) PROVE BlockShape(n.id, BlockFrom(x, r)) = RowShape(r)
  <2>1. r \in ToSet(rows_) /\ r \in Row /\ r.slot = Content /\ r.kind = r.shared.case
    BY <1>1, <1>6 DEF Below, IsRichFamily
  <2>2. r.parent # 0
    <3>1. \E q \in ToSet(rows_) : q.id = r.parent
      BY <1>1, <2>1 DEF ShapedRows, PageShaped, IsRichFamily
    <3> QED BY <1>1, <3>1, UuidAssumption DEF Row
  <2>3. /\ BlockFrom(x, r).id = r.id /\ BlockFrom(x, r).index = uint32(r.pos) /\ BlockFrom(x, r).shared = r.shared
        /\ BlockFrom(x, r).parent = IF r.parent = x.id THEN 0 ELSE r.parent
    BY DEF BlockFrom
  <2>4. (IF BlockFrom(x, r).parent = 0 THEN n.id ELSE BlockFrom(x, r).parent) = r.parent
    BY <1>3, <2>2, <2>3
  <2>5. int32(BlockFrom(x, r).index) = r.pos
    BY <1>4a, <2>1, <2>3
  <2> HIDE DEF BlockFrom
  <2> QED BY <2>1, <2>3, <2>4, <2>5 DEF BlockShape, RowShape
<1> QED BY <1>5, <1>6

\* Sections of checked rows fit, and no block is in two of them.
LEMMA OpenedSectionsFit ==
    ASSUME NEW rows_, NEW mode, RowsChecked(rows_, mode), NEW p, p = MaterializePageDocumentStorage(Source, rows_)
    PROVE  /\ \A n \in ToSet(p.nodes) : SectionFits(n)
           /\ Apart(ToSet(p.nodes))
<1>1. /\ p \in Page /\ \A n : n \in ToSet(p.nodes) <=> \E x : SectionOf(rows_, n, x)
  BY OpenedSections
<1>2. p.nodes \in Seq(Node) /\ \A n \in ToSet(p.nodes) : n \in Node
  BY <1>1, SequenceElements DEF Page
<1>3. /\ \A r \in ToSet(rows_) : r \in Row /\ r.id \in Uuid
      /\ rows_ \in Seq(Row) /\ DistinctIds(rows_) /\ ShapedRows(Row, rows_)
      /\ \A x, y \in ToSet(rows_) : x.id = y.id => x = y
  <2>1. rows_ \in Seq(Row) /\ DistinctIds(rows_) /\ ShapedRows(Row, rows_) /\ \A r \in ToSet(rows_) : r \in Row
    BY CheckedFacts, CheckedShaped
  <2>2. \A x, y \in ToSet(rows_) : x.id = y.id => x = y
    BY <2>1, DistinctIdsInjective
  <2> QED BY <2>1, <2>2 DEF Row
<1>4. ASSUME NEW n, NEW x, SectionOf(rows_, n, x)
      PROVE  /\ x \in ToSet(rows_) /\ ~IsRichFamily(x) /\ n.id = x.id /\ n.blocks \in Seq(Block) /\ DistinctIds(n.blocks)
             /\ HasBlocks(n) <=> x.kind = "rich-text"
             /\ \A b : b \in ToSet(n.blocks) <=> \E r : Below(rows_, x, r) /\ b = BlockFrom(x, r)
  BY <1>4, OpenedBlocks DEF SectionOf
<1>5. \A x, r : BlockFrom(x, r).id = r.id
  BY DEF BlockFrom
<1>6. ASSUME NEW n \in ToSet(p.nodes) PROVE SectionFits(n)
  <2>1. PICK x : SectionOf(rows_, n, x)
    BY <1>1
  <2>2. /\ x \in ToSet(rows_) /\ n.id = x.id /\ n.blocks \in Seq(Block) /\ DistinctIds(n.blocks)
        /\ HasBlocks(n) <=> x.kind = "rich-text"
        /\ \A b : b \in ToSet(n.blocks) <=> \E r : Below(rows_, x, r) /\ b = BlockFrom(x, r)
    BY <2>1, <1>4
  <2>3. n.blocks # <<>> => HasBlocks(n)
    BY <2>2, SequenceElements DEF Below
  <2>4. \A b \in ToSet(n.blocks) : b.id \in Uuid
    BY <1>3, <1>5, <2>2 DEF Below
  <2> QED BY <1>2, <1>3, <2>2, <2>3, <2>4 DEF SectionFits
<1>7. ASSUME NEW n \in ToSet(p.nodes), NEW m \in ToSet(p.nodes), NEW b \in ToSet(n.blocks)
      PROVE  b.id # m.id /\ \A c \in ToSet(m.blocks) : b.id = c.id => n = m
  <2>1. PICK x : SectionOf(rows_, n, x)
    BY <1>1
  <2>2. PICK y : SectionOf(rows_, m, y)
    BY <1>1
  <2>a. /\ \A d : d \in ToSet(n.blocks) <=> \E r : Below(rows_, x, r) /\ d = BlockFrom(x, r)
        /\ \A d : d \in ToSet(m.blocks) <=> \E r : Below(rows_, y, r) /\ d = BlockFrom(y, r)
    BY <1>4, <2>1, <2>2
  <2>3. PICK r : Below(rows_, x, r) /\ b = BlockFrom(x, r)
    BY <2>a
  <2>4. /\ b.id = r.id /\ r \in ToSet(rows_) /\ IsRichFamily(r) /\ x.kind = "rich-text" /\ x.id \in Lineage(rows_, r.id)
        /\ x \in ToSet(rows_) /\ y \in ToSet(rows_) /\ ~IsRichFamily(y) /\ m.id = y.id
    BY <1>4, <1>5, <2>1, <2>2, <2>3 DEF Below
  <2>5. b.id # m.id
    BY <1>3, <2>4
  <2>6. ASSUME NEW c \in ToSet(m.blocks), b.id = c.id PROVE n = m
    <3>1. PICK q : Below(rows_, y, q) /\ c = BlockFrom(y, q)
      BY <2>a, <2>6
    <3>2. q \in ToSet(rows_) /\ c.id = q.id /\ y.kind = "rich-text" /\ y.id \in Lineage(rows_, q.id)
      BY <1>5, <3>1 DEF Below
    <3>3. q = r
      BY <1>3, <2>4, <2>6, <3>2
    <3>4. x = y
      BY <1>3, <2>4, <3>2, <3>3, BlockOwner
    <3> QED BY <2>1, <2>2, <3>4 DEF SectionOf
  <2> QED BY <2>5, <2>6
<1> QED BY <1>6, <1>7 DEF Apart

\* The values of a page that is opened fit its sections.
LEMMA OpenedValuesFit ==
    ASSUME NEW rows_, NEW mode, RowsChecked(rows_, mode), NEW p, p = MaterializePageDocumentStorage(Source, rows_),
           NEW l \in DOMAIN p.overlays, NEW id \in DOMAIN p.overlays[l]
    PROVE  \E n \in ToSet(p.nodes) : n.id = id /\ ValueFits(n, p.overlays[l][id])
<1>1. /\ p \in Page /\ \A n : n \in ToSet(p.nodes) <=> \E x : SectionOf(rows_, n, x)
      /\ \A x \in ToSet(rows_) : ~IsRichFamily(x) => \A k :
            /\ (k \in DOMAIN p.overlays /\ x.id \in DOMAIN p.overlays[k]) <=> k \in LocalesOf(Source, BlocksOf(rows_), x)
            /\ k \in LocalesOf(Source, BlocksOf(rows_), x) => p.overlays[k][x.id] = SectionValue(Source, BlocksOf(rows_), x, k)
      /\ \E x \in ToSet(rows_) : ~IsRichFamily(x) /\ x.id = id
  BY OpenedSections
<1>2. PICK x \in ToSet(rows_) : ~IsRichFamily(x) /\ x.id = id
  BY <1>1
<1> DEFINE n == SectionNode(BlocksOf(rows_), x)
           w == p.overlays[l][id]
<1>3. SectionOf(rows_, n, x)
  BY <1>2 DEF SectionOf
<1>4. l \in LocalesOf(Source, BlocksOf(rows_), x) /\ w = SectionValue(Source, BlocksOf(rows_), x, l)
  BY <1>1, <1>2
<1>5. OpenedValue(rows_, x, l, w)
  BY <1>2, <1>4, ValueOpened
<1> HIDE DEF n, w
<1>6. /\ n.id = x.id /\ n.shared = x.shared /\ n \in ToSet(p.nodes)
      /\ \A b : b \in ToSet(n.blocks) <=> \E r : Below(rows_, x, r) /\ b = BlockFrom(x, r)
  BY <1>1, <1>3, OpenedBlocks
<1>7. \A r \in ToSet(rows_) : r.kind = r.shared.case /\ RowValid(Source, "page", r, mode)
  BY CheckedFacts
<1>8. \A r \in ToSet(rows_) : \A k \in DOMAIN r.locales : r.locales[k].case = r.shared.case
  BY <1>7, RowValidFacts
<1>9. w.case = n.shared.case
  BY <1>2, <1>5, <1>6, <1>7 DEF OpenedValue
<1>10. ASSUME NEW a \in DOMAIN w.blocks
       PROVE  \E b \in ToSet(n.blocks) : b.id = a /\ w.blocks[a].case = b.shared.case
  <2>1. PICK r : Below(rows_, x, r) /\ r.id = a /\ l \in DOMAIN r.locales
    BY <1>5 DEF OpenedValue
  <2>2. w.blocks[a] = r.locales[l] /\ r \in ToSet(rows_)
    BY <1>5, <2>1 DEF OpenedValue, Below
  <2>3. BlockFrom(x, r) \in ToSet(n.blocks) /\ BlockFrom(x, r).id = a /\ BlockFrom(x, r).shared = r.shared
    BY <1>6, <2>1 DEF BlockFrom
  <2> QED BY <1>8, <2>1, <2>2, <2>3
<1>11. ValueFits(n, w)
  BY <1>9, <1>10 DEF ValueFits
<1> QED BY <1>2, <1>6, <1>11 DEF w

\* In the locales of the service a page that is opened is a page.
LEMMA PageOpens ==
    ASSUME NEW rows_, NEW mode, RowsChecked(rows_, mode), NEW p, p = MaterializePageDocumentStorage(Source, rows_),
           NEW q, q = [p EXCEPT !.overlays = InLocales(p.overlays)]
    PROVE  PageDocument(q) /\ PageSource(q) /\ q.nodes = p.nodes /\ q.overlays = InLocales(p.overlays)
<1>1. /\ p \in Page /\ Source \in DOMAIN p.overlays /\ DistinctIds(p.nodes)
      /\ \A n : n \in ToSet(p.nodes) <=> \E x : SectionOf(rows_, n, x)
      /\ \A x \in ToSet(rows_) : ~IsRichFamily(x) => \A k :
            /\ (k \in DOMAIN p.overlays /\ x.id \in DOMAIN p.overlays[k]) <=> k \in LocalesOf(Source, BlocksOf(rows_), x)
            /\ k \in LocalesOf(Source, BlocksOf(rows_), x) => p.overlays[k][x.id] = SectionValue(Source, BlocksOf(rows_), x, k)
  BY OpenedSections
<1>2. /\ p = [nodes |-> p.nodes, overlays |-> p.overlays] /\ p.nodes \in Seq(Node)
      /\ DOMAIN p.overlays \subseteq Locales /\ \A l \in DOMAIN p.overlays : p.overlays[l] \in PageValues
  BY <1>1, PartialFunctionOf DEF Page
<1> DEFINE o == InLocales(p.overlays)
<1>3. /\ o = [l \in Locales |-> o[l]]
      /\ \A l \in DOMAIN p.overlays : o[l] = p.overlays[l]
      /\ \A l \in Locales : l \notin DOMAIN p.overlays => o[l] = NoValues
  BY <1>2 DEF InLocales
<1>4. q = [nodes |-> p.nodes, overlays |-> o]
  BY <1>2
<1> HIDE DEF o
<1>5. \A l \in Locales : o[l] \in PageValues
  BY <1>2, <1>3, NoValuesTyped
<1>6. DOMAIN NoValues = {}
  BY DEF NoValues
<1>7. \A l \in Locales : \A id \in DOMAIN o[l] : \E n \in ToSet(p.nodes) : n.id = id /\ ValueFits(n, o[l][id])
  <2> SUFFICES ASSUME NEW l \in Locales, NEW id \in DOMAIN o[l]
               PROVE  \E n \in ToSet(p.nodes) : n.id = id /\ ValueFits(n, o[l][id])
    OBVIOUS
  <2>1. l \in DOMAIN p.overlays /\ o[l] = p.overlays[l]
    BY <1>3, <1>6
  <2> QED BY <2>1, OpenedValuesFit
<1>8. (\A n \in ToSet(p.nodes) : SectionFits(n)) /\ Apart(ToSet(p.nodes))
  BY OpenedSectionsFit
<1>9. Fitting(p.nodes, o)
  BY <1>1, <1>2, <1>3, <1>5, <1>7, <1>8 DEF Fitting
<1>10. PageDocument(q) /\ q.nodes = p.nodes /\ q.overlays = o
  <2>1. ASSUME NEW nodes, NEW overlays, Fitting(nodes, overlays)
        PROVE  PageDocument([nodes |-> nodes, overlays |-> overlays])
    BY <2>1, PageBuilt
  <2> HIDE DEF o
  <2>2. PageDocument([nodes |-> p.nodes, overlays |-> o])
    BY <1>9, <2>1, Zenon
  <2>3. PageDocument(q)
    BY <1>4, <2>2, Zenon
  <2>4. q.nodes = p.nodes /\ q.overlays = o
    BY <1>4
  <2> QED BY <2>3, <2>4
<1>11. ASSUME NEW n \in ToSet(p.nodes)
       PROVE  /\ n.id \in DOMAIN o[Source]
              /\ \A b \in ToSet(n.blocks) : b.id \in DOMAIN o[Source][n.id].blocks
  <2>1. PICK x : SectionOf(rows_, n, x)
    BY <1>1
  <2>a. /\ n.id = x.id
        /\ \A b : b \in ToSet(n.blocks) <=> \E r : Below(rows_, x, r) /\ b = BlockFrom(x, r)
    BY <2>1, OpenedBlocks
  <2>2. /\ x \in ToSet(rows_) /\ ~IsRichFamily(x) /\ n.id = x.id
        /\ \A b : b \in ToSet(n.blocks) <=> \E r : Below(rows_, x, r) /\ b = BlockFrom(x, r)
    BY <2>a, <2>1 DEF SectionOf
  <2>3. \A r \in ToSet(rows_) : Source \in DOMAIN r.locales
    BY CheckedFacts, RowValidFacts
  <2>4. Source \in LocalesOf(Source, BlocksOf(rows_), x) /\ OpenedValue(rows_, x, Source, SectionValue(Source, BlocksOf(rows_), x, Source))
    BY <2>2, <2>3, ValueOpened
  <2>5. x.id \in DOMAIN p.overlays[Source] /\ p.overlays[Source][x.id] = SectionValue(Source, BlocksOf(rows_), x, Source)
    BY <1>1, <2>2, <2>4
  <2> DEFINE w == p.overlays[Source][x.id]
  <2>6. OpenedValue(rows_, x, Source, w)
    BY <2>4, <2>5
  <2> HIDE DEF w
  <2>7. \A b \in ToSet(n.blocks) : b.id \in DOMAIN w.blocks
    <3> SUFFICES ASSUME NEW b \in ToSet(n.blocks) PROVE b.id \in DOMAIN w.blocks
      OBVIOUS
    <3>1. PICK r : Below(rows_, x, r) /\ b = BlockFrom(x, r)
      BY <2>2
    <3>2. b.id = r.id /\ r \in ToSet(rows_)
      BY <3>1 DEF BlockFrom, Below
    <3> QED BY <2>3, <2>6, <3>1, <3>2 DEF OpenedValue
  <2> QED BY <1>1, <1>3, <2>2, <2>5, <2>7 DEF w
<1>12. PageSource(q)
  BY <1>10, <1>11 DEF PageSource
<1> QED BY <1>10, <1>12 DEF o

\* A page that is opened has the shapes of the rows.
LEMMA PageOpensShapes ==
    ASSUME profile = "page", NEW rows_, NEW mode, RowsChecked(rows_, mode), NEW q, q.nodes = MaterializePageDocumentStorage(Source, rows_).nodes
    PROVE  \A x : x \in ShapesOf(q) <=> \E r \in ToSet(rows_) : x = RowShape(r)
<1>1. \A n : n \in ToSet(q.nodes) <=> \E x : SectionOf(rows_, n, x)
  BY OpenedSections
<1>2. ASSUME NEW n, NEW x, SectionOf(rows_, n, x)
      PROVE  /\ x \in ToSet(rows_) /\ n.id = x.id /\ SectionShape(n) = RowShape(x)
             /\ \A b : b \in ToSet(n.blocks) <=> \E r : Below(rows_, x, r) /\ b = BlockFrom(x, r)
             /\ \A r : Below(rows_, x, r) => BlockShape(n.id, BlockFrom(x, r)) = RowShape(r)
  <2>1. n.id = x.id /\ \A b : b \in ToSet(n.blocks) <=> \E r : Below(rows_, x, r) /\ b = BlockFrom(x, r)
    BY <1>2, OpenedBlocks
  <2>2. SectionShape(n) = RowShape(x) /\ \A r : Below(rows_, x, r) => BlockShape(n.id, BlockFrom(x, r)) = RowShape(r)
    BY <1>2, ShapesOpened
  <2> QED BY <1>2, <2>1, <2>2 DEF SectionOf
<1>3. \A y : y \in ShapesOf(q) <=> \E n \in ToSet(q.nodes) : InSection(n, y)
  BY PageShapesIn
<1>4. ASSUME NEW y \in ShapesOf(q) PROVE \E r \in ToSet(rows_) : y = RowShape(r)
  <2>1. PICK n \in ToSet(q.nodes) : InSection(n, y)
    BY <1>3, <1>4
  <2>2. PICK x : SectionOf(rows_, n, x)
    BY <1>1
  <2>3. /\ x \in ToSet(rows_) /\ n.id = x.id /\ SectionShape(n) = RowShape(x)
        /\ \A b : b \in ToSet(n.blocks) <=> \E r : Below(rows_, x, r) /\ b = BlockFrom(x, r)
        /\ \A r : Below(rows_, x, r) => BlockShape(n.id, BlockFrom(x, r)) = RowShape(r)
    BY <1>2, <2>2
  <2>4. CASE y = SectionShape(n)
    BY <2>3, <2>4
  <2>5. CASE \E b \in ToSet(n.blocks) : y = BlockShape(n.id, b)
    <3>1. PICK b \in ToSet(n.blocks) : y = BlockShape(n.id, b)
      BY <2>5
    <3>2. PICK r : Below(rows_, x, r) /\ b = BlockFrom(x, r)
      BY <2>3
    <3>3. y = RowShape(r)
      BY <2>3, <3>1, <3>2
    <3> QED BY <3>2, <3>3 DEF Below
  <2> QED BY <2>1, <2>4, <2>5 DEF InSection
<1>5. ASSUME NEW r \in ToSet(rows_) PROVE RowShape(r) \in ShapesOf(q)
  <2>1. CASE ~IsRichFamily(r)
    <3>1. SectionOf(rows_, SectionNode(BlocksOf(rows_), r), r)
      BY <2>1 DEF SectionOf
    <3> DEFINE n == SectionNode(BlocksOf(rows_), r)
    <3> HIDE DEF n
    <3>2. n \in ToSet(q.nodes) /\ SectionShape(n) = RowShape(r)
      BY <1>1, <1>2, <3>1 DEF n
    <3> QED BY <1>3, <3>2 DEF InSection
  <2>2. CASE IsRichFamily(r)
    <3>1. ShapedRows(Row, rows_) /\ Grounded(rows_) /\ r.id \in Ids(rows_)
      BY CheckedFacts, CheckedShaped
    <3>2. PICK x \in ToSet(rows_) : x.kind = "rich-text" /\ ~IsRichFamily(x) /\ x.id \in Lineage(rows_, r.id)
      BY <2>2, <3>1, BlockLineage DEF Grounded
    <3> DEFINE n == SectionNode(BlocksOf(rows_), x)
    <3>3. SectionOf(rows_, n, x) /\ Below(rows_, x, r)
      BY <2>2, <3>2 DEF SectionOf, Below
    <3> HIDE DEF n
    <3>4. n \in ToSet(q.nodes) /\ BlockFrom(x, r) \in ToSet(n.blocks) /\ BlockShape(n.id, BlockFrom(x, r)) = RowShape(r)
      BY <1>1, <1>2, <3>3
    <3> QED BY <1>3, <3>4 DEF InSection
  <2> QED BY <2>1, <2>2
<1> QED BY <1>4, <1>5

\* A page that is opened says what the rows say.
LEMMA PageOpensSays ==
    ASSUME profile = "page", NEW rows_, NEW mode, RowsChecked(rows_, mode), NEW q,
           q.overlays = InLocales(MaterializePageDocumentStorage(Source, rows_).overlays)
    PROVE  \A l, id, v : SaysOf(q, l, id, v) <=> RowSays(rows_, l, id, v)
<1> SUFFICES ASSUME NEW l, NEW id, NEW v PROVE SaysOf(q, l, id, v) <=> RowSays(rows_, l, id, v)
  OBVIOUS
<1> DEFINE p == MaterializePageDocumentStorage(Source, rows_)
<1>1. /\ \A x \in ToSet(rows_) : ~IsRichFamily(x) => \A k :
            /\ (k \in DOMAIN p.overlays /\ x.id \in DOMAIN p.overlays[k]) <=> k \in LocalesOf(Source, BlocksOf(rows_), x)
            /\ k \in LocalesOf(Source, BlocksOf(rows_), x) => p.overlays[k][x.id] = SectionValue(Source, BlocksOf(rows_), x, k)
      /\ \A k \in DOMAIN p.overlays : \A s \in DOMAIN p.overlays[k] : \E x \in ToSet(rows_) : ~IsRichFamily(x) /\ x.id = s
  BY OpenedSections
<1> HIDE DEF p
<1>2. q.overlays = InLocales(p.overlays)
  BY DEF p
<1>3. SaysOf(q, l, id, v) <=> l \in Locales /\ Says(l, v) /\ \E s : EntrySays(q.overlays[l], s, id, v)
  BY SaysByEntry
<1>4. ASSUME NEW x \in ToSet(rows_), ~IsRichFamily(x), l \in DOMAIN p.overlays, x.id \in DOMAIN p.overlays[l]
      PROVE  OpenedValue(rows_, x, l, p.overlays[l][x.id])
  BY <1>1, <1>4, ValueOpened
<1>5. ASSUME NEW x \in ToSet(rows_), ~IsRichFamily(x), l \in LocalesOf(Source, BlocksOf(rows_), x), l \in Locales
      PROVE  /\ x.id \in DOMAIN q.overlays[l] /\ q.overlays[l][x.id] = p.overlays[l][x.id]
             /\ l \in DOMAIN p.overlays /\ x.id \in DOMAIN p.overlays[l]
  BY <1>1, <1>2, <1>5 DEF InLocales
<1>6. ASSUME SaysOf(q, l, id, v) PROVE RowSays(rows_, l, id, v)
  <2>1. PICK s : EntrySays(q.overlays[l], s, id, v)
    BY <1>3, <1>6
  <2>2. l \in Locales /\ Says(l, v) /\ s \in DOMAIN q.overlays[l] /\ Holds(q.overlays[l][s], s, id, v)
    BY <1>3, <1>6, <2>1 DEF EntrySays
  <2>3. l \in DOMAIN p.overlays /\ q.overlays[l] = p.overlays[l]
    BY <1>2, <2>2 DEF InLocales, NoValues
  <2>4. PICK x \in ToSet(rows_) : ~IsRichFamily(x) /\ x.id = s
    BY <1>1, <2>2, <2>3
  <2> DEFINE w == p.overlays[l][s]
  <2>5. OpenedValue(rows_, x, l, w)
    BY <1>4, <2>2, <2>3, <2>4
  <2>6. Holds(w, s, id, v)
    BY <2>2, <2>3
  <2> HIDE DEF w
  <2>7. CASE id = s /\ v = [case |-> w.case, text |-> w.text]
    <3>1. l \in DOMAIN x.locales
      <4> SUFFICES ASSUME l \notin DOMAIN x.locales PROVE FALSE
        OBVIOUS
      <4>1. w.case = "rich-text" /\ w.text = "" /\ l # Source
        BY <2>5 DEF OpenedValue
      <4> QED BY <2>2, <2>7, <4>1 DEF Says
    <3>2. v = x.locales[l]
      BY <2>5, <2>7, <3>1 DEF OpenedValue
    <3> QED BY <2>2, <2>4, <2>7, <3>1, <3>2 DEF RowSays
  <2>8. CASE id \in DOMAIN w.blocks /\ v = w.blocks[id]
    <3>1. PICK r : Below(rows_, x, r) /\ r.id = id /\ l \in DOMAIN r.locales
      BY <2>5, <2>8 DEF OpenedValue
    <3>2. v = r.locales[l] /\ r \in ToSet(rows_)
      BY <2>5, <2>8, <3>1 DEF OpenedValue, Below
    <3> QED BY <2>2, <3>1, <3>2 DEF RowSays
  <2> QED BY <2>6, <2>7, <2>8 DEF Holds
<1>7. ASSUME RowSays(rows_, l, id, v) PROVE SaysOf(q, l, id, v)
  <2>1. PICK r \in ToSet(rows_) : r.id = id /\ l \in DOMAIN r.locales /\ v = r.locales[l]
    BY <1>7 DEF RowSays
  <2>2. r \in Row /\ r.id \in Ids(rows_) /\ Grounded(rows_) /\ ShapedRows(Row, rows_)
    BY CheckedFacts, CheckedShaped
  <2>a. r.locales \in PartialFunctions(Locales, Values)
    BY <2>2 DEF Row
  <2>3. l \in Locales /\ Says(l, v)
    BY <1>7, <2>1, <2>a, PartialFunctionOf DEF RowSays
  <2>4. CASE ~IsRichFamily(r)
    <3>1. l \in LocalesOf(Source, BlocksOf(rows_), r)
      BY <2>1, <2>4, ValueOpened
    <3>2. /\ r.id \in DOMAIN q.overlays[l] /\ q.overlays[l][r.id] = p.overlays[l][r.id]
          /\ l \in DOMAIN p.overlays /\ r.id \in DOMAIN p.overlays[l]
      BY <1>5, <2>3, <2>4, <3>1
    <3> DEFINE w == q.overlays[l][r.id]
    <3>3. OpenedValue(rows_, r, l, w)
      BY <1>4, <2>4, <3>2
    <3> HIDE DEF w
    <3>4. v = [case |-> w.case, text |-> w.text]
      BY <2>1, <3>3 DEF OpenedValue
    <3>5. EntrySays(q.overlays[l], r.id, id, v)
      BY <2>1, <3>2, <3>4 DEF EntrySays, Holds, w
    <3> QED BY <1>3, <2>3, <3>5
  <2>5. CASE IsRichFamily(r)
    <3>1. PICK x \in ToSet(rows_) : x.kind = "rich-text" /\ ~IsRichFamily(x) /\ x.id \in Lineage(rows_, r.id)
      BY <2>2, <2>5, BlockLineage DEF Grounded
    <3>2. Below(rows_, x, r)
      BY <2>5, <3>1 DEF Below
    <3>3. l \in LocalesOf(Source, BlocksOf(rows_), x)
      BY <2>1, <3>1, <3>2, ValueOpened
    <3>4. /\ x.id \in DOMAIN q.overlays[l] /\ q.overlays[l][x.id] = p.overlays[l][x.id]
          /\ l \in DOMAIN p.overlays /\ x.id \in DOMAIN p.overlays[l]
      BY <1>5, <2>3, <3>1, <3>3
    <3> DEFINE w == q.overlays[l][x.id]
    <3>5. OpenedValue(rows_, x, l, w)
      BY <1>4, <3>1, <3>4
    <3> HIDE DEF w
    <3>6. id \in DOMAIN w.blocks /\ v = w.blocks[id]
      BY <2>1, <3>2, <3>5 DEF OpenedValue
    <3>7. EntrySays(q.overlays[l], x.id, id, v)
      BY <3>4, <3>6 DEF EntrySays, Holds, w
    <3> QED BY <1>3, <2>3, <3>7
  <2> QED BY <2>4, <2>5
<1> QED BY <1>6, <1>7

\* The rows of a post that are checked one by one.
PostRows(rows_) ==
    /\ rows_ \in Seq(Row) /\ DistinctIds(rows_)
    /\ \A r \in ToSet(rows_) :
          /\ r.slot = Content /\ r.kind \in RichKinds /\ r.kind = r.shared.case
          /\ Source \in DOMAIN r.locales /\ \A l \in DOMAIN r.locales : r.locales[l].case = r.kind

\* The block of a row of a post.
LEMMA PostBlocks ==
    ASSUME NEW rows_, PostRows(rows_), NEW nodes, nodes = RichNodes(rows_)
    PROVE  /\ nodes \in Seq(Block) /\ DistinctIds(nodes)
           /\ \A n : n \in ToSet(nodes) <=> \E r \in ToSet(rows_) : n = BlockFor(r)
<1>1. rows_ \in Seq(Row) /\ DistinctIds(rows_) /\ RowSet(Row)
  BY RowIsRowSet DEF PostRows
<1> DEFINE s == InPlacementOrder(rows_)
<1>2. /\ s \in Seq(Row) /\ Len(s) = Len(rows_) /\ ToSet(s) = ToSet(rows_) /\ DistinctIds(s)
  BY <1>1, PlacementOrder
<1> HIDE DEF s
<1>3. /\ nodes \in Seq(Block) /\ DOMAIN nodes = DOMAIN s
      /\ \A k \in DOMAIN nodes : nodes[k] = BlockFor(s[k])
  BY <1>1, RichNodesTyped DEF BlockFor, s
<1>4. \A y : BlockFor(y).id = y.id
  BY DEF BlockFor
<1>5. DistinctIds(nodes)
  BY <1>2, <1>3, <1>4 DEF DistinctIds
<1>6. ASSUME NEW n \in ToSet(nodes) PROVE \E r \in ToSet(rows_) : n = BlockFor(r)
  <2>1. PICK k \in DOMAIN nodes : n = nodes[k]
    BY <1>6 DEF ToSet
  <2>2. s[k] \in ToSet(s)
    BY <1>3 DEF ToSet
  <2> QED BY <1>2, <1>3, <2>1, <2>2
<1>7. ASSUME NEW r \in ToSet(rows_) PROVE BlockFor(r) \in ToSet(nodes)
  <2>1. PICK k \in DOMAIN s : r = s[k]
    BY <1>2 DEF ToSet
  <2>2. nodes[k] \in ToSet(nodes) /\ nodes[k] = BlockFor(r)
    BY <1>3, <2>1 DEF ToSet
  <2> QED BY <2>2
<1> QED BY <1>3, <1>5, <1>6, <1>7

\* A post that is opened, in the locales of the service.
LEMMA PostOpens ==
    ASSUME profile = "post", NEW rows_, PostRows(rows_), NEW q,
           q = [nodes |-> RichNodes(rows_), overlays |-> InLocales(RichOverlays(Source, rows_))]
    PROVE  PostDocument(q) /\ PostSource(q) /\ SaysTheRows(q, rows_)
<1>1. /\ q.nodes \in Seq(Block) /\ DistinctIds(q.nodes)
      /\ \A n : n \in ToSet(q.nodes) <=> \E r \in ToSet(rows_) : n = BlockFor(r)
  BY PostBlocks
<1>2. /\ rows_ \in Seq(Row) /\ DistinctIds(rows_)
      /\ \A r \in ToSet(rows_) : /\ r \in Row /\ r.slot = Content /\ r.kind \in RichKinds /\ r.kind = r.shared.case
                                 /\ Source \in DOMAIN r.locales /\ \A l \in DOMAIN r.locales : r.locales[l].case = r.kind
  BY SequenceElements DEF PostRows
<1>3. \A y : BlockFor(y).id = y.id /\ BlockFor(y).shared = y.shared
  BY DEF BlockFor
<1> DEFINE o == RichOverlays(Source, rows_)
<1>4. /\ o \in PartialFunctions(Locales, BlockValues)
      /\ DOMAIN o = RowLocales(rows_) \cup {Source}
      /\ \A l \in DOMAIN o : /\ DOMAIN o[l] = IdsIn(rows_, l)
                             /\ \A id \in IdsIn(rows_, l) : o[l][id] = RowOf(rows_, id).locales[l]
  BY <1>2, RichOverlaysTyped
<1>5. \A r \in ToSet(rows_) : \A l \in DOMAIN r.locales : l \in RowLocales(rows_)
  BY DEF RowLocales, ToSet
<1> HIDE DEF o
<1>6. /\ DOMAIN o \subseteq Locales /\ \A l \in DOMAIN o : o[l] \in BlockValues
  BY <1>4, PartialFunctionOf
<1>7. q.overlays = [l \in Locales |-> IF l \in DOMAIN o THEN o[l] ELSE NoValues]
  BY DEF InLocales, o
<1>8. q.overlays \in [Locales -> BlockValues]
  BY <1>6, <1>7, NoValuesTyped
<1>9. ASSUME NEW l \in Locales, NEW id
      PROVE  id \in DOMAIN q.overlays[l] <=> \E r \in ToSet(rows_) : r.id = id /\ l \in DOMAIN r.locales
  <2>1. id \in IdsIn(rows_, l) <=> \E r \in ToSet(rows_) : r.id = id /\ l \in DOMAIN r.locales
    BY IdsInLocale
  <2>2. CASE l \in DOMAIN o
    BY <1>4, <1>7, <2>1, <2>2
  <2>3. CASE l \notin DOMAIN o
    BY <1>4, <1>5, <1>7, <2>3 DEF NoValues
  <2> QED BY <2>2, <2>3
<1>10. ASSUME NEW r \in ToSet(rows_), NEW l \in DOMAIN r.locales PROVE l \in Locales /\ q.overlays[l][r.id] = r.locales[l]
  <2>1. l \in DOMAIN o /\ r.id \in IdsIn(rows_, l)
    BY <1>4, <1>5, IdsInLocale
  <2>2. RowOf(rows_, r.id) = r
    BY <1>2, RowOfRow
  <2> QED BY <1>4, <1>6, <1>7, <2>1, <2>2
<1>11. \A n \in ToSet(q.nodes) : n.id \in Uuid /\ n.shared.case \in RichKinds
  BY <1>1, <1>2, <1>3 DEF Row
<1>12. ASSUME NEW l \in Locales, NEW id \in DOMAIN q.overlays[l]
       PROVE  \E n \in ToSet(q.nodes) : n.id = id /\ q.overlays[l][id].case = n.shared.case
  <2>1. PICK r \in ToSet(rows_) : r.id = id /\ l \in DOMAIN r.locales
    BY <1>9
  <2>2. BlockFor(r) \in ToSet(q.nodes) /\ BlockFor(r).id = id /\ BlockFor(r).shared.case = r.kind
    BY <1>1, <1>2, <1>3, <2>1
  <2>3. q.overlays[l][id].case = r.kind
    BY <1>2, <1>10, <2>1
  <2> QED BY <2>2, <2>3
<1>13. PostDocument(q)
  BY <1>1, <1>8, <1>11, <1>12 DEF PostDocument
<1>14. PostSource(q)
  <2> SUFFICES ASSUME NEW n \in ToSet(q.nodes) PROVE n.id \in DOMAIN q.overlays[Source]
    BY DEF PostSource
  <2>1. PICK r \in ToSet(rows_) : n = BlockFor(r)
    BY <1>1
  <2>2. Source \in Locales
    BY DEF Locales
  <2> QED BY <1>2, <1>3, <1>9, <2>1, <2>2
<1>15. ASSUME NEW r \in ToSet(rows_) PROVE BlockShape(0, BlockFor(r)) = RowShape(r)
  <2>1. r \in Row /\ r.slot = Content /\ r.kind = r.shared.case
    BY <1>2
  <2>2. r.pos \in Int32
    BY <2>1 DEF Row
  <2>3. int32(uint32(r.pos)) = r.pos
    BY <2>2, Conversions
  <2>4. (IF r.parent = 0 THEN 0 ELSE r.parent) = r.parent
    OBVIOUS
  <2> QED BY <2>1, <2>3, <2>4 DEF BlockShape, RowShape, BlockFor
<1>16. ASSUME NEW x PROVE x \in ShapesOf(q) <=> \E r \in ToSet(rows_) : x = RowShape(r)
  <2>1. x \in ShapesOf(q) <=> \E n \in ToSet(q.nodes) : x = BlockShape(0, n)
    BY ShapesElements DEF ShapesOf
  <2> QED BY <1>1, <1>15, <2>1
<1>17. ASSUME NEW l, NEW id, NEW v PROVE SaysOf(q, l, id, v) <=> RowSays(rows_, l, id, v)
  <2>1. SaysOf(q, l, id, v) <=> l \in Locales /\ Says(l, v) /\ id \in DOMAIN q.overlays[l] /\ v = q.overlays[l][id]
    BY DEF SaysOf, PostSays
  <2> QED BY <1>9, <1>10, <2>1 DEF RowSays
<1> QED BY <1>13, <1>14, <1>16, <1>17 DEF SaysTheRows

(***************************************************************************)
(* Opening the stored rows.                                                *)
(***************************************************************************)
OpenedDocument ==
    LET opened == MaterializeDocument(profile, rows)
    IN [opened EXCEPT !.overlays = InLocales(opened.overlays)]

\* Rows of a page that are checked are in place.
LEMMA CheckedInPlace ==
    ASSUME profile = "page", rows \in Seq(PageRow), Checked(rows)
    PROVE  RowsInPlace(rows, "WRITE") /\ \A x \in ToSet(rows) : x.slot = Content => x.parent # 0
<1>1. \A x \in ToSet(rows) : x \in PageRow
  BY SequenceElements
<1>2. \A x \in ToSet(rows) : x \in Row /\ (x.slot = Content => x.parent # 0)
  BY <1>1 DEF PageRow, InPage
<1>3. rows \in Seq(Row)
  BY <1>2, Narrowed
<1>4. Tree(rows) /\ ParentChecked("page", rows) /\ \A i \in DOMAIN rows : RowValid(Source, "page", rows[i], "WRITE")
  BY DEF Checked
<1>5. ASSUME NEW x \in ToSet(rows) PROVE RowValid(Source, "page", x, "WRITE") /\ (x.slot = Content => x.kind \in RichKinds)
  <2>1. PICK i \in DOMAIN rows : x = rows[i]
    BY DEF ToSet
  <2>2. \E parent : ValidateContentStorageParent("page", parent, x) /\ (parent = {} \/ \E r : parent = {r})
    BY <1>4, <2>1 DEF ParentChecked
  <2>3. PICK parent : ValidateContentStorageParent("page", parent, x) /\ (parent = {} \/ \E r : parent = {r})
    BY <2>2
  <2>4. ASSUME x.slot = Content PROVE x.kind \in RichKinds
    <3>1. CASE x.kind \in PageKinds
      BY <2>3, <2>4, <3>1, SlotsDiffer DEF ValidateContentStorageParent
    <3>2. CASE x.kind \notin PageKinds
      BY <2>3, <3>2 DEF ValidateContentStorageParent
    <3> QED BY <3>1, <3>2
  <2> QED BY <1>4, <2>1, <2>4
<1>6. \A x \in ToSet(rows) : RowValid(Source, "page", x, "RESTORE_SNAPSHOT")
  BY <1>5, RowValidParts
<1>7. StoredRows(rows)
  BY <1>2, <1>3, <1>5, <1>6 DEF StoredRows, StoredRow
<1> QED BY <1>2, <1>4, <1>5, <1>7 DEF RowsInPlace

\* Rows of a post that are checked are those of its blocks.
LEMMA CheckedPost ==
    ASSUME profile = "post", rows \in Seq(PageRow), Checked(rows)
    PROVE  PostRows(rows)
<1>1. \A x \in ToSet(rows) : x \in Row
  BY SequenceElements DEF PageRow
<1>2. rows \in Seq(Row)
  BY <1>1, Narrowed
<1>3. Tree(rows) /\ ParentChecked("post", rows) /\ \A i \in DOMAIN rows : RowValid(Source, "post", rows[i], "WRITE")
  BY DEF Checked
<1>4. DistinctIds(rows)
  BY <1>2, <1>3, UniqueIdsDistinct DEF Tree
<1>5. ASSUME NEW x \in ToSet(rows)
      PROVE  /\ x.slot = Content /\ x.kind \in RichKinds /\ x.kind = x.shared.case
             /\ Source \in DOMAIN x.locales /\ \A l \in DOMAIN x.locales : x.locales[l].case = x.kind
  <2>1. PICK i \in DOMAIN rows : x = rows[i]
    BY DEF ToSet
  <2>2. \E parent : ValidateContentStorageParent("post", parent, x)
    BY <1>3, <2>1 DEF ParentChecked
  <2>3. x.slot = Content /\ x.kind \in RichKinds
    BY <2>2 DEF ValidateContentStorageParent
  <2>4. RowValid(Source, "post", x, "WRITE")
    BY <1>3, <2>1
  <2> QED BY <2>3, <2>4 DEF RowValid, NormalizeContentStorageShared, NormalizeContentStorageLocale
<1> QED BY <1>2, <1>4, <1>5 DEF PostRows

\* What is stored is opened as a document that says what the rows say.
LEMMA Opened ==
    ASSUME profile \in DOMAIN Forms, rows \in Seq(PageRow), Checked(rows), MaterializeDocumentAccepts(profile, rows)
    PROVE  Document(OpenedDocument) /\ SaysTheRows(OpenedDocument, rows)
<1>1. profile = "page" \/ profile = "post"
  BY FormsAssumption
<1>2. CASE profile = "page"
  <2>1. RowsInPlace(rows, "WRITE") /\ \A x \in ToSet(rows) : x.slot = Content => x.parent # 0
    BY <1>2, CheckedInPlace
  <2>2. MaterializePageDocumentStorageAccepts(Source, rows)
    BY <1>2 DEF MaterializeDocumentAccepts
  <2>3. RowsChecked(rows, "WRITE")
    BY <2>1, <2>2, OpenedChecked
  <2> DEFINE p == MaterializePageDocumentStorage(Source, rows)
             q == [p EXCEPT !.overlays = InLocales(p.overlays)]
  <2>4. OpenedDocument = q
    BY <1>2 DEF OpenedDocument, MaterializeDocument
  <2> HIDE DEF q
  <2>5. PageDocument(q) /\ PageSource(q) /\ q.nodes = p.nodes /\ q.overlays = InLocales(p.overlays)
    BY <2>3, PageOpens DEF q
  <2>6. \A x : x \in ShapesOf(q) <=> \E r \in ToSet(rows) : x = RowShape(r)
    BY <1>2, <2>3, <2>5, PageOpensShapes
  <2>7. \A l, id, v : SaysOf(q, l, id, v) <=> RowSays(rows, l, id, v)
    BY <1>2, <2>3, <2>5, PageOpensSays
  <2> QED BY <1>2, <2>4, <2>5, <2>6, <2>7 DEF Document, SaysTheRows
<1>3. CASE profile = "post"
  <2>1. PostRows(rows)
    BY <1>3, CheckedPost
  <2>2. OpenedDocument = [nodes |-> RichNodes(rows), overlays |-> InLocales(RichOverlays(Source, rows))]
    BY <1>3 DEF OpenedDocument, MaterializeDocument
  <2>3. PostDocument(OpenedDocument) /\ PostSource(OpenedDocument) /\ SaysTheRows(OpenedDocument, rows)
    BY <1>3, <2>1, <2>2, PostOpens
  <2> QED BY <1>3, <2>3 DEF Document
<1> QED BY <1>1, <1>2, <1>3

\* There is nothing in an empty document.
LEMMA NothingOpened ==
    ASSUME profile \in DOMAIN Forms
    PROVE  Document(EmptyPage) /\ SaysTheRows(EmptyPage, <<>>)
<1>1. profile = "page" \/ profile = "post"
  BY FormsAssumption
<1> DEFINE o == [l \in Locales |-> NoValues]
<1>2. EmptyPage = [nodes |-> <<>>, overlays |-> o]
  BY DEF EmptyPage
<1>3. /\ o = [l \in Locales |-> o[l]] /\ \A l \in Locales : o[l] = NoValues
      /\ o \in [Locales -> BlockValues]
  BY NoValuesTyped
<1>4. DOMAIN NoValues = {}
  BY DEF NoValues
<1>5. ToSet(<<>>) = {} /\ DistinctIds(<<>>)
  BY DEF ToSet, DistinctIds
<1> HIDE DEF o
<1>6. Fitting(<<>>, o)
  BY <1>3, <1>4, <1>5, NoValuesTyped DEF Fitting, Apart
<1>7. PageDocument(EmptyPage) /\ EmptyPage.nodes = <<>> /\ EmptyPage.overlays = o
  BY <1>2, <1>6, PageBuilt
<1>8. PostDocument(EmptyPage)
  BY <1>2, <1>3, <1>4, <1>5 DEF PostDocument
<1>9. PageSource(EmptyPage) /\ PostSource(EmptyPage)
  BY <1>5, <1>7 DEF PageSource, PostSource
<1>10. \A x : x \notin PageShapes(EmptyPage) /\ x \notin PostShapes(EmptyPage)
  BY <1>5, <1>7, ShapesElements
<1>11. \A x : x \notin ShapesOf(EmptyPage)
  BY <1>10 DEF ShapesOf
<1>12. \A l, id, v : ~PageSays(EmptyPage, l, id, v) /\ ~PostSays(EmptyPage, l, id, v)
  BY <1>3, <1>4, <1>7 DEF PageSays, PostSays
<1>13. \A l, id, v : ~SaysOf(EmptyPage, l, id, v) /\ ~RowSays(<<>>, l, id, v)
  BY <1>5, <1>12 DEF SaysOf, RowSays
<1> QED BY <1>1, <1>5, <1>7, <1>8, <1>9, <1>11, <1>13 DEF Document, SaysTheRows

(***************************************************************************)
(* What the edits make, step by step.                                      *)
(***************************************************************************)

\* Only the document and the mutations of the editor change.
OnlyOf(e) ==
    /\ DOMAIN page' = DOMAIN page /\ DOMAIN made' = DOMAIN made
    /\ \A f \in Editors : f # e => page'[f] = page[f] /\ made'[f] = made[f]
    /\ UNCHANGED <<profile, rows, revision, base>>

\* An editor with its document and what it has made of it.
Holding(e) ==
    /\ e \in Editors /\ DOMAIN page = Editors /\ DOMAIN made = Editors
    /\ Document(page[e]) /\ EditsTyped(made[e])

UpsertMade(section, node) == [op |-> "upsert", section |-> section, node |-> node]

\* What an insertion makes.
LEMMA InsertMade ==
    ASSUME profile \in DOMAIN Forms, NEW e, Holding(e), NEW section, NEW node,
           node \in IF profile = "page" /\ section = 0 THEN SectionNodes ELSE BlockNodes,
           Insert(e, section, node)
    PROVE  /\ OnlyOf(e) /\ Document(page'[e])
           /\ Inserted(page[e], page'[e], ShapeAt(section, node), FirstValue(node))
           /\ UpsertMade(section, node) \in BaseMutations /\ FirstMade(node) \in ValueMutations
           /\ made'[e] = [base |-> Append(made[e].base, UpsertMade(section, node)),
                          groups |-> InGroup(made[e].groups, Source, FirstMade(node))]
<1> DEFINE q == WithValue(WithLevel(page[e], section, Append(Level(page[e], section), node)), Source, section, node.id, FirstValue(node))
           more == [base |-> Append(made[e].base, UpsertMade(section, node)),
                    groups |-> InGroup(made[e].groups, Source, FirstMade(node))]
<1>1. /\ e \in Editors /\ DOMAIN page = Editors /\ DOMAIN made = Editors /\ Document(page[e]) /\ EditsTyped(made[e])
      /\ profile \in {"page", "post"}
  BY FormsAssumption DEF Holding
<1>2. made[e] = [base |-> made[e].base, groups |-> made[e].groups]
  BY <1>1, EditParts
<1>3. page' = [page EXCEPT ![e] = q]
  BY DEF Insert, FirstValue
<1>4. made' = [made EXCEPT ![e].base = Append(@, UpsertMade(section, node)), ![e].groups = InGroup(@, Source, FirstMade(node))]
  BY DEF Insert, FirstValue, FirstMade, UpsertMade
<1>5. /\ section # 0 => \E i \in Ranks(page[e], section) : page[e].nodes[i].shared.case = "rich-text"
      /\ node.id \notin AllIds(page[e])
      /\ UNCHANGED <<profile, rows, revision, base>>
  BY DEF Insert
<1>6. Document(q) /\ Inserted(page[e], q, ShapeAt(section, node), FirstValue(node))
      /\ section \in Uuid \cup {0} /\ (profile = "post" => section = 0)
  BY <1>1, <1>5, InsertEffect
<1>7. section \in Places /\ node \in NodesAt(section)
  BY <1>1, <1>6 DEF Places, NodesAt
<1>8. UpsertMade(section, node) \in BaseMutations
  BY <1>7 DEF BaseMutations, UpsertMutations, UpsertMade
<1>9. node.id \in Uuid /\ node.shared.case \in PageKinds \cup RichKinds
  BY <1>1, <1>7, NewNodes DEF NodesAt
<1>10. FirstMade(node) \in ValueMutations
  BY <1>9 DEF FirstMade, FirstValue, ValueMutations, Values, Texts
<1> HIDE DEF q
<1>11. page'[e] = q /\ DOMAIN page' = DOMAIN page /\ \A f \in Editors : f # e => page'[f] = page[f]
  BY <1>1, <1>3
<1>12. made'[e] = more /\ DOMAIN made' = DOMAIN made /\ \A f \in Editors : f # e => made'[f] = made[f]
  BY <1>1, <1>2, <1>4
<1> QED BY <1>5, <1>6, <1>8, <1>10, <1>11, <1>12 DEF OnlyOf

MoveMade(section, id, parent, column, index) ==
    [op |-> "move", section |-> section, id |-> id, parent |-> parent, column |-> column, index |-> index]

\* What a move makes.
LEMMA MoveMakes ==
    ASSUME profile \in DOMAIN Forms, NEW e, Holding(e), NEW section \in Uuid \cup {0}, NEW id \in Uuid,
           NEW parent \in Uuid \cup {0}, NEW column \in Columns \cup {0}, NEW index \in UInt32,
           Move(e, section, id, parent, column, index),
           NEW m, m = MoveMade(section, id, parent, column, index)
    PROVE  /\ OnlyOf(e) /\ Document(page'[e])
           /\ Relocated(page[e], page'[e], id, PlaceAt(section, parent, column, index))
           /\ m \in BaseMutations /\ made'[e] = [base |-> Append(made[e].base, m), groups |-> made[e].groups]
<1> DEFINE q == WithLevel(page[e], section, MovedOn(Level(page[e], section), section, id, parent, column, index))
           more == [base |-> Append(made[e].base, m), groups |-> made[e].groups]
<1>1. /\ e \in Editors /\ DOMAIN page = Editors /\ DOMAIN made = Editors /\ Document(page[e]) /\ EditsTyped(made[e])
      /\ profile \in {"page", "post"}
  BY FormsAssumption DEF Holding
<1>2. made[e] = [base |-> made[e].base, groups |-> made[e].groups]
  BY <1>1, EditParts
<1>3. page' = [page EXCEPT ![e] = q]
  <2>1. page' = [page EXCEPT ![e] = WithLevel(@, section, Each(Level(@, section), LAMBDA n : IF n.id = id
                   THEN (IF profile = "page" /\ section = 0
                         THEN [n EXCEPT !.parent = parent, !.column = column, !.index = index]
                         ELSE [n EXCEPT !.parent = parent, !.index = index]) ELSE n))]
    BY DEF Move
  <2> QED BY <2>1 DEF Each, MovedOn, MovedTo
<1>4. made' = [made EXCEPT ![e].base = Append(@, m)]
  BY DEF Move, MoveMade
<1>5. Placed(page[e], section, id) /\ UNCHANGED <<profile, rows, revision, base>>
  BY DEF Move
<1>6. /\ Document(q) /\ Relocated(page[e], q, id, PlaceAt(section, parent, column, index))
      /\ profile = "post" => section = 0
  BY <1>1, <1>5, MoveEffect
<1>7. m \in BaseMutations
  BY <1>1, <1>6 DEF BaseMutations, MoveMutations, MoveMade, Places
<1> HIDE DEF q
<1>8. page'[e] = q /\ DOMAIN page' = DOMAIN page /\ \A f \in Editors : f # e => page'[f] = page[f]
  BY <1>1, <1>3
<1>9. made'[e] = more /\ DOMAIN made' = DOMAIN made /\ \A f \in Editors : f # e => made'[f] = made[f]
  BY <1>1, <1>2, <1>4
<1> QED BY <1>5, <1>6, <1>7, <1>8, <1>9 DEF OnlyOf

DeleteMade(section, id) == [op |-> "delete", section |-> section, id |-> id]

\* What a delete makes.
LEMMA DeleteMakes ==
    ASSUME profile \in DOMAIN Forms, NEW e, Holding(e), NEW section \in Uuid \cup {0}, NEW id \in Uuid, Delete(e, section, id),
           NEW m, m = DeleteMade(section, id)
    PROVE  /\ OnlyOf(e) /\ Document(page'[e]) /\ Removed(page[e], page'[e], id)
           /\ m \in BaseMutations /\ made'[e] = [base |-> Append(made[e].base, m), groups |-> made[e].groups]
<1> DEFINE q == Cleared(WithLevel(page[e], section, LeftOf(Level(page[e], section), id)), section, id)
           more == [base |-> Append(made[e].base, m), groups |-> made[e].groups]
<1>1. /\ e \in Editors /\ DOMAIN page = Editors /\ DOMAIN made = Editors /\ Document(page[e]) /\ EditsTyped(made[e])
      /\ profile \in {"page", "post"}
  BY FormsAssumption DEF Holding
<1>2. made[e] = [base |-> made[e].base, groups |-> made[e].groups]
  BY <1>1, EditParts
<1>3. page' = [page EXCEPT ![e] = q]
  BY DEF Delete, Cleared, LeftOf
<1>4. made' = [made EXCEPT ![e].base = Append(@, m)]
  BY DEF Delete, DeleteMade
<1>5. /\ Placed(page[e], section, id) /\ (section = 0 => Blocks(page[e], id) = <<>>)
      /\ UNCHANGED <<profile, rows, revision, base>>
  BY DEF Delete
<1>6. Document(q) /\ Removed(page[e], q, id) /\ (profile = "post" => section = 0)
  BY <1>1, <1>5, DeleteEffect
<1>7. m \in BaseMutations
  BY <1>1, <1>6 DEF BaseMutations, DeleteMutations, DeleteMade, Places
<1> HIDE DEF q
<1>8. page'[e] = q /\ DOMAIN page' = DOMAIN page /\ \A f \in Editors : f # e => page'[f] = page[f]
  BY <1>1, <1>3
<1>9. made'[e] = more /\ DOMAIN made' = DOMAIN made /\ \A f \in Editors : f # e => made'[f] = made[f]
  BY <1>1, <1>2, <1>4
<1> QED BY <1>5, <1>6, <1>7, <1>8, <1>9 DEF OnlyOf

\* What a translation makes.
LEMMA TranslateMakes ==
    ASSUME profile \in DOMAIN Forms, NEW e, Holding(e), NEW l \in Locales, NEW section, NEW id \in Uuid, Translate(e, l, section, id),
           NEW value, value = [case |-> KindAt(page[e], section, id), text |-> "new"],
           NEW v, v = [op |-> "upsert", id |-> id, value |-> value]
    PROVE  /\ OnlyOf(e) /\ Document(page'[e]) /\ Given(page[e], page'[e], l, id, value)
           /\ \E x \in ShapesOf(page[e]) : x.id = id /\ x.kind = value.case
           /\ v \in ValueMutations /\ made'[e] = [base |-> made[e].base, groups |-> InGroup(made[e].groups, l, v)]
<1> DEFINE q == WithValue(page[e], l, section, id, value)
           more == [base |-> made[e].base, groups |-> InGroup(made[e].groups, l, v)]
<1>1. /\ e \in Editors /\ DOMAIN page = Editors /\ DOMAIN made = Editors /\ Document(page[e]) /\ EditsTyped(made[e])
      /\ profile \in {"page", "post"}
  BY FormsAssumption DEF Holding
<1>2. made[e] = [base |-> made[e].base, groups |-> made[e].groups]
  BY <1>1, EditParts
<1>3. page' = [page EXCEPT ![e] = q]
  BY DEF Translate
<1>4. made' = [made EXCEPT ![e].groups = InGroup(@, l, v)]
  BY DEF Translate
<1>5. Placed(page[e], section, id) /\ UNCHANGED <<profile, rows, revision, base>>
  BY DEF Translate
<1>6. /\ Document(q) /\ Given(page[e], q, l, id, value) /\ value \in Values
      /\ \E x \in ShapesOf(page[e]) : x.id = id /\ x.kind = value.case
  BY <1>1, <1>5, TranslateEffect
<1>7. v \in ValueMutations
  BY <1>6 DEF ValueMutations
<1> HIDE DEF q
<1>8. page'[e] = q /\ DOMAIN page' = DOMAIN page /\ \A f \in Editors : f # e => page'[f] = page[f]
  BY <1>1, <1>3
<1>9. made'[e] = more /\ DOMAIN made' = DOMAIN made /\ \A f \in Editors : f # e => made'[f] = made[f]
  BY <1>1, <1>2, <1>4
<1> QED BY <1>5, <1>6, <1>7, <1>8, <1>9 DEF OnlyOf

\* What the removal of a translation makes.
LEMMA RemovalMakes ==
    ASSUME profile \in DOMAIN Forms, NEW e, Holding(e), NEW l \in OtherLocales, NEW section, NEW id \in Uuid,
           RemoveTranslation(e, l, section, id), NEW v, v = [op |-> "delete", id |-> id]
    PROVE  /\ OnlyOf(e) /\ Document(page'[e]) /\ Taken(page[e], page'[e], l, id)
           /\ \E x \in ShapesOf(page[e]) : x.id = id
           /\ v \in ValueMutations /\ made'[e] = [base |-> made[e].base, groups |-> InGroup(made[e].groups, l, v)]
<1> DEFINE q == WithoutValue(page[e], l, section, id)
           more == [base |-> made[e].base, groups |-> InGroup(made[e].groups, l, v)]
<1>1. /\ e \in Editors /\ DOMAIN page = Editors /\ DOMAIN made = Editors /\ Document(page[e]) /\ EditsTyped(made[e])
      /\ l \in Locales \ {Source}
  BY LocalesAssumption DEF Holding, Locales
<1>2. made[e] = [base |-> made[e].base, groups |-> made[e].groups]
  BY <1>1, EditParts
<1>3. page' = [page EXCEPT ![e] = q]
  BY DEF RemoveTranslation
<1>4. made' = [made EXCEPT ![e].groups = InGroup(@, l, v)]
  BY DEF RemoveTranslation
<1>5. Placed(page[e], section, id) /\ UNCHANGED <<profile, rows, revision, base>>
  BY DEF RemoveTranslation
<1>6. /\ Document(q) /\ Taken(page[e], q, l, id) /\ \E x \in ShapesOf(page[e]) : x.id = id
  BY <1>1, <1>5, RemoveEffect
<1>7. v \in ValueMutations
  BY DEF ValueMutations
<1> HIDE DEF q
<1>8. page'[e] = q /\ DOMAIN page' = DOMAIN page /\ \A f \in Editors : f # e => page'[f] = page[f]
  BY <1>1, <1>3
<1>9. made'[e] = more /\ DOMAIN made' = DOMAIN made /\ \A f \in Editors : f # e => made'[f] = made[f]
  BY <1>1, <1>2, <1>4
<1> QED BY <1>5, <1>6, <1>7, <1>8, <1>9 DEF OnlyOf

EditorTyped(e) ==
    /\ Document(page[e])
    /\ EditsTyped(made[e]) /\ IsFiniteSet(Pairs(made[e].groups)) /\ EditCount(made[e]) <= MaxEdits + 1

(***************************************************************************)
(* The rows are checked rows, what an editor holds is a document, and what *)
(* it has made can be sent.                                                *)
(***************************************************************************)
EditingInvariant ==
    /\ profile \in DOMAIN Forms
    /\ revision \in 0..MaxRevision
    /\ rows \in Seq(PageRow) /\ Checked(rows)
    /\ DOMAIN page = Editors /\ DOMAIN base = Editors /\ DOMAIN made = Editors
    /\ \A e \in Editors : base[e] \in 0..revision /\ EditorTyped(e)

\* Nothing but the profile decides what documents, rows and mutations are.
LEMMA SameKinds ==
    ASSUME profile' = profile
    PROVE  PageRow' = PageRow /\ BaseMutations' = BaseMutations
  BY DEF PageRow, InPage, BaseMutations, UpsertMutations, DeleteMutations, MoveMutations, Places, NodesAt, SectionNodes, BlockNodes

\* So what is true of the next rows, documents and mutations is true in the next state.
LEMMA TypedNext ==
    ASSUME profile' = profile
    PROVE  /\ rows' \in Seq(PageRow) => (rows \in Seq(PageRow))'
           /\ Checked(rows') => Checked(rows)'
           /\ \A e \in Editors : Document(page'[e]) => Document(page[e])'
           /\ \A e \in Editors : EditsTyped(made'[e]) => EditsTyped(made[e])'
<1>1. rows' \in Seq(PageRow) => (rows \in Seq(PageRow))'
  BY SameKinds
<1>2. Checked(rows') => Checked(rows)'
  BY DEF Checked
<1>3. \A e \in Editors : Document(page'[e]) => Document(page[e])'
  BY DEF Document
<1>4. \A e \in Editors : EditsTyped(made'[e]) => EditsTyped(made[e])'
  BY SameKinds DEF EditsTyped
<1> QED BY <1>1, <1>2, <1>3, <1>4

\* At first there is nothing.
LEMMA EditingStarts == Init => EditingInvariant
<1> SUFFICES ASSUME Init PROVE EditingInvariant
  OBVIOUS
<1>1. /\ profile \in DOMAIN Forms /\ rows = <<>> /\ revision = 0
      /\ page = [e \in Editors |-> EmptyPage] /\ base = [e \in Editors |-> 0] /\ made = [e \in Editors |-> NoEdits]
  BY DEF Init
<1>2. Ids(rows) = {} /\ rows \in Seq(PageRow) /\ DOMAIN rows = {}
  BY <1>1 DEF Ids
<1>3. Checked(rows)
  <2>1. UniqueIds(rows)
    BY <1>1, <1>2, FS_EmptySet DEF UniqueIds
  <2> QED BY <1>2, <2>1 DEF Checked, Tree, Grounded, ParentChecked
<1>4. Document(EmptyPage)
  BY <1>1, NothingOpened
<1>5. EditsTyped(NoEdits) /\ IsFiniteSet(Pairs(NoEdits.groups)) /\ EditCount(NoEdits) <= MaxEdits + 1
  BY NothingMade, EditingBoundsAssumption
<1>6. revision \in 0..MaxRevision /\ \A e \in Editors : base[e] \in 0..revision
  BY <1>1, EditingBoundsAssumption
<1> QED BY <1>1, <1>2, <1>3, <1>4, <1>5, <1>6 DEF EditingInvariant, EditorTyped

\* What an editor has made is counted.
LEMMA EditsCounted ==
    ASSUME NEW e, EditsTyped(made[e]), IsFiniteSet(Pairs(made[e].groups))
    PROVE  Mutations(e) = EditCount(made[e]) /\ EditCount(made[e]) \in Nat
<1>1. made[e].base \in Seq(BaseMutations)
  BY EditParts
<1>2. Len(made[e].base) \in Nat /\ Cardinality(Pairs(made[e].groups)) \in Nat
  BY <1>1, FS_CardinalityType
<1> QED BY <1>2 DEF Mutations, EditCount, Pairs

\* An edit leaves the editor with a document, and what it has made can be sent.
LEMMA EditedTyped ==
    ASSUME EditingInvariant, NEW e \in Editors, OnlyOf(e), Mutations(e) < MaxEdits, Document(page'[e]),
           NEW k \in {1, 2}, Longer(made[e], made'[e], k)
    PROVE  EditingInvariant'
<1>1. /\ profile \in DOMAIN Forms /\ revision \in 0..MaxRevision /\ rows \in Seq(PageRow) /\ Checked(rows)
      /\ DOMAIN page = Editors /\ DOMAIN base = Editors /\ DOMAIN made = Editors
      /\ \A f \in Editors : base[f] \in 0..revision
      /\ \A f \in Editors : Document(page[f]) /\ EditsTyped(made[f]) /\ IsFiniteSet(Pairs(made[f].groups))
                            /\ EditCount(made[f]) <= MaxEdits + 1
  BY DEF EditingInvariant, EditorTyped
<1>2. /\ profile' = profile /\ rows' = rows /\ revision' = revision /\ base' = base
      /\ DOMAIN page' = DOMAIN page /\ DOMAIN made' = DOMAIN made
      /\ \A f \in Editors : f # e => page'[f] = page[f] /\ made'[f] = made[f]
  BY DEF OnlyOf
<1>3. /\ EditsTyped(made'[e]) /\ IsFiniteSet(Pairs(made'[e].groups)) /\ EditCount(made'[e]) <= MaxEdits + 1
  <2>1. Mutations(e) = EditCount(made[e]) /\ EditCount(made[e]) \in Nat
    BY <1>1, EditsCounted
  <2>2. EditsTyped(made'[e]) /\ IsFiniteSet(Pairs(made'[e].groups)) /\ EditCount(made'[e]) = EditCount(made[e]) + k
    BY <1>1 DEF Longer
  <2> QED BY <2>1, <2>2, EditingBoundsAssumption
<1>4. \A f \in Editors : /\ Document(page'[f]) /\ EditsTyped(made'[f]) /\ IsFiniteSet(Pairs(made'[f].groups))
                         /\ EditCount(made'[f]) <= MaxEdits + 1
  BY <1>1, <1>2, <1>3
<1>5. (rows \in Seq(PageRow))' /\ Checked(rows)'
  BY <1>1, <1>2, TypedNext
<1>6. \A f \in Editors : Document(page[f])' /\ EditsTyped(made[f])'
  BY <1>2, <1>4, TypedNext
<1> QED BY <1>1, <1>2, <1>4, <1>5, <1>6 DEF EditingInvariant, EditorTyped

(***************************************************************************)
(* The edits, with what their parameters are.                              *)
(***************************************************************************)
Inserts(e) ==
    \E section, node : /\ node \in IF profile = "page" /\ section = 0 THEN SectionNodes ELSE BlockNodes
                       /\ Insert(e, section, node)
Moves(e) ==
    \E section \in Uuid \cup {0}, id \in Uuid, parent \in Uuid \cup {0}, column \in Columns \cup {0}, index \in UInt32 :
        Move(e, section, id, parent, column, index)
Deletes(e) == \E section \in Uuid \cup {0}, id \in Uuid : Delete(e, section, id)
Translates(e) == \E l \in Locales, section \in Uuid \cup {0}, id \in Uuid : Translate(e, l, section, id)
Removes(e) == \E l \in OtherLocales, section \in Uuid \cup {0}, id \in Uuid : RemoveTranslation(e, l, section, id)

\* There are no others.
LEMMA EditSorts ==
    ASSUME EditingInvariant, NEW e \in Editors, Edit(e)
    PROVE  Inserts(e) \/ Moves(e) \/ Deletes(e) \/ Translates(e) \/ Removes(e)
<1>1. profile \in DOMAIN Forms /\ Holding(e)
  BY DEF EditingInvariant, EditorTyped, Holding
<1>2. Forms[profile].indexes \subseteq UInt32 /\ Forms[profile].locales \subseteq OtherLocales /\ OtherLocales \subseteq Locales
      /\ Source \in Locales /\ profile \in {"page", "post"}
  BY <1>1, FormsAssumption DEF Locales
<1>3. CASE \E node \in IF profile = "page" THEN SectionNodes ELSE BlockNodes : Insert(e, 0, node)
  BY <1>3 DEF Inserts
<1>4. CASE \E section \in Ids(page[e].nodes), node \in BlockNodes : Insert(e, section, node)
  <2>1. PICK section \in Ids(page[e].nodes), node \in BlockNodes : Insert(e, section, node)
    BY <1>4
  <2>2. section # 0
    <3>1. PICK n \in ToSet(page[e].nodes) : n.id = section
      BY IdsOfRows
    <3>2. n.id \in Uuid
      <4>1. Document(page[e])
        BY <1>1 DEF Holding
      <4>2. CASE profile = "page"
        BY <3>1, <4>1, <4>2, PageFacts DEF Document
      <4>3. CASE profile = "post"
        BY <3>1, <4>1, <4>3 DEF Document, PostDocument
      <4> QED BY <1>2, <4>2, <4>3
    <3> QED BY <3>1, <3>2, UuidAssumption
  <2> QED BY <2>1, <2>2 DEF Inserts
<1>5. CASE \E section \in Uuid \cup {0}, id \in Uuid :
               \/ \E parent \in Uuid \cup {0}, column \in Columns \cup {0}, index \in Forms[profile].indexes :
                     Move(e, section, id, parent, column, index)
               \/ Delete(e, section, id)
               \/ \E l \in {Source} \cup Forms[profile].locales : Translate(e, l, section, id)
               \/ \E l \in Forms[profile].locales : RemoveTranslation(e, l, section, id)
  <2>1. PICK section \in Uuid \cup {0}, id \in Uuid :
               \/ \E parent \in Uuid \cup {0}, column \in Columns \cup {0}, index \in Forms[profile].indexes :
                     Move(e, section, id, parent, column, index)
               \/ Delete(e, section, id)
               \/ \E l \in {Source} \cup Forms[profile].locales : Translate(e, l, section, id)
               \/ \E l \in Forms[profile].locales : RemoveTranslation(e, l, section, id)
    BY <1>5
  <2>2. CASE \E parent \in Uuid \cup {0}, column \in Columns \cup {0}, index \in Forms[profile].indexes :
                     Move(e, section, id, parent, column, index)
    BY <1>2, <2>2 DEF Moves
  <2>3. CASE Delete(e, section, id)
    BY <2>3 DEF Deletes
  <2>4. CASE \E l \in {Source} \cup Forms[profile].locales : Translate(e, l, section, id)
    BY <1>2, <2>4 DEF Translates
  <2>5. CASE \E l \in Forms[profile].locales : RemoveTranslation(e, l, section, id)
    BY <1>2, <2>5 DEF Removes
  <2> QED BY <2>1, <2>2, <2>3, <2>4, <2>5
<1> QED BY <1>3, <1>4, <1>5 DEF Edit


\* Every edit does.
LEMMA EditsKeep ==
    ASSUME EditingInvariant, NEW e \in Editors, Mutations(e) < MaxEdits, Edit(e)
    PROVE  EditingInvariant'
<1>1. profile \in DOMAIN Forms /\ Holding(e) /\ EditsTyped(made[e])
  BY DEF EditingInvariant, EditorTyped, Holding
<1>2. OtherLocales \subseteq Locales
  BY DEF Locales
<1>3. ASSUME NEW section, NEW node, node \in IF profile = "page" /\ section = 0 THEN SectionNodes ELSE BlockNodes,
             Insert(e, section, node)
      PROVE  EditingInvariant'
  <2>1. /\ OnlyOf(e) /\ Document(page'[e])
        /\ UpsertMade(section, node) \in BaseMutations /\ FirstMade(node) \in ValueMutations
        /\ made'[e] = [base |-> Append(made[e].base, UpsertMade(section, node)),
                       groups |-> InGroup(made[e].groups, Source, FirstMade(node))]
    BY <1>1, <1>3, InsertMade
  <2>2. UpsertMade(section, node).op = "upsert" /\ UpsertMade(section, node).node = node
    BY DEF UpsertMade
  <2>3. Longer(made[e], made'[e], 2)
    BY <1>1, <2>1, <2>2, InsertsGrow
  <2> QED BY <2>1, <2>3, EditedTyped
<1>4. ASSUME NEW section \in Uuid \cup {0}, NEW id \in Uuid, NEW parent \in Uuid \cup {0}, NEW column \in Columns \cup {0},
             NEW index \in UInt32, Move(e, section, id, parent, column, index)
      PROVE  EditingInvariant'
  <2> DEFINE m == MoveMade(section, id, parent, column, index)
  <2>a. m = MoveMade(section, id, parent, column, index)
    OBVIOUS
  <2>2. m.op # "upsert"
    BY DEF MoveMade
  <2> HIDE DEF m
  <2>1. /\ OnlyOf(e) /\ Document(page'[e]) /\ m \in BaseMutations
        /\ made'[e] = [base |-> Append(made[e].base, m), groups |-> made[e].groups]
    <3>1. OnlyOf(e) /\ Document(page'[e])
      BY <1>1, <1>4, <2>a, MoveMakes
    <3>2. m \in BaseMutations
      BY <1>1, <1>4, <2>a, MoveMakes
    <3>3. made'[e] = [base |-> Append(made[e].base, m), groups |-> made[e].groups]
      <4>1. e \in DOMAIN made /\ made[e] = [base |-> made[e].base, groups |-> made[e].groups]
        BY <1>1, EditParts DEF Holding
      <4>2. made' = [made EXCEPT ![e].base = Append(@, m)]
        BY <1>4, <2>a DEF Move, MoveMade
      <4> QED BY <4>1, <4>2
    <3> QED BY <3>1, <3>2, <3>3
  <2>3. Longer(made[e], made'[e], 1)
    BY <1>1, <2>1, <2>2, BaseGrows
  <2> QED BY <2>1, <2>3, EditedTyped
<1>5. ASSUME NEW section \in Uuid \cup {0}, NEW id \in Uuid, Delete(e, section, id)
      PROVE  EditingInvariant'
  <2> DEFINE m == DeleteMade(section, id)
  <2>1. /\ OnlyOf(e) /\ Document(page'[e]) /\ m \in BaseMutations
        /\ made'[e] = [base |-> Append(made[e].base, m), groups |-> made[e].groups]
    BY <1>1, <1>5, DeleteMakes
  <2>2. m.op # "upsert"
    BY DEF DeleteMade
  <2> HIDE DEF m
  <2>3. Longer(made[e], made'[e], 1)
    BY <1>1, <2>1, <2>2, BaseGrows
  <2> QED BY <2>1, <2>3, EditedTyped
<1>6. ASSUME NEW l \in Locales, NEW section, NEW id \in Uuid, Translate(e, l, section, id)
      PROVE  EditingInvariant'
  <2> DEFINE value == [case |-> KindAt(page[e], section, id), text |-> "new"]
             v == [op |-> "upsert", id |-> id, value |-> value]
  <2>1. /\ OnlyOf(e) /\ Document(page'[e]) /\ v \in ValueMutations
        /\ made'[e] = [base |-> made[e].base, groups |-> InGroup(made[e].groups, l, v)]
    BY <1>1, <1>6, TranslateMakes
  <2> HIDE DEF v
  <2>2. Longer(made[e], made'[e], 1)
    BY <1>1, <2>1, ValuesGrow
  <2> QED BY <2>1, <2>2, EditedTyped
<1>7. ASSUME NEW l \in OtherLocales, NEW section, NEW id \in Uuid, RemoveTranslation(e, l, section, id)
      PROVE  EditingInvariant'
  <2> DEFINE v == [op |-> "delete", id |-> id]
  <2>1. /\ OnlyOf(e) /\ Document(page'[e]) /\ v \in ValueMutations
        /\ made'[e] = [base |-> made[e].base, groups |-> InGroup(made[e].groups, l, v)]
    BY <1>1, <1>7, RemovalMakes
  <2> HIDE DEF v
  <2>2. Longer(made[e], made'[e], 1)
    BY <1>1, <1>2, <2>1, ValuesGrow
  <2> QED BY <2>1, <2>2, EditedTyped
<1>8. CASE Inserts(e)
  BY <1>3, <1>8 DEF Inserts
<1>9. CASE Moves(e)
  BY <1>4, <1>9 DEF Moves
<1>10. CASE Deletes(e)
  BY <1>5, <1>10 DEF Deletes
<1>11. CASE Translates(e)
  BY <1>6, <1>11 DEF Translates
<1>12. CASE Removes(e)
  BY <1>7, <1>12 DEF Removes
<1> QED BY <1>8, <1>9, <1>10, <1>11, <1>12, EditSorts

\* What is sent is what the editor has made.
LEMMA SentIsFlat ==
    ASSUME profile \in DOMAIN Forms, NEW e, EditsTyped(made[e]), NEW flat \in Sent(e)
    PROVE  FlatOf(made[e], flat) /\ flat.expectedRevision = base[e]
<1>1. PICK system \in BOOLEAN, members \in Members, spelling \in {1, -1} :
         flat = FlattenBatch(profile, Batch(e, system, members, spelling))
  BY DEF Sent
<1> QED BY <1>1, BatchFlat

\* What the store leaves of its rows and a batch are rows.
LEMMA SavedTyped ==
    ASSUME EditingInvariant, NEW e \in Editors, NEW heard \in BOOLEAN, Save(e, heard)
    PROVE  /\ rows' \in Seq(PageRow) /\ Checked(rows')
           /\ \E flat \in Sent(e), sorts \in Sorts : flat.expectedRevision = revision /\ rows' = Applied(rows, flat, sorts)
<1>1. profile \in DOMAIN Forms /\ rows \in Seq(PageRow) /\ EditsTyped(made[e])
  BY DEF EditingInvariant, EditorTyped
<1>2. PICK flat \in Sent(e) : flat.expectedRevision = revision /\ rows' \in {Applied(rows, flat, sorts) : sorts \in Sorts}
  BY DEF Save
<1>3. PICK sorts \in Sorts : rows' = Applied(rows, flat, sorts)
  BY <1>2
<1>4. FlatOf(made[e], flat)
  BY <1>1, SentIsFlat
<1>5. Applied(rows, flat, sorts) \in Seq(PageRow)
  BY <1>1, <1>4, AppliedTyped
<1>6. Checked(rows')
  BY DEF Save
<1> QED BY <1>2, <1>3, <1>5, <1>6

\* A save leaves checked rows, and editors that are still at a revision of the past.
LEMMA SaveKeeps ==
    ASSUME EditingInvariant, NEW e \in Editors, NEW heard \in BOOLEAN, Save(e, heard)
    PROVE  EditingInvariant'
<1>1. /\ profile \in DOMAIN Forms /\ revision \in 0..MaxRevision
      /\ DOMAIN page = Editors /\ DOMAIN base = Editors /\ DOMAIN made = Editors
      /\ \A f \in Editors : base[f] \in 0..revision
      /\ \A f \in Editors : Document(page[f]) /\ EditsTyped(made[f]) /\ IsFiniteSet(Pairs(made[f].groups))
                            /\ EditCount(made[f]) <= MaxEdits + 1
  BY DEF EditingInvariant, EditorTyped
<1>2. /\ revision < MaxRevision /\ revision' = revision + 1 /\ profile' = profile /\ page' = page
      /\ base' = IF heard THEN [base EXCEPT ![e] = revision + 1] ELSE base
      /\ made' = IF heard THEN [made EXCEPT ![e] = NoEdits] ELSE made
  BY DEF Save
<1>3. (rows \in Seq(PageRow))' /\ Checked(rows)'
  BY <1>2, SavedTyped, TypedNext
<1>4. revision' \in 0..MaxRevision
  BY <1>1, <1>2, EditingBoundsAssumption
<1>5. DOMAIN page' = Editors /\ DOMAIN base' = Editors /\ DOMAIN made' = Editors
  BY <1>1, <1>2
<1>6. \A f \in Editors : base'[f] \in 0..revision'
  BY <1>1, <1>2, EditingBoundsAssumption
<1>7. EditsTyped(NoEdits) /\ IsFiniteSet(Pairs(NoEdits.groups)) /\ EditCount(NoEdits) <= MaxEdits + 1
  BY NothingMade, EditingBoundsAssumption
<1>8. \A f \in Editors : made'[f] = made[f] \/ made'[f] = NoEdits
  BY <1>1, <1>2
<1>9. \A f \in Editors : /\ Document(page'[f]) /\ EditsTyped(made'[f]) /\ IsFiniteSet(Pairs(made'[f].groups))
                         /\ EditCount(made'[f]) <= MaxEdits + 1
  BY <1>1, <1>2, <1>7, <1>8
<1>10. \A f \in Editors : Document(page[f])' /\ EditsTyped(made[f])'
  BY <1>2, <1>9, TypedNext
<1> QED BY <1>1, <1>2, <1>3, <1>4, <1>5, <1>6, <1>9, <1>10 DEF EditingInvariant, EditorTyped

\* What an editor that opens the document again has.
LEMMA ReloadMakes ==
    ASSUME EditingInvariant, NEW e \in Editors, Reload(e)
    PROVE  /\ OpenedDocument = page'[e] /\ base'[e] = revision /\ made'[e] = NoEdits
           /\ DOMAIN page' = Editors /\ DOMAIN base' = Editors /\ DOMAIN made' = Editors
           /\ \A f \in Editors : f # e => page'[f] = page[f] /\ base'[f] = base[f] /\ made'[f] = made[f]
           /\ UNCHANGED <<profile, rows, revision>>
           /\ Document(page'[e]) /\ SaysTheRows(page'[e], rows)
<1>1. profile \in DOMAIN Forms /\ rows \in Seq(PageRow) /\ Checked(rows)
      /\ DOMAIN page = Editors /\ DOMAIN base = Editors /\ DOMAIN made = Editors
  BY DEF EditingInvariant
<1>2. /\ MaterializeDocumentAccepts(profile, rows)
      /\ base' = [base EXCEPT ![e] = revision] /\ made' = [made EXCEPT ![e] = NoEdits]
      /\ UNCHANGED <<profile, rows, revision>>
  BY DEF Reload
<1>3. page' = [page EXCEPT ![e] = OpenedDocument]
  BY DEF Reload, OpenedDocument, InLocales
<1>4. Document(OpenedDocument) /\ SaysTheRows(OpenedDocument, rows)
  BY <1>1, <1>2, Opened
<1> HIDE DEF OpenedDocument
<1> QED BY <1>1, <1>2, <1>3, <1>4

\* Opening the document again gives a document.
LEMMA ReloadKeeps ==
    ASSUME EditingInvariant, NEW e \in Editors, Reload(e)
    PROVE  EditingInvariant'
<1>1. /\ profile \in DOMAIN Forms /\ revision \in 0..MaxRevision /\ rows \in Seq(PageRow) /\ Checked(rows)
      /\ \A f \in Editors : base[f] \in 0..revision
      /\ \A f \in Editors : Document(page[f]) /\ EditsTyped(made[f]) /\ IsFiniteSet(Pairs(made[f].groups))
                            /\ EditCount(made[f]) <= MaxEdits + 1
  BY DEF EditingInvariant, EditorTyped
<1>2. /\ base'[e] = revision /\ made'[e] = NoEdits
      /\ DOMAIN page' = Editors /\ DOMAIN base' = Editors /\ DOMAIN made' = Editors
      /\ \A f \in Editors : f # e => page'[f] = page[f] /\ base'[f] = base[f] /\ made'[f] = made[f]
      /\ profile' = profile /\ rows' = rows /\ revision' = revision
      /\ Document(page'[e])
  BY ReloadMakes
<1>3. EditsTyped(NoEdits) /\ IsFiniteSet(Pairs(NoEdits.groups)) /\ EditCount(NoEdits) <= MaxEdits + 1
  BY NothingMade, EditingBoundsAssumption
<1>4. \A f \in Editors : /\ Document(page'[f]) /\ EditsTyped(made'[f]) /\ IsFiniteSet(Pairs(made'[f].groups))
                         /\ EditCount(made'[f]) <= MaxEdits + 1
  BY <1>1, <1>2, <1>3
<1>5. \A f \in Editors : base'[f] \in 0..revision'
  BY <1>1, <1>2
<1>6. (rows \in Seq(PageRow))' /\ Checked(rows)' /\ \A f \in Editors : Document(page[f])' /\ EditsTyped(made[f])'
  BY <1>1, <1>2, <1>4, TypedNext
<1> QED BY <1>1, <1>2, <1>4, <1>5, <1>6 DEF EditingInvariant, EditorTyped

\* Nothing changes.
LEMMA StutterKeeps ==
    ASSUME EditingInvariant, UNCHANGED vars
    PROVE  EditingInvariant'
<1>1. /\ profile' = profile /\ rows' = rows /\ revision' = revision /\ page' = page /\ base' = base /\ made' = made
  BY DEF vars
<1>2. /\ profile \in DOMAIN Forms /\ revision \in 0..MaxRevision /\ rows \in Seq(PageRow) /\ Checked(rows)
      /\ DOMAIN page = Editors /\ DOMAIN base = Editors /\ DOMAIN made = Editors
      /\ \A f \in Editors : base[f] \in 0..revision
      /\ \A f \in Editors : Document(page[f]) /\ EditsTyped(made[f]) /\ IsFiniteSet(Pairs(made[f].groups))
                            /\ EditCount(made[f]) <= MaxEdits + 1
  BY DEF EditingInvariant, EditorTyped
<1>3. (rows \in Seq(PageRow))' /\ Checked(rows)' /\ \A f \in Editors : Document(page[f])' /\ EditsTyped(made[f])'
  BY <1>1, <1>2, TypedNext
<1> QED BY <1>1, <1>2, <1>3 DEF EditingInvariant, EditorTyped

(***************************************************************************)
(* Editing keeps the rows checked, documents well formed and mutations     *)
(* ready to be sent, for any editors, documents and batches.               *)
(***************************************************************************)
THEOREM EditingKept == Spec => []EditingInvariant
<1>1. Init => EditingInvariant
  BY EditingStarts
<1>2. ASSUME EditingInvariant, [Next]_vars PROVE EditingInvariant'
  <2>1. CASE Next
    <3>1. PICK e \in Editors : \/ Mutations(e) < MaxEdits /\ Edit(e)
                               \/ \E heard \in BOOLEAN : Save(e, heard)
                               \/ Reload(e)
      BY <2>1 DEF Next
    <3> QED BY <1>2, <3>1, EditsKeep, SaveKeeps, ReloadKeeps
  <2>2. CASE UNCHANGED vars
    BY <1>2, <2>2, StutterKeeps
  <2> QED BY <1>2, <2>1, <2>2
<1> QED BY <1>1, <1>2, PTL DEF Spec

(***************************************************************************)
(* Every row is normalised and every editor is at a revision of the past.  *)
(***************************************************************************)
THEOREM EditingTyped == Spec => []TypeOK
<1>1. ASSUME EditingInvariant PROVE TypeOK
  <2>1. /\ revision \in 0..MaxRevision /\ rows \in Seq(PageRow)
        /\ \A e \in Editors : base[e] \in 0..revision /\ EditsTyped(made[e]) /\ IsFiniteSet(Pairs(made[e].groups))
                              /\ EditCount(made[e]) <= MaxEdits + 1
    BY <1>1 DEF EditingInvariant, EditorTyped
  <2>2. \A e \in Editors : Mutations(e) <= MaxEdits + 1
    BY <2>1, EditsCounted
  <2>3. \A i \in DOMAIN rows : rows[i].id \in Uuid /\ rows[i].parent \in Uuid \cup {0}
    <3> SUFFICES ASSUME NEW i \in DOMAIN rows PROVE rows[i].id \in Uuid /\ rows[i].parent \in Uuid \cup {0}
      OBVIOUS
    <3>1. rows[i] \in PageRow
      BY <2>1
    <3> QED BY <3>1 DEF PageRow, Row
  <2> QED BY <2>1, <2>2, <2>3 DEF TypeOK
<1> QED BY <1>1, EditingKept, PTL

\* What is upserted, as it is sent.
LEMMA UpsertIsSent ==
    ASSUME profile \in DOMAIN Forms, NEW m \in BaseMutations, NEW spelling \in {1, -1}, NEW w, w = Spelled(m, spelling), w.op = "upsert"
    PROVE  /\ m.op = "upsert" /\ m.node \in NodesAt(m.section)
           /\ w.section = 0 <=> m.section = 0
           /\ profile = "page" /\ m.section = 0 => w.node.blocks = <<>>
           /\ w.node.shared = Shared(w.node.shared.case)
           /\ m.node.shared = w.node.shared
           /\ w.node.shared.case \in PageKinds \cup RichKinds
           /\ ~(profile = "page" /\ m.section = 0) => w.node.shared.case \in RichKinds
<1>1. m.op = "upsert"
  BY SortsKept
<1>2. m = [op |-> "upsert", section |-> m.section, node |-> m.node] /\ m.section \in Places /\ m.node \in NodesAt(m.section)
  BY <1>1, BaseMutationSorts
<1>3. w.section = spelling * m.section /\ w.node = SpelledNode(m, spelling)
  BY <1>2, UpsertSent
<1>4. m.section \in Uuid \cup {0} /\ (w.section = 0 <=> m.section = 0)
  BY <1>2, <1>3, Respelled DEF Places
<1>5. CASE profile = "page" /\ m.section = 0
  <2>1. /\ m.node \in Node /\ m.node.blocks = <<>> /\ m.node.shared.case \in PageKinds
        /\ m.node.shared = Shared(m.node.shared.case)
    BY <1>2, <1>5, NewNodes DEF NodesAt
  <2>2. w.node.shared = m.node.shared
    BY <1>3, <1>5, <2>1, NodeSent
  <2>3. w.node.blocks = m.node.blocks
    BY <1>3, <1>5, <2>1 DEF SpelledNode, Node
  <2> QED BY <1>1, <1>2, <1>4, <1>5, <2>1, <2>2, <2>3
<1>6. CASE ~(profile = "page" /\ m.section = 0)
  <2>1. m.node \in Block /\ m.node.shared.case \in RichKinds /\ m.node.shared = Shared(m.node.shared.case)
    BY <1>2, <1>6, NewNodes DEF NodesAt
  <2>2. w.node.shared = m.node.shared
    BY <1>3, <1>6, <2>1, NodeSent
  <2> QED BY <1>1, <1>2, <1>4, <1>6, <2>1, <2>2
<1> QED BY <1>5, <1>6

\* The payload of a new section or block is one the Go runtime knows, where it knows the kind.
LEMMA SharedAccepted ==
    ASSUME NEW kind, KindAllowed(profile, kind), NEW shared, shared = Shared(kind)
    PROVE  shared.case = kind /\ NormalizeContentStorageShared(profile, shared.case, shared, "WRITE")
<1>1. shared = [case |-> kind, settings |-> FALSE, media |-> "none", columns |-> IF kind = "columns" THEN Columns ELSE {}]
  BY DEF Shared
<1>2. kind \in RichKinds => kind # "columns"
  BY DEF RichKinds
<1> QED BY <1>1, <1>2 DEF NormalizeContentStorageShared

\* A kind of a page that is not a map is allowed in it, and every kind of block in a post.
LEMMA KindsAllowed ==
    /\ \A kind \in PageKinds \cup RichKinds : kind # "map" => KindAllowed("page", kind)
    /\ \A kind \in RichKinds : KindAllowed("post", kind)
  BY DEF KindAllowed, ProfileBlocks, PageKinds, RichKinds

\* What Go asks of those who send a batch is what TypeScript asks, and that no member is named twice.
LEMMA ContributorsAccepted ==
    ASSUME NEW batch, IF batch.system THEN batch.members = <<>> ELSE batch.members # <<>>,
           batch.system \in BOOLEAN, Distinct(batch.members, normalizeUUID)
    PROVE  contributorsValid(batch)
  BY DEF contributorsValid, validateMembers, Distinct

\* A batch of a page that has no map is accepted.
LEMMA PageBatchAccepted ==
    ASSUME profile = "page", profile \in DOMAIN Forms, NEW edits, EditsTyped(edits), NEW spelling \in {1, -1},
           NEW batch, SentAs(edits, spelling, batch), ~Of({"map"}, batch), contributorsValid(batch)
    PROVE  FlattenBatchAccepts(profile, batch, "WRITE")
<1>1. ASSUME NEW i \in DOMAIN batch.base, batch.base[i].op = "upsert"
      PROVE  /\ batch.base[i].section = 0 => batch.base[i].node.blocks = <<>>
             /\ batch.base[i].section # 0 => batch.base[i].node.shared.case \in RichKinds
             /\ NormalizeContentStorageShared("page", batch.base[i].node.shared.case, batch.base[i].node.shared, "WRITE")
  <2>0. edits.base \in Seq(BaseMutations)
    BY EditParts
  <2>1. i \in DOMAIN edits.base /\ batch.base[i] = Spelled(edits.base[i], spelling)
    BY DEF SentAs
  <2> DEFINE w == batch.base[i]
             m == edits.base[i]
  <2>2. w = Spelled(m, spelling) /\ m \in BaseMutations /\ w.op = "upsert" /\ w \in ToSet(batch.base)
    BY <1>1, <2>0, <2>1 DEF ToSet
  <2> HIDE DEF w, m
  <2>3. /\ w.section = 0 <=> m.section = 0
        /\ m.section = 0 => w.node.blocks = <<>>
        /\ w.node.shared = Shared(w.node.shared.case) /\ w.node.shared.case \in PageKinds \cup RichKinds
        /\ m.section # 0 => w.node.shared.case \in RichKinds
    BY <2>2, UpsertIsSent
  <2>4. w.node.shared.case # "map"
    BY <2>2 DEF Of
  <2>5. NormalizeContentStorageShared(profile, w.node.shared.case, w.node.shared, "WRITE")
    BY <2>3, <2>4, KindsAllowed, SharedAccepted
  <2> QED BY <2>3, <2>5 DEF w
<1>2. ASSUME NEW i \in DOMAIN batch.groups, NEW k \in DOMAIN batch.groups[i].mutations,
             batch.groups[i].mutations[k].op = "upsert"
      PROVE  NormalizeContentStorageLocale("page", batch.groups[i].mutations[k].value.case, batch.groups[i].mutations[k].value)
  <2> DEFINE g == edits.groups[i]
             h == batch.groups[i]
  <2>0. edits.groups \in Seq(MadeGroups)
    BY EditParts
  <2>1. i \in DOMAIN edits.groups /\ GroupSent(g, h)
    BY DEF SentAs
  <2>2. h \in ToSet(batch.groups) /\ k \in DOMAIN h.mutations /\ h.mutations[k] \in ToSet(h.mutations) /\ h.mutations[k].op = "upsert"
    BY <1>2 DEF ToSet
  <2>a. g \in MadeGroups
    <3>1. i \in DOMAIN edits.groups
      BY <2>1
    <3>2. edits.groups[i] \in MadeGroups
      BY <2>0, <3>1
    <3> QED BY <3>2
  <2> HIDE DEF g, h
  <2>3. k \in DOMAIN g.mutations /\ MutationSent(g.mutations[k], h.mutations[k]) /\ g.mutations[k] \in ValueMutations
    BY <2>1, <2>2, <2>a DEF GroupSent, MadeGroups
  <2> DEFINE v == g.mutations[k]
             w == h.mutations[k]
  <2> HIDE DEF v, w
  <2>4. MutationSent(v, w) /\ v \in ValueMutations /\ w.op = "upsert"
    BY <2>2, <2>3 DEF v, w
  <2>5. v.op = "upsert" /\ v.value \in Values /\ w.value = v.value
    <3>1. v.op = "upsert" /\ w = [op |-> "upsert", id |-> w.id, value |-> v.value]
      BY <2>4 DEF MutationSent
    <3>2. v.value \in Values
      BY <2>4, <3>1, ValueMutationSorts
    <3>3. w.value = v.value
      BY <3>1
    <3> QED BY <3>1, <3>2, <3>3
  <2>6. w.value.case \in PageKinds \cup RichKinds
    BY <2>5 DEF Values
  <2>7. w.value.case # "map"
    BY <2>2, <2>4 DEF Of, w
  <2> QED BY <2>6, <2>7, KindsAllowed DEF NormalizeContentStorageLocale, w, h
<1> QED BY <1>1, <1>2 DEF FlattenBatchAccepts, FlattenPageMutationBatchStorageAccepts

\* A batch of a post is accepted that brings something, and values of kinds of blocks only.
LEMMA PostBatchAccepted ==
    ASSUME profile = "post", profile \in DOMAIN Forms, NEW edits, EditsTyped(edits), NEW spelling \in {1, -1},
           NEW batch, SentAs(edits, spelling, batch), contributorsValid(batch),
           batch.base # <<>> \/ batch.groups # <<>>,
           \A g \in ToSet(batch.groups) : \A m \in ToSet(g.mutations) : m.op = "upsert" => m.value.case \in RichKinds
    PROVE  FlattenBatchAccepts(profile, batch, "WRITE")
<1>1. ASSUME NEW w \in ToSet(batch.base), w.op = "upsert"
      PROVE  /\ w.node.shared.case \in RichKinds
             /\ NormalizeContentStorageShared("post", w.node.shared.case, w.node.shared, "WRITE")
  <2>1. PICK i \in DOMAIN batch.base : w = batch.base[i]
    BY DEF ToSet
  <2>a. edits.base \in Seq(BaseMutations)
    BY EditParts
  <2>b. i \in DOMAIN edits.base /\ w = Spelled(edits.base[i], spelling)
    BY <2>1 DEF SentAs
  <2>2. w = Spelled(edits.base[i], spelling) /\ edits.base[i] \in BaseMutations
    BY <2>a, <2>b
  <2>3. w.node.shared = Shared(w.node.shared.case) /\ w.node.shared.case \in RichKinds
    BY <1>1, <2>2, UpsertIsSent
  <2>4. NormalizeContentStorageShared(profile, w.node.shared.case, w.node.shared, "WRITE")
    BY <2>3, KindsAllowed, SharedAccepted
  <2> QED BY <2>3, <2>4
<1>2. ASSUME NEW g \in ToSet(batch.groups), NEW m \in ToSet(g.mutations), m.op = "upsert"
      PROVE  m.value.case \in RichKinds /\ NormalizeContentStorageLocale("post", m.value.case, m.value)
  BY <1>2, KindsAllowed DEF NormalizeContentStorageLocale
<1> QED BY <1>1, <1>2 DEF FlattenBatchAccepts, FlattenRichTextMutationBatchStorageAccepts

(***************************************************************************)
(* A batch that the TypeScript runtime lets an editor send is one the Go   *)
(* runtime of the store accepts, unless it names a contributor twice in    *)
(* different spellings, which only the Go runtime sees, or is about a map  *)
(* section of a page, which only the TypeScript runtime knows.             *)
(***************************************************************************)
THEOREM BatchesAccepted == Spec => []SentBatchesAccepted
<1>1. ASSUME EditingInvariant PROVE SentBatchesAccepted
  <2> SUFFICES ASSUME NEW e \in Editors, NEW system \in BOOLEAN, NEW members \in Members,
                      TsFlattenBatchAccepts(profile, Batch(e, system, members, 1), "WRITE"),
                      Distinct(members, normalizeUUID),
                      profile = "page" => ~Of({"map"}, Batch(e, system, members, 1))
               PROVE  FlattenBatchAccepts(profile, Batch(e, system, members, 1), "WRITE")
    BY DEF SentBatchesAccepted
  <2> DEFINE batch == Batch(e, system, members, 1)
  <2>1. profile \in DOMAIN Forms /\ EditsTyped(made[e])
    BY <1>1 DEF EditingInvariant, EditorTyped
  <2>2. SentAs(made[e], 1, batch) /\ batch.system = system /\ batch.members = members
    BY <2>1, BatchSent
  <2>3. /\ TsFlattenBatchAccepts(profile, batch, "WRITE") /\ (profile = "page" => ~Of({"map"}, batch))
        /\ Distinct(batch.members, normalizeUUID)
    BY <2>2
  <2> HIDE DEF batch
  <2>4. profile = "page" \/ profile = "post"
    BY <2>1, FormsAssumption
  <2>5. IF batch.system THEN batch.members = <<>> ELSE batch.members # <<>>
    BY <2>3, <2>4 DEF TsFlattenBatchAccepts, TsFlattenPageMutationAccepts, TsFlattenRichTextMutationAccepts
  <2>6. contributorsValid(batch)
    BY <2>2, <2>3, <2>5, ContributorsAccepted
  <2>7. CASE profile = "page"
    <3>1. FlattenBatchAccepts(profile, batch, "WRITE")
      BY <2>1, <2>2, <2>3, <2>6, <2>7, PageBatchAccepted
    <3> QED BY <3>1 DEF batch
  <2>8. CASE profile = "post"
    <3>1. TsFlattenRichTextMutationAccepts("post", batch, "WRITE")
      BY <2>3, <2>8 DEF TsFlattenBatchAccepts
    <3>2. /\ batch.base # <<>> \/ batch.groups # <<>>
          /\ \A g \in ToSet(batch.groups) : \A m \in ToSet(g.mutations) : m.op = "upsert" => m.value.case \in RichKinds
      BY <3>1 DEF TsFlattenRichTextMutationAccepts, ProfileBlocks
    <3>3. FlattenBatchAccepts(profile, batch, "WRITE")
      BY <2>1, <2>2, <2>6, <2>8, <3>2, PostBatchAccepted
    <3> QED BY <3>3 DEF batch
  <2> QED BY <2>4, <2>7, <2>8
<1> QED BY <1>1, EditingKept, PTL

(***************************************************************************)
(* Batches that do not touch the source.                                   *)
(***************************************************************************)

\* An editor whose batch says that it does not touch the source, and does nothing inside a section but bring blocks,
\* has made no base mutations and no mutations of source values.
QuietEdits(edits) ==
    /\ \A m : m \notin ToSet(edits.base)
    /\ \A v : ~Makes(edits.groups, Source, v)

\* New blocks come with a source value, so a batch that brings some touches the source.
LEMMA QuietBatches ==
    ASSUME profile \in DOMAIN Forms, NEW edits, EditsTyped(edits), NEW batch, SentAs(edits, 1, batch),
           ~TouchesSource(profile, batch), ~(\E m \in ToSet(batch.base) : m.section # 0 /\ m.op # "upsert")
    PROVE  QuietEdits(edits)
<1>1. profile = "page" \/ profile = "post"
  BY FormsAssumption
<1>2. ASSUME NEW v, Makes(edits.groups, Source, v) PROVE FALSE
  <2>1. PICK i \in DOMAIN edits.groups : edits.groups[i].locale = Source /\ v \in ToSet(edits.groups[i].mutations)
    BY <1>2, MakesIn
  <2> DEFINE g == edits.groups[i]
             h == batch.groups[i]
  <2>2. GroupSent(g, h)
    BY <2>1 DEF SentAs
  <2>3. i \in DOMAIN batch.groups
    BY <2>1 DEF SentAs
  <2>4. h \in ToSet(batch.groups)
    BY <2>3 DEF ToSet
  <2>5. g.locale = Source /\ \E k \in DOMAIN g.mutations : v = g.mutations[k]
    BY <2>1 DEF ToSet
  <2> HIDE DEF g, h
  <2>6. h.locale = Source
    BY <2>2, <2>5 DEF GroupSent
  <2>7. DOMAIN h.mutations = DOMAIN g.mutations
    BY <2>2 DEF GroupSent
  <2>8. h.mutations # <<>>
    BY <2>5, <2>7
  <2>9. TouchesSource(profile, batch)
    BY <1>1, <2>4, <2>6, <2>8 DEF TouchesSource, pageMutationTouchesSource, richTextMutationTouchesSource
  <2> QED BY <2>9
<1>3. ASSUME NEW m, m \in ToSet(edits.base) PROVE FALSE
  <2>1. PICK i \in DOMAIN edits.base : m = edits.base[i]
    BY <1>3 DEF ToSet
  <2>2. i \in DOMAIN batch.base
    BY <2>1 DEF SentAs
  <2>3. batch.base[i] = Spelled(m, 1)
    BY <2>1 DEF SentAs
  <2>4. batch.base[i] \in ToSet(batch.base)
    BY <2>2 DEF ToSet
  <2>5. batch.base # <<>>
    BY <2>2
  <2>6. CASE profile = "post"
    BY <2>5, <2>6 DEF TouchesSource, richTextMutationTouchesSource
  <2>7. CASE profile = "page"
    <3>1. batch.base[i].section # 0
      BY <2>4, <2>7 DEF TouchesSource, pageMutationTouchesSource
    <3>2. batch.base[i].op = "upsert"
      BY <2>4, <3>1
    <3>3. m \in BaseMutations /\ (m.op = "upsert" => Makes(edits.groups, Source, FirstMade(m.node)))
      BY <1>3, EditParts
    <3>4. m.op = "upsert"
      BY <2>3, <3>2, <3>3, SortsKept
    <3> QED BY <1>2, <3>3, <3>4
  <2> QED BY <1>1, <2>6, <2>7
<1> QED BY <1>2, <1>3 DEF QuietEdits

\* What a row says of what translations are made from.
SourceOf(r) ==
    [id |-> r.id, parent |-> r.parent, slot |-> r.slot, pos |-> r.pos, kind |-> r.kind,
     values |-> {r.locales[l] : l \in DOMAIN r.locales \cap {Source}}]

\* Groups that have nothing of the source locale.
QuietGroups(groups) ==
    \A id : (\A u : u \notin Put(groups, Source, id)) /\ ~Dropped(groups, Source, id)

\* Where nothing is made of source values, nothing of them is sent.
LEMMA QuietGroupsSent ==
    ASSUME NEW edits, EditsTyped(edits), QuietEdits(edits), NEW flat, FlatOf(edits, flat)
    PROVE  QuietGroups(flat.groups)
<1>1. ASSUME NEW f, f \in ToSet(flat.groups), f.locale = Source
      PROVE  (\A u : u \notin ToSet(f.upserts)) /\ (\A u : u \notin ToSet(f.deletes))
  <2>1. PICK i \in DOMAIN flat.groups : f = flat.groups[i]
    BY <1>1 DEF ToSet
  <2>2. i \in DOMAIN edits.groups /\ GroupFlat(edits.groups[i], f)
    BY <2>1 DEF FlatOf, FlatGroups
  <2>3. edits.groups[i].locale = Source
    BY <1>1, <2>2 DEF GroupFlat
  <2>4. \A v : v \notin ToSet(edits.groups[i].mutations)
    BY <2>2, <2>3, MakesIn DEF QuietEdits
  <2> QED BY <2>2, <2>4 DEF GroupFlat
<1>2. ASSUME NEW id PROVE (\A u : u \notin Put(flat.groups, Source, id)) /\ ~Dropped(flat.groups, Source, id)
  BY <1>1, PutElement DEF Dropped
<1> QED BY <1>2 DEF QuietGroups

\* A row keeps its source value when groups have nothing of the source locale.
LEMMA QuietRow ==
    ASSUME NEW groups \in Seq(RowGroups), QuietGroups(groups), NEW r \in PageRow, NEW w, w = WithValues(groups, r)
    PROVE  SourceOf(w) = SourceOf(r)
<1>1. /\ w.id = r.id /\ RowShape(w) = RowShape(r)
      /\ \A l : l \in DOMAIN w.locales <=> (l \in DOMAIN r.locales \/ Put(groups, l, r.id) # {}) /\ ~Dropped(groups, l, r.id)
      /\ \A l \in DOMAIN w.locales : w.locales[l] = GroupValue(groups, r, l)
  BY ValuesGiven
<1>2. w.parent = r.parent /\ w.slot = r.slot /\ w.pos = r.pos /\ w.kind = r.kind
  BY <1>1 DEF RowShape
<1>3. Put(groups, Source, r.id) = {} /\ ~Dropped(groups, Source, r.id)
  BY DEF QuietGroups
<1>4. Source \in DOMAIN w.locales <=> Source \in DOMAIN r.locales
  BY <1>1, <1>3
<1>5. Source \in DOMAIN w.locales => w.locales[Source] = r.locales[Source]
  BY <1>1, <1>3 DEF GroupValue
<1>6. {w.locales[l] : l \in DOMAIN w.locales \cap {Source}} = {r.locales[l] : l \in DOMAIN r.locales \cap {Source}}
  BY <1>4, <1>5
<1> QED BY <1>1, <1>2, <1>6 DEF SourceOf

\* Without base mutations the rows stay, in whatever order nothing is written.
LEMMA QuietRows ==
    ASSUME profile \in DOMAIN Forms, NEW stored \in Seq(PageRow), NEW edits, EditsTyped(edits), QuietEdits(edits),
           NEW flat, FlatOf(edits, flat), NEW sorts \in Sorts, NEW t, t = InGroupOrder(stored, flat, sorts)
    PROVE  t \in Seq(PageRow) /\ \A y : y \in ToSet(t) <=> y \in ToSet(stored)
<1>1. flat.upserts \in Seq(PutRow) /\ flat.moves \in Seq(MovedRow)
  BY BatchRows
<1>2. (\A x : x \notin ToSet(flat.upserts)) /\ (\A x : x \notin ToSet(flat.deletes)) /\ (\A x : x \notin ToSet(flat.moves))
  BY DEF QuietEdits, FlatOf, FlatUpserts, FlatDeletes, FlatMoves
<1>3. OfDifferentIds(stored, flat)
  BY <1>1, <1>2 DEF OfDifferentIds
<1>4. t \in Seq(PageRow) /\ \A y : y \in ToSet(t) <=> LeftOrNew(stored, flat, y)
  BY <1>3, InAnyOrder
<1>5. \A id : id \notin Ids(flat.moves)
  BY <1>2 DEF Ids, ToSet
<1>6. \A r : MovedBy(flat.moves, r) = r
  BY <1>5 DEF MovedBy
<1>7. \A y : LeftOrNew(stored, flat, y) <=> y \in ToSet(stored)
  BY <1>2, <1>6 DEF LeftOrNew
<1> QED BY <1>4, <1>7

\* Nothing that translations are made from is changed by quiet edits.
LEMMA QuietApplied ==
    ASSUME profile \in DOMAIN Forms, NEW stored \in Seq(PageRow), NEW edits, EditsTyped(edits), QuietEdits(edits),
           NEW flat, FlatOf(edits, flat), NEW sorts \in Sorts
    PROVE  TranslationSource(Applied(stored, flat, sorts)) = TranslationSource(stored)
<1> DEFINE t == InGroupOrder(stored, flat, sorts)
           groups == flat.groups
           u == WithGroups(t, groups)
<1>1. t \in Seq(PageRow) /\ \A y : y \in ToSet(t) <=> y \in ToSet(stored)
  BY QuietRows
<1>2. groups \in Seq(RowGroups)
  BY BatchRows
<1>3. QuietGroups(groups)
  BY QuietGroupsSent
<1>4. Applied(stored, flat, sorts) = u
  BY DEF Applied
<1> HIDE DEF t, groups
<1>5. \A y : y \in ToSet(u) <=> \E r \in ToSet(t) : y = WithValues(groups, r)
  BY <1>1, <1>2, GroupElements
<1>6. \A r \in ToSet(t) : SourceOf(WithValues(groups, r)) = SourceOf(r)
  <2>1. \A r \in ToSet(t) : r \in PageRow
    BY <1>1, SequenceElements
  <2> QED BY <1>2, <1>3, <2>1, QuietRow
<1> HIDE DEF u
<1>7. \A x : (\E y \in ToSet(u) : x = SourceOf(y)) <=> (\E r \in ToSet(stored) : x = SourceOf(r))
  BY <1>1, <1>5, <1>6
<1>8. TranslationSource(u) = {SourceOf(r) : r \in ToSet(u)} /\ TranslationSource(stored) = {SourceOf(r) : r \in ToSet(stored)}
  BY DEF TranslationSource, SourceOf
<1>9. {SourceOf(r) : r \in ToSet(u)} = {SourceOf(r) : r \in ToSet(stored)}
  BY <1>7
<1> QED BY <1>4, <1>8, <1>9

(***************************************************************************)
(* A batch that TypeScript says does not touch the source leaves what Go   *)
(* hashes as the source of translations as it was, unless it deletes or    *)
(* moves blocks inside a section, which TypeScript does not look at.       *)
(***************************************************************************)
THEOREM QuietBatchesKept == Spec => []QuietBatchesKeepSource
<1>1. ASSUME EditingInvariant PROVE QuietBatchesKeepSource
  <2> DEFINE BatchOf(e) == Batch(e, FALSE, <<1>>, 1)
  <2> SUFFICES ASSUME NEW e \in Editors, ~TouchesSource(profile, BatchOf(e)),
                      ~(\E m \in ToSet(BatchOf(e).base) : m.section # 0 /\ m.op # "upsert"),
                      NEW sorts \in Sorts
               PROVE  TranslationSource(Applied(rows, FlattenBatch(profile, BatchOf(e)), sorts)) = TranslationSource(rows)
    BY DEF QuietBatchesKeepSource
  <2> DEFINE batch == BatchOf(e)
             flat == FlattenBatch(profile, batch)
  <2>1. profile \in DOMAIN Forms /\ rows \in Seq(PageRow) /\ EditsTyped(made[e])
    BY <1>1 DEF EditingInvariant, EditorTyped
  <2>2. SentAs(made[e], 1, batch)
    BY <2>1, BatchSent
  <2>3. FlatOf(made[e], flat)
    BY <2>1, BatchFlat
  <2>4. ~TouchesSource(profile, batch) /\ ~(\E m \in ToSet(batch.base) : m.section # 0 /\ m.op # "upsert")
    OBVIOUS
  <2> HIDE DEF batch
  <2>5. QuietEdits(made[e])
    BY <2>1, <2>2, <2>4, QuietBatches
  <2>6. TranslationSource(Applied(rows, flat, sorts)) = TranslationSource(rows)
    BY <2>1, <2>3, <2>5, QuietApplied
  <2> QED BY <2>6 DEF batch
<1> QED BY <1>1, EditingKept, PTL

(***************************************************************************)
(* What an editor at the current revision holds: the stored rows with what *)
(* it has made applied to them.                                            *)
(***************************************************************************)
NameOf(m) == IF m.op = "upsert" THEN m.node.id ELSE m.id

Names(made_, id) == \E m \in made_ : NameOf(m) = id
Gone(made_, id) == \E m \in made_ : m.op = "delete" /\ m.id = id

Mentions(groups, l, id) == \E v : Makes(groups, l, v) /\ v.id = id
Gives(groups, l, id, value) == \E v : Makes(groups, l, v) /\ v.op = "upsert" /\ v.id = id /\ v.value = value

\* What becomes of the rows by base mutations.
Shown(stored, made_, x) ==
    \/ \E r \in stored : ~Names(made_, r.id) /\ x = RowShape(r)
    \/ \E r \in stored, m \in made_ : m.op = "move" /\ m.id = r.id /\ x = At(RowShape(r), PlaceRow(m))
    \/ \E m \in made_ : m.op = "upsert" /\ x = ShapeAt(m.section, m.node)

\* What becomes of their values.
Told(stored, made_, groups, l, id, v) ==
    /\ Says(l, v) /\ ~Gone(made_, id)
    /\ Gives(groups, l, id, v) \/ (~Mentions(groups, l, id) /\ RowSays(stored, l, id, v))

NamedOnce(made_) == \A m, n \in made_ : NameOf(m) = NameOf(n) => m = n
ValuedOnce(groups) == \A l, v, w : Makes(groups, l, v) /\ Makes(groups, l, w) /\ v.id = w.id => v = w
NewToRows(stored, made_) == \A m \in made_, r \in stored : m.op = "upsert" => m.node.id # r.id
ShownIn(p, stored, made_) == \A x : x \in ShapesOf(p) <=> Shown(stored, made_, x)
ToldIn(p, stored, made_, groups) == \A l, id, v : SaysOf(p, l, id, v) <=> Told(stored, made_, groups, l, id, v)
ValuedIn(p, made_, groups) ==
    \A l, v : Makes(groups, l, v) => Gone(made_, v.id) \/ \E x \in ShapesOf(p) : x.id = v.id

Agrees(p, edits, stored) ==
    /\ NamedOnce(ToSet(edits.base)) /\ ValuedOnce(edits.groups)
    /\ NewToRows(ToSet(stored), ToSet(edits.base))
    /\ ShownIn(p, ToSet(stored), ToSet(edits.base))
    /\ ToldIn(p, stored, ToSet(edits.base), edits.groups)
    /\ ValuedIn(p, ToSet(edits.base), edits.groups)

\* Without edits, a document agrees with the rows it says.
LEMMA NothingAgrees ==
    ASSUME NEW p, NEW stored
    PROVE  Agrees(p, NoEdits, stored) <=> SaysTheRows(p, stored)
<1>1. ToSet(NoEdits.base) = {} /\ \A l, v : ~Makes(NoEdits.groups, l, v)
  BY NothingMade DEF NoEdits, ToSet
<1>2. \A x : Shown(ToSet(stored), {}, x) <=> \E r \in ToSet(stored) : x = RowShape(r)
  BY DEF Shown, Names
<1>3. \A l, id, v : Told(stored, {}, NoEdits.groups, l, id, v) <=> RowSays(stored, l, id, v)
  BY <1>1 DEF Told, Gone, Gives, Mentions, RowSays
<1>4. /\ NamedOnce({}) /\ NewToRows(ToSet(stored), {})
      /\ ValuedOnce(NoEdits.groups) /\ ValuedIn(p, {}, NoEdits.groups)
  BY <1>1 DEF NamedOnce, NewToRows, ValuedOnce, ValuedIn
<1>5. ShownIn(p, ToSet(stored), {}) <=> \A x : x \in ShapesOf(p) <=> \E r \in ToSet(stored) : x = RowShape(r)
  BY <1>2 DEF ShownIn
<1>6. ToldIn(p, stored, {}, NoEdits.groups) <=> \A l, id, v : SaysOf(p, l, id, v) <=> RowSays(stored, l, id, v)
  BY <1>3 DEF ToldIn
<1> QED BY <1>1, <1>4, <1>5, <1>6 DEF Agrees, SaysTheRows

\* The id of what is shown: of a row or of what is new.
LEMMA ShownIds ==
    ASSUME NEW stored, NEW made_, NEW x, Shown(stored, made_, x)
    PROVE  \/ \E r \in stored : r.id = x.id /\ ~Names(made_, x.id) /\ x = RowShape(r)
           \/ Names(made_, x.id)
<1>1. CASE \E r \in stored : ~Names(made_, r.id) /\ x = RowShape(r)
  BY <1>1 DEF RowShape
<1>2. CASE \E r \in stored, m \in made_ : m.op = "move" /\ m.id = r.id /\ x = At(RowShape(r), PlaceRow(m))
  <2>1. PICK r \in stored, m \in made_ : m.op = "move" /\ m.id = r.id /\ x = At(RowShape(r), PlaceRow(m))
    BY <1>2
  <2>2. x.id = m.id /\ NameOf(m) = m.id
    BY <2>1 DEF At, RowShape, NameOf
  <2> QED BY <2>2 DEF Names
<1>3. CASE \E m \in made_ : m.op = "upsert" /\ x = ShapeAt(m.section, m.node)
  <2>1. PICK m \in made_ : m.op = "upsert" /\ x = ShapeAt(m.section, m.node)
    BY <1>3
  <2>2. x.id = m.node.id /\ NameOf(m) = m.node.id
    BY <2>1, ShapeIds DEF ShapeAt, NameOf
  <2> QED BY <2>2 DEF Names
<1> QED BY <1>1, <1>2, <1>3 DEF Shown

\* A move more.
LEMMA MoveShown ==
    ASSUME NEW p, NEW q, NEW stored, NEW made_, NEW m, m.op = "move", ~Names(made_, m.id),
           NEW place, Relocated(p, q, m.id, place),
           PlaceRow(m).parent = place.parent, PlaceRow(m).slot = place.slot, PlaceRow(m).pos = place.pos,
           ShownIn(p, stored, made_), NEW more, more = made_ \cup {m}
    PROVE  ShownIn(q, stored, more)
<1>1. \A id : Names(more, id) <=> Names(made_, id) \/ id = m.id
  BY DEF Names, NameOf
<1>2. \A x : At(x, place) = At(x, PlaceRow(m))
  BY DEF At
<1>3. ASSUME NEW y, y \in ShapesOf(q) PROVE Shown(stored, more, y)
  <2>1. (y \in ShapesOf(p) /\ y.id # m.id) \/ \E x \in ShapesOf(p) : x.id = m.id /\ y = At(x, place)
    BY <1>3 DEF Relocated
  <2>2. CASE y \in ShapesOf(p) /\ y.id # m.id
    <3>1. Shown(stored, made_, y)
      BY <2>2 DEF ShownIn
    <3>2. CASE \E r \in stored : ~Names(made_, r.id) /\ y = RowShape(r)
      <4>1. PICK r \in stored : ~Names(made_, r.id) /\ y = RowShape(r)
        BY <3>2
      <4>2. ~Names(more, r.id)
        BY <1>1, <2>2, <4>1 DEF RowShape
      <4> QED BY <4>1, <4>2 DEF Shown
    <3> QED BY <3>1, <3>2 DEF Shown
  <2>3. CASE \E x \in ShapesOf(p) : x.id = m.id /\ y = At(x, place)
    <3>1. PICK x \in ShapesOf(p) : x.id = m.id /\ y = At(x, place)
      BY <2>3
    <3>2. Shown(stored, made_, x)
      BY <3>1 DEF ShownIn
    <3>3. PICK r \in stored : r.id = x.id /\ x = RowShape(r)
      BY <3>1, <3>2, ShownIds
    <3> QED BY <1>2, <3>1, <3>3 DEF Shown
  <2> QED BY <2>1, <2>2, <2>3
<1>4. ASSUME NEW y, Shown(stored, more, y) PROVE y \in ShapesOf(q)
  <2>1. CASE \E r \in stored : ~Names(more, r.id) /\ y = RowShape(r)
    <3>1. PICK r \in stored : ~Names(more, r.id) /\ y = RowShape(r)
      BY <2>1
    <3>2. ~Names(made_, r.id) /\ y.id = r.id /\ r.id # m.id
      BY <1>1, <3>1 DEF RowShape
    <3>3. y \in ShapesOf(p)
      BY <3>1, <3>2 DEF Shown, ShownIn
    <3> QED BY <3>2, <3>3 DEF Relocated
  <2>2. CASE \E r \in stored, n \in more : n.op = "move" /\ n.id = r.id /\ y = At(RowShape(r), PlaceRow(n))
    <3>1. PICK r \in stored, n \in more : n.op = "move" /\ n.id = r.id /\ y = At(RowShape(r), PlaceRow(n))
      BY <2>2
    <3>2. y.id = n.id /\ RowShape(r).id = n.id /\ NameOf(n) = n.id
      BY <3>1 DEF At, RowShape, NameOf
    <3>3. CASE n = m
      <4>1. RowShape(r) \in ShapesOf(p)
        BY <3>1, <3>3 DEF Shown, ShownIn
      <4> QED BY <1>2, <3>1, <3>2, <3>3, <4>1 DEF Relocated
    <3>4. CASE n \in made_
      <4>1. y \in ShapesOf(p)
        BY <3>1, <3>4 DEF Shown, ShownIn
      <4>2. y.id # m.id
        BY <3>2, <3>4 DEF Names
      <4> QED BY <4>1, <4>2 DEF Relocated
    <3> QED BY <3>1, <3>3, <3>4
  <2>3. CASE \E n \in more : n.op = "upsert" /\ y = ShapeAt(n.section, n.node)
    <3>1. PICK n \in more : n.op = "upsert" /\ y = ShapeAt(n.section, n.node)
      BY <2>3
    <3>2. n \in made_ /\ y.id = n.node.id /\ NameOf(n) = n.node.id
      BY <3>1, ShapeIds DEF ShapeAt, NameOf
    <3>3. y \in ShapesOf(p) /\ y.id # m.id
      BY <3>1, <3>2 DEF Shown, ShownIn, Names
    <3> QED BY <3>3 DEF Relocated
  <2> QED BY <1>4, <2>1, <2>2, <2>3 DEF Shown
<1> QED BY <1>3, <1>4 DEF ShownIn

\* A delete more.
LEMMA DeleteShown ==
    ASSUME NEW p, NEW q, NEW stored, NEW made_, NEW m, m.op = "delete", ~Names(made_, m.id), Removed(p, q, m.id),
           ShownIn(p, stored, made_), NEW more, more = made_ \cup {m}
    PROVE  ShownIn(q, stored, more)
<1>1. \A id : Names(more, id) <=> Names(made_, id) \/ id = m.id
  BY DEF Names, NameOf
<1>2. \A y : y \in ShapesOf(q) <=> Shown(stored, made_, y) /\ y.id # m.id
  BY DEF Removed, ShownIn
<1>3. ASSUME NEW y, Shown(stored, made_, y), y.id # m.id PROVE Shown(stored, more, y)
  <2>1. CASE \E r \in stored : ~Names(made_, r.id) /\ y = RowShape(r)
    <3>1. PICK r \in stored : ~Names(made_, r.id) /\ y = RowShape(r)
      BY <2>1
    <3>2. ~Names(more, r.id)
      BY <1>1, <1>3, <3>1 DEF RowShape
    <3> QED BY <3>1, <3>2 DEF Shown
  <2> QED BY <1>3, <2>1 DEF Shown
<1>4. ASSUME NEW y, Shown(stored, more, y) PROVE Shown(stored, made_, y) /\ y.id # m.id
  <2>1. CASE \E r \in stored : ~Names(more, r.id) /\ y = RowShape(r)
    <3>1. PICK r \in stored : ~Names(more, r.id) /\ y = RowShape(r)
      BY <2>1
    <3>2. ~Names(made_, r.id) /\ y.id = r.id /\ r.id # m.id
      BY <1>1, <3>1 DEF RowShape
    <3> QED BY <3>1, <3>2 DEF Shown
  <2>2. CASE \E r \in stored, n \in more : n.op = "move" /\ n.id = r.id /\ y = At(RowShape(r), PlaceRow(n))
    <3>1. PICK r \in stored, n \in more : n.op = "move" /\ n.id = r.id /\ y = At(RowShape(r), PlaceRow(n))
      BY <2>2
    <3>2. y.id = n.id /\ NameOf(n) = n.id /\ n \in made_
      BY <3>1 DEF At, RowShape, NameOf
    <3>3. y.id # m.id
      BY <3>2 DEF Names
    <3>4. Shown(stored, made_, y)
      BY <3>1, <3>2 DEF Shown
    <3> QED BY <3>3, <3>4
  <2>3. CASE \E n \in more : n.op = "upsert" /\ y = ShapeAt(n.section, n.node)
    <3>1. PICK n \in more : n.op = "upsert" /\ y = ShapeAt(n.section, n.node)
      BY <2>3
    <3>2. n \in made_ /\ y.id = n.node.id /\ NameOf(n) = n.node.id
      BY <3>1, ShapeIds DEF ShapeAt, NameOf
    <3>3. y.id # m.id
      BY <3>2 DEF Names
    <3>4. Shown(stored, made_, y)
      BY <3>1, <3>2 DEF Shown
    <3> QED BY <3>3, <3>4
  <2> QED BY <1>4, <2>1, <2>2, <2>3 DEF Shown
<1> QED BY <1>2, <1>3, <1>4 DEF ShownIn

\* What has no place in the document and no name among the mutations is of no row and of no value.
LEMMA NotThere ==
    ASSUME NEW p, NEW stored, NEW made_, NEW groups, NEW id, ~Names(made_, id), \A x \in ShapesOf(p) : x.id # id,
           ShownIn(p, ToSet(stored), made_), ValuedIn(p, made_, groups)
    PROVE  /\ \A r \in ToSet(stored) : r.id # id
           /\ ~Gone(made_, id)
           /\ \A l : ~Mentions(groups, l, id)
           /\ \A l, v : ~Told(stored, made_, groups, l, id, v)
<1>1. \A r \in ToSet(stored) : r.id # id
  <2> SUFFICES ASSUME NEW r \in ToSet(stored), r.id = id PROVE FALSE
    OBVIOUS
  <2>1. RowShape(r) \in ShapesOf(p) /\ RowShape(r).id = id
    BY DEF ShownIn, Shown, RowShape
  <2> QED BY <2>1
<1>2. ~Gone(made_, id)
  BY DEF Gone, Names, NameOf
<1>3. \A l : ~Mentions(groups, l, id)
  BY <1>2 DEF Mentions, ValuedIn
<1>4. \A l, v : ~Told(stored, made_, groups, l, id, v)
  BY <1>1, <1>3 DEF Told, Gives, Mentions, RowSays
<1> QED BY <1>1, <1>2, <1>3, <1>4

\* An insertion more.
LEMMA InsertShown ==
    ASSUME NEW p, NEW q, NEW stored, NEW made_, NEW m, m.op = "upsert", ~Names(made_, m.node.id),
           \A r \in stored : r.id # m.node.id,
           NEW value, Inserted(p, q, ShapeAt(m.section, m.node), value),
           ShownIn(p, stored, made_), NEW more, more = made_ \cup {m}
    PROVE  ShownIn(q, stored, more)
<1>1. \A id : Names(more, id) <=> Names(made_, id) \/ id = m.node.id
  BY DEF Names, NameOf
<1>2. \A y : y \in ShapesOf(q) <=> Shown(stored, made_, y) \/ y = ShapeAt(m.section, m.node)
  BY DEF Inserted, ShownIn
<1>3. ASSUME NEW y PROVE Shown(stored, more, y) <=> Shown(stored, made_, y) \/ y = ShapeAt(m.section, m.node)
  <2>1. (\E r \in stored : ~Names(more, r.id) /\ y = RowShape(r)) <=> (\E r \in stored : ~Names(made_, r.id) /\ y = RowShape(r))
    BY <1>1
  <2>2. (\E r \in stored, n \in more : n.op = "move" /\ n.id = r.id /\ y = At(RowShape(r), PlaceRow(n)))
          <=> (\E r \in stored, n \in made_ : n.op = "move" /\ n.id = r.id /\ y = At(RowShape(r), PlaceRow(n)))
    OBVIOUS
  <2>3. (\E n \in more : n.op = "upsert" /\ y = ShapeAt(n.section, n.node))
          <=> (\E n \in made_ : n.op = "upsert" /\ y = ShapeAt(n.section, n.node)) \/ y = ShapeAt(m.section, m.node)
    OBVIOUS
  <2> QED BY <2>1, <2>2, <2>3 DEF Shown
<1> QED BY <1>2, <1>3 DEF ShownIn

\* A mutation of a value more.
LEMMA GroupsMore ==
    ASSUME NEW groups, NEW more, NEW l, NEW u, Grown(groups, more, l, u)
    PROVE  /\ \A a, v : Makes(more, a, v) <=> Makes(groups, a, v) \/ (a = l /\ v = u)
           /\ \A a, id : Mentions(more, a, id) <=> Mentions(groups, a, id) \/ (a = l /\ id = u.id)
           /\ \A a, id, v : Gives(more, a, id, v) <=> Gives(groups, a, id, v) \/ (a = l /\ u.op = "upsert" /\ id = u.id /\ v = u.value)
           /\ ~Mentions(groups, l, u.id) /\ ValuedOnce(groups) => ValuedOnce(more)
<1>1. \A a, v : Makes(more, a, v) <=> Makes(groups, a, v) \/ (a = l /\ v = u)
  BY DEF Grown
<1>2. \A a, id : Mentions(more, a, id) <=> Mentions(groups, a, id) \/ (a = l /\ id = u.id)
  BY <1>1 DEF Mentions
<1>3. \A a, id, v : Gives(more, a, id, v) <=> Gives(groups, a, id, v) \/ (a = l /\ u.op = "upsert" /\ id = u.id /\ v = u.value)
  BY <1>1 DEF Gives
<1>4. ~Mentions(groups, l, u.id) /\ ValuedOnce(groups) => ValuedOnce(more)
  BY <1>1 DEF Mentions, ValuedOnce
<1> QED BY <1>1, <1>2, <1>3, <1>4

\* The names of base mutations stay different with a new one.
LEMMA NamesStay ==
    ASSUME NEW made_, NamedOnce(made_), NEW m, ~Names(made_, NameOf(m)), NEW more, more = made_ \cup {m}
    PROVE  /\ NamedOnce(more)
           /\ \A id : Gone(more, id) <=> Gone(made_, id) \/ (m.op = "delete" /\ id = m.id)
  BY DEF NamedOnce, Names, Gone

\* The base mutations of an editor with one more.
LEMMA BaseMore ==
    ASSUME NEW edits, EditsTyped(edits), NEW m \in BaseMutations
    PROVE  ToSet(Append(edits.base, m)) = ToSet(edits.base) \cup {m}
  BY EditParts, Appended

\* An editor that moves agrees.
LEMMA MoveAgrees ==
    ASSUME NEW p, NEW q, NEW edits, EditsTyped(edits), NEW stored, Agrees(p, edits, stored),
           NEW m \in BaseMutations, m.op = "move", ~Names(ToSet(edits.base), m.id),
           NEW place, Relocated(p, q, m.id, place),
           PlaceRow(m).parent = place.parent, PlaceRow(m).slot = place.slot, PlaceRow(m).pos = place.pos,
           NEW more, more = [base |-> Append(edits.base, m), groups |-> edits.groups]
    PROVE  Agrees(q, more, stored)
<1> DEFINE b == ToSet(edits.base)
           c == ToSet(more.base)
<1>1. c = b \cup {m} /\ more.groups = edits.groups
  BY BaseMore
<1>2. /\ NamedOnce(b) /\ ValuedOnce(edits.groups) /\ NewToRows(ToSet(stored), b) /\ ShownIn(p, ToSet(stored), b)
      /\ ToldIn(p, stored, b, edits.groups) /\ ValuedIn(p, b, edits.groups)
  BY DEF Agrees
<1>3. ~Names(b, NameOf(m)) /\ NameOf(m) = m.id
  BY DEF NameOf
<1> HIDE DEF b, c
<1>4. NamedOnce(c) /\ \A id : Gone(c, id) <=> Gone(b, id)
  BY <1>1, <1>2, <1>3, NamesStay
<1>5. NewToRows(ToSet(stored), c)
  BY <1>1, <1>2 DEF NewToRows
<1>6. ShownIn(q, ToSet(stored), c)
  BY <1>1, <1>2, <1>3, MoveShown
<1>7. ToldIn(q, stored, c, edits.groups)
  <2>1. \A l, id, v : Told(stored, c, edits.groups, l, id, v) <=> Told(stored, b, edits.groups, l, id, v)
    BY <1>4 DEF Told
  <2> QED BY <1>2, <2>1 DEF ToldIn, Relocated, SameSays
<1>8. ValuedIn(q, c, edits.groups)
  <2>1. ASSUME NEW x \in ShapesOf(p) PROVE \E y \in ShapesOf(q) : y.id = x.id
    <3>1. CASE x.id = m.id
      <4>1. At(x, place) \in ShapesOf(q)
        BY <3>1 DEF Relocated
      <4>2. At(x, place).id = x.id
        BY DEF At
      <4> QED BY <4>1, <4>2
    <3>2. CASE x.id # m.id
      <4>1. x \in ShapesOf(q)
        BY <3>2 DEF Relocated
      <4> QED BY <4>1
    <3> QED BY <3>1, <3>2
  <2> QED BY <1>2, <1>4, <2>1 DEF ValuedIn
<1> QED BY <1>1, <1>2, <1>4, <1>5, <1>6, <1>7, <1>8 DEF Agrees, c

\* An editor that deletes agrees.
LEMMA DeleteAgrees ==
    ASSUME NEW p, NEW q, NEW edits, EditsTyped(edits), NEW stored, Agrees(p, edits, stored),
           NEW m \in BaseMutations, m.op = "delete", ~Names(ToSet(edits.base), m.id), Removed(p, q, m.id),
           NEW more, more = [base |-> Append(edits.base, m), groups |-> edits.groups]
    PROVE  Agrees(q, more, stored)
<1> DEFINE b == ToSet(edits.base)
           c == ToSet(more.base)
<1>1. c = b \cup {m} /\ more.groups = edits.groups
  BY BaseMore
<1>2. /\ NamedOnce(b) /\ ValuedOnce(edits.groups) /\ NewToRows(ToSet(stored), b) /\ ShownIn(p, ToSet(stored), b)
      /\ ToldIn(p, stored, b, edits.groups) /\ ValuedIn(p, b, edits.groups)
  BY DEF Agrees
<1>3. ~Names(b, NameOf(m)) /\ NameOf(m) = m.id
  BY DEF NameOf
<1> HIDE DEF b, c
<1>4. NamedOnce(c) /\ \A id : Gone(c, id) <=> Gone(b, id) \/ id = m.id
  BY <1>1, <1>2, <1>3, NamesStay
<1>5. NewToRows(ToSet(stored), c)
  BY <1>1, <1>2 DEF NewToRows
<1>6. ShownIn(q, ToSet(stored), c)
  BY <1>1, <1>2, <1>3, DeleteShown
<1>7. ToldIn(q, stored, c, edits.groups)
  <2>1. \A l, id, v : Told(stored, c, edits.groups, l, id, v) <=> Told(stored, b, edits.groups, l, id, v) /\ id # m.id
    BY <1>4 DEF Told
  <2> QED BY <1>2, <2>1 DEF ToldIn, Removed
<1>8. ValuedIn(q, c, edits.groups)
  BY <1>2, <1>4 DEF ValuedIn, Removed
<1> QED BY <1>1, <1>2, <1>4, <1>5, <1>6, <1>7, <1>8 DEF Agrees, c

\* An editor that inserts agrees.
LEMMA InsertAgrees ==
    ASSUME NEW p, NEW q, NEW edits, EditsTyped(edits), NEW stored, Agrees(p, edits, stored),
           NEW m \in BaseMutations, m.op = "upsert", ~Names(ToSet(edits.base), m.node.id),
           \A x \in ShapesOf(p) : x.id # m.node.id, Says(Source, FirstValue(m.node)),
           Inserted(p, q, ShapeAt(m.section, m.node), FirstValue(m.node)),
           NEW more, more.base = Append(edits.base, m), Grown(edits.groups, more.groups, Source, FirstMade(m.node))
    PROVE  Agrees(q, more, stored)
<1> DEFINE b == ToSet(edits.base)
           c == ToSet(more.base)
           id == m.node.id
           u == FirstMade(m.node)
           x == ShapeAt(m.section, m.node)
<1>1. c = b \cup {m}
  BY BaseMore
<1>2. /\ NamedOnce(b) /\ ValuedOnce(edits.groups) /\ NewToRows(ToSet(stored), b) /\ ShownIn(p, ToSet(stored), b)
      /\ ToldIn(p, stored, b, edits.groups) /\ ValuedIn(p, b, edits.groups)
  BY DEF Agrees
<1>3. ~Names(b, NameOf(m)) /\ NameOf(m) = id
  BY DEF NameOf
<1>4. u.op = "upsert" /\ u.id = id /\ u.value = FirstValue(m.node)
  BY DEF FirstMade
<1>5. x.id = id
  BY ShapeIds DEF ShapeAt
<1>6. Grown(edits.groups, more.groups, Source, u) /\ Inserted(p, q, x, u.value) /\ Says(Source, u.value)
  BY <1>4
<1>7. \A y \in ShapesOf(p) : y.id # id
  OBVIOUS
<1> HIDE DEF b, c, id, u, x
<1>8. /\ \A r \in ToSet(stored) : r.id # id
      /\ ~Gone(b, id)
      /\ \A l : ~Mentions(edits.groups, l, id)
      /\ \A l, v : ~Told(stored, b, edits.groups, l, id, v)
  BY <1>2, <1>3, <1>7, NotThere
<1>9. NamedOnce(c) /\ \A a : Gone(c, a) <=> Gone(b, a)
  BY <1>1, <1>2, <1>3, NamesStay
<1>10. NewToRows(ToSet(stored), c)
  BY <1>1, <1>2, <1>8 DEF NewToRows, id
<1>11. ShownIn(q, ToSet(stored), c)
  <2>1. ~Names(b, m.node.id) /\ (\A r \in ToSet(stored) : r.id # m.node.id) /\ Inserted(p, q, ShapeAt(m.section, m.node), u.value)
    BY <1>3, <1>6, <1>8 DEF id, x
  <2> QED BY <1>1, <1>2, <2>1, InsertShown
<1>12. /\ \A a, v : Makes(more.groups, a, v) <=> Makes(edits.groups, a, v) \/ (a = Source /\ v = u)
       /\ \A a, i : Mentions(more.groups, a, i) <=> Mentions(edits.groups, a, i) \/ (a = Source /\ i = u.id)
       /\ \A a, i, v : Gives(more.groups, a, i, v)
                         <=> Gives(edits.groups, a, i, v) \/ (a = Source /\ u.op = "upsert" /\ i = u.id /\ v = u.value)
       /\ ~Mentions(edits.groups, Source, u.id) /\ ValuedOnce(edits.groups) => ValuedOnce(more.groups)
  BY <1>6, GroupsMore
<1>13. ValuedOnce(more.groups)
  BY <1>2, <1>4, <1>8, <1>12
<1>14. ToldIn(q, stored, c, more.groups)
  <2>1. ASSUME NEW l, NEW a, NEW v
        PROVE  Told(stored, c, more.groups, l, a, v) <=> Told(stored, b, edits.groups, l, a, v) \/ (l = Source /\ a = id /\ v = u.value)
    <3>1. CASE l = Source /\ a = id
      <4>1. Mentions(more.groups, l, a) /\ (Gives(more.groups, l, a, v) <=> v = u.value)
        BY <1>4, <1>8, <1>12, <3>1 DEF Mentions, Gives
      <4>2. Told(stored, c, more.groups, l, a, v) <=> v = u.value
        BY <1>6, <1>8, <1>9, <3>1, <4>1 DEF Told
      <4> QED BY <1>8, <3>1, <4>2
    <3>2. CASE ~(l = Source /\ a = id)
      <4>1. (Mentions(more.groups, l, a) <=> Mentions(edits.groups, l, a)) /\ (Gives(more.groups, l, a, v) <=> Gives(edits.groups, l, a, v))
        BY <1>4, <1>12, <3>2
      <4> QED BY <1>9, <3>2, <4>1 DEF Told
    <3> QED BY <3>1, <3>2
  <2>2. \A l, a, v : SaysOf(q, l, a, v) <=> SaysOf(p, l, a, v) \/ (l = Source /\ a = id /\ v = u.value)
    BY <1>5, <1>6 DEF Inserted
  <2> QED BY <1>2, <2>1, <2>2 DEF ToldIn
<1>15. ValuedIn(q, c, more.groups)
  <2>1. x \in ShapesOf(q) /\ \A y \in ShapesOf(p) : y \in ShapesOf(q)
    BY <1>6 DEF Inserted
  <2>2. ASSUME NEW l, NEW v, Makes(more.groups, l, v) PROVE Gone(c, v.id) \/ \E y \in ShapesOf(q) : y.id = v.id
    <3>1. CASE v = u
      BY <1>4, <1>5, <2>1, <3>1
    <3>2. CASE Makes(edits.groups, l, v)
      BY <1>2, <1>9, <2>1, <3>2 DEF ValuedIn
    <3> QED BY <1>12, <2>2, <3>1, <3>2
  <2> QED BY <2>2 DEF ValuedIn
<1> QED BY <1>9, <1>10, <1>11, <1>13, <1>14, <1>15 DEF Agrees, c

\* An editor that translates agrees.
LEMMA TranslateAgrees ==
    ASSUME NEW p, NEW q, NEW edits, NEW stored, Agrees(p, edits, stored),
           NEW l, NEW id, ~Names(ToSet(edits.base), id), ~Mentions(edits.groups, l, id), \E x \in ShapesOf(p) : x.id = id,
           NEW value, Says(l, value), Given(p, q, l, id, value),
           NEW more, more.base = edits.base,
           Grown(edits.groups, more.groups, l, [op |-> "upsert", id |-> id, value |-> value])
    PROVE  Agrees(q, more, stored)
<1> DEFINE b == ToSet(edits.base)
           u == [op |-> "upsert", id |-> id, value |-> value]
<1>1. ToSet(more.base) = b
  OBVIOUS
<1>2. /\ NamedOnce(b) /\ ValuedOnce(edits.groups) /\ NewToRows(ToSet(stored), b) /\ ShownIn(p, ToSet(stored), b)
      /\ ToldIn(p, stored, b, edits.groups) /\ ValuedIn(p, b, edits.groups)
  BY DEF Agrees
<1>3. u.op = "upsert" /\ u.id = id /\ u.value = value
  OBVIOUS
<1>4. Grown(edits.groups, more.groups, l, u) /\ ~Names(b, id)
  OBVIOUS
<1> HIDE DEF b, u
<1>5. /\ \A a, v : Makes(more.groups, a, v) <=> Makes(edits.groups, a, v) \/ (a = l /\ v = u)
      /\ \A a, i : Mentions(more.groups, a, i) <=> Mentions(edits.groups, a, i) \/ (a = l /\ i = u.id)
      /\ \A a, i, v : Gives(more.groups, a, i, v)
                        <=> Gives(edits.groups, a, i, v) \/ (a = l /\ u.op = "upsert" /\ i = u.id /\ v = u.value)
      /\ ~Mentions(edits.groups, l, u.id) /\ ValuedOnce(edits.groups) => ValuedOnce(more.groups)
  BY <1>4, GroupsMore
<1>6. ValuedOnce(more.groups)
  BY <1>2, <1>3, <1>5
<1>7. ~Gone(b, id)
  BY <1>4 DEF Gone, Names, NameOf
<1>8. ShownIn(q, ToSet(stored), b)
  BY <1>2 DEF ShownIn, Given, SameShapes
<1>9. ASSUME NEW k, NEW a, NEW v
      PROVE  Told(stored, b, more.groups, k, a, v) <=> IF k = l /\ a = id THEN v = value ELSE Told(stored, b, edits.groups, k, a, v)
  <2>1. CASE k = l /\ a = id
    <3>1. Mentions(more.groups, k, a) /\ (Gives(more.groups, k, a, v) <=> v = value)
      BY <1>3, <1>5, <2>1 DEF Mentions, Gives
    <3> QED BY <1>7, <2>1, <3>1 DEF Told
  <2>2. CASE ~(k = l /\ a = id)
    <3>1. (Mentions(more.groups, k, a) <=> Mentions(edits.groups, k, a)) /\ (Gives(more.groups, k, a, v) <=> Gives(edits.groups, k, a, v))
      BY <1>3, <1>5, <2>2
    <3> QED BY <2>2, <3>1 DEF Told
  <2> QED BY <2>1, <2>2
<1>10. ToldIn(q, stored, b, more.groups)
  BY <1>2, <1>9 DEF ToldIn, Given
<1>11. ValuedIn(q, b, more.groups)
  <2>1. \A x : x \in ShapesOf(q) <=> x \in ShapesOf(p)
    BY DEF Given, SameShapes
  <2> QED BY <1>2, <1>3, <1>5, <2>1 DEF ValuedIn
<1> QED BY <1>1, <1>2, <1>6, <1>8, <1>10, <1>11 DEF Agrees

\* An editor that removes a translation agrees.
LEMMA RemovalAgrees ==
    ASSUME NEW p, NEW q, NEW edits, NEW stored, Agrees(p, edits, stored),
           NEW l, NEW id, ~Names(ToSet(edits.base), id), ~Mentions(edits.groups, l, id), \E x \in ShapesOf(p) : x.id = id,
           Taken(p, q, l, id),
           NEW more, more.base = edits.base, Grown(edits.groups, more.groups, l, [op |-> "delete", id |-> id])
    PROVE  Agrees(q, more, stored)
<1> DEFINE b == ToSet(edits.base)
           u == [op |-> "delete", id |-> id]
<1>1. ToSet(more.base) = b
  OBVIOUS
<1>2. /\ NamedOnce(b) /\ ValuedOnce(edits.groups) /\ NewToRows(ToSet(stored), b) /\ ShownIn(p, ToSet(stored), b)
      /\ ToldIn(p, stored, b, edits.groups) /\ ValuedIn(p, b, edits.groups)
  BY DEF Agrees
<1>3. u.op = "delete" /\ u.id = id
  OBVIOUS
<1>4. Grown(edits.groups, more.groups, l, u) /\ ~Names(b, id)
  OBVIOUS
<1> HIDE DEF b, u
<1>5. /\ \A a, v : Makes(more.groups, a, v) <=> Makes(edits.groups, a, v) \/ (a = l /\ v = u)
      /\ \A a, i : Mentions(more.groups, a, i) <=> Mentions(edits.groups, a, i) \/ (a = l /\ i = u.id)
      /\ \A a, i, v : Gives(more.groups, a, i, v)
                        <=> Gives(edits.groups, a, i, v) \/ (a = l /\ u.op = "upsert" /\ i = u.id /\ v = u.value)
      /\ ~Mentions(edits.groups, l, u.id) /\ ValuedOnce(edits.groups) => ValuedOnce(more.groups)
  BY <1>4, GroupsMore
<1>6. ValuedOnce(more.groups)
  BY <1>2, <1>3, <1>5
<1>7. \A k, a, v : Gives(more.groups, k, a, v) <=> Gives(edits.groups, k, a, v)
  BY <1>3, <1>5
<1>8. ShownIn(q, ToSet(stored), b)
  BY <1>2 DEF ShownIn, Taken, SameShapes
<1>9. ASSUME NEW k, NEW a, NEW v
      PROVE  Told(stored, b, more.groups, k, a, v) <=> Told(stored, b, edits.groups, k, a, v) /\ ~(k = l /\ a = id)
  <2>1. CASE k = l /\ a = id
    <3>1. Mentions(more.groups, k, a) /\ ~Gives(more.groups, k, a, v)
      BY <1>3, <1>5, <1>7, <2>1 DEF Mentions, Gives
    <3> QED BY <2>1, <3>1 DEF Told
  <2>2. CASE ~(k = l /\ a = id)
    <3>1. Mentions(more.groups, k, a) <=> Mentions(edits.groups, k, a)
      BY <1>3, <1>5, <2>2
    <3> QED BY <1>7, <2>2, <3>1 DEF Told
  <2> QED BY <2>1, <2>2
<1>10. ToldIn(q, stored, b, more.groups)
  BY <1>2, <1>9 DEF ToldIn, Taken
<1>11. ValuedIn(q, b, more.groups)
  <2>1. \A x : x \in ShapesOf(q) <=> x \in ShapesOf(p)
    BY DEF Taken, SameShapes
  <2> QED BY <1>2, <1>3, <1>5, <2>1 DEF ValuedIn
<1> QED BY <1>1, <1>2, <1>6, <1>8, <1>10, <1>11 DEF Agrees

(***************************************************************************)
(* What the store makes of a batch of an editor at the current revision is *)
(* what the editor sees.                                                   *)
(***************************************************************************)

\* The sorts of a batch are of different ids.
LEMMA BatchOfDifferentIds ==
    ASSUME profile \in DOMAIN Forms, NEW edits, EditsTyped(edits), NEW flat, FlatOf(edits, flat), NEW stored \in Seq(PageRow),
           NamedOnce(ToSet(edits.base)), NewToRows(ToSet(stored), ToSet(edits.base))
    PROVE  OfDifferentIds(stored, flat)
<1>1. flat.upserts \in Seq(PutRow) /\ flat.moves \in Seq(MovedRow)
  BY BatchRows
<1>2. ASSUME NEW x \in ToSet(flat.upserts)
      PROVE  x.id \notin Ids(stored) /\ x.id \notin ToSet(flat.deletes) /\ x.id \notin Ids(flat.moves)
  <2>1. PICK m \in ToSet(edits.base) : m.op = "upsert" /\ x = ShapeAt(m.section, m.node)
    BY DEF FlatOf, FlatUpserts
  <2>2. x.id = m.node.id /\ NameOf(m) = m.node.id
    BY <2>1, ShapeIds DEF ShapeAt, NameOf
  <2>3. \A r \in ToSet(stored) : r.id # x.id
    BY <2>1, <2>2 DEF NewToRows
  <2>4. x.id \notin Ids(stored)
    BY <2>3 DEF Ids, ToSet
  <2>5. x.id \notin ToSet(flat.deletes)
    <3> SUFFICES ASSUME x.id \in ToSet(flat.deletes) PROVE FALSE
      OBVIOUS
    <3>1. PICK n \in ToSet(edits.base) : n.op = "delete" /\ x.id = n.id
      BY DEF FlatOf, FlatDeletes
    <3>2. n = m
      BY <2>2, <3>1 DEF NamedOnce, NameOf
    <3> QED BY <2>1, <3>1, <3>2
  <2>6. x.id \notin Ids(flat.moves)
    <3> SUFFICES ASSUME x.id \in Ids(flat.moves) PROVE FALSE
      OBVIOUS
    <3>1. PICK y \in ToSet(flat.moves) : y.id = x.id
      BY DEF Ids, ToSet
    <3>2. PICK n \in ToSet(edits.base) : n.op = "move" /\ y = PlaceRow(n)
      BY DEF FlatOf, FlatMoves
    <3>3. y.id = n.id
      BY <3>2 DEF PlaceRow
    <3>4. n = m
      BY <2>2, <3>1, <3>2, <3>3 DEF NamedOnce, NameOf
    <3> QED BY <2>1, <3>2, <3>4
  <2> QED BY <2>4, <2>5, <2>6
<1> QED BY <1>1, <1>2 DEF OfDifferentIds

\* A row as the moves of an editor leave it.
LEMMA RowMoved ==
    ASSUME NEW edits, NEW flat, FlatMoves(edits, flat), NamedOnce(ToSet(edits.base)), NEW r \in PageRow
    PROVE  /\ r.id \in Ids(flat.moves) => \E m \in ToSet(edits.base) : m.op = "move" /\ m.id = r.id /\ RowOf(flat.moves, r.id) = PlaceRow(m)
           /\ \A m \in ToSet(edits.base) : m.op = "move" /\ m.id = r.id =>
                r.id \in Ids(flat.moves) /\ RowOf(flat.moves, r.id) = PlaceRow(m)
<1>1. \A x : x \in ToSet(flat.moves) <=> \E m \in ToSet(edits.base) : m.op = "move" /\ x = PlaceRow(m)
  BY DEF FlatMoves
<1>2. \A m : PlaceRow(m).id = m.id
  BY DEF PlaceRow
<1>3. ASSUME r.id \in Ids(flat.moves)
      PROVE  \E m \in ToSet(edits.base) : m.op = "move" /\ m.id = r.id /\ RowOf(flat.moves, r.id) = PlaceRow(m)
  <2>1. RowOf(flat.moves, r.id) \in ToSet(flat.moves) /\ RowOf(flat.moves, r.id).id = r.id
    BY <1>3, RowOfId
  <2>2. PICK m \in ToSet(edits.base) : m.op = "move" /\ RowOf(flat.moves, r.id) = PlaceRow(m)
    BY <1>1, <2>1
  <2> QED BY <1>2, <2>1, <2>2
<1>4. ASSUME NEW m \in ToSet(edits.base), m.op = "move", m.id = r.id
      PROVE  r.id \in Ids(flat.moves) /\ RowOf(flat.moves, r.id) = PlaceRow(m)
  <2>1. PlaceRow(m) \in ToSet(flat.moves)
    BY <1>1, <1>4
  <2>2. r.id \in Ids(flat.moves)
    BY <1>2, <1>4, <2>1 DEF Ids, ToSet
  <2>3. PICK n \in ToSet(edits.base) : n.op = "move" /\ n.id = r.id /\ RowOf(flat.moves, r.id) = PlaceRow(n)
    BY <1>3, <2>2
  <2>4. n = m
    BY <1>4, <2>3 DEF NamedOnce, NameOf
  <2> QED BY <2>2, <2>3, <2>4
<1> QED BY <1>3, <1>4

\* What is sent of the mutations of an editor that agrees with the rows.
SentOf(edits, flat, stored) ==
    /\ EditsTyped(edits) /\ FlatOf(edits, flat) /\ stored \in Seq(PageRow)
    /\ NamedOnce(ToSet(edits.base)) /\ NewToRows(ToSet(stored), ToSet(edits.base))

\* Only the deletes of a batch take rows away.
LEMMA GoneDeletes ==
    ASSUME NEW edits, NEW flat, FlatOf(edits, flat)
    PROVE  \A id : id \in ToSet(flat.deletes) <=> Gone(ToSet(edits.base), id)
  BY DEF FlatOf, FlatDeletes, Gone

\* A row that is left is shown where the moves put it.
LEMMA LeftIsShown ==
    ASSUME profile \in DOMAIN Forms, NEW edits, NEW flat, NEW stored, SentOf(edits, flat, stored),
           NEW r \in ToSet(stored), r.id \notin ToSet(flat.deletes), NEW w, w = MovedBy(flat.moves, r)
    PROVE  /\ w \in PageRow /\ w.id = r.id /\ w.locales = r.locales
           /\ Shown(ToSet(stored), ToSet(edits.base), RowShape(w))
<1>1. r \in PageRow
  BY SequenceElements DEF SentOf
<1>2. /\ r.id \in Ids(flat.moves) => \E m \in ToSet(edits.base) : m.op = "move" /\ m.id = r.id /\ RowOf(flat.moves, r.id) = PlaceRow(m)
      /\ \A m \in ToSet(edits.base) : m.op = "move" /\ m.id = r.id =>
                r.id \in Ids(flat.moves) /\ RowOf(flat.moves, r.id) = PlaceRow(m)
  BY <1>1, RowMoved DEF SentOf, FlatOf
<1>3. flat.moves \in Seq(MovedRow)
  BY BatchRows DEF SentOf
<1>4. CASE r.id \in Ids(flat.moves)
  <2>1. PICK m \in ToSet(edits.base) : m.op = "move" /\ m.id = r.id /\ RowOf(flat.moves, r.id) = PlaceRow(m)
    BY <1>2, <1>4
  <2>2. RowOf(flat.moves, r.id) \in ToSet(flat.moves) /\ RowOf(flat.moves, r.id).id = r.id
    BY <1>4, RowOfId
  <2>3. RowOf(flat.moves, r.id) \in MovedRow
    BY <1>3, <2>2, SequenceElements
  <2>4. w = Merged(RowOf(flat.moves, r.id), r)
    BY <1>4 DEF MovedBy
  <2>5. w \in PageRow /\ RowShape(w) = At(RowShape(r), RowOf(flat.moves, r.id)) /\ w.id = r.id /\ w.locales = r.locales
    BY <1>1, <2>2, <2>3, <2>4, MergedRows
  <2>6. Shown(ToSet(stored), ToSet(edits.base), RowShape(w))
    BY <2>1, <2>5 DEF Shown
  <2> QED BY <2>5, <2>6
<1>5. CASE r.id \notin Ids(flat.moves)
  <2>1. w = r
    BY <1>5 DEF MovedBy
  <2>2. ~Names(ToSet(edits.base), r.id)
    <3> SUFFICES ASSUME NEW m \in ToSet(edits.base), NameOf(m) = r.id PROVE FALSE
      BY DEF Names
    <3>1. m \in BaseMutations
      BY EditParts DEF SentOf
    <3>2. m.op = "upsert" \/ m.op = "delete" \/ m.op = "move"
      BY <3>1, BaseMutationSorts
    <3>3. m.op # "upsert"
      BY DEF SentOf, NewToRows, NameOf
    <3>4. m.id = r.id
      BY <3>3 DEF NameOf
    <3>5. m.op # "move"
      BY <1>2, <1>5, <3>4
    <3>6. Gone(ToSet(edits.base), r.id)
      BY <3>2, <3>3, <3>4, <3>5 DEF Gone
    <3> QED BY <3>6, GoneDeletes DEF SentOf
  <2>3. Shown(ToSet(stored), ToSet(edits.base), RowShape(w))
    BY <2>1, <2>2 DEF Shown
  <2> QED BY <1>1, <2>1, <2>3
<1> QED BY <1>4, <1>5

\* What is upserted is shown as it is.
LEMMA NewIsShown ==
    ASSUME profile \in DOMAIN Forms, NEW edits, NEW flat, NEW stored, SentOf(edits, flat, stored),
           NEW u \in ToSet(flat.upserts), NEW w, w = NewRow(u)
    PROVE  /\ w \in PageRow /\ w.id = u.id /\ w.locales = NoValues
           /\ Shown(ToSet(stored), ToSet(edits.base), RowShape(w))
           /\ ~Gone(ToSet(edits.base), w.id)
<1>1. flat.upserts \in Seq(PutRow)
  BY BatchRows DEF SentOf
<1>2. u \in PutRow
  BY <1>1, SequenceElements
<1>3. w \in PageRow /\ RowShape(w) = u /\ w.id = u.id /\ w.locales = NoValues
  BY <1>2, MergedRows
<1>4. PICK m \in ToSet(edits.base) : m.op = "upsert" /\ u = ShapeAt(m.section, m.node)
  BY DEF SentOf, FlatOf, FlatUpserts
<1>5. Shown(ToSet(stored), ToSet(edits.base), RowShape(w))
  BY <1>3, <1>4 DEF Shown
<1>6. u.id = m.node.id /\ NameOf(m) = m.node.id
  BY <1>4, ShapeIds DEF ShapeAt, NameOf
<1>7. ~Gone(ToSet(edits.base), w.id)
  BY <1>3, <1>4, <1>6 DEF Gone, SentOf, NamedOnce, NameOf
<1> QED BY <1>3, <1>5, <1>7

\* What is shown is left or new.
LEMMA ShownIsThere ==
    ASSUME profile \in DOMAIN Forms, NEW edits, NEW flat, NEW stored, SentOf(edits, flat, stored),
           NEW x, Shown(ToSet(stored), ToSet(edits.base), x)
    PROVE  \E y : LeftOrNew(stored, flat, y) /\ x = RowShape(y)
<1> DEFINE b == ToSet(edits.base)
<1>1. \A r \in ToSet(stored) : r \in PageRow
  BY SequenceElements DEF SentOf
<1>2. flat.moves \in Seq(MovedRow) /\ flat.upserts \in Seq(PutRow)
  BY BatchRows DEF SentOf
<1>3. CASE \E r \in ToSet(stored) : ~Names(b, r.id) /\ x = RowShape(r)
  <2>1. PICK r \in ToSet(stored) : ~Names(b, r.id) /\ x = RowShape(r)
    BY <1>3
  <2>2. ~Gone(b, r.id) /\ \A m \in b : m.op = "move" => m.id # r.id
    BY <2>1 DEF Gone, Names, NameOf
  <2>3. r.id \notin ToSet(flat.deletes)
    BY <2>2, GoneDeletes DEF SentOf
  <2>4. r.id \notin Ids(flat.moves)
    BY <1>1, <2>2, RowMoved DEF SentOf, FlatOf
  <2>5. MovedBy(flat.moves, r) = r
    BY <2>4 DEF MovedBy
  <2> QED BY <2>1, <2>3, <2>5 DEF LeftOrNew
<1>4. CASE \E r \in ToSet(stored), m \in b : m.op = "move" /\ m.id = r.id /\ x = At(RowShape(r), PlaceRow(m))
  <2>1. PICK r \in ToSet(stored), m \in b : m.op = "move" /\ m.id = r.id /\ x = At(RowShape(r), PlaceRow(m))
    BY <1>4
  <2>2. r.id \in Ids(flat.moves) /\ RowOf(flat.moves, r.id) = PlaceRow(m)
    BY <1>1, <2>1, RowMoved DEF SentOf, FlatOf
  <2>3. RowOf(flat.moves, r.id) \in ToSet(flat.moves) /\ RowOf(flat.moves, r.id).id = r.id
    BY <2>2, RowOfId
  <2>4. RowOf(flat.moves, r.id) \in MovedRow
    BY <1>2, <2>3, SequenceElements
  <2>5. RowShape(Merged(RowOf(flat.moves, r.id), r)) = At(RowShape(r), RowOf(flat.moves, r.id))
    BY <1>1, <2>3, <2>4, MergedRows
  <2>6. x = RowShape(MovedBy(flat.moves, r))
    BY <2>1, <2>2, <2>5 DEF MovedBy
  <2>7. ~Gone(b, r.id)
    BY <2>1 DEF Gone, SentOf, NamedOnce, NameOf
  <2>8. r.id \notin ToSet(flat.deletes)
    BY <2>7, GoneDeletes DEF SentOf
  <2> QED BY <2>6, <2>8 DEF LeftOrNew
<1>5. CASE \E m \in b : m.op = "upsert" /\ x = ShapeAt(m.section, m.node)
  <2>1. x \in ToSet(flat.upserts)
    BY <1>5 DEF SentOf, FlatOf, FlatUpserts
  <2>2. x \in PutRow
    BY <1>2, <2>1, SequenceElements
  <2>3. RowShape(NewRow(x)) = x
    BY <2>2, MergedRows
  <2> QED BY <2>1, <2>3 DEF LeftOrNew
<1> QED BY <1>3, <1>4, <1>5 DEF Shown

PutsGiven(edits, flat) ==
    \A l, id, u : u \in Put(flat.groups, l, id) <=>
        \E value : Gives(edits.groups, l, id, value) /\ u = [id |-> id, value |-> value]
DropsDeleted(edits, flat) ==
    \A l, id : Dropped(flat.groups, l, id) <=> \E v : Makes(edits.groups, l, v) /\ v.op = "delete" /\ v.id = id

\* The groups that are sent put what is given, and drop what is mentioned otherwise.
LEMMA GroupsSay ==
    ASSUME NEW edits, EditsTyped(edits), NEW flat, FlatOf(edits, flat)
    PROVE  PutsGiven(edits, flat) /\ DropsDeleted(edits, flat)
<1>1. /\ DOMAIN flat.groups = DOMAIN edits.groups
      /\ \A i \in DOMAIN edits.groups : GroupFlat(edits.groups[i], flat.groups[i])
  BY DEF FlatOf, FlatGroups
<1>2. ASSUME NEW l, NEW id, NEW u, u \in Put(flat.groups, l, id)
      PROVE  \E value : Gives(edits.groups, l, id, value) /\ u = [id |-> id, value |-> value]
  <2>1. PICK f \in ToSet(flat.groups) : f.locale = l /\ u \in ToSet(f.upserts) /\ u.id = id
    BY <1>2, PutElement
  <2>2. PICK i \in DOMAIN flat.groups : f = flat.groups[i]
    BY DEF ToSet
  <2>3. GroupFlat(edits.groups[i], f)
    BY <1>1, <2>2
  <2>4. PICK v \in ToSet(edits.groups[i].mutations) : v.op = "upsert" /\ u = [id |-> v.id, value |-> v.value]
    BY <2>1, <2>3 DEF GroupFlat
  <2>5. edits.groups[i].locale = l
    BY <2>1, <2>3 DEF GroupFlat
  <2>6. Makes(edits.groups, l, v)
    BY <1>1, <2>2, <2>5, MakesIn
  <2>7. v.id = id
    BY <2>1, <2>4
  <2>8. Gives(edits.groups, l, id, v.value)
    BY <2>4, <2>6, <2>7 DEF Gives
  <2> QED BY <2>4, <2>7, <2>8
<1>3. ASSUME NEW l, NEW id, NEW value, Gives(edits.groups, l, id, value)
      PROVE  [id |-> id, value |-> value] \in Put(flat.groups, l, id)
  <2>1. PICK v : Makes(edits.groups, l, v) /\ v.op = "upsert" /\ v.id = id /\ v.value = value
    BY <1>3 DEF Gives
  <2>2. PICK i \in DOMAIN edits.groups : edits.groups[i].locale = l /\ v \in ToSet(edits.groups[i].mutations)
    BY <2>1, MakesIn
  <2>3. GroupFlat(edits.groups[i], flat.groups[i])
    BY <1>1
  <2>4. flat.groups[i] \in ToSet(flat.groups)
    BY <1>1 DEF ToSet
  <2>5. flat.groups[i].locale = l
    BY <2>2, <2>3 DEF GroupFlat
  <2>6. [id |-> id, value |-> value] \in ToSet(flat.groups[i].upserts)
    BY <2>1, <2>2, <2>3 DEF GroupFlat
  <2> QED BY <2>4, <2>5, <2>6, PutElement
<1>4. ASSUME NEW l, NEW id, Dropped(flat.groups, l, id)
      PROVE  \E v : Makes(edits.groups, l, v) /\ v.op = "delete" /\ v.id = id
  <2>1. PICK f \in ToSet(flat.groups) : f.locale = l /\ id \in ToSet(f.deletes)
    BY <1>4 DEF Dropped
  <2>2. PICK i \in DOMAIN flat.groups : f = flat.groups[i]
    BY DEF ToSet
  <2>3. GroupFlat(edits.groups[i], f)
    BY <1>1, <2>2
  <2>4. PICK v \in ToSet(edits.groups[i].mutations) : v.op = "delete" /\ id = v.id
    BY <2>1, <2>3 DEF GroupFlat
  <2>5. edits.groups[i].locale = l
    BY <2>1, <2>3 DEF GroupFlat
  <2>6. Makes(edits.groups, l, v)
    BY <1>1, <2>2, <2>5, MakesIn
  <2> QED BY <2>4, <2>6
<1>5. ASSUME NEW l, NEW id, NEW v, Makes(edits.groups, l, v), v.op = "delete", v.id = id
      PROVE  Dropped(flat.groups, l, id)
  <2>1. PICK i \in DOMAIN edits.groups : edits.groups[i].locale = l /\ v \in ToSet(edits.groups[i].mutations)
    BY <1>5, MakesIn
  <2>2. GroupFlat(edits.groups[i], flat.groups[i])
    BY <1>1
  <2>3. flat.groups[i] \in ToSet(flat.groups)
    BY <1>1 DEF ToSet
  <2>4. flat.groups[i].locale = l
    BY <2>1, <2>2 DEF GroupFlat
  <2>5. id \in ToSet(flat.groups[i].deletes)
    BY <1>5, <2>1, <2>2 DEF GroupFlat
  <2> QED BY <2>3, <2>4, <2>5 DEF Dropped
<1>6. PutsGiven(edits, flat)
  BY <1>2, <1>3 DEF PutsGiven
<1>7. DropsDeleted(edits, flat)
  BY <1>4, <1>5 DEF DropsDeleted
<1> QED BY <1>6, <1>7

\* What is left or new is a row, and not of an id that is gone.
LEMMA LeftOrNewRow ==
    ASSUME profile \in DOMAIN Forms, NEW edits, NEW flat, NEW stored, SentOf(edits, flat, stored),
           NEW r, LeftOrNew(stored, flat, r)
    PROVE  /\ r \in PageRow /\ ~Gone(ToSet(edits.base), r.id)
           /\ Shown(ToSet(stored), ToSet(edits.base), RowShape(r))
           /\ \A l \in DOMAIN r.locales : \E s \in ToSet(stored) : s.id = r.id /\ l \in DOMAIN s.locales /\ s.locales[l] = r.locales[l]
<1>1. CASE \E s \in ToSet(stored) : s.id \notin ToSet(flat.deletes) /\ r = MovedBy(flat.moves, s)
  <2>1. PICK s \in ToSet(stored) : s.id \notin ToSet(flat.deletes) /\ r = MovedBy(flat.moves, s)
    BY <1>1
  <2>2. r \in PageRow /\ r.id = s.id /\ r.locales = s.locales /\ Shown(ToSet(stored), ToSet(edits.base), RowShape(r))
    BY <2>1, LeftIsShown
  <2>3. ~Gone(ToSet(edits.base), r.id)
    BY <2>1, <2>2, GoneDeletes DEF SentOf
  <2> QED BY <2>2, <2>3
<1>2. CASE \E u \in ToSet(flat.upserts) : r = NewRow(u)
  <2>1. PICK u \in ToSet(flat.upserts) : r = NewRow(u)
    BY <1>2
  <2>2. /\ r \in PageRow /\ r.locales = NoValues
        /\ Shown(ToSet(stored), ToSet(edits.base), RowShape(r)) /\ ~Gone(ToSet(edits.base), r.id)
    BY <2>1, NewIsShown
  <2>3. \A l : l \notin DOMAIN r.locales
    BY <2>2 DEF NoValues
  <2> QED BY <2>2, <2>3
<1> QED BY <1>1, <1>2 DEF LeftOrNew

\* A row with the values of groups.
GivenValues(groups, r, w) ==
    /\ w \in PageRow /\ w.id = r.id /\ RowShape(w) = RowShape(r)
    /\ \A l : l \in DOMAIN w.locales <=> (l \in DOMAIN r.locales \/ Put(groups, l, r.id) # {}) /\ ~Dropped(groups, l, r.id)
    /\ \A l \in DOMAIN w.locales : w.locales[l] = GroupValue(groups, r, l)

\* Groups give a row those values.
LEMMA RowGiven ==
    ASSUME NEW groups \in Seq(RowGroups), NEW r \in PageRow
    PROVE  GivenValues(groups, r, WithValues(groups, r))
  BY ValuesGiven DEF GivenValues

\* What an editor has made of values is of a sort, and one for each id and locale.
LEMMA MadeValues ==
    ASSUME NEW edits, EditsTyped(edits), ValuedOnce(edits.groups), NEW flat, FlatOf(edits, flat), NEW l, NEW id
    PROVE  /\ ~Mentions(edits.groups, l, id) <=> Put(flat.groups, l, id) = {} /\ ~Dropped(flat.groups, l, id)
           /\ \A v : Gives(edits.groups, l, id, v) =>
                /\ ~Dropped(flat.groups, l, id) /\ Put(flat.groups, l, id) # {}
                /\ (CHOOSE u \in Put(flat.groups, l, id) : TRUE).value = v
           /\ Put(flat.groups, l, id) # {} => Gives(edits.groups, l, id, (CHOOSE u \in Put(flat.groups, l, id) : TRUE).value)
<1>a. PutsGiven(edits, flat) /\ DropsDeleted(edits, flat)
  BY GroupsSay
<1>1. /\ \A u : u \in Put(flat.groups, l, id) <=>
                \E value : Gives(edits.groups, l, id, value) /\ u = [id |-> id, value |-> value]
      /\ Dropped(flat.groups, l, id) <=> \E v : Makes(edits.groups, l, v) /\ v.op = "delete" /\ v.id = id
  BY <1>a DEF PutsGiven, DropsDeleted
<1> DEFINE P == Put(flat.groups, l, id)
           c == CHOOSE u \in P : TRUE
<1>2. \A v : Makes(edits.groups, l, v) => v.op = "upsert" \/ v.op = "delete"
  <2> SUFFICES ASSUME NEW v, Makes(edits.groups, l, v) PROVE v.op = "upsert" \/ v.op = "delete"
    OBVIOUS
  <2>1. PICK i \in DOMAIN edits.groups : v \in ToSet(edits.groups[i].mutations)
    BY MakesIn
  <2>2. edits.groups \in Seq(MadeGroups)
    BY EditParts
  <2>3. edits.groups[i] \in MadeGroups
    BY <2>2
  <2>4. edits.groups[i].mutations \in Seq(ValueMutations)
    BY <2>3 DEF MadeGroups
  <2>5. v \in ValueMutations
    BY <2>1, <2>4, SequenceElements
  <2> QED BY <2>5, ValueMutationSorts
<1>3. \A v, w : Gives(edits.groups, l, id, v) /\ Gives(edits.groups, l, id, w) => v = w
  BY DEF Gives, ValuedOnce
<1>4. \A v : Gives(edits.groups, l, id, v) => ~Dropped(flat.groups, l, id)
  BY <1>1 DEF Gives, ValuedOnce
<1>5. P # {} => c \in P
  OBVIOUS
<1> HIDE DEF P, c
<1>6. \A v : Gives(edits.groups, l, id, v) => [id |-> id, value |-> v] \in P
  BY <1>1 DEF P
<1>7. P # {} => Gives(edits.groups, l, id, c.value)
  <2> SUFFICES ASSUME P # {} PROVE Gives(edits.groups, l, id, c.value)
    OBVIOUS
  <2>1. PICK value : Gives(edits.groups, l, id, value) /\ c = [id |-> id, value |-> value]
    BY <1>1, <1>5 DEF P
  <2>2. c.value = value
    BY <2>1
  <2> QED BY <2>1, <2>2
<1>8. ~Mentions(edits.groups, l, id) <=> P = {} /\ ~Dropped(flat.groups, l, id)
  <2>1. ASSUME ~Mentions(edits.groups, l, id) PROVE P = {} /\ ~Dropped(flat.groups, l, id)
    <3>1. \A v : ~Gives(edits.groups, l, id, v)
      BY <2>1 DEF Mentions, Gives
    <3>2. P = {}
      BY <1>7, <3>1
    <3>3. ~Dropped(flat.groups, l, id)
      BY <1>1, <2>1 DEF Mentions
    <3> QED BY <3>2, <3>3
  <2>2. ASSUME P = {}, ~Dropped(flat.groups, l, id) PROVE ~Mentions(edits.groups, l, id)
    <3>1. \A v : ~Gives(edits.groups, l, id, v)
      BY <1>6, <2>2
    <3> QED BY <1>1, <1>2, <2>2, <3>1 DEF Mentions, Gives
  <2> QED BY <2>1, <2>2
<1> QED BY <1>3, <1>4, <1>6, <1>7, <1>8 DEF P, c

\* After the save the rows say what the editor sees.
LEMMA SavedSays ==
    ASSUME profile \in DOMAIN Forms, NEW p, NEW edits, EditsTyped(edits), NEW stored \in Seq(PageRow), Agrees(p, edits, stored),
           NEW flat, FlatOf(edits, flat), NEW sorts \in Sorts, NEW saved, saved = Applied(stored, flat, sorts)
    PROVE  SaysTheRows(p, saved)
<1> DEFINE b == ToSet(edits.base)
           groups == flat.groups
           t == InGroupOrder(stored, flat, sorts)
<1>1. /\ NamedOnce(b) /\ ValuedOnce(edits.groups) /\ NewToRows(ToSet(stored), b) /\ ShownIn(p, ToSet(stored), b)
      /\ ToldIn(p, stored, b, edits.groups) /\ ValuedIn(p, b, edits.groups)
  BY DEF Agrees
<1>2. SentOf(edits, flat, stored)
  BY <1>1 DEF SentOf
<1>3. OfDifferentIds(stored, flat)
  BY <1>1, BatchOfDifferentIds
<1>4. t \in Seq(PageRow) /\ \A y : y \in ToSet(t) <=> LeftOrNew(stored, flat, y)
  BY <1>3, InAnyOrder
<1>5. groups \in Seq(RowGroups)
  BY BatchRows
<1>6. saved = WithGroups(t, groups)
  BY DEF Applied
<1>7. \A r : LeftOrNew(stored, flat, r) =>
         /\ r \in PageRow /\ ~Gone(b, r.id) /\ Shown(ToSet(stored), b, RowShape(r))
         /\ \A l \in DOMAIN r.locales : \E s \in ToSet(stored) : s.id = r.id /\ l \in DOMAIN s.locales /\ s.locales[l] = r.locales[l]
  BY <1>2, LeftOrNewRow
<1>8. \A x : Shown(ToSet(stored), b, x) => \E y : LeftOrNew(stored, flat, y) /\ x = RowShape(y)
  BY <1>2, ShownIsThere
<1>9. \A l, id : /\ ~Mentions(edits.groups, l, id) <=> Put(groups, l, id) = {} /\ ~Dropped(groups, l, id)
                 /\ \A v : Gives(edits.groups, l, id, v) =>
                      /\ ~Dropped(groups, l, id) /\ Put(groups, l, id) # {}
                      /\ (CHOOSE u \in Put(groups, l, id) : TRUE).value = v
                 /\ Put(groups, l, id) # {} => Gives(edits.groups, l, id, (CHOOSE u \in Put(groups, l, id) : TRUE).value)
  BY <1>1, MadeValues
<1> HIDE DEF b, groups, t
<1>10. \A y : y \in ToSet(saved) <=> \E r \in ToSet(t) : y = WithValues(groups, r)
  BY <1>4, <1>5, <1>6, GroupElements
<1>11. \A y : y \in ToSet(saved) <=> \E r : LeftOrNew(stored, flat, r) /\ y = WithValues(groups, r)
  BY <1>4, <1>10
<1>a. \A r : LeftOrNew(stored, flat, r) => GivenValues(groups, r, WithValues(groups, r))
  BY <1>5, <1>7, RowGiven
<1>12. \A r : LeftOrNew(stored, flat, r) =>
         LET w == WithValues(groups, r)
         IN /\ w \in PageRow /\ w.id = r.id /\ RowShape(w) = RowShape(r)
            /\ \A l : l \in DOMAIN w.locales <=> (l \in DOMAIN r.locales \/ Put(groups, l, r.id) # {}) /\ ~Dropped(groups, l, r.id)
            /\ \A l \in DOMAIN w.locales : w.locales[l] = GroupValue(groups, r, l)
  BY <1>a DEF GivenValues
<1>13. \A x : x \in ShapesOf(p) <=> \E y \in ToSet(saved) : x = RowShape(y)
  <2>1. ASSUME NEW x, x \in ShapesOf(p) PROVE \E y \in ToSet(saved) : x = RowShape(y)
    <3>1. Shown(ToSet(stored), b, x)
      BY <1>1, <2>1 DEF ShownIn
    <3>2. PICK r : LeftOrNew(stored, flat, r) /\ x = RowShape(r)
      BY <1>8, <3>1
    <3>3. WithValues(groups, r) \in ToSet(saved) /\ RowShape(WithValues(groups, r)) = x
      BY <1>11, <1>12, <3>2
    <3> QED BY <3>3
  <2>2. ASSUME NEW y \in ToSet(saved) PROVE RowShape(y) \in ShapesOf(p)
    <3>1. PICK r : LeftOrNew(stored, flat, r) /\ y = WithValues(groups, r)
      BY <1>11, <2>2
    <3>2. RowShape(y) = RowShape(r) /\ Shown(ToSet(stored), b, RowShape(r))
      BY <1>7, <1>12, <3>1
    <3> QED BY <1>1, <3>2 DEF ShownIn
  <2> QED BY <2>1, <2>2
<1>14. ASSUME NEW l, NEW id, NEW v, RowSays(saved, l, id, v)
       PROVE  Told(stored, b, edits.groups, l, id, v)
  <2>1. PICK y \in ToSet(saved) : y.id = id /\ l \in DOMAIN y.locales /\ v = y.locales[l]
    BY <1>14 DEF RowSays
  <2>2. PICK r : LeftOrNew(stored, flat, r) /\ y = WithValues(groups, r)
    BY <1>11, <2>1
  <2>3. /\ r.id = id /\ ~Dropped(groups, l, id) /\ (l \in DOMAIN r.locales \/ Put(groups, l, id) # {})
        /\ v = GroupValue(groups, r, l)
    BY <1>12, <2>1, <2>2
  <2>4. Says(l, v) /\ ~Gone(b, id)
    BY <1>7, <1>14, <2>2, <2>3 DEF RowSays
  <2>5. CASE Put(groups, l, id) = {}
    <3>1. l \in DOMAIN r.locales /\ v = r.locales[l]
      BY <2>3, <2>5 DEF GroupValue
    <3>2. ~Mentions(edits.groups, l, id)
      BY <1>9, <2>3, <2>5
    <3>3. \E s \in ToSet(stored) : s.id = id /\ l \in DOMAIN s.locales /\ s.locales[l] = v
      BY <1>7, <2>2, <2>3, <3>1
    <3> QED BY <2>4, <3>2, <3>3 DEF Told, RowSays
  <2>6. CASE Put(groups, l, id) # {}
    <3>1. v = (CHOOSE u \in Put(groups, l, id) : TRUE).value
      BY <2>3, <2>6 DEF GroupValue
    <3>2. Gives(edits.groups, l, id, v)
      BY <1>9, <2>6, <3>1
    <3> QED BY <2>4, <3>2 DEF Told
  <2> QED BY <2>5, <2>6
<1>15. ASSUME NEW l, NEW id, NEW v, Told(stored, b, edits.groups, l, id, v)
       PROVE  RowSays(saved, l, id, v)
  <2>1. Says(l, v) /\ ~Gone(b, id)
    BY <1>15 DEF Told
  <2>2. CASE Gives(edits.groups, l, id, v)
    <3>1. \E x \in ShapesOf(p) : x.id = id
      BY <1>1, <2>1, <2>2 DEF ValuedIn, Gives
    <3>2. PICK r : LeftOrNew(stored, flat, r) /\ RowShape(r).id = id
      BY <1>1, <1>8, <3>1 DEF ShownIn
    <3>3. r.id = id
      BY <3>2 DEF RowShape
    <3>4. /\ ~Dropped(groups, l, id) /\ Put(groups, l, id) # {}
          /\ (CHOOSE u \in Put(groups, l, id) : TRUE).value = v
      BY <1>9, <2>2
    <3>5. GroupValue(groups, r, l) = v
      BY <3>3, <3>4 DEF GroupValue
    <3> DEFINE w == WithValues(groups, r)
    <3>6. w \in ToSet(saved)
      BY <1>11, <3>2
    <3>7. w.id = id /\ l \in DOMAIN w.locales /\ w.locales[l] = v
      BY <1>12, <3>2, <3>3, <3>4, <3>5
    <3> HIDE DEF w
    <3> QED BY <2>1, <3>6, <3>7 DEF RowSays
  <2>3. CASE ~Mentions(edits.groups, l, id) /\ RowSays(stored, l, id, v)
    <3>1. PICK s \in ToSet(stored) : s.id = id /\ l \in DOMAIN s.locales /\ v = s.locales[l]
      BY <2>3 DEF RowSays
    <3>2. s.id \notin ToSet(flat.deletes)
      BY <2>1, <3>1, GoneDeletes DEF b
    <3> DEFINE r == MovedBy(flat.moves, s)
    <3>3. r.id = id /\ r.locales = s.locales
      BY <1>2, <3>1, <3>2, LeftIsShown DEF b
    <3>4. LeftOrNew(stored, flat, r)
      BY <3>2 DEF LeftOrNew
    <3> HIDE DEF r
    <3>5. Put(groups, l, id) = {} /\ ~Dropped(groups, l, id)
      BY <1>9, <2>3
    <3>6. GroupValue(groups, r, l) = v
      BY <3>1, <3>3, <3>5 DEF GroupValue
    <3> DEFINE w == WithValues(groups, r)
    <3>7. w \in ToSet(saved)
      BY <1>11, <3>4
    <3>8. w.id = id /\ l \in DOMAIN w.locales /\ w.locales[l] = v
      BY <1>12, <3>1, <3>3, <3>4, <3>5, <3>6
    <3> HIDE DEF w
    <3> QED BY <2>1, <3>7, <3>8 DEF RowSays
  <2> QED BY <1>15, <2>2, <2>3 DEF Told
<1>16. \A l, id, v : SaysOf(p, l, id, v) <=> RowSays(saved, l, id, v)
  BY <1>1, <1>14, <1>15 DEF ToldIn
<1> QED BY <1>13, <1>16 DEF SaysTheRows

(***************************************************************************)
(* A document is flattened to rows that say what it says.                  *)
(***************************************************************************)

\* The row of a section, and of a block of it.
FlatSection(p, n, x) ==
    /\ x \in Row /\ RowShape(x) = SectionShape(n) /\ x.id = n.id /\ x.kind = n.shared.case
    /\ \A l : l \in DOMAIN x.locales <=> l \in Locales /\ n.id \in DOMAIN p.overlays[l]
    /\ \A l \in DOMAIN x.locales : x.locales[l] = [case |-> p.overlays[l][n.id].case, text |-> p.overlays[l][n.id].text]

FlatBlock(p, n, b, x) ==
    /\ x \in Row /\ RowShape(x) = BlockShape(n.id, b) /\ x.id = b.id /\ x.kind = b.shared.case
    /\ \A l : l \in DOMAIN x.locales <=>
          l \in Locales /\ n.id \in DOMAIN p.overlays[l] /\ b.id \in DOMAIN p.overlays[l][n.id].blocks
    /\ \A l \in DOMAIN x.locales : x.locales[l] = p.overlays[l][n.id].blocks[b.id]

\* A section is flattened to a row of its shape and values.
LEMMA SectionFlat ==
    ASSUME NEW p, PageDocument(p), NEW n \in ToSet(p.nodes)
    PROVE  FlatSection(p, n, SectionRow(n, p.overlays))
<1> DEFINE x == SectionRow(n, p.overlays)
<1>1. p.overlays \in PartialFunctions(Locales, PageValues) /\ DOMAIN p.overlays = Locales
  BY DEF PageDocument, Page
<1>2. n \in Node /\ n.id \in Uuid
  BY DEF PageDocument, SectionFits
<1>3. normalizeUUID(n.id) = n.id
  BY <1>2, StoredIds
<1>4. /\ x \in Row /\ x.slot = (IF n.column = 0 THEN Sections ELSE Column(n.column))
      /\ x.id = n.id /\ x.parent = n.parent /\ x.pos = int32(n.index)
      /\ x.kind = n.shared.case /\ x.shared = n.shared
      /\ DOMAIN x.locales = LocalesWith(p.overlays, n.id)
  BY <1>1, <1>2, <1>3, SectionRowTyped
<1>5. \A l \in DOMAIN x.locales : x.locales[l] = [case |-> p.overlays[l][n.id].case, text |-> p.overlays[l][n.id].text]
  BY <1>3 DEF SectionRow
<1>6. \A l : l \in DOMAIN x.locales <=> l \in Locales /\ n.id \in DOMAIN p.overlays[l]
  BY <1>1, <1>4 DEF LocalesWith
<1> HIDE DEF x
<1>7. RowShape(x) = SectionShape(n)
  BY <1>4 DEF RowShape, SectionShape
<1> QED BY <1>4, <1>5, <1>6, <1>7 DEF FlatSection, x

\* A block is flattened to a row of its shape and values.
LEMMA BlockFlat ==
    ASSUME NEW p, PageDocument(p), NEW n \in ToSet(p.nodes), HasBlocks(n), NEW j \in DOMAIN n.blocks
    PROVE  FlatBlock(p, n, n.blocks[j], BlockRow(n, p.overlays, j))
<1> DEFINE b == n.blocks[j]
           nested == NestedOverlays(n, p.overlays)
           r == RichRow(b, nested)
           x == BlockRow(n, p.overlays, j)
<1>1. p.overlays \in PartialFunctions(Locales, PageValues) /\ DOMAIN p.overlays = Locales
  BY DEF PageDocument, Page
<1>2. n \in Node /\ n.id \in Uuid /\ \A c \in ToSet(n.blocks) : c.id \in Uuid
  BY DEF PageDocument, SectionFits
<1>3. b \in Block /\ b.id \in Uuid
  <2>1. n.blocks \in Seq(Block)
    BY <1>2 DEF Node
  <2>2. n.blocks[j] \in ToSet(n.blocks)
    BY DEF ToSet
  <2> QED BY <1>2, <2>1, <2>2
<1>4. normalizeUUID(n.id) = n.id /\ normalizeUUID(b.id) = b.id
  BY <1>2, <1>3, StoredIds
<1>5. nested \in PartialFunctions(Locales, BlockValues)
  BY <1>1, NestedOverlaysTyped
<1>6. /\ r \in Row /\ r.slot = Content /\ r.id = b.id /\ r.parent = b.parent /\ r.pos = int32(b.index)
      /\ r.kind = b.shared.case /\ r.shared = b.shared /\ DOMAIN r.locales = LocalesWith(nested, b.id)
  <2> HIDE DEF nested, b
  <2> QED BY <1>3, <1>4, <1>5, RichRowTyped
<1>7. \A l \in DOMAIN r.locales : r.locales[l] = nested[l][b.id]
  BY <1>4 DEF RichRow
<1>8. x = OwnedRow(n.id, r)
  BY <1>4 DEF BlockRow
<1> HIDE DEF x, r
<1>9. /\ x \in Row /\ x.id = b.id /\ x.slot = Content /\ x.pos = int32(b.index) /\ x.kind = b.shared.case /\ x.shared = b.shared
      /\ x.locales = r.locales /\ x.parent = IF b.parent = 0 THEN n.id ELSE b.parent
  BY <1>2, <1>6, <1>8, OwnedRowTyped
<1>10. RowShape(x) = BlockShape(n.id, b)
  BY <1>9 DEF RowShape, BlockShape
<1>11. \A l \in Locales : nested[l] = IF n.id \in DOMAIN p.overlays[l] THEN p.overlays[l][n.id].blocks ELSE NoValues
  <2>1. \A l \in Locales : n.id \in DOMAIN p.overlays[l] => p.overlays[l][n.id].case = "rich-text"
    <3> SUFFICES ASSUME NEW l \in Locales, n.id \in DOMAIN p.overlays[l] PROVE p.overlays[l][n.id].case = "rich-text"
      OBVIOUS
    <3>1. PICK m \in ToSet(p.nodes) : m.id = n.id /\ ValueFits(m, p.overlays[l][n.id])
      BY DEF PageDocument
    <3>2. m = n
      <4>1. DistinctIds(p.nodes)
        BY DEF PageDocument
      <4> QED BY <3>1, <4>1 DEF DistinctIds, ToSet
    <3> QED BY <3>1, <3>2 DEF ValueFits, HasBlocks
  <2> QED BY <1>1, <1>4, <2>1 DEF NestedOverlays
<1>12. DOMAIN nested = Locales
  BY <1>1 DEF NestedOverlays
<1> HIDE DEF nested, b
<1>13. \A l : l \in DOMAIN x.locales <=>
          l \in Locales /\ n.id \in DOMAIN p.overlays[l] /\ b.id \in DOMAIN p.overlays[l][n.id].blocks
  <2>1. \A l : l \in DOMAIN x.locales <=> l \in Locales /\ b.id \in DOMAIN nested[l]
    BY <1>6, <1>9, <1>12 DEF LocalesWith
  <2>2. DOMAIN NoValues = {}
    BY DEF NoValues
  <2> QED BY <1>11, <2>1, <2>2
<1>14. \A l \in DOMAIN x.locales : x.locales[l] = p.overlays[l][n.id].blocks[b.id]
  BY <1>7, <1>9, <1>11, <1>13
<1> QED BY <1>9, <1>10, <1>13, <1>14 DEF FlatBlock, b, x

\* Rows of an id each, with values of their kind.
WellValued(s) ==
    /\ \A r \in ToSet(s) : r \in Row /\ \A l \in DOMAIN r.locales : r.locales[l].case = r.kind
    /\ \A r, t \in ToSet(s) : r.id = t.id => r = t

\* The rows of a page.
PageRows(p, flat) ==
    \A x : x \in ToSet(flat) <=>
        \E n \in ToSet(p.nodes) :
           \/ x = SectionRow(n, p.overlays)
           \/ HasBlocks(n) /\ \E j \in DOMAIN n.blocks : x = BlockRow(n, p.overlays, j)

\* A page is flattened to the rows of its sections and blocks.
LEMMA PageIsFlat ==
    ASSUME NEW p, PageDocument(p), NEW flat, flat = FlattenPageDocumentStorage(p)
    PROVE  PageRows(p, flat)
<1>1. p \in Page
  BY DEF PageDocument
<1>2. \A x : x \in ToSet(FlattenPageDocumentStorage(p)) <=>
                \E i \in DOMAIN p.nodes :
                   \/ x = SectionRow(p.nodes[i], p.overlays)
                   \/ /\ HasBlocks(p.nodes[i])
                      /\ \E j \in DOMAIN p.nodes[i].blocks : x = BlockRow(p.nodes[i], p.overlays, j)
  BY <1>1, FlatElements
<1>3. ASSUME NEW x, x \in ToSet(flat)
      PROVE  \E n \in ToSet(p.nodes) : \/ x = SectionRow(n, p.overlays)
                                       \/ HasBlocks(n) /\ \E j \in DOMAIN n.blocks : x = BlockRow(n, p.overlays, j)
  <2>1. PICK i \in DOMAIN p.nodes : \/ x = SectionRow(p.nodes[i], p.overlays)
                                    \/ /\ HasBlocks(p.nodes[i])
                                       /\ \E j \in DOMAIN p.nodes[i].blocks : x = BlockRow(p.nodes[i], p.overlays, j)
    BY <1>2, <1>3
  <2>2. p.nodes[i] \in ToSet(p.nodes)
    BY DEF ToSet
  <2> QED BY <2>1, <2>2
<1>4. ASSUME NEW n \in ToSet(p.nodes), NEW x,
             \/ x = SectionRow(n, p.overlays)
             \/ HasBlocks(n) /\ \E j \in DOMAIN n.blocks : x = BlockRow(n, p.overlays, j)
      PROVE  x \in ToSet(flat)
  <2>1. PICK i \in DOMAIN p.nodes : n = p.nodes[i]
    BY DEF ToSet
  <2> QED BY <1>2, <1>4, <2>1
<1> QED BY <1>3, <1>4 DEF PageRows

\* The rows of a page, by what they say.
PageFlat(p, flat) ==
    /\ \A x \in ToSet(flat) : \E n \in ToSet(p.nodes) : FlatSection(p, n, x) \/ \E b \in ToSet(n.blocks) : FlatBlock(p, n, b, x)
    /\ \A n \in ToSet(p.nodes) : \E x \in ToSet(flat) : FlatSection(p, n, x)
    /\ \A n \in ToSet(p.nodes) : \A b \in ToSet(n.blocks) : \E x \in ToSet(flat) : FlatBlock(p, n, b, x)

\* A page is flattened to the rows of its sections and of their blocks.
LEMMA PageFlattens ==
    ASSUME NEW p, PageDocument(p), NEW flat, flat = FlattenPageDocumentStorage(p)
    PROVE  PageFlat(p, flat)
<1>1. PageRows(p, flat)
  BY PageIsFlat
<1>2. ASSUME NEW x \in ToSet(flat)
      PROVE  \E n \in ToSet(p.nodes) : FlatSection(p, n, x) \/ \E b \in ToSet(n.blocks) : FlatBlock(p, n, b, x)
  <2>1. PICK n \in ToSet(p.nodes) : \/ x = SectionRow(n, p.overlays)
                                    \/ HasBlocks(n) /\ \E j \in DOMAIN n.blocks : x = BlockRow(n, p.overlays, j)
    BY <1>1 DEF PageRows
  <2>2. CASE x = SectionRow(n, p.overlays)
    BY <2>2, SectionFlat
  <2>3. CASE HasBlocks(n) /\ \E j \in DOMAIN n.blocks : x = BlockRow(n, p.overlays, j)
    <3>1. PICK j \in DOMAIN n.blocks : x = BlockRow(n, p.overlays, j)
      BY <2>3
    <3>2. FlatBlock(p, n, n.blocks[j], x)
      BY <2>3, <3>1, BlockFlat
    <3>3. n.blocks[j] \in ToSet(n.blocks)
      BY DEF ToSet
    <3> QED BY <3>2, <3>3
  <2> QED BY <2>1, <2>2, <2>3
<1>3. ASSUME NEW n \in ToSet(p.nodes) PROVE \E x \in ToSet(flat) : FlatSection(p, n, x)
  <2>1. SectionRow(n, p.overlays) \in ToSet(flat)
    BY <1>1 DEF PageRows
  <2>2. FlatSection(p, n, SectionRow(n, p.overlays))
    BY SectionFlat
  <2> QED BY <2>1, <2>2
<1>4. ASSUME NEW n \in ToSet(p.nodes), NEW b \in ToSet(n.blocks) PROVE \E x \in ToSet(flat) : FlatBlock(p, n, b, x)
  <2>1. PICK j \in DOMAIN n.blocks : b = n.blocks[j]
    BY DEF ToSet
  <2>2. HasBlocks(n)
    <3>1. n.blocks # <<>>
      BY <2>1
    <3> QED BY <3>1 DEF PageDocument, SectionFits
  <2>3. BlockRow(n, p.overlays, j) \in ToSet(flat)
    BY <1>1, <2>2 DEF PageRows
  <2>4. FlatBlock(p, n, b, BlockRow(n, p.overlays, j))
    BY <2>1, <2>2, BlockFlat
  <2> QED BY <2>3, <2>4
<1> QED BY <1>2, <1>3, <1>4 DEF PageFlat

\* There is one row of each section and block of a page.
LEMMA PageOneRowEach ==
    ASSUME NEW p, PageDocument(p), NEW flat, flat = FlattenPageDocumentStorage(p), NEW x \in ToSet(flat), NEW y \in ToSet(flat), x.id = y.id
    PROVE  x = y
<1>1. PageRows(p, flat)
  BY PageIsFlat
<1>2. PICK n \in ToSet(p.nodes) : \/ x = SectionRow(n, p.overlays)
                                  \/ HasBlocks(n) /\ \E j \in DOMAIN n.blocks : x = BlockRow(n, p.overlays, j)
  BY <1>1 DEF PageRows
<1>3. PICK m \in ToSet(p.nodes) : \/ y = SectionRow(m, p.overlays)
                                  \/ HasBlocks(m) /\ \E j \in DOMAIN m.blocks : y = BlockRow(m, p.overlays, j)
  BY <1>1 DEF PageRows
<1>4. SectionRow(n, p.overlays).id = n.id /\ SectionRow(m, p.overlays).id = m.id
  BY SectionFlat DEF FlatSection
<1>5. /\ HasBlocks(n) => \A j \in DOMAIN n.blocks : BlockRow(n, p.overlays, j).id = n.blocks[j].id /\ n.blocks[j] \in ToSet(n.blocks)
      /\ HasBlocks(m) => \A j \in DOMAIN m.blocks : BlockRow(m, p.overlays, j).id = m.blocks[j].id /\ m.blocks[j] \in ToSet(m.blocks)
  BY BlockFlat DEF FlatBlock, ToSet
<1>6. /\ \A b \in ToSet(n.blocks) : b.id # m.id /\ b.id # n.id
      /\ \A b \in ToSet(m.blocks) : b.id # n.id
      /\ \A b \in ToSet(n.blocks), c \in ToSet(m.blocks) : b.id = c.id => n = m
      /\ n.id = m.id => n = m
      /\ DistinctIds(n.blocks)
  <2>1. Apart(ToSet(p.nodes)) /\ DistinctIds(p.nodes) /\ DistinctIds(n.blocks)
    BY DEF PageDocument, SectionFits
  <2>2. n.id = m.id => n = m
    BY <2>1 DEF DistinctIds, ToSet
  <2> QED BY <2>1, <2>2 DEF Apart
<1>7. CASE x = SectionRow(n, p.overlays)
  <2>1. y = SectionRow(m, p.overlays)
    BY <1>3, <1>4, <1>5, <1>6, <1>7
  <2> QED BY <1>4, <1>6, <1>7, <2>1
<1>8. CASE HasBlocks(n) /\ \E j \in DOMAIN n.blocks : x = BlockRow(n, p.overlays, j)
  <2>1. PICK j \in DOMAIN n.blocks : x = BlockRow(n, p.overlays, j)
    BY <1>8
  <2>2. x.id = n.blocks[j].id /\ n.blocks[j] \in ToSet(n.blocks)
    BY <1>5, <1>8, <2>1
  <2>3. y # SectionRow(m, p.overlays)
    BY <1>4, <1>6, <2>2
  <2>4. PICK k \in DOMAIN m.blocks : HasBlocks(m) /\ y = BlockRow(m, p.overlays, k)
    BY <1>3, <2>3
  <2>5. y.id = m.blocks[k].id /\ m.blocks[k] \in ToSet(m.blocks)
    BY <1>5, <2>4
  <2>6. n = m
    BY <1>6, <2>2, <2>5
  <2>7. j = k
    BY <1>6, <2>2, <2>5, <2>6 DEF DistinctIds
  <2> QED BY <2>1, <2>4, <2>6, <2>7
<1> QED BY <1>2, <1>7, <1>8

\* The rows of a page are well valued, and say what the page says.
LEMMA PageFlatSays ==
    ASSUME profile = "page", NEW p, PageDocument(p), NEW flat, flat = FlattenPageDocumentStorage(p)
    PROVE  WellValued(flat) /\ SaysTheRows(p, flat)
<1>1. PageFlat(p, flat)
  BY PageFlattens
<1>2. \A x \in ToSet(flat) : \E n \in ToSet(p.nodes) : FlatSection(p, n, x) \/ \E b \in ToSet(n.blocks) : FlatBlock(p, n, b, x)
  BY <1>1 DEF PageFlat
<1>3. \A n \in ToSet(p.nodes) : \E x \in ToSet(flat) : FlatSection(p, n, x)
  BY <1>1 DEF PageFlat
<1>4. \A n \in ToSet(p.nodes) : \A b \in ToSet(n.blocks) : \E x \in ToSet(flat) : FlatBlock(p, n, b, x)
  BY <1>1 DEF PageFlat
<1>5. /\ DistinctIds(p.nodes)
      /\ \A n \in ToSet(p.nodes) : DistinctIds(n.blocks)
      /\ \A l \in Locales : \A id \in DOMAIN p.overlays[l] : \E n \in ToSet(p.nodes) : n.id = id /\ ValueFits(n, p.overlays[l][id])
  BY DEF PageDocument, SectionFits
<1>6. ASSUME NEW n \in ToSet(p.nodes), NEW l \in Locales, n.id \in DOMAIN p.overlays[l]
      PROVE  ValueFits(n, p.overlays[l][n.id])
  <2>1. PICK m \in ToSet(p.nodes) : m.id = n.id /\ ValueFits(m, p.overlays[l][n.id])
    BY <1>5, <1>6
  <2>2. m = n
    BY <1>5, <2>1 DEF DistinctIds, ToSet
  <2> QED BY <2>1, <2>2
<1>7. ASSUME NEW x \in ToSet(flat) PROVE x \in Row /\ \A l \in DOMAIN x.locales : x.locales[l].case = x.kind
  <2>1. PICK n \in ToSet(p.nodes) : FlatSection(p, n, x) \/ \E b \in ToSet(n.blocks) : FlatBlock(p, n, b, x)
    BY <1>2
  <2>2. CASE FlatSection(p, n, x)
    <3>1. x \in Row /\ x.kind = n.shared.case
      BY <2>2 DEF FlatSection
    <3>2. ASSUME NEW l \in DOMAIN x.locales PROVE x.locales[l].case = x.kind
      <4>1. l \in Locales /\ n.id \in DOMAIN p.overlays[l] /\ x.locales[l].case = p.overlays[l][n.id].case
        <5>1. l \in Locales /\ n.id \in DOMAIN p.overlays[l]
          BY <2>2, <3>2 DEF FlatSection
        <5>2. x.locales[l] = [case |-> p.overlays[l][n.id].case, text |-> p.overlays[l][n.id].text]
          BY <2>2, <3>2 DEF FlatSection
        <5> QED BY <5>1, <5>2
      <4> QED BY <1>6, <3>1, <4>1 DEF ValueFits
    <3> QED BY <3>1, <3>2
  <2>3. CASE \E b \in ToSet(n.blocks) : FlatBlock(p, n, b, x)
    <3>1. PICK b \in ToSet(n.blocks) : FlatBlock(p, n, b, x)
      BY <2>3
    <3>2. x \in Row /\ x.kind = b.shared.case
      BY <3>1 DEF FlatBlock
    <3>3. ASSUME NEW l \in DOMAIN x.locales PROVE x.locales[l].case = x.kind
      <4>1. /\ l \in Locales /\ n.id \in DOMAIN p.overlays[l] /\ b.id \in DOMAIN p.overlays[l][n.id].blocks
            /\ x.locales[l] = p.overlays[l][n.id].blocks[b.id]
        BY <3>1, <3>3 DEF FlatBlock
      <4>2. PICK c \in ToSet(n.blocks) : c.id = b.id /\ x.locales[l].case = c.shared.case
        BY <1>6, <4>1 DEF ValueFits
      <4>3. c = b
        <5>1. DistinctIds(n.blocks)
          BY <1>5
        <5> QED BY <4>2, <5>1 DEF DistinctIds, ToSet
      <4> QED BY <3>2, <4>2, <4>3
    <3> QED BY <3>2, <3>3
  <2> QED BY <2>1, <2>2, <2>3
<1>8. \A x, y \in ToSet(flat) : x.id = y.id => x = y
  BY PageOneRowEach
<1>9. \A x : x \in ShapesOf(p) <=> \E r \in ToSet(flat) : x = RowShape(r)
  <2>1. \A x : x \in ShapesOf(p) <=>
             \E n \in ToSet(p.nodes) : x = SectionShape(n) \/ \E b \in ToSet(n.blocks) : x = BlockShape(n.id, b)
    <3> SUFFICES ASSUME NEW x
                 PROVE  x \in ShapesOf(p) <=>
                          \E n \in ToSet(p.nodes) : x = SectionShape(n) \/ \E b \in ToSet(n.blocks) : x = BlockShape(n.id, b)
      OBVIOUS
    <3>1. ShapesOf(p) = PageShapes(p)
      BY DEF ShapesOf
    <3>2. x \in PageShapes(p) <=>
             \E n \in ToSet(p.nodes) : x = SectionShape(n) \/ \E b \in ToSet(n.blocks) : x = BlockShape(n.id, b)
      BY DEF PageShapes
    <3> QED BY <3>1, <3>2
  <2>2. ASSUME NEW x, x \in ShapesOf(p) PROVE \E r \in ToSet(flat) : x = RowShape(r)
    <3>1. PICK n \in ToSet(p.nodes) : x = SectionShape(n) \/ \E b \in ToSet(n.blocks) : x = BlockShape(n.id, b)
      BY <2>1, <2>2
    <3> QED BY <1>3, <1>4, <3>1 DEF FlatSection, FlatBlock
  <2>3. ASSUME NEW r \in ToSet(flat) PROVE RowShape(r) \in ShapesOf(p)
    BY <1>2, <2>1 DEF FlatSection, FlatBlock
  <2> QED BY <2>2, <2>3
<1>10. ASSUME NEW l, NEW id, NEW v, SaysOf(p, l, id, v) PROVE RowSays(flat, l, id, v)
  <2>1. /\ l \in Locales /\ Says(l, v)
        /\ \/ id \in DOMAIN p.overlays[l] /\ v = [case |-> p.overlays[l][id].case, text |-> p.overlays[l][id].text]
           \/ \E s \in DOMAIN p.overlays[l] : id \in DOMAIN p.overlays[l][s].blocks /\ v = p.overlays[l][s].blocks[id]
    BY <1>10 DEF SaysOf, PageSays
  <2>2. CASE id \in DOMAIN p.overlays[l] /\ v = [case |-> p.overlays[l][id].case, text |-> p.overlays[l][id].text]
    <3>1. PICK n \in ToSet(p.nodes) : n.id = id
      BY <1>5, <2>1, <2>2
    <3>2. PICK x \in ToSet(flat) : FlatSection(p, n, x)
      BY <1>3
    <3>3. x.id = id /\ l \in DOMAIN x.locales /\ v = x.locales[l]
      BY <2>1, <2>2, <3>1, <3>2 DEF FlatSection
    <3> QED BY <2>1, <3>3 DEF RowSays
  <2>3. CASE \E s \in DOMAIN p.overlays[l] : id \in DOMAIN p.overlays[l][s].blocks /\ v = p.overlays[l][s].blocks[id]
    <3>1. PICK s \in DOMAIN p.overlays[l] : id \in DOMAIN p.overlays[l][s].blocks /\ v = p.overlays[l][s].blocks[id]
      BY <2>3
    <3>2. PICK n \in ToSet(p.nodes) : n.id = s /\ ValueFits(n, p.overlays[l][s])
      BY <1>5, <2>1
    <3>3. PICK b \in ToSet(n.blocks) : b.id = id
      BY <3>1, <3>2 DEF ValueFits
    <3>4. PICK x \in ToSet(flat) : FlatBlock(p, n, b, x)
      BY <1>4
    <3>5. x.id = id /\ l \in DOMAIN x.locales /\ v = x.locales[l]
      BY <2>1, <3>1, <3>2, <3>3, <3>4 DEF FlatBlock
    <3> QED BY <2>1, <3>5 DEF RowSays
  <2> QED BY <2>1, <2>2, <2>3
<1>11. ASSUME NEW l, NEW id, NEW v, RowSays(flat, l, id, v) PROVE SaysOf(p, l, id, v)
  <2>1. PICK x \in ToSet(flat) : x.id = id /\ l \in DOMAIN x.locales /\ v = x.locales[l]
    BY <1>11 DEF RowSays
  <2>2. PICK n \in ToSet(p.nodes) : FlatSection(p, n, x) \/ \E b \in ToSet(n.blocks) : FlatBlock(p, n, b, x)
    BY <1>2
  <2>3. Says(l, v)
    BY <1>11 DEF RowSays
  <2>4. CASE FlatSection(p, n, x)
    <3>1. l \in Locales /\ id \in DOMAIN p.overlays[l] /\ v = [case |-> p.overlays[l][id].case, text |-> p.overlays[l][id].text]
      BY <2>1, <2>4 DEF FlatSection
    <3> QED BY <2>3, <3>1 DEF SaysOf, PageSays
  <2>5. CASE \E b \in ToSet(n.blocks) : FlatBlock(p, n, b, x)
    <3>1. l \in Locales /\ n.id \in DOMAIN p.overlays[l] /\ id \in DOMAIN p.overlays[l][n.id].blocks /\ v = p.overlays[l][n.id].blocks[id]
      BY <2>1, <2>5 DEF FlatBlock
    <3> QED BY <2>3, <3>1 DEF SaysOf, PageSays
  <2> QED BY <2>2, <2>4, <2>5
<1>12. SaysTheRows(p, flat)
  BY <1>9, <1>10, <1>11 DEF SaysTheRows
<1> QED BY <1>7, <1>8, <1>12 DEF WellValued

\* So are the rows of a post.
LEMMA PostFlatSays ==
    ASSUME profile = "post", NEW p, PostDocument(p), NEW flat, flat = RichRows(p.nodes, p.overlays)
    PROVE  WellValued(flat) /\ SaysTheRows(p, flat)
<1>1. /\ p.nodes \in Seq(Block) /\ DistinctIds(p.nodes)
      /\ \A n \in ToSet(p.nodes) : n.id \in Uuid
      /\ p.overlays \in [Locales -> BlockValues]
      /\ \A l \in Locales : \A id \in DOMAIN p.overlays[l] :
          \E n \in ToSet(p.nodes) : n.id = id /\ p.overlays[l][id].case = n.shared.case
  BY DEF PostDocument
<1>2. p.overlays \in PartialFunctions(Locales, BlockValues) /\ DOMAIN p.overlays = Locales
  BY <1>1 DEF PartialFunctions
<1>3. \A x : x \in ToSet(flat) <=> \E n \in ToSet(p.nodes) : x = RichRow(n, p.overlays)
  BY DEF RichRows, ToSet
<1>4. ASSUME NEW n \in ToSet(p.nodes)
      PROVE  LET x == RichRow(n, p.overlays)
             IN /\ x \in Row /\ RowShape(x) = BlockShape(0, n) /\ x.id = n.id /\ x.kind = n.shared.case
                /\ \A l : l \in DOMAIN x.locales <=> l \in Locales /\ n.id \in DOMAIN p.overlays[l]
                /\ \A l \in DOMAIN x.locales : x.locales[l] = p.overlays[l][n.id]
  <2> DEFINE x == RichRow(n, p.overlays)
  <2>1. n \in Block /\ n.id \in Uuid
    BY <1>1, SequenceElements
  <2>2. normalizeUUID(n.id) = n.id
    BY <2>1, StoredIds
  <2>3. /\ x \in Row /\ x.slot = Content /\ x.id = n.id /\ x.parent = n.parent /\ x.pos = int32(n.index)
        /\ x.kind = n.shared.case /\ x.shared = n.shared /\ DOMAIN x.locales = LocalesWith(p.overlays, n.id)
    BY <1>2, <2>1, <2>2, RichRowTyped
  <2>4. \A l \in DOMAIN x.locales : x.locales[l] = p.overlays[l][n.id]
    BY <2>2 DEF RichRow
  <2> HIDE DEF x
  <2>5. \A l : l \in DOMAIN x.locales <=> l \in Locales /\ n.id \in DOMAIN p.overlays[l]
    BY <1>2, <2>3 DEF LocalesWith
  <2>6. RowShape(x) = BlockShape(0, n)
    BY <2>3 DEF RowShape, BlockShape
  <2> QED BY <2>3, <2>4, <2>5, <2>6 DEF x
<1>5. ASSUME NEW x \in ToSet(flat) PROVE x \in Row /\ \A l \in DOMAIN x.locales : x.locales[l].case = x.kind
  <2>1. PICK n \in ToSet(p.nodes) : x = RichRow(n, p.overlays)
    BY <1>3
  <2>2. x \in Row /\ x.kind = n.shared.case
    BY <1>4, <2>1
  <2>3. ASSUME NEW l \in DOMAIN x.locales PROVE x.locales[l].case = x.kind
    <3>1. l \in Locales /\ n.id \in DOMAIN p.overlays[l] /\ x.locales[l] = p.overlays[l][n.id]
      BY <1>4, <2>1, <2>3
    <3>2. PICK m \in ToSet(p.nodes) : m.id = n.id /\ x.locales[l].case = m.shared.case
      BY <1>1, <3>1
    <3>3. m = n
      BY <1>1, <3>2 DEF DistinctIds, ToSet
    <3> QED BY <2>2, <3>2, <3>3
  <2> QED BY <2>2, <2>3
<1>6. \A x, y \in ToSet(flat) : x.id = y.id => x = y
  <2> SUFFICES ASSUME NEW x \in ToSet(flat), NEW y \in ToSet(flat), x.id = y.id PROVE x = y
    OBVIOUS
  <2>1. PICK n \in ToSet(p.nodes) : x = RichRow(n, p.overlays)
    BY <1>3
  <2>2. PICK m \in ToSet(p.nodes) : y = RichRow(m, p.overlays)
    BY <1>3
  <2>3. n.id = m.id
    BY <1>4, <2>1, <2>2
  <2>4. n = m
    BY <1>1, <2>3 DEF DistinctIds, ToSet
  <2> QED BY <2>1, <2>2, <2>4
<1>7. \A x : x \in ShapesOf(p) <=> \E r \in ToSet(flat) : x = RowShape(r)
  <2>1. \A x : x \in ShapesOf(p) <=> \E n \in ToSet(p.nodes) : x = BlockShape(0, n)
    BY ShapesElements DEF ShapesOf
  <2> QED BY <1>3, <1>4, <2>1
<1>8. \A l, id, v : SaysOf(p, l, id, v) <=> RowSays(flat, l, id, v)
  <2>1. ASSUME NEW l, NEW id, NEW v, SaysOf(p, l, id, v) PROVE RowSays(flat, l, id, v)
    <3>1. l \in Locales /\ Says(l, v) /\ id \in DOMAIN p.overlays[l] /\ v = p.overlays[l][id]
      BY <2>1 DEF SaysOf, PostSays
    <3>2. PICK n \in ToSet(p.nodes) : n.id = id
      BY <1>1, <3>1
    <3> DEFINE x == RichRow(n, p.overlays)
    <3>3. x \in ToSet(flat) /\ x.id = id /\ l \in DOMAIN x.locales /\ v = x.locales[l]
      BY <1>3, <1>4, <3>1, <3>2
    <3> HIDE DEF x
    <3> QED BY <3>1, <3>3 DEF RowSays
  <2>2. ASSUME NEW l, NEW id, NEW v, RowSays(flat, l, id, v) PROVE SaysOf(p, l, id, v)
    <3>1. PICK x \in ToSet(flat) : x.id = id /\ l \in DOMAIN x.locales /\ v = x.locales[l]
      BY <2>2 DEF RowSays
    <3>2. PICK n \in ToSet(p.nodes) : x = RichRow(n, p.overlays)
      BY <1>3
    <3>3. l \in Locales /\ id \in DOMAIN p.overlays[l] /\ v = p.overlays[l][id] /\ Says(l, v)
      BY <1>4, <2>2, <3>1, <3>2 DEF RowSays
    <3> QED BY <3>3 DEF SaysOf, PostSays
  <2> QED BY <2>1, <2>2
<1> QED BY <1>5, <1>6, <1>7, <1>8 DEF WellValued, SaysTheRows

\* A document is flattened to rows that say what it says.
LEMMA FlatSays ==
    ASSUME profile \in DOMAIN Forms, NEW p, Document(p)
    PROVE  WellValued(FlattenDocument(profile, p)) /\ SaysTheRows(p, FlattenDocument(profile, p))
<1>1. profile = "page" \/ profile = "post"
  BY FormsAssumption
<1>2. CASE profile = "page"
  <2>1. PageDocument(p)
    BY <1>2 DEF Document
  <2>2. FlattenDocument(profile, p) = FlattenPageDocumentStorage(p)
    BY <1>2 DEF FlattenDocument
  <2> QED BY <1>2, <2>1, <2>2, PageFlatSays
<1>3. CASE profile = "post"
  <2>1. PostDocument(p)
    BY <1>3 DEF Document
  <2>2. FlattenDocument(profile, p) = RichRows(p.nodes, p.overlays)
    BY <1>3 DEF FlattenDocument
  <2> QED BY <1>3, <2>1, <2>2, PostFlatSays
<1> QED BY <1>1, <1>2, <1>3

\* The rows in the store are well valued.
LEMMA StoredSays ==
    ASSUME profile \in DOMAIN Forms, rows \in Seq(PageRow), Checked(rows)
    PROVE  WellValued(rows)
<1>1. \A i \in DOMAIN rows : RowValid(Source, profile, rows[i], "WRITE")
  BY DEF Checked
<1>2. UniqueIds(rows)
  BY DEF Checked, Tree
<1>3. DistinctIds(rows)
  BY <1>2, UniqueIdsDistinct
<1>4. \A r, t \in ToSet(rows) : r.id = t.id => r = t
  BY <1>3, DistinctIdsInjective
<1>5. ASSUME NEW r \in ToSet(rows) PROVE r \in Row /\ \A l \in DOMAIN r.locales : r.locales[l].case = r.kind
  <2>1. r \in PageRow
    BY SequenceElements
  <2>2. PICK i \in DOMAIN rows : r = rows[i]
    BY DEF ToSet
  <2>3. RowValid(Source, profile, r, "WRITE")
    BY <1>1, <2>2
  <2> QED BY <2>1, <2>3 DEF PageRow, RowValid, NormalizeContentStorageLocale
<1> QED BY <1>4, <1>5 DEF WellValued

\* A row as a reader sees it.
MeantLocales(r) == {l \in DOMAIN r.locales : l = Source \/ r.kind # "rich-text" \/ r.locales[l].text # ""}
Meant(r) == [r EXCEPT !.locales = [l \in MeantLocales(r) |-> r.locales[l]]]

\* A row of well valued rows says its values.
LEMMA RowSaysItsOwn ==
    ASSUME NEW s, WellValued(s), NEW r \in ToSet(s)
    PROVE  /\ \A l, v : RowSays(s, l, r.id, v) <=> l \in DOMAIN r.locales /\ v = r.locales[l] /\ Says(l, v)
           /\ \A l : l \in MeantLocales(r) <=> l \in DOMAIN r.locales /\ Says(l, r.locales[l])
<1>1. \A t \in ToSet(s) : t.id = r.id => t = r
  BY DEF WellValued
<1>2. \A l \in DOMAIN r.locales : r.locales[l].case = r.kind
  BY DEF WellValued
<1>3. \A l, v : RowSays(s, l, r.id, v) <=> l \in DOMAIN r.locales /\ v = r.locales[l] /\ Says(l, v)
  BY <1>1 DEF RowSays
<1>4. \A l : l \in MeantLocales(r) <=> l \in DOMAIN r.locales /\ Says(l, r.locales[l])
  BY <1>2 DEF MeantLocales, Says
<1> QED BY <1>3, <1>4

\* Of rows that say the same, each means one of the others.
LEMMA MeansTheSame ==
    ASSUME NEW p, NEW a, NEW b, WellValued(a), WellValued(b), SaysTheRows(p, a), SaysTheRows(p, b), NEW r \in ToSet(a)
    PROVE  \E s \in ToSet(b) : Meant(r) = Meant(s)
<1>1. RowShape(r) \in ShapesOf(p)
  BY DEF SaysTheRows
<1>2. PICK s \in ToSet(b) : RowShape(r) = RowShape(s)
  BY <1>1 DEF SaysTheRows
<1>3. r.id = s.id /\ r.parent = s.parent /\ r.slot = s.slot /\ r.pos = s.pos /\ r.kind = s.kind /\ r.shared = s.shared
  BY <1>2 DEF RowShape
<1>4. \A l, v : RowSays(a, l, r.id, v) <=> RowSays(b, l, s.id, v)
  BY <1>3 DEF SaysTheRows
<1>5. /\ \A l, v : RowSays(a, l, r.id, v) <=> l \in DOMAIN r.locales /\ v = r.locales[l] /\ Says(l, v)
      /\ \A l : l \in MeantLocales(r) <=> l \in DOMAIN r.locales /\ Says(l, r.locales[l])
  BY RowSaysItsOwn
<1>6. /\ \A l, v : RowSays(b, l, s.id, v) <=> l \in DOMAIN s.locales /\ v = s.locales[l] /\ Says(l, v)
      /\ \A l : l \in MeantLocales(s) <=> l \in DOMAIN s.locales /\ Says(l, s.locales[l])
  BY RowSaysItsOwn
<1>7. \A l : l \in MeantLocales(r) => l \in MeantLocales(s) /\ r.locales[l] = s.locales[l]
  BY <1>4, <1>5, <1>6
<1>8. \A l : l \in MeantLocales(s) => l \in MeantLocales(r)
  BY <1>4, <1>5, <1>6
<1>9. MeantLocales(r) = MeantLocales(s)
  BY <1>7, <1>8
<1>10. [l \in MeantLocales(r) |-> r.locales[l]] = [l \in MeantLocales(s) |-> s.locales[l]]
  BY <1>7, <1>9
<1>11. r \in Row /\ s \in Row
  BY DEF WellValued
<1> DEFINE f == [l \in MeantLocales(r) |-> r.locales[l]]
<1>12. Meant(r) = [r EXCEPT !.locales = f] /\ Meant(s) = [s EXCEPT !.locales = f]
  BY <1>10 DEF Meant
<1> HIDE DEF f
<1>13. \A t \in Row : [t EXCEPT !.locales = f] =
          [id |-> t.id, parent |-> t.parent, slot |-> t.slot, pos |-> t.pos, kind |-> t.kind, shared |-> t.shared, locales |-> f]
  BY DEF Row
<1>14. Meant(r) = [id |-> r.id, parent |-> r.parent, slot |-> r.slot, pos |-> r.pos, kind |-> r.kind, shared |-> r.shared, locales |-> f]
  <2>1. [r EXCEPT !.locales = f] =
          [id |-> r.id, parent |-> r.parent, slot |-> r.slot, pos |-> r.pos, kind |-> r.kind, shared |-> r.shared, locales |-> f]
    BY <1>11, <1>13
  <2> QED BY <1>12, <2>1
<1>15. Meant(s) = [id |-> s.id, parent |-> s.parent, slot |-> s.slot, pos |-> s.pos, kind |-> s.kind, shared |-> s.shared, locales |-> f]
  <2>1. [s EXCEPT !.locales = f] =
          [id |-> s.id, parent |-> s.parent, slot |-> s.slot, pos |-> s.pos, kind |-> s.kind, shared |-> s.shared, locales |-> f]
    BY <1>11, <1>13
  <2> QED BY <1>12, <2>1
<1>16. Meant(r) = Meant(s)
  BY <1>3, <1>14, <1>15
<1> QED BY <1>16

\* Rows that say the same have one meaning.
LEMMA OneMeaning ==
    ASSUME NEW p, NEW a, NEW b, WellValued(a), WellValued(b), SaysTheRows(p, a), SaysTheRows(p, b)
    PROVE  Meaning(a) = Meaning(b)
<1>1. Meaning(a) = {Meant(r) : r \in ToSet(a)} /\ Meaning(b) = {Meant(r) : r \in ToSet(b)}
  BY DEF Meaning, Meant, MeantLocales
<1>2. \A r \in ToSet(a) : \E s \in ToSet(b) : Meant(r) = Meant(s)
  BY MeansTheSame
<1>3. \A s \in ToSet(b) : \E r \in ToSet(a) : Meant(s) = Meant(r)
  BY MeansTheSame
<1> QED BY <1>1, <1>2, <1>3

(***************************************************************************)
(* An editor at the current revision agrees with the stored rows.          *)
(***************************************************************************)
SyncInvariant == \A e \in Editors : base[e] = revision => Agrees(page[e], made[e], rows)

\* Nothing but the profile decides what agrees.
LEMMA AgreesNext ==
    ASSUME profile' = profile, NEW e \in Editors, Agrees(page'[e], made'[e], rows')
    PROVE  Agrees(page[e], made[e], rows)'
<1>1. \A x : (x \in ShapesOf(page'[e]) <=> Shown(ToSet(rows'), ToSet(made'[e].base), x))
         <=> (x \in ShapesOf(page[e]) <=> Shown(ToSet(rows), ToSet(made[e].base), x))'
  BY DEF ShapesOf, Shown, ShapeAt, PlaceRow, PlaceAt
<1>2. ShownIn(page'[e], ToSet(rows'), ToSet(made'[e].base)) => ShownIn(page[e], ToSet(rows), ToSet(made[e].base))'
  BY <1>1 DEF ShownIn
<1>3. \A l, id, v : SaysOf(page'[e], l, id, v) <=> SaysOf(page[e], l, id, v)'
  BY DEF SaysOf
<1>4. ToldIn(page'[e], rows', ToSet(made'[e].base), made'[e].groups) => ToldIn(page[e], rows, ToSet(made[e].base), made[e].groups)'
  BY <1>3 DEF ToldIn
<1>5. ValuedIn(page'[e], ToSet(made'[e].base), made'[e].groups) => ValuedIn(page[e], ToSet(made[e].base), made[e].groups)'
  BY DEF ValuedIn, ShapesOf
<1> QED BY <1>2, <1>4, <1>5 DEF Agrees

\* The ids of a document are those of its shapes.
LEMMA ShapeOfId ==
    ASSUME profile \in DOMAIN Forms, NEW p, Document(p)
    PROVE  \A id : id \in AllIds(p) <=> \E x \in ShapesOf(p) : x.id = id
<1>1. profile = "page" \/ profile = "post"
  BY FormsAssumption
<1>2. (profile = "page" /\ PageDocument(p)) \/ profile = "post"
  BY <1>1 DEF Document
<1> QED BY <1>2, IdsOfDocument

\* What an editor names.
LEMMA NamedIds ==
    ASSUME NEW e
    PROVE  \A id : id \in Named(e) <=> Names(ToSet(made[e].base), id)
  BY DEF Named, Names, NameOf

\* What is untouched is not mentioned, and not named.
LEMMA UntouchedIds ==
    ASSUME NEW e, NEW l, NEW id, Untouched(e, l, id)
    PROVE  ~Names(ToSet(made[e].base), id) /\ ~Mentions(made[e].groups, l, id)
<1>1. id \notin Named(e)
  BY DEF Untouched
<1>2. ASSUME NEW v, Makes(made[e].groups, l, v), v.id = id PROVE FALSE
  <2>1. PICK i \in DOMAIN made[e].groups : made[e].groups[i].locale = l /\ v \in ToSet(made[e].groups[i].mutations)
    BY <1>2, MakesIn
  <2> QED BY <1>2, <2>1 DEF Untouched
<1> QED BY <1>1, <1>2, NamedIds DEF Mentions

\* The text of an edit is not empty.
LEMMA EditSays == \A l, v : v.text = "text" \/ v.text = "new" => Says(l, v)
  BY DEF Says

\* An edit is of one editor; the others agree as before.
LEMMA EditedAgrees ==
    ASSUME EditingInvariant, SyncInvariant, NEW e \in Editors, OnlyOf(e),
           base[e] = revision => Agrees(page'[e], made'[e], rows)
    PROVE  SyncInvariant'
<1>1. /\ profile' = profile /\ rows' = rows /\ revision' = revision /\ base' = base
      /\ \A f \in Editors : f # e => page'[f] = page[f] /\ made'[f] = made[f]
  BY DEF OnlyOf
<1>2. \A f \in Editors : base'[f] = revision' => Agrees(page'[f], made'[f], rows')
  BY <1>1 DEF SyncInvariant
<1>3. \A f \in Editors : Agrees(page'[f], made'[f], rows') => Agrees(page[f], made[f], rows)'
  BY <1>1, AgreesNext
<1>4. \A f \in Editors : base'[f] = revision' => Agrees(page[f], made[f], rows)'
  BY <1>2, <1>3
<1> QED BY <1>4 DEF SyncInvariant

\* Every edit leaves an editor that agreed in agreement.
LEMMA EditsAgree ==
    ASSUME EditingInvariant, SyncInvariant, NEW e \in Editors, Edit(e)
    PROVE  SyncInvariant'
<1>1. profile \in DOMAIN Forms /\ Holding(e) /\ EditsTyped(made[e]) /\ Document(page[e])
  BY DEF EditingInvariant, EditorTyped, Holding
<1>2. base[e] = revision => Agrees(page[e], made[e], rows)
  BY DEF SyncInvariant
<1>3. OtherLocales \subseteq Locales
  BY DEF Locales
<1>4. ASSUME NEW section, NEW node, node \in IF profile = "page" /\ section = 0 THEN SectionNodes ELSE BlockNodes,
             Insert(e, section, node)
      PROVE  SyncInvariant'
  <2> DEFINE m == UpsertMade(section, node)
  <2>1. /\ OnlyOf(e) /\ Inserted(page[e], page'[e], ShapeAt(section, node), FirstValue(node))
        /\ m \in BaseMutations /\ FirstMade(node) \in ValueMutations
        /\ made'[e] = [base |-> Append(made[e].base, m), groups |-> InGroup(made[e].groups, Source, FirstMade(node))]
    BY <1>1, <1>4, InsertMade
  <2>2. m.op = "upsert" /\ m.node = node /\ m.section = section
    BY DEF UpsertMade
  <2>3. node.id \notin AllIds(page[e]) /\ node.id \notin Named(e)
    BY <1>4 DEF Insert
  <2> HIDE DEF m
  <2>4. ~Names(ToSet(made[e].base), m.node.id)
    BY <2>2, <2>3, NamedIds
  <2>5. \A x \in ShapesOf(page[e]) : x.id # m.node.id
    BY <1>1, <2>2, <2>3, ShapeOfId
  <2>6. Says(Source, FirstValue(m.node))
    <3>1. FirstValue(m.node).text = "text"
      BY DEF FirstValue
    <3> QED BY <3>1, EditSays
  <2>7. Inserted(page[e], page'[e], ShapeAt(m.section, m.node), FirstValue(m.node))
    BY <2>1, <2>2
  <2>8. Grown(made[e].groups, made'[e].groups, Source, FirstMade(m.node))
    BY <1>1, <2>1, <2>2, InsertsGrow
  <2>9. made'[e].base = Append(made[e].base, m)
    BY <2>1
  <2>10. base[e] = revision => Agrees(page'[e], made'[e], rows)
    BY <1>1, <1>2, <2>1, <2>2, <2>4, <2>5, <2>6, <2>7, <2>8, <2>9, InsertAgrees
  <2> QED BY <2>1, <2>10, EditedAgrees
<1>5. ASSUME NEW section \in Uuid \cup {0}, NEW id \in Uuid, NEW parent \in Uuid \cup {0}, NEW column \in Columns \cup {0},
             NEW index \in UInt32, Move(e, section, id, parent, column, index)
      PROVE  SyncInvariant'
  <2> DEFINE m == MoveMade(section, id, parent, column, index)
             place == PlaceAt(section, parent, column, index)
  <2>1. m = MoveMade(section, id, parent, column, index)
    OBVIOUS
  <2>2. /\ m.op = "move" /\ m.id = id /\ m.section = section /\ m.parent = parent /\ m.column = column /\ m.index = index
    BY DEF MoveMade
  <2>3. id \notin Named(e)
    BY <1>5 DEF Move
  <2> HIDE DEF m, place
  <2>4. /\ OnlyOf(e) /\ Document(page'[e])
        /\ Relocated(page[e], page'[e], id, PlaceAt(section, parent, column, index))
        /\ m \in BaseMutations /\ made'[e] = [base |-> Append(made[e].base, m), groups |-> made[e].groups]
    <3>1. OnlyOf(e) /\ Document(page'[e]) /\ Relocated(page[e], page'[e], id, PlaceAt(section, parent, column, index))
      BY <1>1, <1>5, <2>1, MoveMakes
    <3>2. m \in BaseMutations
      BY <1>1, <1>5, <2>1, MoveMakes
    <3>3. made'[e] = [base |-> Append(made[e].base, m), groups |-> made[e].groups]
      <4>1. e \in DOMAIN made /\ made[e] = [base |-> made[e].base, groups |-> made[e].groups]
        BY <1>1, EditParts DEF Holding
      <4>2. made' = [made EXCEPT ![e].base = Append(@, m)]
        BY <1>5, <2>1 DEF Move, MoveMade
      <4> QED BY <4>1, <4>2
    <3> QED BY <3>1, <3>2, <3>3
  <2>5. PlaceRow(m).parent = place.parent /\ PlaceRow(m).slot = place.slot /\ PlaceRow(m).pos = place.pos
    BY <2>2 DEF PlaceRow, place
  <2>6. ~Names(ToSet(made[e].base), m.id)
    BY <2>2, <2>3, NamedIds
  <2>7. Relocated(page[e], page'[e], m.id, place)
    BY <2>2, <2>4 DEF place
  <2>8. base[e] = revision => Agrees(page'[e], made'[e], rows)
    BY <1>1, <1>2, <2>2, <2>4, <2>5, <2>6, <2>7, MoveAgrees
  <2> QED BY <2>4, <2>8, EditedAgrees
<1>6. ASSUME NEW section \in Uuid \cup {0}, NEW id \in Uuid, Delete(e, section, id)
      PROVE  SyncInvariant'
  <2> DEFINE m == DeleteMade(section, id)
  <2>1. m = DeleteMade(section, id)
    OBVIOUS
  <2>2. m.op = "delete" /\ m.id = id
    BY DEF DeleteMade
  <2>3. id \notin Named(e)
    BY <1>6 DEF Delete
  <2> HIDE DEF m
  <2>4. /\ OnlyOf(e) /\ Removed(page[e], page'[e], id)
        /\ m \in BaseMutations /\ made'[e] = [base |-> Append(made[e].base, m), groups |-> made[e].groups]
    BY <1>1, <1>6, <2>1, DeleteMakes
  <2>5. ~Names(ToSet(made[e].base), m.id) /\ Removed(page[e], page'[e], m.id)
    BY <2>2, <2>3, <2>4, NamedIds
  <2>6. base[e] = revision => Agrees(page'[e], made'[e], rows)
    BY <1>1, <1>2, <2>2, <2>4, <2>5, DeleteAgrees
  <2> QED BY <2>4, <2>6, EditedAgrees
<1>7. ASSUME NEW l \in Locales, NEW section \in Uuid \cup {0}, NEW id \in Uuid, Translate(e, l, section, id)
      PROVE  SyncInvariant'
  <2> DEFINE value == [case |-> KindAt(page[e], section, id), text |-> "new"]
             v == [op |-> "upsert", id |-> id, value |-> value]
  <2>1. Untouched(e, l, id)
    BY <1>7 DEF Translate
  <2>2. value.text = "new"
    OBVIOUS
  <2>3. /\ OnlyOf(e) /\ Given(page[e], page'[e], l, id, value)
        /\ \E x \in ShapesOf(page[e]) : x.id = id /\ x.kind = value.case
        /\ v \in ValueMutations /\ made'[e] = [base |-> made[e].base, groups |-> InGroup(made[e].groups, l, v)]
    BY <1>1, <1>7, TranslateMakes
  <2> HIDE DEF value
  <2>4. ~Names(ToSet(made[e].base), id) /\ ~Mentions(made[e].groups, l, id)
    BY <2>1, UntouchedIds
  <2>5. Says(l, value)
    BY <2>2, EditSays
  <2>6. Grown(made[e].groups, made'[e].groups, l, v) /\ made'[e].base = made[e].base
    BY <1>1, <2>3, ValuesGrow
  <2>7. base[e] = revision => Agrees(page'[e], made'[e], rows)
    BY <1>2, <2>3, <2>4, <2>5, <2>6, TranslateAgrees
  <2> QED BY <2>3, <2>7, EditedAgrees
<1>8. ASSUME NEW l \in OtherLocales, NEW section \in Uuid \cup {0}, NEW id \in Uuid, RemoveTranslation(e, l, section, id)
      PROVE  SyncInvariant'
  <2> DEFINE v == [op |-> "delete", id |-> id]
  <2>1. Untouched(e, l, id)
    BY <1>8 DEF RemoveTranslation
  <2>2. /\ OnlyOf(e) /\ Taken(page[e], page'[e], l, id) /\ \E x \in ShapesOf(page[e]) : x.id = id
        /\ v \in ValueMutations /\ made'[e] = [base |-> made[e].base, groups |-> InGroup(made[e].groups, l, v)]
    BY <1>1, <1>8, RemovalMakes
  <2>3. ~Names(ToSet(made[e].base), id) /\ ~Mentions(made[e].groups, l, id)
    BY <2>1, UntouchedIds
  <2>4. Grown(made[e].groups, made'[e].groups, l, v) /\ made'[e].base = made[e].base
    BY <1>1, <1>3, <2>2, ValuesGrow
  <2>5. base[e] = revision => Agrees(page'[e], made'[e], rows)
    BY <1>2, <2>2, <2>3, <2>4, RemovalAgrees
  <2> QED BY <2>2, <2>5, EditedAgrees
<1>9. CASE Inserts(e)
  BY <1>4, <1>9 DEF Inserts
<1>10. CASE Moves(e)
  BY <1>5, <1>10 DEF Moves
<1>11. CASE Deletes(e)
  BY <1>6, <1>11 DEF Deletes
<1>12. CASE Translates(e)
  BY <1>7, <1>12 DEF Translates
<1>13. CASE Removes(e)
  BY <1>8, <1>13 DEF Removes
<1> QED BY <1>9, <1>10, <1>11, <1>12, <1>13, EditSorts

\* Only the editor that hears of its save is at the new revision, and the rows are what it sees.
LEMMA SaveAgrees ==
    ASSUME EditingInvariant, SyncInvariant, NEW e \in Editors, NEW heard \in BOOLEAN, Save(e, heard)
    PROVE  SyncInvariant'
<1>1. /\ profile \in DOMAIN Forms /\ revision \in Nat /\ rows \in Seq(PageRow) /\ EditsTyped(made[e])
      /\ DOMAIN base = Editors /\ DOMAIN made = Editors
      /\ \A f \in Editors : base[f] \in 0..revision
  BY EditingBoundsAssumption DEF EditingInvariant, EditorTyped
<1>2. /\ revision' = revision + 1 /\ profile' = profile /\ page' = page
      /\ base' = IF heard THEN [base EXCEPT ![e] = revision + 1] ELSE base
      /\ made' = IF heard THEN [made EXCEPT ![e] = NoEdits] ELSE made
  BY DEF Save
<1>3. \A f \in Editors : base'[f] = revision' => heard /\ f = e
  BY <1>1, <1>2
<1>4. PICK flat \in Sent(e), sorts \in Sorts : flat.expectedRevision = revision /\ rows' = Applied(rows, flat, sorts)
  BY SavedTyped
<1>5. FlatOf(made[e], flat) /\ flat.expectedRevision = base[e]
  BY <1>1, SentIsFlat
<1>6. Agrees(page[e], made[e], rows)
  BY <1>4, <1>5 DEF SyncInvariant
<1>7. SaysTheRows(page[e], rows')
  BY <1>1, <1>4, <1>5, <1>6, SavedSays
<1>8. Agrees(page[e], NoEdits, rows')
  BY <1>7, NothingAgrees
<1>9. \A f \in Editors : base'[f] = revision' => Agrees(page'[f], made'[f], rows')
  <2> SUFFICES ASSUME NEW f \in Editors, base'[f] = revision' PROVE Agrees(page'[f], made'[f], rows')
    OBVIOUS
  <2>1. f = e /\ made'[f] = NoEdits /\ page'[f] = page[f]
    BY <1>1, <1>2, <1>3
  <2> QED BY <1>8, <2>1
<1>10. \A f \in Editors : Agrees(page'[f], made'[f], rows') => Agrees(page[f], made[f], rows)'
  BY <1>2, AgreesNext
<1>11. \A f \in Editors : base'[f] = revision' => Agrees(page[f], made[f], rows)'
  BY <1>9, <1>10
<1> QED BY <1>11 DEF SyncInvariant

\* An editor that opens the document again sees the rows.
LEMMA ReloadAgrees ==
    ASSUME EditingInvariant, SyncInvariant, NEW e \in Editors, Reload(e)
    PROVE  SyncInvariant'
<1>1. /\ made'[e] = NoEdits
      /\ \A f \in Editors : f # e => page'[f] = page[f] /\ base'[f] = base[f] /\ made'[f] = made[f]
      /\ profile' = profile /\ rows' = rows /\ revision' = revision /\ SaysTheRows(page'[e], rows)
  BY ReloadMakes
<1>2. Agrees(page'[e], NoEdits, rows)
  BY <1>1, NothingAgrees
<1>3. \A f \in Editors : base'[f] = revision' => Agrees(page'[f], made'[f], rows')
  BY <1>1, <1>2 DEF SyncInvariant
<1>4. \A f \in Editors : Agrees(page'[f], made'[f], rows') => Agrees(page[f], made[f], rows)'
  BY <1>1, AgreesNext
<1>5. \A f \in Editors : base'[f] = revision' => Agrees(page[f], made[f], rows)'
  BY <1>3, <1>4
<1> QED BY <1>5 DEF SyncInvariant

\* At first everybody sees nothing, and nothing is stored.
LEMMA SyncStarts == Init => SyncInvariant
<1> SUFFICES ASSUME Init PROVE SyncInvariant
  OBVIOUS
<1>1. /\ profile \in DOMAIN Forms /\ rows = <<>>
      /\ page = [e \in Editors |-> EmptyPage] /\ made = [e \in Editors |-> NoEdits]
  BY DEF Init
<1>2. Agrees(EmptyPage, NoEdits, <<>>)
  BY <1>1, NothingOpened, NothingAgrees
<1> QED BY <1>1, <1>2 DEF SyncInvariant

(***************************************************************************)
(* An editor at the current revision sees what the stored rows and what it *)
(* has made since say, however many batches others have saved before it    *)
(* and whether the answers of its own were lost.                           *)
(***************************************************************************)
THEOREM SyncKept == Spec => []SyncInvariant
<1>1. Init => SyncInvariant
  BY SyncStarts
<1>2. ASSUME EditingInvariant, SyncInvariant, [Next]_vars PROVE SyncInvariant'
  <2>1. CASE Next
    <3>1. PICK e \in Editors : \/ Mutations(e) < MaxEdits /\ Edit(e)
                               \/ \E heard \in BOOLEAN : Save(e, heard)
                               \/ Reload(e)
      BY <2>1 DEF Next
    <3> QED BY <1>2, <3>1, EditsAgree, SaveAgrees, ReloadAgrees
  <2>2. CASE UNCHANGED vars
    <3>1. /\ profile' = profile /\ rows' = rows /\ revision' = revision /\ page' = page /\ base' = base /\ made' = made
      BY <2>2 DEF vars
    <3>2. \A f \in Editors : base'[f] = revision' => Agrees(page'[f], made'[f], rows')
      BY <1>2, <3>1 DEF SyncInvariant
    <3>3. \A f \in Editors : Agrees(page'[f], made'[f], rows') => Agrees(page[f], made[f], rows)'
      BY <3>1, AgreesNext
    <3>4. \A f \in Editors : base'[f] = revision' => Agrees(page[f], made[f], rows)'
      BY <3>2, <3>3
    <3> QED BY <3>4 DEF SyncInvariant
  <2> QED BY <1>2, <2>1, <2>2
<1> QED BY <1>1, <1>2, EditingKept, PTL DEF Spec

(***************************************************************************)
(* Saving by mutations is saving the document: an editor at the current    *)
(* revision with nothing to send sees a page that flattens to the stored   *)
(* rows, whatever order the store applied its mutations in, however many   *)
(* answers were lost and whoever else has edited in between.               *)
(***************************************************************************)
THEOREM EditorsKeptInSync == Spec => []EditorsInSync
<1>1. ASSUME EditingInvariant, SyncInvariant PROVE EditorsInSync
  <2> SUFFICES ASSUME NEW e \in Editors, base[e] = revision, made[e] = NoEdits
               PROVE  Meaning(FlattenDocument(profile, page[e])) = Meaning(rows)
    BY DEF EditorsInSync
  <2>1. profile \in DOMAIN Forms /\ rows \in Seq(PageRow) /\ Checked(rows) /\ Document(page[e])
    BY <1>1 DEF EditingInvariant, EditorTyped
  <2>2. Agrees(page[e], NoEdits, rows)
    BY <1>1 DEF SyncInvariant
  <2>3. SaysTheRows(page[e], rows)
    BY <2>2, NothingAgrees
  <2> DEFINE flat == FlattenDocument(profile, page[e])
  <2>4. WellValued(flat) /\ SaysTheRows(page[e], flat)
    BY <2>1, FlatSays
  <2>5. WellValued(rows)
    BY <2>1, StoredSays
  <2> HIDE DEF flat
  <2>6. Meaning(flat) = Meaning(rows)
    BY <2>3, <2>4, <2>5, OneMeaning
  <2> QED BY <2>6 DEF flat
<1> QED BY <1>1, EditingKept, SyncKept, PTL

(***************************************************************************)
(* What the store has saved can be opened.                                 *)
(***************************************************************************)

\* The row that says a shape of a page.
LEMMA SaidRow ==
    ASSUME profile = "page", NEW p, NEW stored, SaysTheRows(p, stored), DistinctIds(stored), NEW x \in PageShapes(p)
    PROVE  LET r == RowOf(stored, x.id)
           IN /\ r \in ToSet(stored) /\ x.id \in Ids(stored) /\ r.id = x.id /\ r.parent = x.parent /\ r.slot = x.slot
              /\ r.pos = x.pos /\ r.kind = x.kind /\ r.shared = x.shared
<1>1. x \in ShapesOf(p)
  BY DEF ShapesOf
<1>2. PICK r \in ToSet(stored) : x = RowShape(r)
  BY <1>1 DEF SaysTheRows
<1>3. x.id = r.id /\ x.parent = r.parent /\ x.slot = r.slot /\ x.pos = r.pos /\ x.kind = r.kind /\ x.shared = r.shared
  BY <1>2 DEF RowShape
<1>4. r.id \in Ids(stored) /\ RowOf(stored, r.id) = r
  BY RowOfRow
<1> QED BY <1>3, <1>4

\* The row of a section that TypeScript accepts.
LEMMA SectionSaid ==
    ASSUME profile = "page", NEW p, PageDocument(p), NEW stored, SaysTheRows(p, stored), DistinctIds(stored),
           TsFlattenPageAccepts(p, "WRITE"), NEW i \in DOMAIN p.nodes
    PROVE  RowOfSection(p, stored, i)
<1> DEFINE node == p.nodes[i]
           x == SectionShape(node)
           r == RowOf(stored, node.id)
<1>1. node \in ToSet(p.nodes)
  BY DEF ToSet
<1>2. x \in PageShapes(p)
  BY <1>1 DEF PageShapes
<1>3. /\ x.id = node.id /\ x.parent = node.parent /\ x.slot = IF node.column = 0 THEN Sections ELSE Column(node.column)
      /\ x.pos = int32(node.index) /\ x.kind = node.shared.case /\ x.shared = node.shared
  BY DEF SectionShape
<1> HIDE DEF x
<1>4. /\ r \in ToSet(stored) /\ node.id \in Ids(stored) /\ r.id = x.id /\ r.parent = x.parent /\ r.slot = x.slot
      /\ r.pos = x.pos /\ r.kind = x.kind /\ r.shared = x.shared
  BY <1>2, <1>3, SaidRow
<1>5. TsPayloadValid("page", FALSE, node.shared, "WRITE") /\ ((node.parent = 0) <=> (node.column = 0))
  BY DEF TsFlattenPageAccepts, validatePageGraph
<1>6. node.shared.case \in PageKinds
  BY <1>5 DEF TsPayloadValid, TsKindAllowed
<1>7. \A k \in DOMAIN p.nodes : p.nodes[k].id = node.id => i = k
  BY DEF PageDocument, DistinctIds
<1> HIDE DEF node, r
<1>8. ~IsRichFamily(r)
  BY <1>3, <1>4, SlotsDiffer DEF IsRichFamily
<1> QED BY <1>3, <1>4, <1>5, <1>6, <1>7, <1>8 DEF RowOfSection, node, r

\* The row of a block that TypeScript accepts.
LEMMA BlockSaid ==
    ASSUME profile = "page", NEW p, PageDocument(p), NEW stored, SaysTheRows(p, stored), DistinctIds(stored),
           TsFlattenPageAccepts(p, "WRITE"), NEW i \in DOMAIN p.nodes, HasBlocks(p.nodes[i]), NEW j \in DOMAIN p.nodes[i].blocks
    PROVE  RowOfBlock(p, stored, i, j)
<1> DEFINE node == p.nodes[i]
           block == node.blocks[j]
           x == BlockShape(node.id, block)
           r == RowOf(stored, block.id)
<1>1. node \in ToSet(p.nodes) /\ block \in ToSet(node.blocks)
  BY DEF ToSet
<1>2. x \in PageShapes(p)
  BY <1>1, ShapesElements
<1>3. /\ x.id = block.id /\ x.parent = (IF block.parent = 0 THEN node.id ELSE block.parent) /\ x.slot = Content
      /\ x.pos = int32(block.index) /\ x.kind = block.shared.case /\ x.shared = block.shared
  BY DEF BlockShape
<1> HIDE DEF x
<1>4. /\ r \in ToSet(stored) /\ block.id \in Ids(stored) /\ r.id = x.id /\ r.parent = x.parent /\ r.slot = x.slot
      /\ r.pos = x.pos /\ r.kind = x.kind /\ r.shared = x.shared
  BY <1>2, <1>3, SaidRow
<1>5. validateRichGraph(Source, "page", node.blocks, TsNestedOverlays(node, p.overlays), "WRITE")
  BY DEF TsFlattenPageAccepts, HasBlocks
<1>6. /\ TsPayloadValid("page", TRUE, block.shared, "WRITE")
      /\ block.parent # 0 => \E k \in DOMAIN node.blocks : node.blocks[k].id = block.parent
  BY <1>5 DEF validateRichGraph
<1>7. block.shared.case \in ProfileBlocks["page"] /\ block.shared.case # "rich-text"
  BY <1>6 DEF TsPayloadValid, TsKindAllowed, ProfileBlocks, RichKinds
<1> HIDE DEF node, block, r
<1>8. IsRichFamily(r)
  BY <1>3, <1>4 DEF IsRichFamily
<1> QED BY <1>3, <1>4, <1>6, <1>7, <1>8 DEF RowOfBlock, node, block, r

\* Every row is of a section or block that is seen.
LEMMA SaidIsOf ==
    ASSUME profile = "page", NEW p, PageDocument(p), NEW stored, SaysTheRows(p, stored), NEW r \in ToSet(stored)
    PROVE  RowIsOf(p, r)
<1>1. RowShape(r) \in PageShapes(p)
  BY DEF SaysTheRows, ShapesOf
<1>2. PICK n \in ToSet(p.nodes) : RowShape(r) = SectionShape(n) \/ \E b \in ToSet(n.blocks) : RowShape(r) = BlockShape(n.id, b)
  BY <1>1, ShapesElements
<1>3. PICK i \in DOMAIN p.nodes : p.nodes[i] = n
  BY DEF ToSet
<1>4. CASE RowShape(r) = SectionShape(n)
  <2>1. r.id = n.id /\ r.slot = IF n.column = 0 THEN Sections ELSE Column(n.column)
    BY <1>4 DEF RowShape, SectionShape
  <2>2. ~IsRichFamily(r)
    BY <2>1, SlotsDiffer DEF IsRichFamily
  <2> QED BY <1>3, <2>1, <2>2 DEF RowIsOf
<1>5. ASSUME NEW b \in ToSet(n.blocks), RowShape(r) = BlockShape(n.id, b) PROVE RowIsOf(p, r)
  <2>1. r.id = b.id /\ r.slot = Content
    BY <1>5 DEF RowShape, BlockShape
  <2>2. PICK j \in DOMAIN n.blocks : n.blocks[j] = b
    BY DEF ToSet
  <2>3. SectionFits(n)
    BY DEF PageDocument
  <2>4. n.blocks # <<>>
    BY <2>2
  <2>5. HasBlocks(n)
    BY <2>3, <2>4 DEF SectionFits
  <2>6. IsRichFamily(r)
    BY <2>1 DEF IsRichFamily
  <2> QED BY <1>3, <2>1, <2>2, <2>5, <2>6 DEF RowIsOf
<1> QED BY <1>2, <1>4, <1>5

\* The stored rows that say a page which TypeScript accepts are rows of this page.
LEMMA SaidRows ==
    ASSUME profile = "page", NEW p, PageDocument(p), NEW stored, SaysTheRows(p, stored), StoredRows(stored), UniqueIds(stored),
           TsFlattenPageAccepts(p, "WRITE")
    PROVE  RowsOfPage(p, stored, "WRITE")
<1>1. DistinctIds(stored)
  BY UniqueIdsDistinct DEF StoredRows
<1>2. p \in Page
  BY DEF PageDocument
<1>3. \A i \in DOMAIN p.nodes : RowOfSection(p, stored, i)
  BY <1>1, SectionSaid
<1>4. \A i \in DOMAIN p.nodes : HasBlocks(p.nodes[i]) => \A j \in DOMAIN p.nodes[i].blocks : RowOfBlock(p, stored, i, j)
  BY <1>1, BlockSaid
<1>5. \A r \in ToSet(stored) : RowIsOf(p, r)
  BY SaidIsOf
<1> QED BY <1>2, <1>3, <1>4, <1>5 DEF RowsOfPage

\* No more rows than a document may have, and none of a page of a kind of both families.
Openable(stored) ==
    /\ Len(stored) <= MaxDocumentBlocks
    /\ profile = "page" => \A i \in DOMAIN stored : stored[i].kind \notin PageKinds \cap RichKinds

\* The rows of a post that are checked are the blocks of a document the Go runtime accepts.
LEMMA SavedPostAccepted ==
    ASSUME profile = "post", rows \in Seq(PageRow), Checked(rows), Openable(rows)
    PROVE  MaterializeRichTextDocumentStorageAccepts(Source, "post", rows)
<1> DEFINE ordered == InPlacementOrder(rows)
<1>1. /\ rows \in Seq(Row) /\ DistinctIds(rows)
      /\ \A x \in ToSet(rows) : x.slot = Content /\ x.kind \in RichKinds /\ x.kind = x.shared.case
  BY CheckedPost DEF PostRows
<1>2. UniqueIds(rows) /\ \A i \in DOMAIN rows : RowValid(Source, "post", rows[i], "WRITE")
  BY DEF Checked, Tree
<1>3. \A i \in DOMAIN rows : rows[i].kind \in RichKinds
  BY <1>1 DEF ToSet
<1>4. /\ ordered \in Seq(Row) /\ Len(ordered) = Len(rows) /\ ToSet(ordered) = ToSet(rows) /\ DistinctIds(ordered)
  BY <1>1, RowIsRowSet, PlacementOrder
<1>5. RichRows(RichNodes(rows), RichOverlays(Source, rows)) = ordered
  BY <1>1, BlocksReturn
<1> HIDE DEF ordered
<1>6. UniqueIds(ordered)
  BY <1>4, UniqueIdsDistinct
<1>7. ASSUME NEW i \in DOMAIN ordered
      PROVE  ordered[i].kind \in RichKinds /\ RowValid(Source, "post", ordered[i], "RESTORE_SNAPSHOT")
  <2>1. ordered[i] \in ToSet(rows)
    BY <1>4 DEF ToSet
  <2>2. PICK j \in DOMAIN rows : rows[j] = ordered[i]
    BY <2>1 DEF ToSet
  <2>3. RowValid(Source, "post", ordered[i], "WRITE")
    BY <1>2, <2>2
  <2>4. RowValid(Source, "post", ordered[i], "RESTORE_SNAPSHOT")
    BY <2>3 DEF RowValid, NormalizeContentStorageShared
  <2> QED BY <1>1, <2>1, <2>4
<1>8. Source \in DOMAIN RichOverlays(Source, rows)
  BY DEF RichOverlays
<1>9. Len(rows) <= MaxDocumentBlocks
  BY DEF Openable
<1>10. FlattenRichTextDocumentStorageAccepts(Source, "post", RichNodes(rows), RichOverlays(Source, rows), "RESTORE_SNAPSHOT")
  BY <1>4, <1>5, <1>6, <1>7, <1>8, <1>9 DEF FlattenRichTextDocumentStorageAccepts
<1> QED BY <1>2, <1>3, <1>10 DEF MaterializeRichTextDocumentStorageAccepts

\* The rows of a page that are checked are those of one the Go runtime accepts.
LEMMA SavedRowsAccepted ==
    ASSUME profile = "page", rows \in Seq(PageRow), Checked(rows), Openable(rows)
    PROVE  MaterializePageDocumentStorageAccepts(Source, rows)
<1>1. RowsInPlace(rows, "WRITE") /\ \A x \in ToSet(rows) : x.slot = Content => x.parent # 0
  BY CheckedInPlace
<1>2. \A x \in ToSet(rows) : x.kind \notin PageKinds \cap RichKinds
  BY DEF ToSet, Openable
<1>3. RowsChecked(rows, "WRITE")
  BY <1>1, <1>2, OneFamilyChecked
<1>4. Len(rows) <= MaxDocumentBlocks
  BY DEF Openable
<1> QED BY <1>3, <1>4, CheckedAccepted

\* The rows of a page that TypeScript accepts are those of one it opens, when its indexes fit.
LEMMA SavedRowsOpen ==
    ASSUME profile = "page", rows \in Seq(PageRow), Checked(rows), NEW p, PageDocument(p), SaysTheRows(p, rows),
           TsFlattenPageAccepts(p, "WRITE")
    PROVE  TsMaterializePageAccepts(Source, rows) <=> PageFits(p)
<1>1. RowsInPlace(rows, "WRITE")
  BY CheckedInPlace
<1>2. UniqueIds(rows) /\ StoredRows(rows) /\ Grounded(rows)
  BY <1>1, InPlaceFacts
<1>3. RowsOfPage(p, rows, "WRITE")
  BY <1>2, SaidRows
<1> QED BY <1>2, <1>3, SavedOpens

\* The rows of a post that TypeScript accepts are those of one it opens, when its indexes fit.
LEMMA SavedPostOpens ==
    ASSUME profile = "post", rows \in Seq(PageRow), Checked(rows), NEW p, PostDocument(p), SaysTheRows(p, rows),
           validateRichGraph(Source, "post", p.nodes, p.overlays, "WRITE")
    PROVE  TsMaterializeRichAccepts(Source, "post", rows) <=> Fit(p.nodes)
<1>1. /\ rows \in Seq(Row) /\ DistinctIds(rows)
      /\ \A x \in ToSet(rows) : /\ x.kind \in RichKinds /\ x.kind = x.shared.case
                                /\ Source \in DOMAIN x.locales /\ \A l \in DOMAIN x.locales : x.locales[l].case = x.kind
  BY CheckedPost DEF PostRows
<1>2. \A x \in ToSet(rows) : x \in Row
  BY <1>1, SequenceElements
<1>3. p.nodes \in Seq(Block)
  BY DEF PostDocument
<1>4. \A x : x \in PostShapes(p) <=> \E r \in ToSet(rows) : x = RowShape(r)
  BY DEF SaysTheRows, ShapesOf
<1>5. \A x : x \in PostShapes(p) <=> \E n \in ToSet(p.nodes) : x = BlockShape(0, n)
  BY ShapesElements
<1>6. ASSUME NEW r \in ToSet(rows)
      PROVE  \E j \in DOMAIN p.nodes :
               /\ r.id = p.nodes[j].id /\ r.parent = p.nodes[j].parent /\ r.pos = int32(p.nodes[j].index)
               /\ r.shared.case = p.nodes[j].shared.case
               /\ r.kind = r.shared.case /\ r.kind \in ProfileBlocks["post"]
  <2>1. PICK n \in ToSet(p.nodes) : RowShape(r) = BlockShape(0, n)
    BY <1>4, <1>5
  <2>2. PICK j \in DOMAIN p.nodes : p.nodes[j] = n
    BY DEF ToSet
  <2>3. r.id = n.id /\ r.parent = n.parent /\ r.pos = int32(n.index) /\ r.shared = n.shared
    BY <2>1 DEF RowShape, BlockShape
  <2>4. r.kind \in ProfileBlocks["post"] /\ r.kind = r.shared.case
    BY <1>1 DEF ProfileBlocks
  <2> QED BY <2>2, <2>3, <2>4
<1>7. ASSUME NEW j \in DOMAIN p.nodes PROVE \E r \in ToSet(rows) : r.id = p.nodes[j].id /\ r.pos = int32(p.nodes[j].index)
  <2>1. p.nodes[j] \in ToSet(p.nodes)
    BY DEF ToSet
  <2>2. PICK r \in ToSet(rows) : BlockShape(0, p.nodes[j]) = RowShape(r)
    BY <1>4, <1>5, <2>1
  <2> QED BY <2>2 DEF RowShape, BlockShape
<1>8. SavedAs("post", rows, p.nodes)
  BY <1>6, <1>7 DEF SavedAs
<1>9. \A x \in ToSet(rows) : /\ x \in Row /\ x.kind \in RichKinds /\ x.shared.case = x.kind
                             /\ Source \in DOMAIN x.locales /\ \A l \in DOMAIN x.locales : x.locales[l].case = x.kind
  BY <1>1, <1>2
<1> QED BY <1>1, <1>3, <1>8, <1>9, GraphAccepted

(***************************************************************************)
(* What the store has saved can be opened: the checks of single rows and   *)
(* of the tree are enough for rows that batches have made, unless there    *)
(* are more than a document may have or a page has a kind of both          *)
(* families; and a browser opens, of the documents that are valid for it,   *)
(* those without an index of 2^31 or more.                                 *)
(***************************************************************************)
THEOREM SavedPagesOpened == Spec => []SavedPagesOpen
<1>1. ASSUME EditingInvariant, SyncInvariant PROVE SavedPagesOpen
  <2>1. profile \in {"page", "post"} /\ rows \in Seq(PageRow) /\ Checked(rows)
    BY <1>1, FormsAssumption DEF EditingInvariant
  <2>2. ASSUME Openable(rows) PROVE MaterializeDocumentAccepts(profile, rows)
    <3>1. CASE profile = "page"
      BY <2>1, <2>2, <3>1, SavedRowsAccepted DEF MaterializeDocumentAccepts
    <3>2. CASE profile = "post"
      BY <2>1, <2>2, <3>2, SavedPostAccepted DEF MaterializeDocumentAccepts
    <3> QED BY <2>1, <3>1, <3>2
  <2>3. ASSUME NEW e \in Editors, base[e] = revision, made[e] = NoEdits,
               TsFlattenDocumentAccepts(profile, page[e], "WRITE")
        PROVE  TsMaterializeDocumentAccepts(profile, rows) <=> DocumentFits(profile, page[e])
    <3>1. Document(page[e])
      BY <1>1 DEF EditingInvariant, EditorTyped
    <3>2. Agrees(page[e], NoEdits, rows)
      BY <1>1, <2>3 DEF SyncInvariant
    <3>3. SaysTheRows(page[e], rows)
      BY <3>2, NothingAgrees
    <3>4. CASE profile = "page"
      <4>1. PageDocument(page[e])
        BY <3>1, <3>4 DEF Document
      <4>2. TsFlattenPageAccepts(page[e], "WRITE")
        BY <2>3, <3>4 DEF TsFlattenDocumentAccepts
      <4>3. TsMaterializePageAccepts(Source, rows) <=> PageFits(page[e])
        BY <2>1, <3>3, <3>4, <4>1, <4>2, SavedRowsOpen
      <4> QED BY <3>4, <4>3 DEF TsMaterializeDocumentAccepts, DocumentFits
    <3>5. CASE profile = "post"
      <4>1. PostDocument(page[e])
        BY <3>1, <3>5 DEF Document
      <4>2. validateRichGraph(Source, "post", page[e].nodes, page[e].overlays, "WRITE")
        BY <2>3, <3>5 DEF TsFlattenDocumentAccepts
      <4>3. TsMaterializeRichAccepts(Source, "post", rows) <=> Fit(page[e].nodes)
        BY <2>1, <3>3, <3>5, <4>1, <4>2, SavedPostOpens
      <4> QED BY <3>5, <4>3 DEF TsMaterializeDocumentAccepts, DocumentFits
    <3> QED BY <2>1, <3>4, <3>5
  <2> QED BY <2>2, <2>3 DEF SavedPagesOpen, Openable
<1> QED BY <1>1, EditingKept, SyncKept, PTL

(***************************************************************************)
(* What an editor has made can be applied: a batch names an id once in its *)
(* base mutations, gives no empty values and a post no value of a section, *)
(* and of an editor at the current revision no section of the document is  *)
(* stored as a block, nor a block as a section.                            *)
(***************************************************************************)
NamedApart(edits) == \A i, j \in DOMAIN edits.base : NameOf(edits.base[i]) = NameOf(edits.base[j]) => i = j

Filled(v) == v.op = "upsert" => v.value.text # "" /\ (profile = "post" => v.value.case \in RichKinds)
AllFilled(groups) == \A l, v : Makes(groups, l, v) => Filled(v)

SameFamily(x, r) == x.slot = Content <=> r.slot = Content
FamilyKept(p, stored) == \A x \in ShapesOf(p), r \in ToSet(stored) : x.id = r.id => SameFamily(x, r)

MadeInvariant ==
    \A e \in Editors :
        /\ NamedApart(made[e]) /\ AllFilled(made[e].groups)
        /\ base[e] = revision => FamilyKept(page[e], rows)

\* A base mutation of another id is named apart from the others.
LEMMA NamedMore ==
    ASSUME NEW edits, EditsTyped(edits), NamedApart(edits), NEW m \in BaseMutations, ~Names(ToSet(edits.base), NameOf(m)),
           NEW more, more.base = Append(edits.base, m)
    PROVE  NamedApart(more)
<1>1. edits.base \in Seq(BaseMutations)
  BY EditParts
<1> DEFINE s == edits.base
           t == Append(s, m)
<1>2. /\ Len(s) \in Nat /\ DOMAIN s = 1..Len(s) /\ DOMAIN t = 1..(Len(s) + 1)
      /\ t[Len(s) + 1] = m /\ \A i \in 1..Len(s) : t[i] = s[i]
  BY <1>1
<1>3. \A i \in DOMAIN s : NameOf(s[i]) # NameOf(m)
  BY DEF Names, ToSet
<1>4. \A i, j \in DOMAIN s : NameOf(s[i]) = NameOf(s[j]) => i = j
  BY DEF NamedApart
<1>5. more.base = t
  OBVIOUS
<1> HIDE DEF s, t
<1>6. \A i, j \in DOMAIN t : NameOf(t[i]) = NameOf(t[j]) => i = j
  <2> SUFFICES ASSUME NEW i \in DOMAIN t, NEW j \in DOMAIN t, NameOf(t[i]) = NameOf(t[j]) PROVE i = j
    OBVIOUS
  <2>1. (i \in DOMAIN s \/ i = Len(s) + 1) /\ (j \in DOMAIN s \/ j = Len(s) + 1)
    BY <1>2
  <2>2. \A k \in DOMAIN s : t[k] = s[k]
    BY <1>2
  <2> QED BY <1>2, <1>3, <1>4, <2>1, <2>2
<1> QED BY <1>5, <1>6 DEF NamedApart

\* A value more that is filled in.
LEMMA FilledMore ==
    ASSUME NEW groups, NEW more, NEW l, NEW u, Grown(groups, more, l, u), AllFilled(groups), Filled(u)
    PROVE  AllFilled(more)
<1>1. \A a, v : Makes(more, a, v) <=> Makes(groups, a, v) \/ (a = l /\ v = u)
  BY GroupsMore
<1> QED BY <1>1 DEF AllFilled

\* Families stay when what is new is of no row, when something moves within its family, and when something goes.
LEMMA FamilyStays ==
    ASSUME NEW p, NEW q, NEW stored, FamilyKept(p, stored)
    PROVE  /\ \A x, value : Inserted(p, q, x, value) /\ (\A r \in ToSet(stored) : r.id # x.id) => FamilyKept(q, stored)
           /\ \A id, place : Relocated(p, q, id, place) /\ (\A x \in ShapesOf(p) : x.id = id => SameFamily(x, place)) => FamilyKept(q, stored)
           /\ \A id : Removed(p, q, id) => FamilyKept(q, stored)
           /\ SameShapes(p, q) => FamilyKept(q, stored)
<1>a. \A x \in ShapesOf(p), r \in ToSet(stored) : x.id = r.id => SameFamily(x, r)
  BY DEF FamilyKept
<1>1. ASSUME NEW x, NEW value, Inserted(p, q, x, value), \A r \in ToSet(stored) : r.id # x.id PROVE FamilyKept(q, stored)
  <2>1. \A y \in ShapesOf(q) : y \in ShapesOf(p) \/ y = x
    BY <1>1 DEF Inserted
  <2> QED BY <1>1, <1>a, <2>1 DEF FamilyKept
<1>2. ASSUME NEW id, NEW place, Relocated(p, q, id, place), \A x \in ShapesOf(p) : x.id = id => SameFamily(x, place)
      PROVE  FamilyKept(q, stored)
  <2>1. \A y \in ShapesOf(q) : \/ y \in ShapesOf(p)
                              \/ \E x \in ShapesOf(p) : x.id = id /\ y = At(x, place)
    BY <1>2 DEF Relocated
  <2>2. \A x : At(x, place).id = x.id /\ At(x, place).slot = place.slot
    BY DEF At
  <2>3. ASSUME NEW y \in ShapesOf(q), NEW r \in ToSet(stored), y.id = r.id PROVE SameFamily(y, r)
    <3>1. CASE y \in ShapesOf(p)
      BY <1>a, <2>3, <3>1
    <3>2. ASSUME NEW x \in ShapesOf(p), x.id = id, y = At(x, place) PROVE SameFamily(y, r)
      <4>1. SameFamily(x, r) /\ SameFamily(x, place)
        BY <1>2, <1>a, <2>2, <2>3, <3>2
      <4> QED BY <2>2, <3>2, <4>1 DEF SameFamily
    <3> QED BY <2>1, <3>1, <3>2
  <2> QED BY <2>3 DEF FamilyKept
<1>3. ASSUME NEW id, Removed(p, q, id) PROVE FamilyKept(q, stored)
  <2>1. \A y \in ShapesOf(q) : y \in ShapesOf(p)
    BY <1>3 DEF Removed
  <2> QED BY <1>a, <2>1 DEF FamilyKept
<1>4. ASSUME SameShapes(p, q) PROVE FamilyKept(q, stored)
  <2>1. \A y \in ShapesOf(q) : y \in ShapesOf(p)
    BY <1>4 DEF SameShapes
  <2> QED BY <1>a, <2>1 DEF FamilyKept
<1> QED BY <1>1, <1>2, <1>3, <1>4

\* A document that says what rows say has their families.
LEMMA FamilySaid ==
    ASSUME NEW p, NEW stored, SaysTheRows(p, stored), DistinctIds(stored)
    PROVE  FamilyKept(p, stored)
<1> SUFFICES ASSUME NEW x \in ShapesOf(p), NEW r \in ToSet(stored), x.id = r.id PROVE SameFamily(x, r)
  BY DEF FamilyKept
<1>1. PICK s \in ToSet(stored) : x = RowShape(s)
  BY DEF SaysTheRows
<1>2. x.id = s.id /\ x.slot = s.slot
  BY <1>1 DEF RowShape
<1>3. s = r
  BY <1>2 DEF DistinctIds, ToSet
<1> QED BY <1>2, <1>3 DEF SameFamily

\* A move stays on its level, so within its family.
LEMMA MoveKeepsFamily ==
    ASSUME profile \in DOMAIN Forms, NEW p, Document(p), NEW section, NEW id, Placed(p, section, id),
           NEW parent, NEW column, NEW index, NEW place, place = PlaceAt(section, parent, column, index)
    PROVE  \A x \in ShapesOf(p) : x.id = id => SameFamily(x, place)
<1> SUFFICES ASSUME NEW x \in ShapesOf(p), x.id = id PROVE SameFamily(x, place)
  OBVIOUS
<1>a. profile = "page" \/ profile = "post"
  BY FormsAssumption
<1>b. place.slot = IF profile = "page" /\ section = 0 THEN (IF column = 0 THEN Sections ELSE Column(column)) ELSE Content
  BY DEF PlaceAt
<1>c. \A n : SectionShape(n).slot # Content
  BY SlotsDiffer DEF SectionShape
<1>d. \A s, b : BlockShape(s, b).slot = Content
  BY DEF BlockShape
<1>1. CASE profile = "post"
  <2>1. x \in PostShapes(p)
    BY <1>1 DEF ShapesOf
  <2>2. PICK n \in ToSet(p.nodes) : x = BlockShape(0, n)
    BY <2>1, ShapesElements
  <2> QED BY <1>1, <1>b, <1>d, <2>2 DEF SameFamily
<1>2. CASE profile = "page"
  <2>1. PageDocument(p)
    BY <1>2 DEF Document
  <2>2. PICK k \in ToSet(p.nodes) : InSection(k, x)
    BY <1>2, PageShapesIn
  <2>3. IF section = 0 THEN \E n \in ToSet(p.nodes) : n.id = id
        ELSE \E n \in ToSet(p.nodes) : n.id = section /\ \E b \in ToSet(n.blocks) : b.id = id
    BY <1>2, <2>1, PlacedOnPage
  <2>4. CASE section = 0
    <3>1. PICK n \in ToSet(p.nodes) : n.id = id
      BY <2>3, <2>4
    <3>2. k = n
      BY <2>1, <2>2, <3>1, ShapesApart
    <3>3. x = SectionShape(n)
      BY <2>1, <2>2, <3>1, <3>2, ShapesWithin
    <3>4. place.slot # Content
      BY <1>2, <1>b, <2>4, SlotsDiffer
    <3> QED BY <1>c, <3>3, <3>4 DEF SameFamily
  <2>5. CASE section # 0
    <3>1. PICK n \in ToSet(p.nodes) : \E b \in ToSet(n.blocks) : b.id = id
      BY <2>3, <2>5
    <3>2. PICK b \in ToSet(n.blocks) : b.id = id
      BY <3>1
    <3>3. k = n
      BY <2>1, <2>2, <3>2, ShapesApart
    <3>4. x = BlockShape(n.id, b)
      BY <2>1, <2>2, <3>2, <3>3, ShapesWithin
    <3>5. place.slot = Content
      BY <1>b, <2>5
    <3> QED BY <1>d, <3>4, <3>5 DEF SameFamily
  <2> QED BY <2>4, <2>5
<1> QED BY <1>1, <1>2, <1>a

\* Nothing but the profile decides what is filled in, and of which family a shape is.
LEMMA MadeNext ==
    ASSUME profile' = profile, NEW e \in Editors
    PROVE  /\ NamedApart(made'[e]) => NamedApart(made[e])'
           /\ AllFilled(made'[e].groups) => AllFilled(made[e].groups)'
           /\ FamilyKept(page'[e], rows') => FamilyKept(page[e], rows)'
<1>1. NamedApart(made'[e]) => NamedApart(made[e])'
  BY DEF NamedApart
<1>2. AllFilled(made'[e].groups) => AllFilled(made[e].groups)'
  BY DEF AllFilled, Filled
<1>3. FamilyKept(page'[e], rows') => FamilyKept(page[e], rows)'
  BY DEF FamilyKept, ShapesOf
<1> QED BY <1>1, <1>2, <1>3

\* An edit is of one editor.
LEMMA EditedMade ==
    ASSUME EditingInvariant, MadeInvariant, NEW e \in Editors, OnlyOf(e),
           NamedApart(made'[e]), AllFilled(made'[e].groups), base[e] = revision => FamilyKept(page'[e], rows)
    PROVE  MadeInvariant'
<1>1. /\ profile' = profile /\ rows' = rows /\ revision' = revision /\ base' = base
      /\ \A f \in Editors : f # e => page'[f] = page[f] /\ made'[f] = made[f]
  BY DEF OnlyOf
<1>2. \A f \in Editors : /\ NamedApart(made'[f]) /\ AllFilled(made'[f].groups)
                         /\ base'[f] = revision' => FamilyKept(page'[f], rows')
  BY <1>1 DEF MadeInvariant
<1>3. \A f \in Editors : /\ NamedApart(made'[f]) => NamedApart(made[f])'
                         /\ AllFilled(made'[f].groups) => AllFilled(made[f].groups)'
                         /\ FamilyKept(page'[f], rows') => FamilyKept(page[f], rows)'
  BY <1>1, MadeNext
<1> QED BY <1>2, <1>3 DEF MadeInvariant

\* Every edit leaves what the editor has made one that can be applied.
LEMMA EditsMade ==
    ASSUME EditingInvariant, SyncInvariant, MadeInvariant, NEW e \in Editors, Edit(e)
    PROVE  MadeInvariant'
<1>1. profile \in DOMAIN Forms /\ Holding(e) /\ EditsTyped(made[e]) /\ Document(page[e])
  BY DEF EditingInvariant, EditorTyped, Holding
<1>2. /\ NamedApart(made[e]) /\ AllFilled(made[e].groups)
      /\ base[e] = revision => FamilyKept(page[e], rows) /\ Agrees(page[e], made[e], rows)
  BY DEF MadeInvariant, SyncInvariant
<1>3. OtherLocales \subseteq Locales
  BY DEF Locales
<1>4. ASSUME NEW section, NEW node, node \in IF profile = "page" /\ section = 0 THEN SectionNodes ELSE BlockNodes,
             Insert(e, section, node)
      PROVE  MadeInvariant'
  <2> DEFINE m == UpsertMade(section, node)
  <2>1. /\ OnlyOf(e) /\ Inserted(page[e], page'[e], ShapeAt(section, node), FirstValue(node))
        /\ m \in BaseMutations /\ FirstMade(node) \in ValueMutations
        /\ made'[e] = [base |-> Append(made[e].base, m), groups |-> InGroup(made[e].groups, Source, FirstMade(node))]
    BY <1>1, <1>4, InsertMade
  <2>2. m.op = "upsert" /\ m.node = node /\ m.section = section
    BY DEF UpsertMade
  <2>3. node.id \notin AllIds(page[e]) /\ node.id \notin Named(e)
    BY <1>4 DEF Insert
  <2> HIDE DEF m
  <2>4. ~Names(ToSet(made[e].base), NameOf(m))
    BY <2>2, <2>3, NamedIds DEF NameOf
  <2>5. NamedApart(made'[e])
    BY <1>1, <1>2, <2>1, <2>4, NamedMore
  <2>6. Grown(made[e].groups, made'[e].groups, Source, FirstMade(node))
    BY <1>1, <2>1, <2>2, InsertsGrow
  <2>7. Filled(FirstMade(node))
    <3>1. FirstMade(node).op = "upsert" /\ FirstMade(node).value.text = "text" /\ FirstMade(node).value.case = node.shared.case
      BY DEF FirstMade, FirstValue
    <3>2. profile = "post" => node \in BlockNodes
      BY <1>4
    <3>3. profile = "post" => node.shared.case \in RichKinds
      BY <1>1, <3>2, NewNodes
    <3> QED BY <3>1, <3>3 DEF Filled
  <2>8. AllFilled(made'[e].groups)
    BY <1>2, <2>6, <2>7, FilledMore
  <2>9. base[e] = revision => FamilyKept(page'[e], rows)
    <3> SUFFICES ASSUME base[e] = revision PROVE FamilyKept(page'[e], rows)
      OBVIOUS
    <3>1. ShownIn(page[e], ToSet(rows), ToSet(made[e].base)) /\ ValuedIn(page[e], ToSet(made[e].base), made[e].groups)
      BY <1>2 DEF Agrees
    <3>2. ~Names(ToSet(made[e].base), node.id)
      BY <2>3, NamedIds
    <3>3. \A x \in ShapesOf(page[e]) : x.id # node.id
      BY <1>1, <2>3, ShapeOfId
    <3>4. \A r \in ToSet(rows) : r.id # node.id
      BY <3>1, <3>2, <3>3, NotThere
    <3>5. ShapeAt(section, node).id = node.id
      BY ShapeIds DEF ShapeAt
    <3> QED BY <1>2, <2>1, <3>4, <3>5, FamilyStays
  <2> QED BY <2>1, <2>5, <2>8, <2>9, EditedMade
<1>5. ASSUME NEW section \in Uuid \cup {0}, NEW id \in Uuid, NEW parent \in Uuid \cup {0}, NEW column \in Columns \cup {0},
             NEW index \in UInt32, Move(e, section, id, parent, column, index)
      PROVE  MadeInvariant'
  <2> DEFINE m == MoveMade(section, id, parent, column, index)
             place == PlaceAt(section, parent, column, index)
  <2>1. m = MoveMade(section, id, parent, column, index)
    OBVIOUS
  <2>a. place = PlaceAt(section, parent, column, index)
    OBVIOUS
  <2>2. m.op = "move" /\ m.id = id
    BY DEF MoveMade
  <2>3. id \notin Named(e) /\ Placed(page[e], section, id)
    BY <1>5 DEF Move
  <2> HIDE DEF m, place
  <2>b. m \in BaseMutations
    BY <1>1, <1>5, <2>1, MoveMakes
  <2>c. made'[e].base = Append(made[e].base, m) /\ made'[e].groups = made[e].groups
    <3>1. e \in DOMAIN made /\ made[e] = [base |-> made[e].base, groups |-> made[e].groups]
      BY <1>1, EditParts DEF Holding
    <3>2. made' = [made EXCEPT ![e].base = Append(@, m)]
      BY <1>5 DEF Move, m, MoveMade
    <3>3. made'[e] = [made[e] EXCEPT !.base = Append(made[e].base, m)]
      BY <3>1, <3>2
    <3> QED BY <3>1, <3>3
  <2>4. OnlyOf(e) /\ Relocated(page[e], page'[e], id, PlaceAt(section, parent, column, index))
    BY <1>1, <1>5, <2>1, MoveMakes
  <2>5. ~Names(ToSet(made[e].base), NameOf(m))
    BY <2>2, <2>3, NamedIds DEF NameOf
  <2>6. NamedApart(made'[e])
    BY <1>1, <1>2, <2>b, <2>c, <2>5, NamedMore
  <2>7. AllFilled(made'[e].groups)
    BY <1>2, <2>c
  <2>8. \A x \in ShapesOf(page[e]) : x.id = id => SameFamily(x, place)
    BY <1>1, <2>a, <2>3, MoveKeepsFamily
  <2>9. base[e] = revision => FamilyKept(page'[e], rows)
    BY <1>2, <2>a, <2>4, <2>8, FamilyStays
  <2> QED BY <2>4, <2>6, <2>7, <2>9, EditedMade
<1>6. ASSUME NEW section \in Uuid \cup {0}, NEW id \in Uuid, Delete(e, section, id)
      PROVE  MadeInvariant'
  <2> DEFINE m == DeleteMade(section, id)
  <2>1. m = DeleteMade(section, id)
    OBVIOUS
  <2>2. m.op = "delete" /\ m.id = id
    BY DEF DeleteMade
  <2>3. id \notin Named(e)
    BY <1>6 DEF Delete
  <2> HIDE DEF m
  <2>4. /\ OnlyOf(e) /\ Removed(page[e], page'[e], id)
        /\ m \in BaseMutations /\ made'[e] = [base |-> Append(made[e].base, m), groups |-> made[e].groups]
    BY <1>1, <1>6, <2>1, DeleteMakes
  <2>5. ~Names(ToSet(made[e].base), NameOf(m))
    BY <2>2, <2>3, NamedIds DEF NameOf
  <2>6. NamedApart(made'[e])
    BY <1>1, <1>2, <2>4, <2>5, NamedMore
  <2>7. AllFilled(made'[e].groups)
    BY <1>2, <2>4
  <2>8. base[e] = revision => FamilyKept(page'[e], rows)
    BY <1>2, <2>4, FamilyStays
  <2> QED BY <2>4, <2>6, <2>7, <2>8, EditedMade
<1>7. ASSUME NEW l \in Locales, NEW section \in Uuid \cup {0}, NEW id \in Uuid, Translate(e, l, section, id)
      PROVE  MadeInvariant'
  <2> DEFINE value == [case |-> KindAt(page[e], section, id), text |-> "new"]
             v == [op |-> "upsert", id |-> id, value |-> value]
  <2>1. value.text = "new"
    OBVIOUS
  <2>2. /\ OnlyOf(e) /\ Given(page[e], page'[e], l, id, value)
        /\ \E x \in ShapesOf(page[e]) : x.id = id /\ x.kind = value.case
        /\ v \in ValueMutations /\ made'[e] = [base |-> made[e].base, groups |-> InGroup(made[e].groups, l, v)]
    BY <1>1, <1>7, TranslateMakes
  <2> HIDE DEF value
  <2>3. Grown(made[e].groups, made'[e].groups, l, v) /\ made'[e].base = made[e].base
    BY <1>1, <2>2, ValuesGrow
  <2>4. NamedApart(made'[e])
    BY <1>2, <2>3 DEF NamedApart
  <2>5. profile = "post" => value.case \in RichKinds
    <3> SUFFICES ASSUME profile = "post" PROVE value.case \in RichKinds
      OBVIOUS
    <3>1. PICK x \in ShapesOf(page[e]) : x.kind = value.case
      BY <2>2
    <3>2. x \in PostShapes(page[e])
      BY DEF ShapesOf
    <3>3. PICK n \in ToSet(page[e].nodes) : x = BlockShape(0, n)
      BY <3>2, ShapesElements
    <3>4. PostDocument(page[e])
      BY <1>1 DEF Document
    <3>5. n.shared.case \in RichKinds
      BY <3>4 DEF PostDocument
    <3> QED BY <3>1, <3>3, <3>5 DEF BlockShape
  <2>6. Filled(v)
    BY <2>1, <2>5 DEF Filled
  <2>7. AllFilled(made'[e].groups)
    BY <1>2, <2>3, <2>6, FilledMore
  <2>8. SameShapes(page[e], page'[e])
    BY <2>2 DEF Given
  <2>9. base[e] = revision => FamilyKept(page'[e], rows)
    BY <1>2, <2>8, FamilyStays
  <2> QED BY <2>2, <2>4, <2>7, <2>9, EditedMade
<1>8. ASSUME NEW l \in OtherLocales, NEW section \in Uuid \cup {0}, NEW id \in Uuid, RemoveTranslation(e, l, section, id)
      PROVE  MadeInvariant'
  <2> DEFINE v == [op |-> "delete", id |-> id]
  <2>1. /\ OnlyOf(e) /\ Taken(page[e], page'[e], l, id)
        /\ v \in ValueMutations /\ made'[e] = [base |-> made[e].base, groups |-> InGroup(made[e].groups, l, v)]
    BY <1>1, <1>8, RemovalMakes
  <2>2. Grown(made[e].groups, made'[e].groups, l, v) /\ made'[e].base = made[e].base
    BY <1>1, <1>3, <2>1, ValuesGrow
  <2>3. NamedApart(made'[e])
    BY <1>2, <2>2 DEF NamedApart
  <2>4. Filled(v)
    BY DEF Filled
  <2>5. AllFilled(made'[e].groups)
    BY <1>2, <2>2, <2>4, FilledMore
  <2>6. SameShapes(page[e], page'[e])
    BY <2>1 DEF Taken
  <2>7. base[e] = revision => FamilyKept(page'[e], rows)
    BY <1>2, <2>6, FamilyStays
  <2> QED BY <2>1, <2>3, <2>5, <2>7, EditedMade
<1>9. CASE Inserts(e)
  BY <1>4, <1>9 DEF Inserts
<1>10. CASE Moves(e)
  BY <1>5, <1>10 DEF Moves
<1>11. CASE Deletes(e)
  BY <1>6, <1>11 DEF Deletes
<1>12. CASE Translates(e)
  BY <1>7, <1>12 DEF Translates
<1>13. CASE Removes(e)
  BY <1>8, <1>13 DEF Removes
<1> QED BY <1>9, <1>10, <1>11, <1>12, <1>13, EditSorts

\* Nothing is made at first, or when the document is opened or a save is heard of.
LEMMA NothingFilled == NamedApart(NoEdits) /\ AllFilled(NoEdits.groups)
<1>1. \A l, v : ~Makes(NoEdits.groups, l, v)
  BY NothingMade
<1>2. NoEdits.base = <<>>
  BY DEF NoEdits
<1> QED BY <1>1, <1>2 DEF NamedApart, AllFilled

\* Checked rows have an id each.
LEMMA CheckedDistinct ==
    ASSUME NEW stored \in Seq(PageRow), Checked(stored)
    PROVE  DistinctIds(stored)
<1>1. UniqueIds(stored)
  BY DEF Checked, Tree
<1> QED BY <1>1, UniqueIdsDistinct

\* The editor that hears of its save has nothing to send; the others are behind.
LEMMA SaveMade ==
    ASSUME EditingInvariant, SyncInvariant, MadeInvariant, NEW e \in Editors, NEW heard \in BOOLEAN, Save(e, heard)
    PROVE  MadeInvariant'
<1>1. /\ profile \in DOMAIN Forms /\ revision \in Nat /\ rows \in Seq(PageRow) /\ EditsTyped(made[e])
      /\ DOMAIN base = Editors /\ DOMAIN made = Editors
      /\ \A f \in Editors : base[f] \in 0..revision
  BY EditingBoundsAssumption DEF EditingInvariant, EditorTyped
<1>2. /\ revision' = revision + 1 /\ profile' = profile /\ page' = page
      /\ base' = IF heard THEN [base EXCEPT ![e] = revision + 1] ELSE base
      /\ made' = IF heard THEN [made EXCEPT ![e] = NoEdits] ELSE made
  BY DEF Save
<1>3. \A f \in Editors : base'[f] = revision' => heard /\ f = e
  BY <1>1, <1>2
<1>4. PICK flat \in Sent(e), sorts \in Sorts : flat.expectedRevision = revision /\ rows' = Applied(rows, flat, sorts)
  BY SavedTyped
<1>5. FlatOf(made[e], flat) /\ flat.expectedRevision = base[e]
  BY <1>1, SentIsFlat
<1>6. Agrees(page[e], made[e], rows)
  BY <1>4, <1>5 DEF SyncInvariant
<1>7. SaysTheRows(page[e], rows')
  BY <1>1, <1>4, <1>5, <1>6, SavedSays
<1>8. rows' \in Seq(PageRow) /\ Checked(rows')
  BY SavedTyped
<1>9. DistinctIds(rows')
  BY <1>8, CheckedDistinct
<1>10. FamilyKept(page[e], rows')
  BY <1>7, <1>9, FamilySaid
<1>11. \A f \in Editors : made'[f] = made[f] \/ made'[f] = NoEdits
  BY <1>1, <1>2
<1>12. \A f \in Editors : NamedApart(made'[f]) /\ AllFilled(made'[f].groups)
  BY <1>11, NothingFilled DEF MadeInvariant
<1>13. \A f \in Editors : base'[f] = revision' => FamilyKept(page'[f], rows')
  BY <1>2, <1>3, <1>10
<1>14. \A f \in Editors : /\ NamedApart(made'[f]) => NamedApart(made[f])'
                          /\ AllFilled(made'[f].groups) => AllFilled(made[f].groups)'
                          /\ FamilyKept(page'[f], rows') => FamilyKept(page[f], rows)'
  BY <1>2, MadeNext
<1> QED BY <1>12, <1>13, <1>14 DEF MadeInvariant

\* An editor that opens the document again has nothing to send.
LEMMA ReloadMade ==
    ASSUME EditingInvariant, MadeInvariant, NEW e \in Editors, Reload(e)
    PROVE  MadeInvariant'
<1>1. /\ made'[e] = NoEdits
      /\ \A f \in Editors : f # e => page'[f] = page[f] /\ base'[f] = base[f] /\ made'[f] = made[f]
      /\ profile' = profile /\ rows' = rows /\ revision' = revision /\ SaysTheRows(page'[e], rows)
  BY ReloadMakes
<1>2. DistinctIds(rows)
  BY CheckedDistinct DEF EditingInvariant
<1>3. FamilyKept(page'[e], rows)
  BY <1>1, <1>2, FamilySaid
<1>4. \A f \in Editors : NamedApart(made'[f]) /\ AllFilled(made'[f].groups)
  BY <1>1, NothingFilled DEF MadeInvariant
<1>5. \A f \in Editors : base'[f] = revision' => FamilyKept(page'[f], rows')
  BY <1>1, <1>3 DEF MadeInvariant
<1>6. \A f \in Editors : /\ NamedApart(made'[f]) => NamedApart(made[f])'
                         /\ AllFilled(made'[f].groups) => AllFilled(made[f].groups)'
                         /\ FamilyKept(page'[f], rows') => FamilyKept(page[f], rows)'
  BY <1>1, MadeNext
<1> QED BY <1>4, <1>5, <1>6 DEF MadeInvariant

\* At first nothing is made and nothing is stored.
LEMMA MadeStarts == Init => MadeInvariant
<1> SUFFICES ASSUME Init PROVE MadeInvariant
  OBVIOUS
<1>1. rows = <<>> /\ made = [e \in Editors |-> NoEdits]
  BY DEF Init
<1>2. \A p : FamilyKept(p, rows)
  BY <1>1 DEF FamilyKept, ToSet
<1> QED BY <1>1, <1>2, NothingFilled DEF MadeInvariant

(***************************************************************************)
(* What an editor has made can be applied, in whatever order the editors   *)
(* edit, save and open the document: a batch never names an id in two base *)
(* mutations nor gives an empty value, and the document of an editor at    *)
(* the current revision has no stored block for a section, or the reverse. *)
(***************************************************************************)
THEOREM MadeKept == Spec => []MadeInvariant
<1>1. Init => MadeInvariant
  BY MadeStarts
<1>2. ASSUME EditingInvariant, SyncInvariant, MadeInvariant, [Next]_vars PROVE MadeInvariant'
  <2>1. CASE Next
    <3>1. PICK e \in Editors : \/ Mutations(e) < MaxEdits /\ Edit(e)
                               \/ \E heard \in BOOLEAN : Save(e, heard)
                               \/ Reload(e)
      BY <2>1 DEF Next
    <3> QED BY <1>2, <3>1, EditsMade, SaveMade, ReloadMade
  <2>2. CASE UNCHANGED vars
    <3>1. /\ profile' = profile /\ rows' = rows /\ revision' = revision /\ page' = page /\ base' = base /\ made' = made
      BY <2>2 DEF vars
    <3>2. \A f \in Editors : /\ NamedApart(made'[f]) /\ AllFilled(made'[f].groups)
                             /\ base'[f] = revision' => FamilyKept(page'[f], rows')
      BY <1>2, <3>1 DEF MadeInvariant
    <3>3. \A f \in Editors : /\ NamedApart(made'[f]) => NamedApart(made[f])'
                             /\ AllFilled(made'[f].groups) => AllFilled(made[f].groups)'
                             /\ FamilyKept(page'[f], rows') => FamilyKept(page[f], rows)'
      BY <3>1, MadeNext
    <3> QED BY <3>2, <3>3 DEF MadeInvariant
  <2> QED BY <1>2, <2>1, <2>2
<1> QED BY <1>1, <1>2, EditingKept, SyncKept, PTL DEF Spec

(***************************************************************************)
(* What the store has saved are rows of an id each.                        *)
(***************************************************************************)

\* The elements of one sort, told apart by a key.
SortKeyed(s, op, key) ==
    \A i, j \in DOMAIN s : s[i].op = op /\ s[j].op = op /\ key[s[i]] = key[s[j]] => i = j
Keyed(s, key) == \A i, j \in DOMAIN s : key[s[i]] = key[s[j]] => i = j

SortPart(x, op) == IF x.op = op THEN <<x>> ELSE <<>>

\* With one element more the elements of a sort are one more, or the same.
LEMMA SortAppend ==
    ASSUME NEW S, NEW s \in Seq(S), NEW x \in S, NEW op
    PROVE  Sort(Append(s, x), op) = Sort(s, op) \o SortPart(x, op)
<1> DEFINE parts == [i \in DOMAIN s |-> SortPart(s[i], op)]
           t == Append(s, x)
           more == [i \in DOMAIN t |-> SortPart(t[i], op)]
<1>1. /\ Len(s) \in Nat /\ DOMAIN s = 1..Len(s) /\ \A i \in DOMAIN s : s[i] \in S
      /\ t \in Seq(S) /\ DOMAIN t = 1..(Len(s) + 1) /\ t[Len(s) + 1] = x /\ \A i \in 1..Len(s) : t[i] = s[i]
  BY SequenceElements
<1>2. \A y \in S : SortPart(y, op) \in Seq(S)
  BY DEF SortPart
<1>3. parts \in [1..Len(s) -> Seq(S)]
  BY <1>1, <1>2
<1>4. parts \in Seq(Seq(S)) /\ Len(parts) = Len(s)
  BY <1>1, <1>3, SeqDef
<1>5. more = Append(parts, SortPart(x, op))
  <2>1. more \in [1..(Len(s) + 1) -> Seq(S)]
    BY <1>1, <1>2
  <2>2. more \in Seq(Seq(S)) /\ Len(more) = Len(s) + 1
    BY <1>1, <2>1, SeqDef
  <2>3. Append(parts, SortPart(x, op)) \in Seq(Seq(S)) /\ Len(Append(parts, SortPart(x, op))) = Len(s) + 1
    BY <1>1, <1>2, <1>4
  <2>4. \A i \in 1..Len(s) : more[i] = parts[i] /\ Append(parts, SortPart(x, op))[i] = parts[i]
    BY <1>1, <1>4
  <2>5. more[Len(s) + 1] = SortPart(x, op) /\ Append(parts, SortPart(x, op))[Len(s) + 1] = SortPart(x, op)
    BY <1>1, <1>4
  <2>6. \A i \in 1..(Len(s) + 1) : i \in 1..Len(s) \/ i = Len(s) + 1
    BY <1>1
  <2> HIDE DEF more, parts
  <2>7. \A i \in 1..(Len(s) + 1) : more[i] = Append(parts, SortPart(x, op))[i]
    BY <2>4, <2>5, <2>6
  <2> QED BY <2>2, <2>3, <2>7, SeqEqual
<1>6. Sort(s, op) = FlattenSeq(parts) /\ Sort(t, op) = FlattenSeq(more)
  BY DEF Sort, Where, SortPart
<1> HIDE DEF parts, more, t
<1> QED BY <1>1, <1>2, <1>4, <1>5, <1>6, FlattenAppend DEF t

\* Elements of a sort that are told apart in a sequence are told apart among those of their sort.
LEMMA SortApart ==
    ASSUME NEW S, NEW s, s \in Seq(S), NEW op, NEW key, SortKeyed(s, op, key)
    PROVE  Keyed(Sort(s, op), key)
<1> DEFINE P == {t \in Seq(S) : SortKeyed(t, op, key) => Keyed(Sort(t, op), key)}
<1>1. <<>> \in P
  <2>1. <<>> \in Seq(S) /\ ToSet(<<>>) = {}
    BY EmptySeq DEF ToSet
  <2>2. Sort(<<>>, op) \in Seq(S) /\ \A x : x \notin ToSet(Sort(<<>>, op))
    BY <2>1, SortElements
  <2>3. DOMAIN Sort(<<>>, op) = {}
    BY <2>2 DEF ToSet
  <2> QED BY <2>1, <2>3 DEF Keyed
<1>2. ASSUME NEW t \in Seq(S), NEW x \in S, t \in P PROVE Append(t, x) \in P
  <2> DEFINE u == Append(t, x)
             a == Sort(t, op)
  <2>1. /\ Len(t) \in Nat /\ DOMAIN t = 1..Len(t)
        /\ u \in Seq(S) /\ DOMAIN u = 1..(Len(t) + 1) /\ u[Len(t) + 1] = x /\ \A i \in 1..Len(t) : u[i] = t[i]
    BY SequenceElements
  <2>2. SUFFICES ASSUME SortKeyed(u, op, key) PROVE Keyed(Sort(u, op), key)
    BY <2>1
  <2> HIDE DEF u
  <2>3. \A i \in DOMAIN t : i \in DOMAIN u /\ Len(t) + 1 \in DOMAIN u /\ i # Len(t) + 1
    BY <2>1
  <2>4. SortKeyed(t, op, key)
    BY <2>1, <2>2, <2>3 DEF SortKeyed
  <2>5. Keyed(a, key)
    BY <1>2, <2>4
  <2>6. a \in Seq(S) /\ \A y : y \in ToSet(a) <=> y \in ToSet(t) /\ y.op = op
    BY SortElements
  <2>7. Sort(u, op) = a \o SortPart(x, op)
    BY SortAppend DEF u
  <2>8. CASE x.op # op
    <3>1. SortPart(x, op) = <<>>
      BY <2>8 DEF SortPart
    <3>2. Sort(u, op) = a
      BY <2>6, <2>7, <3>1, ConcatEmptySeq
    <3> QED BY <2>5, <3>2
  <2>9. CASE x.op = op
    <3>1. SortPart(x, op) = <<x>>
      BY <2>9 DEF SortPart
    <3>2. \A y \in ToSet(a) : key[y] # key[x]
      <4> SUFFICES ASSUME NEW y \in ToSet(a) PROVE key[y] # key[x]
        OBVIOUS
      <4>1. y \in ToSet(t) /\ y.op = op
        BY <2>6
      <4>2. PICK i \in DOMAIN t : t[i] = y
        BY <4>1 DEF ToSet
      <4>3. u[i] = y /\ u[Len(t) + 1] = x
        BY <2>1, <4>2
      <4> QED BY <2>2, <2>3, <2>9, <4>1, <4>3 DEF SortKeyed
    <3> DEFINE b == a \o <<x>>
    <3>3. /\ Len(a) \in Nat /\ DOMAIN a = 1..Len(a) /\ DOMAIN b = 1..(Len(a) + 1)
          /\ b[Len(a) + 1] = x /\ \A i \in 1..Len(a) : b[i] = a[i]
      BY <2>6
    <3> HIDE DEF a, b
    <3>4. \A i \in DOMAIN a : a[i] \in ToSet(a)
      BY DEF ToSet
    <3>5. \A i \in DOMAIN b : i \in DOMAIN a \/ i = Len(a) + 1
      BY <3>3
    <3>6. \A i \in DOMAIN a : b[i] = a[i] /\ key[b[i]] # key[b[Len(a) + 1]]
      BY <3>2, <3>3, <3>4
    <3>7. Keyed(b, key)
      BY <2>5, <3>5, <3>6 DEF Keyed
    <3> QED BY <2>7, <3>1, <3>7 DEF b
  <2> QED BY <2>8, <2>9
<1>3. Seq(S) \subseteq P
  <2> HIDE DEF P
  <2> QED BY <1>1, <1>2, SequenceInduction
<1> QED BY <1>3

\* The upserts of a batch are of an id each.
LEMMA UpsertsDistinct ==
    ASSUME profile \in DOMAIN Forms, NEW edits, EditsTyped(edits), NamedApart(edits), NEW spelling \in {1, -1},
           NEW batch, SentAs(edits, spelling, batch), NEW flat, flat = FlattenBatch(profile, batch)
    PROVE  DistinctIds(flat.upserts)
<1> DEFINE s == Sort(batch.base, "upsert")
           S == ToSet(batch.base)
           key == [w \in S |-> UpsertOf(w).id]
           t == [i \in DOMAIN s |-> UpsertOf(s[i])]
<1>1. flat.upserts = t
  <2>1. profile = "page" \/ profile = "post"
    BY NewNodes
  <2> HIDE DEF s
  <2>2. CASE profile = "page"
    BY <2>2 DEF FlattenBatch, FlattenPageMutationBatchStorage, Each, UpsertOf, s
  <2>3. CASE profile = "post"
    BY <2>3 DEF FlattenBatch, FlattenRichTextMutationBatchStorage, Each, UpsertOf, s
  <2> QED BY <2>1, <2>2, <2>3
<1>2. batch.base \in Seq(S) /\ s \in Seq(S)
  BY SortSent
<1>3. DOMAIN batch.base = DOMAIN edits.base /\ \A i \in DOMAIN edits.base : batch.base[i] = Spelled(edits.base[i], spelling)
  BY DEF SentAs
<1>4. \A i \in DOMAIN edits.base : edits.base[i] \in BaseMutations
  BY EditParts
<1>5. \A m \in BaseMutations : Spelled(m, spelling).op = m.op
  BY SortsKept
<1>6. \A m \in BaseMutations : m.op = "upsert" => UpsertOf(Spelled(m, spelling)).id = NameOf(m)
  <2> SUFFICES ASSUME NEW m \in BaseMutations, m.op = "upsert" PROVE UpsertOf(Spelled(m, spelling)).id = NameOf(m)
    OBVIOUS
  <2>1. m.section \in Places /\ m.node \in NodesAt(m.section)
    BY BaseMutationSorts
  <2>2. UpsertOf(Spelled(m, spelling)) = ShapeAt(m.section, m.node)
    BY UpsertRows
  <2>3. ShapeAt(m.section, m.node).id = m.node.id
    BY <2>1, ShapeTyped
  <2> QED BY <2>2, <2>3 DEF NameOf
<1>7. \A i \in DOMAIN batch.base : batch.base[i] \in S
  BY DEF ToSet
<1> HIDE DEF s, t, S
<1>8. SortKeyed(batch.base, "upsert", key)
  <2> SUFFICES ASSUME NEW i \in DOMAIN batch.base, NEW j \in DOMAIN batch.base,
                      batch.base[i].op = "upsert", batch.base[j].op = "upsert", key[batch.base[i]] = key[batch.base[j]]
               PROVE  i = j
    BY DEF SortKeyed
  <2>1. UpsertOf(batch.base[i]).id = UpsertOf(batch.base[j]).id
    BY <1>7
  <2> HIDE DEF key
  <2>2. /\ edits.base[i] \in BaseMutations /\ edits.base[j] \in BaseMutations
        /\ edits.base[i].op = "upsert" /\ edits.base[j].op = "upsert"
    BY <1>3, <1>4, <1>5
  <2>3. NameOf(edits.base[i]) = NameOf(edits.base[j])
    BY <1>3, <1>6, <2>1, <2>2
  <2> QED BY <1>3, <2>3 DEF NamedApart
<1>9. Keyed(s, key)
  <2> HIDE DEF key
  <2> QED BY <1>2, <1>8, SortApart DEF s
<1>10. \A i \in DOMAIN s : s[i] \in S
  BY <1>2
<1>11. DOMAIN t = DOMAIN s /\ \A i \in DOMAIN s : t[i].id = key[s[i]]
  BY <1>10 DEF t
<1> HIDE DEF key
<1> QED BY <1>1, <1>9, <1>11 DEF Keyed, DistinctIds

\* What the store has saved are rows of an id each.
LEMMA SavedDistinct ==
    ASSUME profile \in DOMAIN Forms, NEW p, NEW edits, EditsTyped(edits), NEW stored \in Seq(PageRow), Agrees(p, edits, stored),
           NEW flat, FlatOf(edits, flat), NEW sorts \in Sorts, NEW saved, saved = Applied(stored, flat, sorts),
           DistinctIds(stored), DistinctIds(flat.upserts)
    PROVE  saved \in Seq(PageRow) /\ DistinctIds(saved)
<1> DEFINE t == InGroupOrder(stored, flat, sorts)
<1>1. NamedOnce(ToSet(edits.base)) /\ NewToRows(ToSet(stored), ToSet(edits.base))
  BY DEF Agrees
<1>2. OfDifferentIds(stored, flat)
  BY <1>1, BatchOfDifferentIds
<1>3. /\ t \in Seq(PageRow) /\ \A y : y \in ToSet(t) <=> LeftOrNew(stored, flat, y)
      /\ DistinctIds(stored) /\ DistinctIds(flat.upserts) => DistinctIds(t)
  BY <1>2, InAnyOrder
<1>4. flat.groups \in Seq(RowGroups)
  BY BatchRows
<1>5. saved = WithGroups(t, flat.groups)
  BY DEF Applied
<1> HIDE DEF t
<1>6. /\ saved \in Seq(PageRow)
      /\ \A y : y \in ToSet(saved) <=> \E r \in ToSet(t) : y = WithValues(flat.groups, r)
      /\ DistinctIds(t) => DistinctIds(saved)
  BY <1>3, <1>4, <1>5, GroupElements
<1> QED BY <1>3, <1>6

(***************************************************************************)
(* What the store has saved: each row is one of the stored or of what is   *)
(* upserted, and so is each of its values.                                 *)
(***************************************************************************)
FromUpsert(edits, r) == \E m \in ToSet(edits.base) : m.op = "upsert" /\ RowShape(r) = ShapeAt(m.section, m.node)
FromStored(stored, r) == \E s \in ToSet(stored) : s.id = r.id /\ s.kind = r.kind /\ s.shared = r.shared
ValueFrom(edits, stored, r, l) ==
    \/ Gives(edits.groups, l, r.id, r.locales[l])
    \/ \E s \in ToSet(stored) : s.id = r.id /\ l \in DOMAIN s.locales /\ s.locales[l] = r.locales[l]

SavedFrom(edits, stored, r) ==
    /\ FromUpsert(edits, r) \/ FromStored(stored, r)
    /\ \A l \in DOMAIN r.locales : ValueFrom(edits, stored, r, l)

\* What is shown is of a stored row or is upserted.
LEMMA ShownFrom ==
    ASSUME NEW edits, NEW stored, NEW r, Shown(ToSet(stored), ToSet(edits.base), RowShape(r))
    PROVE  FromUpsert(edits, r) \/ FromStored(stored, r)
<1>a. RowShape(r).id = r.id /\ RowShape(r).kind = r.kind /\ RowShape(r).shared = r.shared
  BY DEF RowShape
<1>1. ASSUME NEW s \in ToSet(stored), RowShape(r) = RowShape(s) PROVE FromStored(stored, r)
  <2>1. RowShape(s).id = s.id /\ RowShape(s).kind = s.kind /\ RowShape(s).shared = s.shared
    BY DEF RowShape
  <2> QED BY <1>1, <1>a, <2>1 DEF FromStored
<1>2. ASSUME NEW s \in ToSet(stored), NEW m, RowShape(r) = At(RowShape(s), PlaceRow(m)) PROVE FromStored(stored, r)
  <2>1. RowShape(s).id = s.id /\ RowShape(s).kind = s.kind /\ RowShape(s).shared = s.shared
    BY DEF RowShape
  <2>2. \A x, y : At(x, y).id = x.id /\ At(x, y).kind = x.kind /\ At(x, y).shared = x.shared
    BY DEF At
  <2> QED BY <1>2, <1>a, <2>1, <2>2 DEF FromStored
<1>3. \/ \E s \in ToSet(stored) : RowShape(r) = RowShape(s)
      \/ \E s \in ToSet(stored), m \in ToSet(edits.base) : RowShape(r) = At(RowShape(s), PlaceRow(m))
      \/ FromUpsert(edits, r)
  BY DEF Shown, FromUpsert
<1> QED BY <1>1, <1>2, <1>3

\* Where the rows come from that the store has saved.
LEMMA SavedIsFrom ==
    ASSUME profile \in DOMAIN Forms, NEW p, NEW edits, EditsTyped(edits), NEW stored \in Seq(PageRow), Agrees(p, edits, stored),
           NEW flat, FlatOf(edits, flat), NEW sorts \in Sorts, NEW saved, saved = Applied(stored, flat, sorts)
    PROVE  \A r \in ToSet(saved) : r \in PageRow /\ SavedFrom(edits, stored, r)
<1> DEFINE t == InGroupOrder(stored, flat, sorts)
           groups == flat.groups
<1>1. /\ NamedOnce(ToSet(edits.base)) /\ ValuedOnce(edits.groups) /\ NewToRows(ToSet(stored), ToSet(edits.base))
  BY DEF Agrees
<1>2. SentOf(edits, flat, stored)
  BY <1>1 DEF SentOf
<1>3. OfDifferentIds(stored, flat)
  BY <1>1, BatchOfDifferentIds
<1>4. t \in Seq(PageRow) /\ \A y : y \in ToSet(t) <=> LeftOrNew(stored, flat, y)
  BY <1>3, InAnyOrder
<1>5. groups \in Seq(RowGroups)
  BY BatchRows
<1>6. saved = WithGroups(t, groups)
  BY DEF Applied
<1> HIDE DEF t, groups
<1>7. \A y : y \in ToSet(saved) <=> \E r \in ToSet(t) : y = WithValues(groups, r)
  BY <1>4, <1>5, <1>6, GroupElements
<1> SUFFICES ASSUME NEW w \in ToSet(saved) PROVE w \in PageRow /\ SavedFrom(edits, stored, w)
  OBVIOUS
<1>8. PICK r \in ToSet(t) : w = WithValues(groups, r)
  BY <1>7
<1>9. LeftOrNew(stored, flat, r)
  BY <1>4
<1>10. /\ r \in PageRow /\ ~Gone(ToSet(edits.base), r.id)
       /\ Shown(ToSet(stored), ToSet(edits.base), RowShape(r))
       /\ \A l \in DOMAIN r.locales : \E s \in ToSet(stored) : s.id = r.id /\ l \in DOMAIN s.locales /\ s.locales[l] = r.locales[l]
  BY <1>2, <1>9, LeftOrNewRow
<1>11. GivenValues(groups, r, w)
  BY <1>5, <1>8, <1>10, RowGiven
<1>12. /\ w \in PageRow /\ w.id = r.id /\ RowShape(w) = RowShape(r)
       /\ \A l : l \in DOMAIN w.locales <=> (l \in DOMAIN r.locales \/ Put(groups, l, r.id) # {}) /\ ~Dropped(groups, l, r.id)
       /\ \A l \in DOMAIN w.locales : w.locales[l] = GroupValue(groups, r, l)
  BY <1>11 DEF GivenValues
<1>13. FromUpsert(edits, w) \/ FromStored(stored, w)
  BY <1>10, <1>12, ShownFrom
<1>14. ASSUME NEW l \in DOMAIN w.locales PROVE ValueFrom(edits, stored, w, l)
  <2>1. w.locales[l] = GroupValue(groups, r, l)
    BY <1>12
  <2>2. CASE Put(groups, l, r.id) = {}
    <3>1. l \in DOMAIN r.locales /\ w.locales[l] = r.locales[l]
      BY <1>12, <2>1, <2>2 DEF GroupValue
    <3> QED BY <1>10, <1>12, <3>1 DEF ValueFrom
  <2>3. CASE Put(groups, l, r.id) # {}
    <3>1. w.locales[l] = (CHOOSE u \in Put(groups, l, r.id) : TRUE).value
      BY <2>1, <2>3 DEF GroupValue
    <3>2. Put(groups, l, r.id) # {} => Gives(edits.groups, l, r.id, (CHOOSE u \in Put(groups, l, r.id) : TRUE).value)
      BY <1>1, MadeValues DEF groups
    <3>3. Gives(edits.groups, l, w.id, w.locales[l])
      BY <1>12, <2>3, <3>1, <3>2
    <3> QED BY <3>3 DEF ValueFrom
  <2> QED BY <2>2, <2>3
<1> QED BY <1>12, <1>13, <1>14 DEF SavedFrom

\* What is upserted has the payload of its kind, and is a section, or a block in content.
LEMMA UpsertIsOf ==
    ASSUME profile \in DOMAIN Forms, NEW edits, EditsTyped(edits), NEW m \in ToSet(edits.base), m.op = "upsert",
           NEW r, RowShape(r) = ShapeAt(m.section, m.node)
    PROVE  /\ r.id = NameOf(m) /\ r.kind = m.node.shared.case /\ r.shared = Shared(r.kind)
           /\ r.kind \in PageKinds \cup RichKinds /\ (profile = "post" => r.kind \in RichKinds)
<1>1. m \in BaseMutations
  BY EditParts
<1>2. m.section \in Places /\ m.node \in NodesAt(m.section)
  BY <1>1, BaseMutationSorts
<1>3. /\ ShapeAt(m.section, m.node).id = m.node.id /\ ShapeAt(m.section, m.node).kind = m.node.shared.case
      /\ ShapeAt(m.section, m.node).shared = Shared(m.node.shared.case)
  BY <1>2, ShapeTyped
<1>4. RowShape(r).id = r.id /\ RowShape(r).kind = r.kind /\ RowShape(r).shared = r.shared
  BY DEF RowShape
<1>5. m.node.shared.case \in PageKinds \cup RichKinds /\ (profile = "post" => m.node.shared.case \in RichKinds)
  <2>1. (m.node \in SectionNodes /\ profile = "page") \/ m.node \in BlockNodes
    BY <1>2 DEF NodesAt
  <2> QED BY <2>1, NewNodes
<1> QED BY <1>3, <1>4, <1>5 DEF NameOf

\* What a document says of an id is of the kind of its section or block.
LEMMA SaidFits ==
    ASSUME profile \in DOMAIN Forms, NEW p, Document(p), NEW l, NEW id, NEW v, SaysOf(p, l, id, v)
    PROVE  \E x \in ShapesOf(p) : x.id = id /\ x.kind = v.case
<1>a. \A n : SectionShape(n).id = n.id /\ SectionShape(n).kind = n.shared.case
  BY DEF SectionShape
<1>b. \A n, s : BlockShape(s, n).id = n.id /\ BlockShape(s, n).kind = n.shared.case
  BY DEF BlockShape
<1>1. CASE profile = "page"
  <2>1. PageDocument(p) /\ PageSays(p, l, id, v)
    BY <1>1 DEF Document, SaysOf
  <2>2. l \in Locales
    BY <2>1 DEF PageSays
  <2>3. \A s \in DOMAIN p.overlays[l] : \E n \in ToSet(p.nodes) : n.id = s /\ ValueFits(n, p.overlays[l][s])
    BY <2>1, <2>2 DEF PageDocument
  <2>4. CASE id \in DOMAIN p.overlays[l] /\ v = [case |-> p.overlays[l][id].case, text |-> p.overlays[l][id].text]
    <3>1. PICK n \in ToSet(p.nodes) : n.id = id /\ ValueFits(n, p.overlays[l][id])
      BY <2>3, <2>4
    <3>2. v.case = n.shared.case
      BY <2>4, <3>1 DEF ValueFits
    <3>3. SectionShape(n) \in ShapesOf(p)
      BY <1>1, PageShapesIn DEF InSection
    <3> QED BY <1>a, <3>1, <3>2, <3>3
  <2>5. CASE \E s \in DOMAIN p.overlays[l] : id \in DOMAIN p.overlays[l][s].blocks /\ v = p.overlays[l][s].blocks[id]
    <3>1. PICK s \in DOMAIN p.overlays[l] : id \in DOMAIN p.overlays[l][s].blocks /\ v = p.overlays[l][s].blocks[id]
      BY <2>5
    <3>2. PICK n \in ToSet(p.nodes) : n.id = s /\ ValueFits(n, p.overlays[l][s])
      BY <2>3
    <3>3. PICK b \in ToSet(n.blocks) : b.id = id /\ v.case = b.shared.case
      BY <3>1, <3>2 DEF ValueFits
    <3>4. InSection(n, BlockShape(n.id, b))
      BY DEF InSection
    <3>5. BlockShape(n.id, b) \in ShapesOf(p)
      BY <1>1, <3>4, PageShapesIn
    <3> QED BY <1>b, <3>3, <3>5
  <2> QED BY <2>1, <2>4, <2>5 DEF PageSays
<1>2. CASE profile = "post"
  <2>1. PostDocument(p) /\ PostSays(p, l, id, v)
    BY <1>2 DEF Document, SaysOf
  <2>2. l \in Locales /\ id \in DOMAIN p.overlays[l] /\ v = p.overlays[l][id]
    BY <2>1 DEF PostSays
  <2>3. PICK n \in ToSet(p.nodes) : n.id = id /\ p.overlays[l][id].case = n.shared.case
    BY <2>1, <2>2 DEF PostDocument
  <2>4. BlockShape(0, n) \in ShapesOf(p)
    BY <1>2 DEF ShapesOf, PostShapes
  <2> QED BY <1>b, <2>2, <2>3, <2>4
<1> QED BY <1>1, <1>2, NewNodes

\* A document says something in the source locale of all that is in it.
LEMMA SaidInSource ==
    ASSUME profile \in DOMAIN Forms, NEW p, Document(p), NEW x \in ShapesOf(p)
    PROVE  \E v : SaysOf(p, Source, x.id, v)
<1>a. Source \in Locales /\ \A v : Says(Source, v)
  BY DEF Locales, Says
<1>1. CASE profile = "page"
  <2>1. PageDocument(p) /\ PageSource(p)
    BY <1>1 DEF Document
  <2>2. PICK n \in ToSet(p.nodes) : InSection(n, x)
    BY <1>1, PageShapesIn
  <2>3. n.id \in DOMAIN p.overlays[Source] /\ \A b \in ToSet(n.blocks) : b.id \in DOMAIN p.overlays[Source][n.id].blocks
    BY <2>1 DEF PageSource
  <2>4. \/ x.id = n.id
        \/ \E b \in ToSet(n.blocks) : x.id = b.id
    BY <2>2, ShapeIds DEF InSection
  <2>5. CASE x.id = n.id
    <3>1. PageSays(p, Source, x.id, [case |-> p.overlays[Source][x.id].case, text |-> p.overlays[Source][x.id].text])
      BY <1>a, <2>3, <2>5 DEF PageSays
    <3> QED BY <1>1, <3>1 DEF SaysOf
  <2>6. ASSUME NEW b \in ToSet(n.blocks), x.id = b.id PROVE \E v : SaysOf(p, Source, x.id, v)
    <3>1. PageSays(p, Source, x.id, p.overlays[Source][n.id].blocks[x.id])
      BY <1>a, <2>3, <2>6 DEF PageSays
    <3> QED BY <1>1, <3>1 DEF SaysOf
  <2> QED BY <2>4, <2>5, <2>6
<1>2. CASE profile = "post"
  <2>1. PostSource(p)
    BY <1>2 DEF Document
  <2>2. PICK n \in ToSet(p.nodes) : x = BlockShape(0, n)
    BY <1>2 DEF ShapesOf, PostShapes
  <2>3. x.id = n.id
    BY <2>2, ShapeIds
  <2>4. PostSays(p, Source, x.id, p.overlays[Source][x.id])
    BY <1>a, <2>1, <2>3 DEF PostSource, PostSays
  <2> QED BY <1>2, <2>4 DEF SaysOf
<1> QED BY <1>1, <1>2, NewNodes

\* So the rows that are saved have a value in the source locale.
LEMMA SavedInSource ==
    ASSUME profile \in DOMAIN Forms, NEW p, Document(p), NEW saved, SaysTheRows(p, saved), DistinctIds(saved), NEW r \in ToSet(saved)
    PROVE  Source \in DOMAIN r.locales
<1>1. RowShape(r) \in ShapesOf(p) /\ RowShape(r).id = r.id
  BY DEF SaysTheRows, RowShape
<1>2. PICK v : SaysOf(p, Source, r.id, v)
  BY <1>1, SaidInSource
<1>3. RowSays(saved, Source, r.id, v)
  BY <1>2 DEF SaysTheRows
<1>4. PICK s \in ToSet(saved) : s.id = r.id /\ Source \in DOMAIN s.locales
  BY <1>3 DEF RowSays
<1>5. s = r
  BY <1>4 DEF DistinctIds, ToSet
<1> QED BY <1>4, <1>5

\* The value of a saved row in a locale is of its kind.
LEMMA SavedValueFits ==
    ASSUME profile \in DOMAIN Forms, NEW p, Document(p), NEW edits, EditsTyped(edits), AllFilled(edits.groups),
           NEW stored, Agrees(p, edits, stored), \A s \in ToSet(stored) : \A k \in DOMAIN s.locales : s.locales[k].case = s.kind,
           NEW saved, SaysTheRows(p, saved), DistinctIds(saved), NEW r \in ToSet(saved), SavedFrom(edits, stored, r),
           DistinctIds(stored), NEW l \in DOMAIN r.locales
    PROVE  r.locales[l].case = r.kind
<1> DEFINE v == r.locales[l]
<1>a. NewToRows(ToSet(stored), ToSet(edits.base))
  BY DEF Agrees
<1>b. ValueFrom(edits, stored, r, l) /\ (FromUpsert(edits, r) \/ FromStored(stored, r))
  BY DEF SavedFrom
<1>1. CASE Gives(edits.groups, l, r.id, v)
  <2>1. PICK w : Makes(edits.groups, l, w) /\ w.op = "upsert" /\ w.id = r.id /\ w.value = v
    BY <1>1 DEF Gives
  <2>2. Filled(w)
    BY <2>1 DEF AllFilled
  <2>3. v.text # ""
    BY <2>1, <2>2 DEF Filled
  <2> HIDE DEF v
  <2>4. Says(l, v)
    BY <2>3 DEF Says
  <2>5. RowSays(saved, l, r.id, v)
    BY <2>4 DEF RowSays, v
  <2>6. SaysOf(p, l, r.id, v)
    BY <2>5 DEF SaysTheRows
  <2>7. PICK x \in ShapesOf(p) : x.id = r.id /\ x.kind = v.case
    BY <2>6, SaidFits
  <2>8. PICK s \in ToSet(saved) : x = RowShape(s)
    BY DEF SaysTheRows
  <2>9. x.id = s.id /\ x.kind = s.kind
    BY <2>8 DEF RowShape
  <2>a. \A i, j \in DOMAIN saved : saved[i].id = saved[j].id => i = j
    BY DEF DistinctIds
  <2>b. s.id = r.id
    BY <2>7, <2>9
  <2>c. PICK i \in DOMAIN saved : saved[i] = s
    BY <2>8 DEF ToSet
  <2>d. PICK j \in DOMAIN saved : saved[j] = r
    BY DEF ToSet
  <2>10. s = r
    BY <2>a, <2>b, <2>c, <2>d
  <2> QED BY <2>7, <2>9, <2>10 DEF v
<1>2. ASSUME NEW s \in ToSet(stored), s.id = r.id, l \in DOMAIN s.locales, s.locales[l] = v PROVE v.case = r.kind
  <2>1. v.case = s.kind
    BY <1>2
  <2>2. ~FromUpsert(edits, r)
    <3> SUFFICES ASSUME NEW m \in ToSet(edits.base), m.op = "upsert", RowShape(r) = ShapeAt(m.section, m.node) PROVE FALSE
      BY DEF FromUpsert
    <3>1. r.id = NameOf(m)
      BY UpsertIsOf
    <3>2. m.node.id = s.id
      BY <1>2, <3>1 DEF NameOf
    <3> QED BY <1>a, <3>2 DEF NewToRows
  <2>3. PICK t \in ToSet(stored) : t.id = r.id /\ t.kind = r.kind /\ t.shared = r.shared
    BY <1>b, <2>2 DEF FromStored
  <2>4. t = s
    BY <1>2, <2>3 DEF DistinctIds, ToSet
  <2> QED BY <2>1, <2>3, <2>4
<1> HIDE DEF v
<1>3. \/ Gives(edits.groups, l, r.id, v)
      \/ \E s \in ToSet(stored) : s.id = r.id /\ l \in DOMAIN s.locales /\ s.locales[l] = v
  BY <1>b DEF ValueFrom, v
<1> QED BY <1>1, <1>2, <1>3 DEF v

\* What is upserted to a page is of no kind that names a section and a block.
Unmixed(edits) ==
    profile = "page" => \A m \in ToSet(edits.base) : m.op = "upsert" => m.node.shared.case \notin PageKinds \cap RichKinds

\* The payload of a saved row is one the store accepts.
LEMMA SavedPayload ==
    ASSUME profile \in DOMAIN Forms, NEW edits, EditsTyped(edits), Unmixed(edits), NEW stored,
           \A s \in ToSet(stored) : RowValid(Source, profile, s, "WRITE"), NEW r, FromUpsert(edits, r) \/ FromStored(stored, r)
    PROVE  KindAllowed(profile, r.kind) /\ NormalizeContentStorageShared(profile, r.kind, r.shared, "WRITE")
<1>1. CASE FromUpsert(edits, r)
  <2>1. PICK m \in ToSet(edits.base) : m.op = "upsert" /\ RowShape(r) = ShapeAt(m.section, m.node)
    BY <1>1 DEF FromUpsert
  <2>2. /\ r.kind = m.node.shared.case /\ r.shared = Shared(r.kind)
        /\ r.kind \in PageKinds \cup RichKinds /\ (profile = "post" => r.kind \in RichKinds)
    BY <2>1, UpsertIsOf
  <2>3. profile = "page" => r.kind # "map"
    <3>1. "map" \in PageKinds \cap RichKinds
      BY DEF PageKinds, RichKinds
    <3> QED BY <2>1, <2>2, <3>1 DEF Unmixed
  <2>4. KindAllowed(profile, r.kind)
    <3>1. profile = "page" \/ profile = "post"
      BY NewNodes
    <3> QED BY <2>2, <2>3, <3>1, KindsAllowed
  <2>5. r.shared.case = r.kind /\ NormalizeContentStorageShared(profile, r.shared.case, r.shared, "WRITE")
    BY <2>2, <2>4, SharedAccepted
  <2> QED BY <2>4, <2>5
<1>2. CASE FromStored(stored, r)
  <2>1. PICK s \in ToSet(stored) : s.id = r.id /\ s.kind = r.kind /\ s.shared = r.shared
    BY <1>2 DEF FromStored
  <2>2. NormalizeContentStorageShared(profile, s.kind, s.shared, "WRITE")
    BY DEF RowValid
  <2>3. NormalizeContentStorageShared(profile, r.kind, r.shared, "WRITE")
    BY <2>1, <2>2
  <2> QED BY <2>3 DEF NormalizeContentStorageShared
<1> QED BY <1>1, <1>2

\* A row that is saved passes the check of a row.
LEMMA SavedValid ==
    ASSUME profile \in DOMAIN Forms, NEW p, Document(p), NEW edits, EditsTyped(edits), AllFilled(edits.groups), Unmixed(edits),
           NEW stored, Agrees(p, edits, stored), DistinctIds(stored), \A s \in ToSet(stored) : RowValid(Source, profile, s, "WRITE"),
           NEW saved, SaysTheRows(p, saved), DistinctIds(saved), NEW r \in ToSet(saved), SavedFrom(edits, stored, r)
    PROVE  RowValid(Source, profile, r, "WRITE")
<1>1. Source \in DOMAIN r.locales
  BY SavedInSource
<1>2. FromUpsert(edits, r) \/ FromStored(stored, r)
  BY DEF SavedFrom
<1>3. KindAllowed(profile, r.kind) /\ NormalizeContentStorageShared(profile, r.kind, r.shared, "WRITE")
  BY <1>2, SavedPayload
<1>4. \A s \in ToSet(stored) : \A k \in DOMAIN s.locales : s.locales[k].case = s.kind
  BY DEF RowValid, NormalizeContentStorageLocale
<1>5. \A l \in DOMAIN r.locales : r.locales[l].case = r.kind
  <2> SUFFICES ASSUME NEW l \in DOMAIN r.locales PROVE r.locales[l].case = r.kind
    OBVIOUS
  <2> QED BY <1>4, SavedValueFits
<1> QED BY <1>1, <1>3, <1>5 DEF RowValid, NormalizeContentStorageLocale

\* A block of a page is saved of no kind that names a section, when the stored blocks are of none.
LEMMA SavedBlockKind ==
    ASSUME profile = "page", profile \in DOMAIN Forms, NEW p, NEW edits, EditsTyped(edits), Unmixed(edits),
           NEW stored, FamilyKept(p, stored), \A s \in ToSet(stored) : s.slot = Content => s.kind \notin PageKinds,
           NEW r, RowShape(r) \in ShapesOf(p), r.slot = Content, r.kind \in RichKinds, FromUpsert(edits, r) \/ FromStored(stored, r)
    PROVE  r.kind \notin PageKinds
<1>1. CASE FromUpsert(edits, r)
  <2>1. PICK m \in ToSet(edits.base) : m.op = "upsert" /\ RowShape(r) = ShapeAt(m.section, m.node)
    BY <1>1 DEF FromUpsert
  <2>2. r.kind = m.node.shared.case
    BY <2>1, UpsertIsOf
  <2> QED BY <2>1, <2>2 DEF Unmixed
<1>2. CASE FromStored(stored, r)
  <2>1. PICK s \in ToSet(stored) : s.id = r.id /\ s.kind = r.kind
    BY <1>2 DEF FromStored
  <2>2. RowShape(r).id = s.id /\ RowShape(r).slot = Content
    BY <2>1 DEF RowShape
  <2>3. SameFamily(RowShape(r), s)
    BY <2>2 DEF FamilyKept
  <2>4. s.slot = Content
    BY <2>2, <2>3 DEF SameFamily
  <2> QED BY <2>1, <2>4
<1> QED BY <1>1, <1>2

\* The stored blocks of a page are of no kind that names a section.
LEMMA StoredBlockKind ==
    ASSUME profile = "page", ParentChecked(profile, rows)
    PROVE  \A s \in ToSet(rows) : s.slot = Content => s.kind \notin PageKinds
<1> SUFFICES ASSUME NEW i \in DOMAIN rows, rows[i].slot = Content, rows[i].kind \in PageKinds PROVE FALSE
  BY DEF ToSet
<1> DEFINE r == rows[i]
<1>1. IF r.parent = 0 THEN ValidateContentStorageParent(profile, {}, r)
      ELSE r.parent \in Ids(rows) /\ ValidateContentStorageParent(profile, {RowOf(rows, r.parent)}, r)
  BY DEF ParentChecked
<1>2. r.slot = Content /\ r.kind \in PageKinds
  OBVIOUS
<1> HIDE DEF r
<1>3. CASE r.parent = 0
  <2>1. r.slot = Sections
    BY <1>1, <1>2, <1>3 DEF ValidateContentStorageParent
  <2> QED BY <1>2, <2>1, SlotsDiffer
<1>4. CASE r.parent # 0
  <2>1. ValidateContentStorageParent(profile, {RowOf(rows, r.parent)}, r)
    BY <1>1, <1>4
  <2>2. \E c : r.slot = Column(c)
    BY <1>2, <2>1 DEF ValidateContentStorageParent
  <2> QED BY <1>2, <2>2, SlotsDiffer
<1> QED BY <1>3, <1>4

\* Rows that say the same are grounded alike.
LEMMA SaysTheTree ==
    ASSUME NEW p, NEW S, NEW a \in Seq(S), NEW T, NEW b \in Seq(T), SaysTheRows(p, a), SaysTheRows(p, b), DistinctIds(b), Grounded(a)
    PROVE  Grounded(b)
<1>a. \A r, s : RowShape(r) = RowShape(s) => r.id = s.id /\ r.parent = s.parent
  <2> TAKE r, s
  <2>1. RowShape(r).id = r.id /\ RowShape(r).parent = r.parent /\ RowShape(s).id = s.id /\ RowShape(s).parent = s.parent
    BY DEF RowShape
  <2> QED BY <2>1
<1>1. \A r \in ToSet(a) : \E s \in ToSet(b) : s.id = r.id /\ s.parent = r.parent
  <2> SUFFICES ASSUME NEW r \in ToSet(a) PROVE \E s \in ToSet(b) : s.id = r.id /\ s.parent = r.parent
    OBVIOUS
  <2>1. RowShape(r) \in ShapesOf(p)
    BY DEF SaysTheRows
  <2>2. PICK s \in ToSet(b) : RowShape(r) = RowShape(s)
    BY <2>1 DEF SaysTheRows
  <2> QED BY <1>a, <2>2
<1>2. \A s \in ToSet(b) : \E r \in ToSet(a) : r.id = s.id
  <2> SUFFICES ASSUME NEW s \in ToSet(b) PROVE \E r \in ToSet(a) : r.id = s.id
    OBVIOUS
  <2>1. RowShape(s) \in ShapesOf(p)
    BY DEF SaysTheRows
  <2>2. PICK r \in ToSet(a) : RowShape(s) = RowShape(r)
    BY <2>1 DEF SaysTheRows
  <2> QED BY <1>a, <2>2
<1> SUFFICES ASSUME NEW id \in Ids(b) PROVE 0 \in Lineage(b, id)
  BY DEF Grounded
<1> DEFINE L == Lineage(b, id)
<1>3. id \in L /\ \A x \in L \cap Ids(b) : RowOf(b, x).parent \in L
  BY LineageClosed
<1>4. id \in Ids(a)
  <2>1. PICK s \in ToSet(b) : s.id = id
    BY IdsOfRows
  <2>2. PICK r \in ToSet(a) : r.id = s.id
    BY <1>2
  <2> QED BY <2>1, <2>2, IdsOfRows
<1> HIDE DEF L
<1>5. ASSUME NEW x \in L \cap Ids(a) PROVE RowOf(a, x).parent \in L
  <2>1. RowOf(a, x) \in ToSet(a) /\ RowOf(a, x).id = x
    BY <1>5, RowOfId
  <2>2. PICK s \in ToSet(b) : s.id = x /\ s.parent = RowOf(a, x).parent
    BY <1>1, <2>1
  <2>3. s.id \in Ids(b) /\ RowOf(b, s.id) = s
    BY RowOfRow
  <2> QED BY <1>3, <2>2, <2>3
<1>6. Lineage(a, id) \subseteq L
  BY <1>3, <1>5, LineageLeast
<1>7. 0 \in Lineage(a, id)
  BY <1>4 DEF Grounded
<1> QED BY <1>6, <1>7 DEF L

\* A document is flattened to a sequence of rows.
LEMMA FlatSequence ==
    ASSUME profile \in DOMAIN Forms, NEW p, Document(p), NEW flat, flat = FlattenDocument(profile, p)
    PROVE  flat \in Seq(ToSet(flat))
<1>1. CASE profile = "page"
  <2>1. p \in Page
    BY <1>1 DEF Document, PageDocument
  <2>2. flat \in Seq(Row)
    BY <1>1, <2>1, FlatElements DEF FlattenDocument
  <2>3. \A x \in ToSet(flat) : x \in ToSet(flat)
    OBVIOUS
  <2> QED BY <2>2, <2>3, Narrowed
<1>2. CASE profile = "post"
  <2>1. p.nodes \in Seq(Block)
    BY <1>2 DEF Document, PostDocument
  <2>2. flat = [i \in DOMAIN p.nodes |-> RichRow(p.nodes[i], p.overlays)]
    BY <1>2 DEF FlattenDocument, RichRows
  <2>3. Mapped(p.nodes, flat, ToSet(flat))
    <3>1. flat = [i \in DOMAIN p.nodes |-> flat[i]]
      BY <2>2
    <3>2. DOMAIN flat = DOMAIN p.nodes
      BY <2>2
    <3>3. \A i \in DOMAIN p.nodes : flat[i] \in ToSet(flat)
      BY <3>2 DEF ToSet
    <3> QED BY <3>1, <3>3 DEF Mapped
  <2> QED BY <2>1, <2>3, MappedElements
<1> QED BY <1>1, <1>2, NewNodes

\* The rows that are saved of a grounded document are a tree.
LEMMA SavedTree ==
    ASSUME profile \in DOMAIN Forms, NEW p, Document(p), Grounded(FlattenDocument(profile, p)),
           NEW saved \in Seq(PageRow), SaysTheRows(p, saved), DistinctIds(saved)
    PROVE  Tree(saved)
<1> DEFINE flat == FlattenDocument(profile, p)
<1>1. flat \in Seq(ToSet(flat)) /\ SaysTheRows(p, flat) /\ Grounded(flat)
  BY FlatSequence, FlatSays
<1> HIDE DEF flat
<1>2. Grounded(saved)
  BY <1>1, SaysTheTree
<1>3. UniqueIds(saved)
  BY UniqueIdsDistinct
<1> QED BY <1>2, <1>3 DEF Tree

\* The place of one row, as the store checks it.
PlaceChecked(saved, r) ==
    IF r.parent = 0 THEN ValidateContentStorageParent(profile, {}, r)
    ELSE r.parent \in Ids(saved) /\ ValidateContentStorageParent(profile, {RowOf(saved, r.parent)}, r)

\* A saved section is where one may be.
LEMMA SavedSectionPlaced ==
    ASSUME profile = "page", NEW p, PageDocument(p), TsFlattenPageAccepts(p, "WRITE"),
           NEW saved, SaysTheRows(p, saved), DistinctIds(saved),
           NEW r \in ToSet(saved), NEW i \in DOMAIN p.nodes, r.id = p.nodes[i].id
    PROVE  PlaceChecked(saved, r)
<1> DEFINE n == p.nodes[i]
<1>1. r.id \in Ids(saved) /\ RowOf(saved, r.id) = r
  BY RowOfRow
<1>2. /\ r.parent = n.parent /\ r.kind = n.shared.case /\ r.kind \in PageKinds
      /\ r.slot = IF n.column = 0 THEN Sections ELSE Column(n.column)
      /\ (n.parent = 0) <=> (n.column = 0)
  BY <1>1, SectionSaid DEF RowOfSection
<1>3. n.parent # 0 => ColumnPlaced(p.nodes, n)
  BY DEF TsFlattenPageAccepts, validatePageGraph
<1> HIDE DEF n
<1>4. CASE r.parent = 0
  <2>1. r.slot = Sections
    BY <1>2, <1>4
  <2> QED BY <1>2, <1>4, <2>1 DEF PlaceChecked, ValidateContentStorageParent
<1>5. CASE r.parent # 0
  <2>1. PICK j \in DOMAIN p.nodes : /\ p.nodes[j].id = n.parent
                                    /\ p.nodes[j].shared.case = "columns"
                                    /\ n.column \in p.nodes[j].shared.columns
                                    /\ n.shared.case \in ColumnChildKinds
    BY <1>2, <1>3, <1>5 DEF ColumnPlaced
  <2> DEFINE q == RowOf(saved, p.nodes[j].id)
  <2>2. /\ p.nodes[j].id \in Ids(saved) /\ q.kind = p.nodes[j].shared.case
        /\ q.shared.columns = p.nodes[j].shared.columns
    BY SectionSaid DEF RowOfSection
  <2>3. q = RowOf(saved, r.parent) /\ r.parent \in Ids(saved)
    BY <1>2, <2>1, <2>2
  <2> HIDE DEF q
  <2>4. q.kind = "columns" /\ r.slot \in {Column(c) : c \in q.shared.columns} /\ r.kind \in ColumnChildKinds
    BY <1>2, <1>5, <2>1, <2>2
  <2>5. ValidateContentStorageParent(profile, {q}, r)
    BY <1>2, <2>4 DEF ValidateContentStorageParent
  <2> QED BY <1>5, <2>3, <2>5 DEF PlaceChecked
<1> QED BY <1>4, <1>5

\* A saved block is below a block of its section or below the section.
LEMMA SavedBlockPlaced ==
    ASSUME profile = "page", NEW p, PageDocument(p), TsFlattenPageAccepts(p, "WRITE"),
           NEW saved, SaysTheRows(p, saved), DistinctIds(saved), \A y \in ToSet(saved) : InPage(y),
           NEW r \in ToSet(saved), NEW i \in DOMAIN p.nodes, HasBlocks(p.nodes[i]), NEW j \in DOMAIN p.nodes[i].blocks,
           r.id = p.nodes[i].blocks[j].id, r.kind \notin PageKinds
    PROVE  PlaceChecked(saved, r)
<1> DEFINE n == p.nodes[i]
           b == n.blocks[j]
<1>1. r.id \in Ids(saved) /\ RowOf(saved, r.id) = r
  BY RowOfRow
<1>2. /\ IsRichFamily(r) /\ r.kind \in ProfileBlocks["page"]
      /\ r.parent = IF b.parent = 0 THEN n.id ELSE b.parent
      /\ b.parent # 0 => \E k \in DOMAIN n.blocks : n.blocks[k].id = b.parent
  BY <1>1, BlockSaid DEF RowOfBlock
<1>3. r.slot = Content /\ r.parent # 0
  BY <1>2 DEF IsRichFamily, InPage
<1>4. ProfileBlocks["page"] \subseteq RichKinds
  BY DEF ProfileBlocks
<1>5. /\ n.id \in Ids(saved) /\ RowOf(saved, n.id).kind = "rich-text"
  BY SectionSaid DEF RowOfSection, HasBlocks
<1>6. \A k \in DOMAIN n.blocks : n.blocks[k].id \in Ids(saved) /\ RowOf(saved, n.blocks[k].id).kind \in RichKinds
  BY <1>4, BlockSaid DEF RowOfBlock
<1> HIDE DEF n, b
<1>7. r.parent \in Ids(saved) /\ (RowOf(saved, r.parent).kind \in RichKinds \/ RowOf(saved, r.parent).kind = "rich-text")
  BY <1>2, <1>5, <1>6
<1>8. ValidateContentStorageParent(profile, {RowOf(saved, r.parent)}, r)
  BY <1>2, <1>3, <1>4, <1>7 DEF ValidateContentStorageParent
<1> QED BY <1>3, <1>7, <1>8 DEF PlaceChecked

\* A saved block of a post is at the root or below another.
LEMMA SavedPostPlaced ==
    ASSUME profile = "post", NEW p, PostDocument(p), validateRichGraph(Source, "post", p.nodes, p.overlays, "WRITE"),
           NEW saved, SaysTheRows(p, saved), DistinctIds(saved), NEW r \in ToSet(saved)
    PROVE  PlaceChecked(saved, r)
<1>a. \A s, n : BlockShape(s, n).id = n.id /\ BlockShape(s, n).parent = (IF n.parent = 0 THEN s ELSE n.parent)
                /\ BlockShape(s, n).slot = Content /\ BlockShape(s, n).kind = n.shared.case
  BY DEF BlockShape
<1>b. \A y : /\ RowShape(y).id = y.id /\ RowShape(y).parent = y.parent
             /\ RowShape(y).slot = y.slot /\ RowShape(y).kind = y.kind
  BY DEF RowShape
<1>1. RowShape(r) \in PostShapes(p)
  BY DEF SaysTheRows, ShapesOf
<1>2. PICK n \in ToSet(p.nodes) : RowShape(r) = BlockShape(0, n)
  BY <1>1 DEF PostShapes
<1>3. n.shared.case \in RichKinds
  BY DEF PostDocument
<1>4. r.parent = n.parent /\ r.slot = Content /\ r.kind \in RichKinds
  BY <1>2, <1>3, <1>a, <1>b
<1>5. CASE r.parent = 0
  BY <1>4, <1>5 DEF PlaceChecked, ValidateContentStorageParent
<1>6. CASE r.parent # 0
  <2>1. PICK i \in DOMAIN p.nodes : p.nodes[i] = n
    BY DEF ToSet
  <2>2. PICK j \in DOMAIN p.nodes : p.nodes[j].id = n.parent
    BY <1>4, <1>6, <2>1 DEF validateRichGraph
  <2>3. p.nodes[j] \in ToSet(p.nodes)
    BY DEF ToSet
  <2>4. BlockShape(0, p.nodes[j]) \in ShapesOf(p)
    BY <2>3 DEF ShapesOf, PostShapes
  <2>5. PICK s \in ToSet(saved) : BlockShape(0, p.nodes[j]) = RowShape(s)
    BY <2>4 DEF SaysTheRows
  <2>6. p.nodes[j].shared.case \in RichKinds
    BY <2>3 DEF PostDocument
  <2>7. s.id = r.parent /\ s.kind \in RichKinds
    BY <1>4, <2>2, <2>5, <2>6, <1>a, <1>b
  <2>8. s.id \in Ids(saved) /\ RowOf(saved, s.id) = s
    BY RowOfRow
  <2>9. r.parent \in Ids(saved) /\ RowOf(saved, r.parent).kind \in RichKinds
    BY <2>7, <2>8
  <2>10. ValidateContentStorageParent(profile, {RowOf(saved, r.parent)}, r)
    BY <1>4, <2>9 DEF ValidateContentStorageParent
  <2> QED BY <1>6, <2>9, <2>10 DEF PlaceChecked
<1> QED BY <1>5, <1>6

\* The contributors of a batch that is sent by one member.
OneMember == <<1>>

\* One member is a valid list of contributors.
LEMMA OneMemberValid ==
    ASSUME NEW batch, batch.system = FALSE, batch.members = OneMember
    PROVE  contributorsValid(batch)
<1>1. OneMember # <<>> /\ DOMAIN OneMember = {1} /\ Len(OneMember) = 1
  BY DEF OneMember
<1>2. {normalizeUUID(OneMember[i]) : i \in DOMAIN OneMember} = {normalizeUUID(OneMember[1])}
  BY <1>1
<1>3. Cardinality({normalizeUUID(OneMember[1])}) = 1
  BY FS_Singleton
<1>4. Distinct(OneMember, normalizeUUID)
  BY <1>1, <1>2, <1>3 DEF Distinct
<1> HIDE DEF OneMember
<1>5. (IF batch.system THEN batch.members = <<>> ELSE batch.members # <<>>) /\ batch.system \in BOOLEAN
  BY <1>1
<1> QED BY <1>4, <1>5, ContributorsAccepted

\* What is sent upserted is of the kind of what is made.
LEMMA KindSent ==
    ASSUME profile \in DOMAIN Forms, NEW m \in BaseMutations, m.op = "upsert", NEW spelling \in {1, -1}
    PROVE  Spelled(m, spelling).op = "upsert" /\ Spelled(m, spelling).node.shared.case = m.node.shared.case
<1>1. Spelled(m, spelling).op = "upsert" /\ UpsertOf(Spelled(m, spelling)) = ShapeAt(m.section, m.node)
  BY UpsertRows
<1>2. m.section \in Places /\ m.node \in NodesAt(m.section)
  BY BaseMutationSorts
<1>3. ShapeAt(m.section, m.node).kind = m.node.shared.case
  BY <1>2, ShapeTyped
<1>4. \A w : UpsertOf(w).kind = w.node.shared.case
  BY DEF UpsertOf, UpsertRow, RichUpsertRow
<1> QED BY <1>1, <1>3, <1>4

\* A batch of a page without a kind of both families is made of none.
LEMMA SentUnmixed ==
    ASSUME profile \in DOMAIN Forms, NEW edits, EditsTyped(edits), NEW spelling \in {1, -1}, NEW batch, SentAs(edits, spelling, batch),
           profile = "page" => ~Of(PageKinds \cap RichKinds, batch)
    PROVE  Unmixed(edits) /\ (profile = "page" => ~Of({"map"}, batch))
<1>1. ASSUME profile = "page" PROVE ~Of({"map"}, batch)
  <2>1. "map" \in PageKinds \cap RichKinds
    BY DEF PageKinds, RichKinds
  <2> QED BY <1>1, <2>1 DEF Of
<1>2. ASSUME profile = "page", NEW m \in ToSet(edits.base), m.op = "upsert" PROVE m.node.shared.case \notin PageKinds \cap RichKinds
  <2>1. PICK i \in DOMAIN edits.base : edits.base[i] = m
    BY DEF ToSet
  <2>2. m \in BaseMutations
    BY EditParts
  <2>3. DOMAIN batch.base = DOMAIN edits.base /\ batch.base[i] = Spelled(m, spelling)
    BY <2>1 DEF SentAs
  <2>4. batch.base[i] \in ToSet(batch.base)
    BY <2>3 DEF ToSet
  <2>5. batch.base[i].op = "upsert" /\ batch.base[i].node.shared.case = m.node.shared.case
    BY <1>2, <2>2, <2>3, KindSent
  <2> QED BY <1>2, <2>4, <2>5 DEF Of
<1> QED BY <1>1, <1>2 DEF Unmixed

\* A batch is not empty when something is made.
LEMMA SentSomething ==
    ASSUME NEW edits, EditsTyped(edits), edits # NoEdits, NEW spelling, NEW batch, SentAs(edits, spelling, batch)
    PROVE  batch.base # <<>> \/ batch.groups # <<>>
<1> SUFFICES ASSUME batch.base = <<>>, batch.groups = <<>> PROVE FALSE
  OBVIOUS
<1>1. DOMAIN batch.base = DOMAIN edits.base /\ DOMAIN batch.groups = DOMAIN edits.groups
  BY DEF SentAs
<1>2. edits = [base |-> edits.base, groups |-> edits.groups] /\ edits.base \in Seq(BaseMutations) /\ edits.groups \in Seq(MadeGroups)
  BY EditParts
<1>3. ToSet(edits.base) = {} /\ ToSet(edits.groups) = {}
  BY <1>1 DEF ToSet
<1>4. edits.base = <<>>
  BY <1>2, <1>3, SequenceElements
<1>5. edits.groups = <<>>
  BY <1>2, <1>3, SequenceElements
<1> QED BY <1>2, <1>4, <1>5 DEF NoEdits

\* The values a post is sent are those of blocks.
LEMMA SentFilled ==
    ASSUME profile = "post", NEW edits, EditsTyped(edits), AllFilled(edits.groups), NEW spelling, NEW batch, SentAs(edits, spelling, batch)
    PROVE  \A g \in ToSet(batch.groups) : \A m \in ToSet(g.mutations) : m.op = "upsert" => m.value.case \in RichKinds
<1> SUFFICES ASSUME NEW i \in DOMAIN batch.groups, NEW k \in DOMAIN batch.groups[i].mutations,
                    batch.groups[i].mutations[k].op = "upsert"
             PROVE  batch.groups[i].mutations[k].value.case \in RichKinds
  BY DEF ToSet
<1> DEFINE g == edits.groups[i]
           h == batch.groups[i]
<1>1. i \in DOMAIN edits.groups /\ GroupSent(g, h)
  BY DEF SentAs
<1>2. k \in DOMAIN h.mutations /\ h.mutations[k].op = "upsert"
  OBVIOUS
<1>3. g \in ToSet(edits.groups)
  BY <1>1 DEF ToSet
<1> HIDE DEF g, h
<1>4. k \in DOMAIN g.mutations /\ MutationSent(g.mutations[k], h.mutations[k])
  BY <1>1, <1>2 DEF GroupSent
<1> DEFINE v == g.mutations[k]
           w == h.mutations[k]
<1>5. v \in ToSet(g.mutations)
  BY <1>4 DEF ToSet
<1>6. MutationSent(v, w) /\ w.op = "upsert"
  BY <1>2, <1>4
<1> HIDE DEF v, w
<1>7. v.op = "upsert" /\ w = [op |-> "upsert", id |-> w.id, value |-> v.value]
  BY <1>6 DEF MutationSent
<1>8. w.value = v.value
  BY <1>7
<1>9. Makes(edits.groups, g.locale, v)
  BY <1>3, <1>5 DEF Makes
<1>10. v.value.case \in RichKinds
  BY <1>7, <1>9 DEF AllFilled, Filled
<1> QED BY <1>8, <1>10 DEF w, h

\* Every row that is saved of a document that TypeScript accepts is in its place.
LEMMA SavedPlaced ==
    ASSUME profile \in DOMAIN Forms, NEW p, Document(p), TsFlattenDocumentAccepts(profile, p, "WRITE"),
           NEW saved \in Seq(PageRow), SaysTheRows(p, saved), DistinctIds(saved),
           profile = "page" => \A r \in ToSet(saved) : r.slot = Content /\ r.kind \in RichKinds => r.kind \notin PageKinds
    PROVE  ParentChecked(profile, saved)
<1>a. \A r \in ToSet(saved) : InPage(r)
  <2>1. \A r \in ToSet(saved) : r \in PageRow
    BY SequenceElements
  <2> QED BY <2>1 DEF PageRow
<1>1. ASSUME NEW r \in ToSet(saved) PROVE PlaceChecked(saved, r)
  <2>1. CASE profile = "page"
    <3>1. PageDocument(p) /\ TsFlattenPageAccepts(p, "WRITE")
      BY <2>1 DEF Document, TsFlattenDocumentAccepts
    <3>2. RowIsOf(p, r)
      BY <2>1, <3>1, SaidIsOf
    <3>3. PICK i \in DOMAIN p.nodes :
             \/ ~IsRichFamily(r) /\ r.id = p.nodes[i].id
             \/ /\ IsRichFamily(r) /\ HasBlocks(p.nodes[i])
                /\ \E j \in DOMAIN p.nodes[i].blocks : r.id = p.nodes[i].blocks[j].id
      BY <3>2 DEF RowIsOf
    <3>4. CASE r.id = p.nodes[i].id
      BY <2>1, <3>1, <3>4, SavedSectionPlaced
    <3>5. ASSUME IsRichFamily(r), HasBlocks(p.nodes[i]), NEW j \in DOMAIN p.nodes[i].blocks, r.id = p.nodes[i].blocks[j].id
          PROVE  PlaceChecked(saved, r)
      <4>1. r.id \in Ids(saved) /\ RowOf(saved, r.id) = r
        BY RowOfRow
      <4>2. RowOfBlock(p, saved, i, j)
        BY <2>1, <3>1, <3>5, BlockSaid
      <4>3. r.kind \in ProfileBlocks["page"]
        BY <3>5, <4>1, <4>2 DEF RowOfBlock
      <4>4. r.kind \in RichKinds /\ r.slot = Content
        BY <3>5, <4>3 DEF ProfileBlocks, IsRichFamily
      <4>5. r.kind \notin PageKinds
        BY <2>1, <4>4
      <4> QED BY <1>a, <2>1, <3>1, <3>5, <4>5, SavedBlockPlaced
    <3> QED BY <3>3, <3>4, <3>5
  <2>2. CASE profile = "post"
    <3>1. PostDocument(p) /\ validateRichGraph(Source, "post", p.nodes, p.overlays, "WRITE")
      BY <2>2 DEF Document, TsFlattenDocumentAccepts
    <3> QED BY <2>2, <3>1, SavedPostPlaced
  <2> QED BY <2>1, <2>2, NewNodes
<1>2. \A i \in DOMAIN saved : PlaceChecked(saved, saved[i])
  BY <1>1 DEF ToSet
<1> QED BY <1>2 DEF ParentChecked, PlaceChecked

(***************************************************************************)
(* An editor that can save: at the current revision, with mutations of no  *)
(* kind of both families, of a document that TypeScript accepts and that   *)
(* has nothing above itself.                                               *)
(***************************************************************************)
CanSave(e) ==
    /\ base[e] = revision
    /\ TsFlattenDocumentAccepts(profile, page[e], "WRITE") /\ Grounded(FlattenDocument(profile, page[e]))
    /\ Unmixed(made[e])

\* The rows it leaves pass the store's checks.
LEMMA SavedChecked ==
    ASSUME EditingInvariant, SyncInvariant, MadeInvariant, NEW e \in Editors, CanSave(e),
           NEW spelling \in {1, -1}, NEW batch, SentAs(made[e], spelling, batch),
           NEW flat, flat = FlattenBatch(profile, batch), FlatOf(made[e], flat), NEW sorts \in Sorts,
           NEW saved, saved = Applied(rows, flat, sorts)
    PROVE  Checked(saved)
<1> DEFINE p == page[e]
           edits == made[e]
<1>1. /\ profile \in DOMAIN Forms /\ rows \in Seq(PageRow) /\ Checked(rows)
      /\ Document(p) /\ EditsTyped(edits)
  BY DEF EditingInvariant, EditorTyped
<1>2. /\ base[e] = revision /\ Unmixed(edits)
      /\ TsFlattenDocumentAccepts(profile, p, "WRITE") /\ Grounded(FlattenDocument(profile, p))
  BY DEF CanSave
<1>3. Agrees(p, edits, rows)
  BY <1>2 DEF SyncInvariant
<1>4. NamedApart(edits) /\ AllFilled(edits.groups) /\ FamilyKept(p, rows)
  BY <1>2 DEF MadeInvariant
<1> HIDE DEF p
<1>5. DistinctIds(rows)
  BY <1>1, CheckedDistinct
<1>6. /\ ParentChecked(profile, rows) /\ \A s \in ToSet(rows) : RowValid(Source, profile, s, "WRITE")
  BY <1>1 DEF Checked, ToSet
<1>7. FlatOf(edits, flat) /\ SentAs(edits, spelling, batch)
  OBVIOUS
<1> HIDE DEF edits
<1>8. DistinctIds(flat.upserts)
  BY <1>1, <1>4, <1>7, UpsertsDistinct
<1>9. saved \in Seq(PageRow) /\ DistinctIds(saved)
  BY <1>1, <1>3, <1>5, <1>7, <1>8, SavedDistinct
<1>10. SaysTheRows(p, saved)
  BY <1>1, <1>3, <1>7, SavedSays
<1>11. \A r \in ToSet(saved) : r \in PageRow /\ SavedFrom(edits, rows, r)
  BY <1>1, <1>3, <1>7, SavedIsFrom
<1>12. \A r \in ToSet(saved) : RowValid(Source, profile, r, "WRITE")
  <2> SUFFICES ASSUME NEW r \in ToSet(saved) PROVE RowValid(Source, profile, r, "WRITE")
    OBVIOUS
  <2> QED BY <1>1, <1>2, <1>3, <1>4, <1>5, <1>6, <1>9, <1>10, <1>11, SavedValid
<1>13. Tree(saved)
  BY <1>1, <1>2, <1>9, <1>10, SavedTree
<1>14. profile = "page" => \A r \in ToSet(saved) : r.slot = Content /\ r.kind \in RichKinds => r.kind \notin PageKinds
  <2> SUFFICES ASSUME profile = "page", NEW r \in ToSet(saved), r.slot = Content, r.kind \in RichKinds PROVE r.kind \notin PageKinds
    OBVIOUS
  <2>1. RowShape(r) \in ShapesOf(p)
    BY <1>10 DEF SaysTheRows
  <2>2. \A s \in ToSet(rows) : s.slot = Content => s.kind \notin PageKinds
    BY <1>6, StoredBlockKind
  <2>3. FromUpsert(edits, r) \/ FromStored(rows, r)
    BY <1>11 DEF SavedFrom
  <2> QED BY <1>1, <1>2, <1>4, <2>1, <2>2, <2>3, SavedBlockKind
<1>15. ParentChecked(profile, saved)
  BY <1>1, <1>2, <1>9, <1>10, <1>14, SavedPlaced
<1>16. \A i \in DOMAIN saved : RowValid(Source, profile, saved[i], "WRITE")
  BY <1>12 DEF ToSet
<1> QED BY <1>13, <1>15, <1>16 DEF Checked

\* What an editor sends that is its one member's.
LEMMA FirstSent ==
    ASSUME NEW e, EditsTyped(made[e]), NEW spelling \in {1, -1}, NEW batch, batch = Batch(e, FALSE, OneMember, spelling)
    PROVE  SentAs(made[e], spelling, batch) /\ batch.system = FALSE /\ batch.members = OneMember
<1>1. ASSUME NEW system, system = FALSE, NEW sent, sent = Batch(e, system, OneMember, spelling)
      PROVE  SentAs(made[e], spelling, sent) /\ sent.system = system /\ sent.members = OneMember
  <2>1. SentAs(made[e], spelling, sent)
    BY <1>1, BatchSent
  <2>2. sent.system = system /\ sent.members = OneMember
    BY <1>1, BatchSent
  <2> QED BY <2>1, <2>2
<1>2. PICK system : system = FALSE
  OBVIOUS
<1>3. SentAs(made[e], spelling, Batch(e, system, OneMember, spelling))
      /\ Batch(e, system, OneMember, spelling).system = system /\ Batch(e, system, OneMember, spelling).members = OneMember
  BY <1>1, <1>2
<1> QED BY <1>2, <1>3

\* What an editor at the current revision sends of a document it may save is
\* accepted, and the store's checks pass on what it leaves.
LEMMA EditorSaves ==
    ASSUME EditingInvariant, SyncInvariant, MadeInvariant, NEW e \in Editors, NEW spelling \in {1, -1},
           base[e] = revision, made[e] # NoEdits,
           TsFlattenDocumentAccepts(profile, page[e], "WRITE"), Grounded(FlattenDocument(profile, page[e])),
           NEW batch, batch = Batch(e, FALSE, OneMember, spelling),
           profile = "page" => ~Of(PageKinds \cap RichKinds, batch)
    PROVE  /\ FlattenBatchAccepts(profile, batch, "WRITE")
           /\ \A sorts \in Sorts : Checked(Applied(rows, FlattenBatch(profile, batch), sorts))
<1>1. profile \in DOMAIN Forms /\ EditsTyped(made[e])
  BY DEF EditingInvariant, EditorTyped
<1>2. SentAs(made[e], spelling, batch) /\ batch.system = FALSE /\ batch.members = OneMember
  BY <1>1, FirstSent
<1>3. contributorsValid(batch)
  BY <1>2, OneMemberValid
<1>4. Unmixed(made[e]) /\ (profile = "page" => ~Of({"map"}, batch))
  BY <1>1, <1>2, SentUnmixed
<1>5. batch.base # <<>> \/ batch.groups # <<>>
  BY <1>1, <1>2, SentSomething
<1>6. profile = "page" \/ profile = "post"
  BY <1>1, FormsAssumption
<1>7. FlattenBatchAccepts(profile, batch, "WRITE")
  <2>1. CASE profile = "page"
    BY <1>1, <1>2, <1>3, <1>4, <2>1, PageBatchAccepted
  <2>2. CASE profile = "post"
    <3>1. AllFilled(made[e].groups)
      BY DEF MadeInvariant
    <3>2. \A g \in ToSet(batch.groups) : \A m \in ToSet(g.mutations) : m.op = "upsert" => m.value.case \in RichKinds
      BY <1>1, <1>2, <2>2, <3>1, SentFilled
    <3> QED BY <1>1, <1>2, <1>3, <1>5, <2>2, <3>2, PostBatchAccepted
  <2> QED BY <1>6, <2>1, <2>2
<1>8. CanSave(e)
  BY <1>4 DEF CanSave
<1>9. ASSUME NEW sorts \in Sorts PROVE Checked(Applied(rows, FlattenBatch(profile, batch), sorts))
  <2>1. FlatOf(made[e], FlattenBatch(profile, batch))
    BY <1>1, BatchFlat
  <2> QED BY <1>2, <1>8, <2>1, SavedChecked
<1> QED BY <1>7, <1>9

\* An editor of a valid document is never refused at the current revision:
\* whatever edits led to the document, and whatever was saved between them,
\* what FlattenDocument accepts of the document and the place of what it adds
\* is enough for the store to accept the batch of its mutations and for every
\* check of the store to pass on the rows, in whatever order it applies them.
THEOREM ValidPagesSaved == Spec => []ValidPagesSave
<1>1. ASSUME EditingInvariant, SyncInvariant, MadeInvariant PROVE ValidPagesSave
  <2> DEFINE LoneBatch(e, spelling) == Batch(e, FALSE, OneMember, spelling)
  <2>1. ASSUME NEW e \in Editors, NEW spelling \in {1, -1}, base[e] = revision, made[e] # NoEdits,
               TsFlattenDocumentAccepts(profile, page[e], "WRITE"), Grounded(FlattenDocument(profile, page[e]))
        PROVE  \/ profile = "page" /\ Of(PageKinds \cap RichKinds, LoneBatch(e, spelling))
               \/ /\ FlattenBatchAccepts(profile, LoneBatch(e, spelling), "WRITE")
                  /\ \A sorts \in Sorts : Checked(Applied(rows, FlattenBatch(profile, LoneBatch(e, spelling)), sorts))
    BY <1>1, <2>1, EditorSaves
  <2> QED BY <2>1 DEF ValidPagesSave, OneMember
<1> QED BY <1>1, EditingKept, SyncKept, MadeKept, PTL
=================================================================================

-------------------------- MODULE ContentStorageProofs --------------------------
(***************************************************************************)
(* A page on its way through storage, for any number of sections, blocks,  *)
(* locales, columns and spellings of ids.                                  *)
(*                                                                         *)
(* The invariant is StorageInv: everything is of its type, the stored rows *)
(* are valid in the mode they were saved in, and they are, apart from the  *)
(* state of files, the rows the draft is flattened to in some order (FlatInv). *)
(* No property of saved rows is inductive without the last: what a         *)
(* TypeScript check of the draft says reaches the rows only through it.    *)
(* That a browser reads what a server wrote needs that the rows are those  *)
(* of a page that TypeScript accepted (DraftRows).  That a page opened in  *)
(* one of its locales is the whole page seen in it needs only the rows:    *)
(* those a browser opens have a value each in that locale (OpenedInLocale).*)
(***************************************************************************)
EXTENDS ContentLocales, ContentPageProofs

-------------------------------------------------------------------------------
\* A page with one section more is a page.
LEMMA AddSectionTyped ==
    ASSUME draft \in Page, RichOwners(draft),
           NEW id \in Spellings, NEW oid \in Spellings, NEW parent \in Uuid \cup {0}, NEW column \in Columns \cup {0},
           NEW index \in UInt32, NEW shared \in Payloads, NEW ls \in SUBSET Locales,
           AddSection(id, oid, parent, column, index, shared, ls)
    PROVE  draft' \in Page /\ RichOwners(draft')
<1> DEFINE node == [id |-> id, parent |-> parent, column |-> column, index |-> index, shared |-> shared, blocks |-> <<>>]
           value == [case |-> shared.case, text |-> "text", blocks |-> NoValues]
           before(l) == IF l \in DOMAIN draft.overlays THEN draft.overlays[l] ELSE NoValues
           after(l) == IF l \in ls THEN With(before(l), oid, value) ELSE before(l)
<1>1. draft.nodes \in Seq(Node) /\ draft.overlays \in PartialFunctions(Locales, PageValues)
  BY DEF Page
<1>2. draft'.nodes = Append(draft.nodes, node) /\ draft'.overlays = [l \in DOMAIN draft.overlays \cup ls |-> after(l)]
      /\ draft' = [nodes |-> draft'.nodes, overlays |-> draft'.overlays]
  BY DEF AddSection, Translated
<1>3. node \in Node
  BY EmptySeq DEF Node
<1>4. value \in SectionValues
  <2>1. \A a \in PageKinds \cup RichKinds, b \in Texts, c \in BlockValues :
          [case |-> a, text |-> b, blocks |-> c] \in SectionValues
    BY DEF SectionValues
  <2>2. shared.case \in PageKinds \cup RichKinds
    BY DEF Payloads, AnyKind
  <2> QED BY <2>1, <2>2, NoValuesTyped DEF Texts
<1>5. \A l : before(l) \in PageValues
  BY <1>1, PartialFunctionOf, NoValuesTyped
<1>6. DOMAIN value.blocks = {}
  BY DEF NoValues
<1> HIDE DEF node, value, before
<1>7. \A l : /\ after(l) \in PageValues
            /\ \A s \in DOMAIN after(l) : after(l)[s] = value \/ (s \in DOMAIN before(l) /\ after(l)[s] = before(l)[s])
  <2> TAKE l
  <2>1. before(l) \in PageValues
    BY <1>5
  <2>2. CASE l \in ls
    <3>1. after(l) = With(before(l), oid, value)
      BY <2>2
    <3> HIDE DEF after
    <3>2. With(before(l), oid, value) \in PageValues
      BY <1>4, <2>1, WithPageValue
    <3>3. \A s \in DOMAIN With(before(l), oid, value) :
             \/ With(before(l), oid, value)[s] = value
             \/ s \in DOMAIN before(l) /\ With(before(l), oid, value)[s] = before(l)[s]
      BY DEF With
    <3> QED BY <3>1, <3>2, <3>3
  <2>3. CASE l \notin ls
    BY <2>1, <2>3
  <2> QED BY <2>2, <2>3
<1> HIDE DEF after
<1>8. Append(draft.nodes, node) \in Seq(Node)
      /\ DOMAIN draft.nodes \subseteq DOMAIN Append(draft.nodes, node)
      /\ \A i \in DOMAIN draft.nodes : Append(draft.nodes, node)[i] = draft.nodes[i]
  BY <1>1, <1>3, AppendProperties, LenProperties
<1>9. DOMAIN draft.overlays \subseteq Locales
  BY <1>1, PartialFunctionOf
<1>10. draft'.overlays \in PartialFunctions(Locales, PageValues)
  <2>1. draft'.overlays \in [DOMAIN draft.overlays \cup ls -> PageValues]
    BY <1>2, <1>7
  <2> QED BY <1>9, <2>1 DEF PartialFunctions
<1>11. draft' \in Page
  BY <1>2, <1>8, <1>10 DEF Page
<1>12. RichOwners(draft')
  <2> SUFFICES ASSUME NEW l \in DOMAIN draft'.overlays, NEW s \in DOMAIN draft'.overlays[l],
                      DOMAIN draft'.overlays[l][s].blocks # {}
               PROVE  \E i \in DOMAIN draft'.nodes : draft'.nodes[i].id = s /\ HasBlocks(draft'.nodes[i])
    BY DEF RichOwners
  <2>1. s \in DOMAIN before(l) /\ draft'.overlays[l][s] = before(l)[s]
    BY <1>2, <1>6, <1>7
  <2>2. l \in DOMAIN draft.overlays /\ before(l) = draft.overlays[l]
    BY <2>1 DEF before, NoValues
  <2>3. PICK i \in DOMAIN draft.nodes : draft.nodes[i].id = s /\ HasBlocks(draft.nodes[i])
    BY <2>1, <2>2 DEF RichOwners
  <2> QED BY <1>2, <1>8, <2>3
<1> QED BY <1>11, <1>12

\* A page with one block more is a page.
LEMMA AddBlockTyped ==
    ASSUME draft \in Page, RichOwners(draft),
           NEW id \in Spellings, NEW oid \in Spellings, NEW parent \in Uuid \cup {0},
           NEW index \in UInt32, NEW shared \in Payloads, NEW ls \in SUBSET Locales,
           AddBlock(id, oid, parent, index, shared, ls)
    PROVE  draft' \in Page /\ RichOwners(draft')
<1> DEFINE n == Len(draft.nodes)
           s == draft.nodes[n].id
           block == [id |-> id, parent |-> parent, index |-> index, shared |-> shared]
           value == [case |-> shared.case, text |-> "text"]
           named == {l \in ls \cap DOMAIN draft.overlays : s \in DOMAIN draft.overlays[l]}
           more == [draft.nodes[n] EXCEPT !.blocks = Append(@, block)]
           after(l) == IF l \in named
                       THEN [draft.overlays[l] EXCEPT ![s].blocks = With(@, oid, value)]
                       ELSE draft.overlays[l]
<1>1. draft.nodes \in Seq(Node) /\ draft.overlays \in PartialFunctions(Locales, PageValues)
  BY DEF Page
<1>2. /\ draft'.nodes = [draft.nodes EXCEPT ![n] = more]
      /\ draft'.overlays = [l \in DOMAIN draft.overlays |-> after(l)]
      /\ draft' = [nodes |-> draft'.nodes, overlays |-> draft'.overlays]
      /\ n > 0 /\ draft.nodes[n].shared.case = "rich-text"
  BY DEF AddBlock
<1>3. n \in DOMAIN draft.nodes /\ DOMAIN draft.nodes = 1..n /\ n \in Nat /\ draft.nodes[n] \in Node
  BY <1>1, <1>2, SequenceElements
<1>4. block \in Block
  BY DEF Block
<1>5. more \in Node /\ more.id = s /\ more.shared = draft.nodes[n].shared
  <2>1. Append(draft.nodes[n].blocks, block) \in Seq(Block)
    BY <1>3, <1>4, AppendProperties DEF Node
  <2> QED BY <1>3, <2>1 DEF Node
<1> HIDE DEF more, block
<1>6. draft'.nodes \in Seq(Node) /\ DOMAIN draft'.nodes = DOMAIN draft.nodes
      /\ \A i \in DOMAIN draft.nodes : draft'.nodes[i].id = draft.nodes[i].id
                                      /\ draft'.nodes[i].shared = draft.nodes[i].shared
  <2>1. draft'.nodes \in [1..n -> Node]
    BY <1>1, <1>2, <1>3, <1>5, SequenceElements
  <2>2. draft'.nodes \in Seq(Node)
    BY <1>3, <2>1, SeqDef
  <2> QED BY <1>2, <1>3, <1>5, <2>1, <2>2
<1>7. value \in Values
  BY DEF Values, Texts, Payloads, AnyKind
<1> HIDE DEF value
<1>8. \A l \in DOMAIN draft.overlays : draft.overlays[l] \in PageValues
  BY <1>1, PartialFunctionOf
<1>9. \A l \in DOMAIN draft.overlays :
        /\ after(l) \in PageValues
        /\ DOMAIN after(l) = DOMAIN draft.overlays[l]
        /\ \A t \in DOMAIN after(l) : t = s \/ after(l)[t] = draft.overlays[l][t]
  <2> TAKE l \in DOMAIN draft.overlays
  <2> DEFINE old == draft.overlays[l]
             new == [old EXCEPT ![s].blocks = With(@, oid, value)]
  <2>1. CASE l \in named
    <3>1. s \in DOMAIN old /\ old[s] \in SectionValues
      BY <1>8, <2>1, ValuesTyped
    <3>2. With(old[s].blocks, oid, value) \in BlockValues
      BY <1>7, <3>1, WithEntry DEF SectionValues, BlockValues
    <3>3. [old[s] EXCEPT !.blocks = With(@, oid, value)] \in SectionValues
      BY <3>1, <3>2 DEF SectionValues
    <3>4. new = [t \in DOMAIN old |-> IF t = s THEN [old[s] EXCEPT !.blocks = With(@, oid, value)] ELSE old[t]]
      BY <1>8, PartialFunctionOf DEF PageValues
    <3>5. DOMAIN old \subseteq Spellings /\ \A t \in DOMAIN old : old[t] \in SectionValues
      BY <1>8, ValuesTyped
    <3>6. after(l) = new
      BY <2>1
    <3> HIDE DEF after, named, s, old, new
    <3>7. new \in [DOMAIN old -> SectionValues]
      BY <3>3, <3>4, <3>5
    <3>8. new \in PageValues
      BY <3>5, <3>7 DEF PageValues, PartialFunctions
    <3> QED BY <3>4, <3>6, <3>7, <3>8 DEF old
  <2>2. CASE l \notin named
    BY <1>8, <2>2
  <2> QED BY <2>1, <2>2
<1> HIDE DEF after
<1>10. draft'.overlays \in PartialFunctions(Locales, PageValues)
  <2>1. draft'.overlays \in [DOMAIN draft.overlays -> PageValues]
    BY <1>2, <1>9
  <2>2. DOMAIN draft.overlays \subseteq Locales
    BY <1>1, PartialFunctionOf
  <2> QED BY <2>1, <2>2 DEF PartialFunctions
<1>11. draft' \in Page
  BY <1>2, <1>6, <1>10 DEF Page
<1>12. RichOwners(draft')
  <2> SUFFICES ASSUME NEW l \in DOMAIN draft'.overlays, NEW t \in DOMAIN draft'.overlays[l],
                      DOMAIN draft'.overlays[l][t].blocks # {}
               PROVE  \E i \in DOMAIN draft.nodes : draft.nodes[i].id = t /\ HasBlocks(draft.nodes[i])
    BY <1>6 DEF RichOwners, HasBlocks
  <2>1. CASE t = s
    BY <1>2, <1>3, <2>1 DEF HasBlocks
  <2>2. CASE t # s
    <3>1. l \in DOMAIN draft.overlays /\ t \in DOMAIN draft.overlays[l] /\ draft'.overlays[l][t] = draft.overlays[l][t]
      BY <1>2, <1>9, <2>2
    <3> QED BY <3>1 DEF RichOwners
  <2> QED BY <2>1, <2>2
<1> QED BY <1>11, <1>12

-------------------------------------------------------------------------------
(***************************************************************************)
(* The rows in the store.  They are the rows the draft is flattened to, in *)
(* an order of the store's own and perhaps with other media.               *)
(***************************************************************************)
Alike(x, y) ==
    /\ x.id = y.id /\ x.parent = y.parent /\ x.slot = y.slot /\ x.pos = y.pos
    /\ x.kind = y.kind /\ x.locales = y.locales
    /\ x.shared.case = y.shared.case /\ x.shared.settings = y.shared.settings /\ x.shared.columns = y.shared.columns

AlikeRows(s, t) ==
    /\ Len(s) = Len(t)
    /\ \A x \in ToSet(s) : \E y \in ToSet(t) : Alike(x, y)
    /\ \A y \in ToSet(t) : \E x \in ToSet(s) : Alike(x, y)

TypeInv ==
    /\ draft \in Page /\ RichOwners(draft)
    /\ saved \in {"none", "WRITE", "RESTORE_SNAPSHOT"}
    /\ StoredRows(rows)
    /\ saved # "none" => \A x \in ToSet(rows) : RowValid(Source, "page", x, saved)

FlatInv == saved # "none" => AlikeRows(rows, FlattenPageDocumentStorage(draft)) /\ Len(rows) <= MaxDocumentBlocks

StorageInv == TypeInv /\ FlatInv

\* The invariant holds at first.
LEMMA InitEstablishes ==
    Init => StorageInv
<1> SUFFICES ASSUME Init PROVE StorageInv
  OBVIOUS
<1>1. draft.nodes = <<>> /\ draft.overlays = [l \in Locales |-> NoValues] /\ draft = [nodes |-> draft.nodes, overlays |-> draft.overlays]
  BY DEF Init
<1>2. draft.nodes \in Seq(Node)
  BY <1>1, EmptySeq
<1>3. draft.overlays \in [Locales -> PageValues]
  BY <1>1, NoValuesTyped
<1>4. draft.overlays \in PartialFunctions(Locales, PageValues)
  BY <1>3 DEF PartialFunctions
<1>5. draft \in Page
  BY <1>1, <1>2, <1>4 DEF Page
<1>6. RichOwners(draft)
  BY <1>1 DEF RichOwners, NoValues
<1>7. rows = <<>> /\ rows \in Seq(Row) /\ ToSet(rows) = {}
  BY EmptySeq DEF Init, ToSet
<1> QED BY <1>5, <1>6, <1>7 DEF Init, StorageInv, TypeInv, FlatInv, StoredRows

\* The values a page is composed with are of their types.
LEMMA ComposedValues ==
    /\ SpelledIds \subseteq Spellings /\ Positions \subseteq UInt32
    /\ ValueLocales \subseteq Locales /\ {Source} \subseteq Locales
    /\ SectionPayloads \subseteq Payloads /\ BlockPayloads \subseteq Payloads
<1>1. SpelledIds \subseteq Spellings /\ Positions \subseteq UInt32 /\ ValueLocales \subseteq Locales /\ {Source} \subseteq Locales
  BY SpelledAssumption, IndexesAssumption DEF SpelledIds, Spellings, Positions, ValueLocales, Locales
<1>2. \A k \in AnyKind, s \in BOOLEAN, c \in SUBSET Columns, m \in {"none", "active", "missing"} : Payload(k, s, c, m) \in Payloads
  BY DEF Payload, Payloads
<1>3. SectionPayloads \subseteq Payloads
  <2>1. "columns" \in PageKinds
    BY DEF PageKinds
  <2>2. \A k \in (Kinds \cap PageKinds) \ {"columns"}, s \in Settings : Payload(k, s, {}, "none") \in Payloads
    BY <1>2, SettingsAssumption DEF AnyKind
  <2>3. \A s \in Settings, c \in {c \in SUBSET Columns : "columns" \in Kinds} : Payload("columns", s, c, "none") \in Payloads
    BY <1>2, <2>1, SettingsAssumption DEF AnyKind
  <2> QED BY <2>2, <2>3 DEF SectionPayloads
<1>4. BlockPayloads \subseteq Payloads
  <2> DEFINE no == FALSE
  <2>1. BlockPayloads = {Payload(k, no, {}, m) : k \in Kinds \cap RichKinds, m \in Medias}
    BY DEF BlockPayloads
  <2>2. no \in BOOLEAN
    OBVIOUS
  <2> HIDE DEF no
  <2>3. \A k \in Kinds \cap RichKinds, m \in Medias : Payload(k, no, {}, m) \in Payloads
    BY <1>2, <2>2, MediasAssumption DEF AnyKind
  <2> QED BY <2>1, <2>3
<1> QED BY <1>1, <1>3, <1>4

\* Composing keeps the invariant.
LEMMA ComposePreserves ==
    StorageInv /\ Compose => StorageInv'
<1> SUFFICES ASSUME StorageInv, Compose PROVE StorageInv'
  OBVIOUS
<1>1. draft \in Page /\ RichOwners(draft) /\ saved = "none" /\ StoredRows(rows)
  BY DEF StorageInv, TypeInv, Compose
<1>2. PICK id \in SpelledIds, oid \in SpelledIds, parent \in Uuid \cup {0}, index \in Positions :
         \/ \E column \in Columns \cup {0}, shared \in SectionPayloads, ls \in {{Source}, ValueLocales} :
               AddSection(id, oid, parent, column, index, shared, ls)
         \/ \E shared \in BlockPayloads, ls \in SUBSET ValueLocales : AddBlock(id, oid, parent, index, shared, ls)
  BY DEF Compose
<1>3. id \in Spellings /\ oid \in Spellings /\ index \in UInt32
  BY ComposedValues
<1>4. ASSUME NEW column \in Columns \cup {0}, NEW shared \in SectionPayloads, NEW ls \in {{Source}, ValueLocales},
             AddSection(id, oid, parent, column, index, shared, ls)
      PROVE  draft' \in Page /\ RichOwners(draft') /\ UNCHANGED <<saved, rows>>
  <2>1. shared \in Payloads /\ ls \in SUBSET Locales
    BY ComposedValues
  <2> QED BY <1>1, <1>3, <1>4, <2>1, AddSectionTyped DEF AddSection
<1>5. ASSUME NEW shared \in BlockPayloads, NEW ls \in SUBSET ValueLocales,
             AddBlock(id, oid, parent, index, shared, ls)
      PROVE  draft' \in Page /\ RichOwners(draft') /\ UNCHANGED <<saved, rows>>
  <2>1. shared \in Payloads /\ ls \in SUBSET Locales
    BY ComposedValues
  <2> QED BY <1>1, <1>3, <1>5, <2>1, AddBlockTyped DEF AddBlock
<1>6. draft' \in Page /\ RichOwners(draft') /\ UNCHANGED <<saved, rows>>
  BY <1>2, <1>4, <1>5
<1> QED BY <1>1, <1>6 DEF StorageInv, TypeInv, FlatInv

\* Saving keeps the invariant: the store holds the rows of the draft.
LEMMA SavePreserves ==
    ASSUME StorageInv, NEW mode \in Modes, Save(mode)
    PROVE  StorageInv'
<1> DEFINE flat == FlattenPageDocumentStorage(draft)
<1>1. draft \in Page /\ RichOwners(draft) /\ draft' = draft /\ saved' = mode /\ rows' \in {flat, Reverse(flat)}
      /\ FlattenPageDocumentStorageAccepts(draft, mode)
  BY DEF StorageInv, TypeInv, Save
<1>2. flat \in Seq(Row) /\ \A x \in ToSet(flat) : StoredRow(x) /\ RowValid(Source, "page", x, mode)
  BY <1>1, FlatElements, FlatStored
<1> HIDE DEF flat
<1>3. rows' \in Seq(Row) /\ Len(rows') = Len(flat) /\ ToSet(rows') = ToSet(flat)
  BY <1>1, <1>2, ReverseProperties
<1>4. StoredRows(rows') /\ \A x \in ToSet(rows') : RowValid(Source, "page", x, mode)
  BY <1>2, <1>3 DEF StoredRows
<1>5. AlikeRows(rows', flat) /\ Len(rows') <= MaxDocumentBlocks
  BY <1>1, <1>3 DEF AlikeRows, Alike, FlattenPageDocumentStorageAccepts, flat
<1>6. mode \in {"none", "WRITE", "RESTORE_SNAPSHOT"}
  BY ModesAssumption
<1>7. TypeInv'
  BY <1>1, <1>4, <1>6 DEF TypeInv
<1> QED BY <1>1, <1>5, <1>7 DEF StorageInv, FlatInv, flat

\* Opening keeps the invariant: what is rebuilt is a page.
LEMMA OpenPreserves ==
    StorageInv /\ Open => StorageInv'
<1> SUFFICES ASSUME StorageInv, Open PROVE StorageInv'
  OBVIOUS
<1>1. StoredRows(rows) /\ UniqueIds(rows) /\ draft' = MaterializePageDocumentStorage(Source, rows) /\ saved' = "none" /\ rows' = rows
  BY DEF StorageInv, TypeInv, Open, MaterializePageDocumentStorageAccepts
<1>2. draft' \in Page /\ RichOwners(draft')
  BY <1>1, MaterializedTyped
<1> QED BY <1>1, <1>2 DEF StorageInv, TypeInv, FlatInv

\* A row whose reference to a file that is gone becomes a placeholder.
RewrittenRow(gone, r) ==
    IF r.id \in gone /\ r.shared.media = "active" THEN [r EXCEPT !.shared.media = "missing"] ELSE r

\* A row whose file is gone differs in the state of the file only.
LEMMA RewrittenRowAlike ==
    ASSUME NEW gone, NEW r \in Row
    PROVE  /\ RewrittenRow(gone, r) \in Row
           /\ Alike(RewrittenRow(gone, r), r)
<1> DEFINE payload == [r.shared EXCEPT !.media = "missing"]
           x == [r EXCEPT !.shared = payload]
<1>1. payload \in Payloads /\ payload.case = r.shared.case /\ payload.settings = r.shared.settings
      /\ payload.columns = r.shared.columns
  BY DEF Row, Payloads
<1>2. [r EXCEPT !.shared.media = "missing"] = x
  BY DEF Row
<1> HIDE DEF payload
<1>3. x \in Row /\ x.id = r.id /\ x.parent = r.parent /\ x.slot = r.slot /\ x.pos = r.pos
      /\ x.kind = r.kind /\ x.locales = r.locales /\ x.shared = payload
  BY <1>1 DEF Row
<1> HIDE DEF x
<1>4. Alike(x, r) /\ Alike(r, r)
  BY <1>1, <1>3 DEF Alike
<1>5. RewrittenRow(gone, r) = x \/ RewrittenRow(gone, r) = r
  BY <1>2 DEF RewrittenRow
<1> QED BY <1>3, <1>4, <1>5

\* Being alike is transitive.
LEMMA AlikeTransitive ==
    ASSUME NEW x, NEW y, NEW z, Alike(x, y), Alike(y, z)
    PROVE  Alike(x, z)
  BY DEF Alike

\* Rewriting missing files keeps the invariant.
LEMMA RewritePreserves ==
    ASSUME StorageInv, NEW gone, RewriteMissing(gone)
    PROVE  StorageInv'
<1> DEFINE n == Len(rows)
           flat == FlattenPageDocumentStorage(draft)
<1>1. /\ draft \in Page /\ RichOwners(draft) /\ StoredRows(rows) /\ saved # "none"
      /\ draft' = draft /\ saved' = "RESTORE_SNAPSHOT"
      /\ AlikeRows(rows, flat)
  BY DEF StorageInv, TypeInv, FlatInv, RewriteMissing
<1>2. n \in Nat /\ DOMAIN rows = 1..n /\ \A i \in 1..n : rows[i] \in Row /\ rows[i] \in ToSet(rows) /\ StoredRow(rows[i])
  BY <1>1, SequenceElements DEF StoredRows, ToSet
<1>3. rows' = [i \in 1..n |-> RewrittenRow(gone, rows[i])]
  BY <1>2 DEF RewriteMissing, RewrittenRow
<1>4. \A i \in 1..n : NormalizeContentStorageShared("page", rows'[i].kind, rows'[i].shared, "RESTORE_SNAPSHOT")
  BY <1>2, <1>3 DEF RewriteMissing, RewrittenRow
<1> HIDE DEF n, flat
<1>5. \A i \in 1..n : rows'[i] = RewrittenRow(gone, rows[i])
  BY <1>3
<1>6. \A i \in 1..n : rows'[i] \in Row /\ Alike(rows'[i], rows[i])
  BY <1>2, <1>5, RewrittenRowAlike
<1>7. rows' \in Seq(Row) /\ DOMAIN rows' = 1..n /\ Len(rows') = n
  <2>1. rows' \in [1..n -> Row]
    BY <1>3, <1>6
  <2>2. rows' \in Seq(Row)
    BY <1>2, <2>1, SeqDef
  <2> QED BY <1>2, <2>1, <2>2, LenProperties
<1>8. \A i \in 1..n : StoredRow(rows'[i]) /\ RowValid(Source, "page", rows'[i], "RESTORE_SNAPSHOT")
  <2> TAKE i \in 1..n
  <2>1. StoredRow(rows[i]) /\ Alike(rows'[i], rows[i])
    BY <1>2, <1>6
  <2>2. RowValid(Source, "page", rows'[i], "RESTORE_SNAPSHOT")
    BY <1>4, <2>1 DEF StoredRow, RowValid, Alike
  <2> QED BY <1>6, <2>1, <2>2 DEF StoredRow, Alike
<1>9. StoredRows(rows') /\ \A x \in ToSet(rows') : RowValid(Source, "page", x, "RESTORE_SNAPSHOT")
  BY <1>7, <1>8 DEF StoredRows, ToSet
<1>10. AlikeRows(rows', flat)
  <2>1. Len(rows) = n
    BY DEF n
  <2>2. \A x \in ToSet(rows') : \E y \in ToSet(flat) : Alike(x, y)
    <3> TAKE x \in ToSet(rows')
    <3>1. PICK i \in 1..n : x = rows'[i]
      BY <1>7 DEF ToSet
    <3>2. PICK y \in ToSet(flat) : Alike(rows[i], y)
      BY <1>1, <1>2 DEF AlikeRows
    <3> QED BY <1>6, <3>1, <3>2, AlikeTransitive
  <2>3. \A y \in ToSet(flat) : \E x \in ToSet(rows') : Alike(x, y)
    <3> TAKE y \in ToSet(flat)
    <3>1. PICK x \in ToSet(rows) : Alike(x, y)
      BY <1>1 DEF AlikeRows
    <3>2. PICK i \in 1..n : x = rows[i]
      BY <1>2 DEF ToSet
    <3>3. Alike(rows'[i], y) /\ rows'[i] \in ToSet(rows')
      BY <1>6, <1>7, <3>1, <3>2, AlikeTransitive DEF ToSet
    <3> QED BY <3>3
  <2> QED BY <1>1, <1>7, <2>1, <2>2, <2>3 DEF AlikeRows
<1>11. TypeInv'
  BY <1>1, <1>9 DEF TypeInv
<1>12. Len(rows') <= MaxDocumentBlocks
  BY <1>1, <1>7 DEF StorageInv, FlatInv, n
<1> QED BY <1>1, <1>10, <1>11, <1>12 DEF StorageInv, FlatInv, flat

(***************************************************************************)
(* Whatever is composed, saved, opened and rewritten, the store holds the  *)
(* rows of the draft it was given.                                         *)
(***************************************************************************)
THEOREM StorageInvariant == Spec => []StorageInv
<1>1. Init => StorageInv
  BY InitEstablishes
<1>2. StorageInv /\ [Next]_vars => StorageInv'
  <2> SUFFICES ASSUME StorageInv, [Next]_vars PROVE StorageInv'
    OBVIOUS
  <2>1. CASE Compose
    BY <2>1, ComposePreserves
  <2>2. ASSUME NEW mode \in Modes, Save(mode) PROVE StorageInv'
    BY <2>2, SavePreserves
  <2>3. CASE Open
    BY <2>3, OpenPreserves
  <2>4. ASSUME NEW gone \in SUBSET Ids(rows) \ {{}}, RewriteMissing(gone) PROVE StorageInv'
    BY <2>4, RewritePreserves
  <2>5. CASE UNCHANGED vars
    BY <2>5 DEF vars, StorageInv, TypeInv, FlatInv
  <2> QED BY <2>1, <2>2, <2>3, <2>4, <2>5 DEF Next
<1> QED BY <1>1, <1>2, PTL DEF Spec

-------------------------------------------------------------------------------
(***************************************************************************)
(* Every stored row has a lower-cased id of this page and keeps a value in *)
(* the source locale.                                                      *)
(***************************************************************************)
LEMMA StorageTypeOK ==
    StorageInv => TypeOK
<1> SUFFICES ASSUME StorageInv PROVE TypeOK
  OBVIOUS
<1>1. saved \in {"none", "WRITE", "RESTORE_SNAPSHOT"}
  BY DEF StorageInv, TypeInv
<1>2. \A i \in DOMAIN rows : StoredRow(rows[i])
  BY DEF StorageInv, TypeInv, StoredRows, ToSet
<1>3. ASSUME NEW i \in DOMAIN rows
      PROVE  /\ rows[i].id \in Uuid
             /\ rows[i].parent \in Uuid \cup {0}
             /\ rows[i].slot \in {Sections, Content} \cup {Column(c) : c \in Columns \cup {NotAColumn}}
             /\ rows[i].kind = rows[i].shared.case
             /\ Source \in DOMAIN rows[i].locales /\ DOMAIN rows[i].locales \subseteq Locales
  <2>1. rows[i] \in Row /\ RowValid(Source, "page", rows[i], "RESTORE_SNAPSHOT")
    BY <1>2 DEF StoredRow
  <2>2. rows[i].kind = rows[i].shared.case /\ Source \in DOMAIN rows[i].locales
    BY <2>1, RowValidFacts
  <2>3. DOMAIN rows[i].locales \subseteq Locales
    BY <2>1, PartialFunctionOf DEF Row
  <2> QED BY <2>1, <2>2, <2>3 DEF Row, RowSlots
<1> QED BY <1>1, <1>3 DEF TypeOK

(***************************************************************************)
(* In every behaviour the stored rows are of the types TypeOK gives.       *)
(***************************************************************************)
THEOREM StorageTyped == Spec => []TypeOK
  BY StorageInvariant, StorageTypeOK, PTL

(***************************************************************************)
(* The page that is rebuilt does not depend on the order in which the      *)
(* store returns the rows.                                                 *)
(***************************************************************************)
LEMMA StorageOrder ==
    StorageInv => RebuildIgnoresRowOrder
<1> SUFFICES ASSUME StorageInv, MaterializePageDocumentStorageAccepts(Source, rows)
             PROVE  /\ MaterializePageDocumentStorageAccepts(Source, Reverse(rows))
                    /\ MaterializePageDocumentStorage(Source, Reverse(rows)) = MaterializePageDocumentStorage(Source, rows)
  BY DEF RebuildIgnoresRowOrder
<1>1. rows \in Seq(Row) /\ UniqueIds(rows)
  BY DEF StorageInv, TypeInv, StoredRows, MaterializePageDocumentStorageAccepts
<1>2. Reverse(rows) \in Seq(Row) /\ Len(Reverse(rows)) = Len(rows) /\ ToSet(Reverse(rows)) = ToSet(rows)
  BY <1>1, ReverseProperties
<1>3. Ids(Reverse(rows)) = Ids(rows)
  <2>1. \A id : id \in Ids(Reverse(rows)) <=> id \in Ids(rows)
    BY <1>2, IdsOfRows
  <2> QED BY <2>1
<1>4. UniqueIds(Reverse(rows))
  BY <1>1, <1>2, <1>3 DEF UniqueIds
<1>5. SameRows(Row, rows, Reverse(rows))
  BY <1>1, <1>2, <1>4, UniqueIdsDistinct DEF SameRows
<1> QED BY <1>5, RowIsRowSet, SameAccepted, SameMaterialized

(***************************************************************************)
(* In every behaviour the order in which the store returns its rows does   *)
(* not change the page the Go runtime rebuilds.                            *)
(***************************************************************************)
THEOREM StorageIgnoresRowOrder == Spec => []RebuildIgnoresRowOrder
  BY StorageInvariant, StorageOrder, PTL

-------------------------------------------------------------------------------
(***************************************************************************)
(* When the stored rows have ids of their own, so have the rows the draft  *)
(* is flattened to, and one can be found by the other.                     *)
(***************************************************************************)
LEMMA FlatDistinct ==
    ASSUME StorageInv, saved # "none", UniqueIds(rows)
    PROVE  /\ DistinctIds(FlattenPageDocumentStorage(draft)) /\ DistinctIds(rows)
           /\ FlattenPageDocumentStorage(draft) \in Seq(Row)
           /\ \A y \in ToSet(FlattenPageDocumentStorage(draft)) :
                \E x \in ToSet(rows) : Alike(x, y) /\ StoredRow(x) /\ x = RowOf(rows, y.id) /\ y.id \in Ids(rows)
<1> DEFINE flat == FlattenPageDocumentStorage(draft)
<1>1. draft \in Page /\ rows \in Seq(Row) /\ AlikeRows(rows, flat) /\ \A x \in ToSet(rows) : StoredRow(x)
  BY DEF StorageInv, TypeInv, FlatInv, StoredRows
<1>2. flat \in Seq(Row)
  BY <1>1, FlatElements
<1> HIDE DEF flat
<1>3. Ids(rows) = Ids(flat)
  <2>1. \A id : id \in Ids(rows) <=> id \in Ids(flat)
    BY <1>1, IdsOfRows DEF AlikeRows, Alike
  <2> QED BY <2>1
<1>4. UniqueIds(flat)
  BY <1>1, <1>3 DEF UniqueIds, AlikeRows
<1>5. DistinctIds(flat) /\ DistinctIds(rows)
  BY <1>1, <1>2, <1>4, UniqueIdsDistinct
<1>6. \A y \in ToSet(flat) : \E x \in ToSet(rows) : Alike(x, y) /\ StoredRow(x) /\ x = RowOf(rows, y.id) /\ y.id \in Ids(rows)
  <2> TAKE y \in ToSet(flat)
  <2>1. PICK x \in ToSet(rows) : Alike(x, y)
    BY <1>1 DEF AlikeRows
  <2>2. x.id = y.id
    BY <2>1 DEF Alike
  <2>3. RowOf(rows, x.id) = x /\ x.id \in Ids(rows)
    BY <1>5, RowOfRow
  <2> QED BY <1>1, <2>1, <2>2, <2>3
<1> QED BY <1>2, <1>5, <1>6 DEF flat

(***************************************************************************)
(* The row of a section and the row of a block, in the store.              *)
(***************************************************************************)
LEMMA SectionStored ==
    ASSUME StorageInv, saved # "none", UniqueIds(rows), NEW i \in DOMAIN draft.nodes
    PROVE  LET node == draft.nodes[i]
               x == RowOf(rows, normalizeUUID(node.id))
           IN /\ node \in Node
              /\ x \in ToSet(rows) /\ StoredRow(x) /\ normalizeUUID(node.id) \in Ids(rows)
              /\ x.id = normalizeUUID(node.id)
              /\ Alike(x, SectionRow(node, draft.overlays))
              /\ \A k \in DOMAIN draft.nodes : normalizeUUID(draft.nodes[k].id) = normalizeUUID(node.id) => i = k
<1> DEFINE node == draft.nodes[i]
           y == SectionRow(node, draft.overlays)
           flat == FlattenPageDocumentStorage(draft)
<1>1. draft \in Page /\ draft.nodes \in Seq(Node) /\ draft.overlays \in PartialFunctions(Locales, PageValues)
  BY DEF StorageInv, TypeInv, Page
<1>2. \A k \in DOMAIN draft.nodes : draft.nodes[k] \in Node
  BY <1>1, SequenceElements
<1>3. \A k \in DOMAIN draft.nodes : SectionRow(draft.nodes[k], draft.overlays).id = normalizeUUID(draft.nodes[k].id)
  BY <1>1, <1>2, SectionRowTyped
<1>4. y \in ToSet(flat)
  BY <1>1, FlatElements
<1>5. PICK x \in ToSet(rows) : Alike(x, y) /\ StoredRow(x) /\ x = RowOf(rows, y.id) /\ y.id \in Ids(rows)
  BY <1>4, FlatDistinct
<1>6. \A k \in DOMAIN draft.nodes :
         SectionRow(draft.nodes[k], draft.overlays) \in ToSet(NodeRows(draft.nodes[k], draft.overlays))
  BY <1>1, <1>2, NodeRowsElements
<1>7. DistinctIds(flat)
  BY FlatDistinct
<1>8. \A k \in DOMAIN draft.nodes : SectionRow(draft.nodes[k], draft.overlays).id = y.id => i = k
  BY <1>1, <1>6, <1>7, FlatElements
<1>9. x.id = y.id
  BY <1>5 DEF Alike
<1> QED BY <1>2, <1>3, <1>5, <1>8, <1>9

\* The row of a block of the draft is in the store, alone with its id.
LEMMA BlockStored ==
    ASSUME StorageInv, saved # "none", UniqueIds(rows), NEW i \in DOMAIN draft.nodes,
           HasBlocks(draft.nodes[i]), NEW j \in DOMAIN draft.nodes[i].blocks
    PROVE  LET node == draft.nodes[i]
               id == normalizeUUID(node.blocks[j].id)
               x == RowOf(rows, id)
           IN /\ node.blocks[j] \in Block
              /\ x \in ToSet(rows) /\ StoredRow(x) /\ id \in Ids(rows) /\ x.id = id
              /\ Alike(x, BlockRow(node, draft.overlays, j))
              /\ \A k \in DOMAIN node.blocks : normalizeUUID(node.blocks[k].id) = id => j = k
<1> DEFINE node == draft.nodes[i]
           y == BlockRow(node, draft.overlays, j)
           flat == FlattenPageDocumentStorage(draft)
<1>1. draft \in Page /\ draft.nodes \in Seq(Node) /\ draft.overlays \in PartialFunctions(Locales, PageValues)
  BY DEF StorageInv, TypeInv, Page
<1>2. node \in Node
  BY <1>1, SequenceElements
<1>3. \A k \in DOMAIN node.blocks : /\ node.blocks[k] \in Block
                                   /\ BlockRow(node, draft.overlays, k).id = normalizeUUID(node.blocks[k].id)
  BY <1>1, <1>2, BlockRowTyped
<1>4. y \in ToSet(flat)
  BY <1>1, FlatElements
<1>5. PICK x \in ToSet(rows) : Alike(x, y) /\ StoredRow(x) /\ x = RowOf(rows, y.id) /\ y.id \in Ids(rows)
  BY <1>4, FlatDistinct
<1>6. DistinctIds(flat)
  BY FlatDistinct
<1>7. DistinctIds(NodeRows(node, draft.overlays))
  BY <1>1, <1>6, FlatElements
<1>8. \A k \in DOMAIN node.blocks : BlockRow(node, draft.overlays, k).id = y.id => j = k
  BY <1>1, <1>2, <1>7, NodeRowsElements
<1>9. x.id = y.id
  BY <1>5 DEF Alike
<1> QED BY <1>3, <1>5, <1>8, <1>9

-------------------------------------------------------------------------------
(***************************************************************************)
(* Every value reaches the row of its section or block, whatever case its  *)
(* id is spelled in.  A value of a node that is spelled in capitals would  *)
(* be looked up under the id in lower case.  The row of the node has a     *)
(* source value, so there is a value under that id, and by the             *)
(* TypeScript runtime's check a second node; its row would have the id of  *)
(* the first.                                                              *)
(***************************************************************************)
LEMMA Matched ==
    ASSUME NEW nodes, NEW overlays, OverlaysMatch(Source, nodes, overlays), NEW l \in DOMAIN overlays, NEW id \in DOMAIN overlays[l]
    PROVE  \E i \in DOMAIN nodes : nodes[i].id = id /\ nodes[i].shared.case = overlays[l][id].case
  BY DEF OverlaysMatch

\* A section of an accepted page is spelled in lower case.
LEMMA SectionAsStored ==
    ASSUME StorageInv, saved # "none", UniqueIds(rows), OverlaysMatch(Source, draft.nodes, draft.overlays),
           NEW i \in DOMAIN draft.nodes
    PROVE  normalizeUUID(draft.nodes[i].id) = draft.nodes[i].id
<1> DEFINE node == draft.nodes[i]
           id == normalizeUUID(node.id)
<1>1. node \in Node /\ StoredRow(RowOf(rows, id)) /\ Alike(RowOf(rows, id), SectionRow(node, draft.overlays))
  BY SectionStored
<1>2. draft.overlays \in PartialFunctions(Locales, PageValues)
  BY DEF StorageInv, TypeInv, Page
<1>3. Source \in DOMAIN RowOf(rows, id).locales
  BY <1>1, RowValidFacts DEF StoredRow
<1>4. DOMAIN SectionRow(node, draft.overlays).locales = LocalesWith(draft.overlays, id)
  BY <1>1, <1>2, SectionRowTyped
<1>5. Source \in LocalesWith(draft.overlays, id)
  BY <1>1, <1>3, <1>4 DEF Alike
<1>6. PICK k \in DOMAIN draft.nodes : draft.nodes[k].id = id
  BY <1>5, Matched DEF LocalesWith
<1>7. id \in Uuid /\ normalizeUUID(id) = id
  BY <1>1, Spelt DEF Node, Spellings
<1>8. i = k
  BY <1>6, <1>7, SectionStored
<1> QED BY <1>6, <1>8

\* A block of an accepted page is spelled in lower case.
LEMMA BlockAsStored ==
    ASSUME StorageInv, saved # "none", UniqueIds(rows), NEW i \in DOMAIN draft.nodes, HasBlocks(draft.nodes[i]),
           OverlaysMatch(Source, draft.nodes, draft.overlays),
           OverlaysMatch(Source, draft.nodes[i].blocks, TsNestedOverlays(draft.nodes[i], draft.overlays)),
           NEW j \in DOMAIN draft.nodes[i].blocks
    PROVE  normalizeUUID(draft.nodes[i].blocks[j].id) = draft.nodes[i].blocks[j].id
<1> DEFINE node == draft.nodes[i]
           id == normalizeUUID(node.blocks[j].id)
           nested == NestedOverlays(node, draft.overlays)
           ts == TsNestedOverlays(node, draft.overlays)
<1>1. /\ node.blocks[j] \in Block /\ StoredRow(RowOf(rows, id))
      /\ Alike(RowOf(rows, id), BlockRow(node, draft.overlays, j))
  BY BlockStored
<1>2. draft.overlays \in PartialFunctions(Locales, PageValues) /\ node \in Node
  BY SectionStored DEF StorageInv, TypeInv, Page
<1>3. Source \in DOMAIN RowOf(rows, id).locales
  BY <1>1, RowValidFacts DEF StoredRow
<1>4. DOMAIN BlockRow(node, draft.overlays, j).locales = LocalesWith(nested, id)
  BY <1>2, BlockRowTyped
<1>5. Source \in DOMAIN nested /\ id \in DOMAIN nested[Source]
  BY <1>1, <1>3, <1>4 DEF Alike, LocalesWith
<1>6. normalizeUUID(node.id) = node.id
  BY SectionAsStored
<1>7. Source \in DOMAIN ts /\ id \in DOMAIN ts[Source]
  BY <1>5, <1>6 DEF NestedOverlays, TsNestedOverlays, NoValues
<1>8. PICK k \in DOMAIN node.blocks : node.blocks[k].id = id
  BY <1>7, Matched
<1>9. id \in Uuid /\ normalizeUUID(id) = id
  BY <1>1, Spelt DEF Block, Spellings
<1>10. j = k
  BY <1>8, <1>9, BlockStored
<1> QED BY <1>8, <1>10

\* The values of nodes and of blocks, by the ids they are stored under.
LEMMA StorageTranslations ==
    StorageInv => TranslationsKept
<1> SUFFICES ASSUME StorageInv, saved # "none", TsFlattenPageAccepts(draft, saved), UniqueIds(rows),
                    NEW l \in DOMAIN draft.overlays, NEW id \in DOMAIN draft.overlays[l]
             PROVE  Stored(l, id) /\ \A block \in DOMAIN draft.overlays[l][id].blocks : Stored(l, block)
  BY DEF TranslationsKept
<1>1. OverlaysMatch(Source, draft.nodes, draft.overlays)
  BY DEF TsFlattenPageAccepts, validatePageGraph
<1>2. draft.overlays \in PartialFunctions(Locales, PageValues) /\ RichOwners(draft)
  BY DEF StorageInv, TypeInv, Page
<1>3. PICK i \in DOMAIN draft.nodes : draft.nodes[i].id = id /\ draft.nodes[i].shared.case = draft.overlays[l][id].case
  BY <1>1, Matched
<1> DEFINE node == draft.nodes[i]
<1>4. normalizeUUID(id) = id /\ node \in Node
  BY <1>1, <1>3, SectionAsStored, SectionStored
<1>5. Stored(l, id)
  <2> DEFINE x == RowOf(rows, id)
  <2>1. x \in ToSet(rows) /\ x.id = id /\ Alike(x, SectionRow(node, draft.overlays))
    BY <1>3, <1>4, SectionStored
  <2>2. l \in DOMAIN SectionRow(node, draft.overlays).locales
    BY <1>2, <1>3, <1>4, SectionRowTyped DEF LocalesWith
  <2>3. PICK k \in DOMAIN rows : rows[k] = x
    BY <2>1 DEF ToSet
  <2> QED BY <1>4, <2>1, <2>2, <2>3 DEF Stored, Alike
<1>6. ASSUME NEW block \in DOMAIN draft.overlays[l][id].blocks
      PROVE  Stored(l, block)
  <2> DEFINE nested == NestedOverlays(node, draft.overlays)
             ts == TsNestedOverlays(node, draft.overlays)
  <2>1. HasBlocks(node)
    <3>1. PICK k \in DOMAIN draft.nodes : draft.nodes[k].id = id /\ HasBlocks(draft.nodes[k])
      BY <1>2, <1>6 DEF RichOwners
    <3>2. i = k
      BY <1>3, <3>1, SectionStored
    <3> QED BY <3>1, <3>2
  <2>2. OverlaysMatch(Source, node.blocks, ts)
    BY <2>1 DEF TsFlattenPageAccepts, validateRichGraph, HasBlocks
  <2>3. l \in DOMAIN ts /\ ts[l] = draft.overlays[l][id].blocks
    BY <1>3 DEF TsNestedOverlays
  <2>4. PICK j \in DOMAIN node.blocks : node.blocks[j].id = block
    BY <1>6, <2>2, <2>3, Matched
  <2>5. normalizeUUID(block) = block
    BY <1>1, <2>1, <2>2, <2>4, BlockAsStored
  <2>6. l \in DOMAIN nested /\ nested[l] = draft.overlays[l][id].blocks
    BY <1>3, <1>4, <2>1 DEF NestedOverlays, HasBlocks
  <2> DEFINE x == RowOf(rows, block)
  <2>7. x \in ToSet(rows) /\ x.id = block /\ Alike(x, BlockRow(node, draft.overlays, j))
    BY <2>1, <2>4, <2>5, BlockStored
  <2>8. DOMAIN BlockRow(node, draft.overlays, j).locales = LocalesWith(nested, block)
    BY <1>2, <1>4, <2>4, <2>5, BlockRowTyped
  <2>9. l \in DOMAIN BlockRow(node, draft.overlays, j).locales
    BY <1>6, <2>6, <2>8 DEF LocalesWith
  <2>10. PICK k \in DOMAIN rows : rows[k] = x
    BY <2>7 DEF ToSet
  <2> QED BY <2>5, <2>7, <2>9, <2>10 DEF Stored, Alike
<1> QED BY <1>5, <1>6

(***************************************************************************)
(* When both runtimes accept a page and no two rows share an id, every     *)
(* value of every locale reaches the row of its section or block.          *)
(***************************************************************************)
THEOREM StorageKeepsTranslations == Spec => []TranslationsKept
  BY StorageInvariant, StorageTranslations, PTL

-------------------------------------------------------------------------------
(***************************************************************************)
(* The rows a page is flattened to pass the store's check of their place.  *)
(* Kinds that name a section and a block are excluded: the Go runtime      *)
(* takes their rows for the one or the other whatever the page meant.      *)
(***************************************************************************)
LEMMA SectionPlaced ==
    ASSUME StorageInv, saved # "none", UniqueIds(rows), Kinds \cap PageKinds \cap RichKinds = {},
           validatePageGraph(Source, draft.nodes, draft.overlays, saved), NEW i \in DOMAIN draft.nodes,
           NEW r, r = RowOf(rows, normalizeUUID(draft.nodes[i].id))
    PROVE  IF r.parent = 0 THEN ValidateContentStorageParent("page", {}, r)
           ELSE r.parent \in Ids(rows) /\ ValidateContentStorageParent("page", {RowOf(rows, r.parent)}, r)
<1> DEFINE node == draft.nodes[i]
<1>1. node \in Node /\ Alike(r, SectionRow(node, draft.overlays))
  BY SectionStored
<1>2. draft.overlays \in PartialFunctions(Locales, PageValues)
  BY DEF StorageInv, TypeInv, Page
<1>3. /\ r.slot = IF node.column = 0 THEN Sections ELSE Column(node.column)
      /\ r.parent = node.parent /\ r.kind = node.shared.case
  BY <1>1, <1>2, SectionRowTyped DEF Alike
<1>4. /\ TsPayloadValid("page", FALSE, node.shared, saved)
      /\ (node.parent = 0) <=> (node.column = 0)
      /\ node.parent # 0 => ColumnPlaced(draft.nodes, node)
  BY DEF validatePageGraph
<1>5. r.kind \in PageKinds
  BY <1>3, <1>4 DEF TsPayloadValid, TsKindAllowed
<1>6. CASE r.parent = 0
  BY <1>3, <1>4, <1>5, <1>6 DEF ValidateContentStorageParent
<1>7. CASE r.parent # 0
  <2>1. PICK j \in DOMAIN draft.nodes :
           /\ draft.nodes[j].id = node.parent /\ draft.nodes[j].shared.case = "columns"
           /\ node.column \in draft.nodes[j].shared.columns /\ node.shared.case \in ColumnChildKinds
    BY <1>3, <1>4, <1>7 DEF ColumnPlaced
  <2> DEFINE p == RowOf(rows, r.parent)
  <2>2. normalizeUUID(draft.nodes[j].id) = r.parent
    BY <1>1, <1>3, <2>1, StoredIds DEF Node
  <2>3. draft.nodes[j] \in Node /\ Alike(p, SectionRow(draft.nodes[j], draft.overlays)) /\ r.parent \in Ids(rows)
    BY <2>2, SectionStored
  <2>4. p.kind = "columns" /\ p.shared.columns = draft.nodes[j].shared.columns
    BY <1>2, <2>1, <2>3, SectionRowTyped DEF Alike
  <2>5. node.column # 0 /\ r.slot = Column(node.column)
    BY <1>3, <1>4, <1>7
  <2>6. r.slot \in {Column(c) : c \in p.shared.columns} /\ r.kind \in ColumnChildKinds
    BY <1>3, <2>1, <2>4, <2>5
  <2> HIDE DEF p
  <2>7. ValidateContentStorageParent("page", {p}, r)
    BY <1>5, <2>4, <2>6 DEF ValidateContentStorageParent
  <2> QED BY <1>7, <2>3, <2>7 DEF p
<1> QED BY <1>6, <1>7

\* A block's row passes the check of its place.
LEMMA BlockPlaced ==
    ASSUME StorageInv, saved # "none", UniqueIds(rows), Kinds \cap PageKinds \cap RichKinds = {},
           NEW i \in DOMAIN draft.nodes, HasBlocks(draft.nodes[i]),
           validateRichGraph(Source, "page", draft.nodes[i].blocks, TsNestedOverlays(draft.nodes[i], draft.overlays), saved),
           NEW j \in DOMAIN draft.nodes[i].blocks,
           NEW r, r = RowOf(rows, normalizeUUID(draft.nodes[i].blocks[j].id))
    PROVE  IF r.parent = 0 THEN ValidateContentStorageParent("page", {}, r)
           ELSE r.parent \in Ids(rows) /\ ValidateContentStorageParent("page", {RowOf(rows, r.parent)}, r)
<1> DEFINE node == draft.nodes[i]
           block == node.blocks[j]
           p == RowOf(rows, r.parent)
<1>1. block \in Block /\ StoredRow(r) /\ Alike(r, BlockRow(node, draft.overlays, j))
  BY BlockStored
<1>2. /\ draft.overlays \in PartialFunctions(Locales, PageValues)
      /\ node \in Node /\ normalizeUUID(node.id) \in Uuid /\ normalizeUUID(node.id) # 0
  BY SectionStored, Spelt, UuidAssumption DEF StorageInv, TypeInv, Page, Node
<1>3. r.slot = Content /\ r.parent = IF block.parent = 0 THEN normalizeUUID(node.id) ELSE block.parent
  BY <1>1, <1>2, BlockRowTyped DEF Alike
<1>4. r.kind \in RichKinds /\ r.kind \notin PageKinds
  BY <1>1, <1>3 DEF StoredRow, Row, AnyKind
<1>5. r.parent # 0
  BY <1>2, <1>3
<1>6. r.parent \in Ids(rows) /\ (p.kind \in RichKinds \/ p.kind = "rich-text")
  <2>1. CASE block.parent = 0
    <3>1. Alike(p, SectionRow(node, draft.overlays)) /\ r.parent \in Ids(rows)
      BY <1>3, <2>1, SectionStored
    <3>2. p.kind = "rich-text"
      BY <1>2, <3>1, SectionRowTyped DEF Alike, HasBlocks
    <3> QED BY <3>1, <3>2
  <2>2. CASE block.parent # 0
    <3>1. PICK k \in DOMAIN node.blocks : node.blocks[k].id = block.parent
      BY <2>2 DEF validateRichGraph
    <3>2. normalizeUUID(node.blocks[k].id) = r.parent
      BY <1>1, <1>3, <2>2, <3>1, StoredIds DEF Block
    <3>3. Alike(p, BlockRow(node, draft.overlays, k)) /\ StoredRow(p) /\ r.parent \in Ids(rows)
      BY <3>2, BlockStored
    <3>4. p.slot = Content
      BY <1>2, <3>3, BlockRowTyped DEF Alike
    <3> QED BY <3>3, <3>4 DEF StoredRow
  <2> QED BY <2>1, <2>2
<1> HIDE DEF p
<1>7. ValidateContentStorageParent("page", {p}, r)
  BY <1>3, <1>4, <1>6 DEF ValidateContentStorageParent
<1> QED BY <1>5, <1>6, <1>7 DEF p

\* For every page within the bounds.
LEMMA StoragePlaced ==
    ASSUME Kinds \cap PageKinds \cap RichKinds = {}
    PROVE  StorageInv => FlattenedRowsPlaced
<1> SUFFICES ASSUME StorageInv, saved # "none", TsFlattenPageAccepts(draft, saved), Tree(rows), NEW q \in DOMAIN rows
             PROVE  IF rows[q].parent = 0 THEN ValidateContentStorageParent("page", {}, rows[q])
                    ELSE /\ rows[q].parent \in Ids(rows)
                         /\ ValidateContentStorageParent("page", {RowOf(rows, rows[q].parent)}, rows[q])
  BY DEF FlattenedRowsPlaced, ParentChecked
<1> DEFINE flat == FlattenPageDocumentStorage(draft)
<1>1. UniqueIds(rows) /\ draft \in Page /\ draft.nodes \in Seq(Node)
      /\ draft.overlays \in PartialFunctions(Locales, PageValues) /\ rows[q] \in ToSet(rows)
  BY DEF Tree, StorageInv, TypeInv, Page, ToSet
<1>2. PICK y \in ToSet(flat) : Alike(rows[q], y)
  BY <1>1 DEF StorageInv, FlatInv, AlikeRows
<1>3. rows[q] = RowOf(rows, y.id)
  BY <1>1, <1>2, FlatDistinct, RowOfRow DEF Alike
<1>4. PICK i \in DOMAIN draft.nodes :
         \/ y = SectionRow(draft.nodes[i], draft.overlays)
         \/ HasBlocks(draft.nodes[i]) /\ \E j \in DOMAIN draft.nodes[i].blocks : y = BlockRow(draft.nodes[i], draft.overlays, j)
  BY <1>1, FlatElements
<1>5. draft.nodes[i] \in Node
  BY <1>1, SequenceElements
<1>6. CASE y = SectionRow(draft.nodes[i], draft.overlays)
  <2>1. y.id = normalizeUUID(draft.nodes[i].id)
    BY <1>1, <1>5, <1>6, SectionRowTyped
  <2> QED BY <1>1, <1>3, <2>1, SectionPlaced DEF TsFlattenPageAccepts
<1>7. ASSUME HasBlocks(draft.nodes[i]), NEW j \in DOMAIN draft.nodes[i].blocks, y = BlockRow(draft.nodes[i], draft.overlays, j)
      PROVE  IF rows[q].parent = 0 THEN ValidateContentStorageParent("page", {}, rows[q])
             ELSE /\ rows[q].parent \in Ids(rows)
                  /\ ValidateContentStorageParent("page", {RowOf(rows, rows[q].parent)}, rows[q])
  <2>1. y.id = normalizeUUID(draft.nodes[i].blocks[j].id)
    BY <1>1, <1>5, <1>7, BlockRowTyped
  <2> QED BY <1>1, <1>3, <1>7, <2>1, BlockPlaced DEF TsFlattenPageAccepts, HasBlocks
<1> QED BY <1>4, <1>6, <1>7

(***************************************************************************)
(* In every behaviour the rows of an accepted page pass the check of their *)
(* place, when no kind names a section and a block.                        *)
(***************************************************************************)
THEOREM StoragePlacesRows ==
    ASSUME Kinds \cap PageKinds \cap RichKinds = {}
    PROVE  Spec => []FlattenedRowsPlaced
<1>1. StorageInv => FlattenedRowsPlaced
  BY StoragePlaced
<1> QED BY <1>1, StorageInvariant, PTL

-------------------------------------------------------------------------------
(***************************************************************************)
(* What the TypeScript runtime rebuilds the Go runtime rebuilds, to the same *)
(* page: the rows have the shape of a page, on which a family and an       *)
(* ancestor tell the same.                                                 *)
(***************************************************************************)

\* What the TypeScript runtime opens in a locale the Go runtime opens in it, to the same page.
LEMMA OpenedAlike ==
    ASSUME NEW l, NEW stored, NEW mode, StoredRows(stored), \A x \in ToSet(stored) : RowValid(l, "page", x, mode),
           TsMaterializePageAccepts(l, stored)
    PROVE  /\ MaterializePageDocumentStorageAccepts(l, stored)
           /\ TsMaterializePage(l, stored) = MaterializePageDocumentStorage(l, stored)
<1>2. ShapedRows(Row, stored) /\ Grounded(stored)
  BY TsShaped
<1>3. TsMaterializePage(l, stored) = MaterializePageDocumentStorage(l, stored)
  BY <1>2, RuntimesAgree
<1>4. stored \in Seq(Row) /\ RowSet(Row) /\ DistinctIds(stored)
  BY <1>2, ShapedFacts DEF ShapedRows
<1>5. \A x : x \in ToSet(TsSectionRows(stored)) <=> x \in ToSet(stored) /\ ~IsRichFamily(x)
  BY <1>4, TsRowsElements
<1>6. ASSUME NEW r \in ToSet(stored), ~IsRichFamily(r)
      PROVE  r.kind \in PageKinds /\ (r.kind = "rich-text" => TsMaterializeRichAccepts(l, "page", TsDescendants(stored, r.id)))
  <2>1. PICK i \in DOMAIN TsSectionRows(stored) : TsSectionRows(stored)[i] = r
    BY <1>5, <1>6 DEF ToSet
  <2> QED BY <2>1 DEF TsMaterializePageAccepts
<1>7. ASSUME NEW r \in ToSet(stored), r.kind = "rich-text"
      PROVE  Len(Descendants(stored, r.id)) <= MaxDocumentBlocks
  <2> DEFINE blocks == Descendants(stored, r.id)
  <2>1. ~IsRichFamily(r)
    BY <1>2, <1>7 DEF ShapedRows, PageShaped
  <2>2. TsMaterializeRichAccepts(l, "page", blocks)
    BY <1>2, <1>6, <1>7, <2>1, TsBlocks
  <2>3. blocks \in Seq(Row) /\ DistinctIds(blocks)
    BY <1>4, DescendantsElements
  <2> HIDE DEF blocks
  <2>4. Len(RichNodes(blocks)) <= MaxDocumentBlocks
    BY <2>2 DEF TsMaterializeRichAccepts, validateRichGraph
  <2>5. Len(RichNodes(blocks)) = Len(blocks)
    <3>1. InPlacementOrder(blocks) \in Seq(Row) /\ Len(InPlacementOrder(blocks)) = Len(blocks)
      BY <1>4, <2>3, PlacementOrder
    <3>2. RichNodes(blocks) \in Seq(Block) /\ DOMAIN RichNodes(blocks) = DOMAIN InPlacementOrder(blocks)
      BY <2>3, RichNodesTyped
    <3>3. /\ Len(RichNodes(blocks)) \in Nat /\ DOMAIN RichNodes(blocks) = 1..Len(RichNodes(blocks))
          /\ Len(InPlacementOrder(blocks)) \in Nat /\ DOMAIN InPlacementOrder(blocks) = 1..Len(InPlacementOrder(blocks))
      BY <3>1, <3>2, SequenceElements
    <3> QED BY <3>1, <3>2, <3>3, SameLength
  <2> QED BY <2>4, <2>5 DEF blocks
<1>8. MaterializePageDocumentStorageAccepts(l, stored)
  BY <1>2, <1>6, <1>7, GoAccepts
<1> QED BY <1>3, <1>8

\* They do it of the stored rows in the source locale.
LEMMA StorageRuntimes ==
    StorageInv => BothRuntimesRebuild
<1> SUFFICES ASSUME StorageInv, saved # "none", TsMaterializePageAccepts(Source, rows)
             PROVE  /\ MaterializePageDocumentStorageAccepts(Source, rows)
                    /\ TsMaterializePage(Source, rows) = MaterializePageDocumentStorage(Source, rows)
  BY DEF BothRuntimesRebuild
<1>1. StoredRows(rows) /\ \A x \in ToSet(rows) : RowValid(Source, "page", x, saved)
  BY DEF StorageInv, TypeInv
<1> QED BY <1>1, OpenedAlike

(***************************************************************************)
(* In every behaviour the Go runtime rebuilds the page the TypeScript      *)
(* runtime rebuilds.                                                       *)
(***************************************************************************)
THEOREM StorageRuntimesAgree == Spec => []BothRuntimesRebuild
<1>1. StorageInv => BothRuntimesRebuild
  BY StorageRuntimes
<1> QED BY <1>1, StorageInvariant, PTL

-------------------------------------------------------------------------------
(***************************************************************************)
(* A browser reads what a server wrote.                                    *)
(***************************************************************************)

\* The rows are stored of a page that both runtimes accept, and have ids of their own.
BothAccepted == StorageInv /\ saved # "none" /\ UniqueIds(rows) /\ TsFlattenPageAccepts(draft, saved)

\* What a page that both runtimes accept gives of its rows.
LEMMA AcceptedFacts ==
    ASSUME BothAccepted
    PROVE  /\ draft \in Page /\ draft.nodes \in Seq(Node) /\ draft.overlays \in PartialFunctions(Locales, PageValues)
           /\ rows \in Seq(Row) /\ DistinctIds(rows) /\ RowSet(Row) /\ StoredRows(rows)
           /\ \A x \in ToSet(rows) : x \in Row /\ StoredRow(x) /\ x.id \in Ids(rows) /\ RowOf(rows, x.id) = x
           /\ validatePageGraph(Source, draft.nodes, draft.overlays, saved)
           /\ OverlaysMatch(Source, draft.nodes, draft.overlays)
           /\ \A i \in DOMAIN draft.nodes : HasBlocks(draft.nodes[i]) =>
                validateRichGraph(Source, "page", draft.nodes[i].blocks, TsNestedOverlays(draft.nodes[i], draft.overlays), saved)
<1>1. draft \in Page /\ draft.nodes \in Seq(Node) /\ draft.overlays \in PartialFunctions(Locales, PageValues) /\ StoredRows(rows)
  BY DEF BothAccepted, StorageInv, TypeInv, Page
<1>2. rows \in Seq(Row) /\ DistinctIds(rows) /\ RowSet(Row)
  BY <1>1, UniqueIdsDistinct, RowIsRowSet DEF BothAccepted, StoredRows
<1>3. \A x \in ToSet(rows) : x \in Row /\ StoredRow(x) /\ x.id \in Ids(rows) /\ RowOf(rows, x.id) = x
  BY <1>1, <1>2, RowOfRow DEF StoredRows, StoredRow
<1>4. validatePageGraph(Source, draft.nodes, draft.overlays, saved) /\ OverlaysMatch(Source, draft.nodes, draft.overlays)
  BY DEF BothAccepted, TsFlattenPageAccepts, validatePageGraph
<1> QED BY <1>1, <1>2, <1>3, <1>4 DEF BothAccepted, TsFlattenPageAccepts, HasBlocks

\* The row of a section of the draft.
LEMMA SectionFromDraft ==
    ASSUME BothAccepted, NEW i \in DOMAIN draft.nodes
    PROVE  LET node == draft.nodes[i]
               r == RowOf(rows, node.id)
           IN /\ r \in ToSet(rows) /\ ~IsRichFamily(r) /\ node.id \in Ids(rows)
              /\ r.id = node.id /\ r.parent = node.parent /\ r.pos = int32(node.index)
              /\ r.kind = node.shared.case /\ r.kind \in PageKinds
              /\ r.shared.case = node.shared.case /\ r.shared.columns = node.shared.columns
              /\ r.slot = IF node.column = 0 THEN Sections ELSE Column(node.column)
              /\ (node.parent = 0) <=> (node.column = 0)
              /\ \A k \in DOMAIN draft.nodes : draft.nodes[k].id = node.id => i = k
<1> DEFINE node == draft.nodes[i]
           r == RowOf(rows, node.id)
<1>1. node.id = normalizeUUID(node.id)
  BY AcceptedFacts, SectionAsStored DEF BothAccepted
<1>2. /\ node \in Node /\ r \in ToSet(rows) /\ r.id = node.id /\ Alike(r, SectionRow(node, draft.overlays)) /\ node.id \in Ids(rows)
      /\ \A k \in DOMAIN draft.nodes : draft.nodes[k].id = node.id => i = k
  BY <1>1, SectionStored DEF BothAccepted
<1>3. /\ SectionRow(node, draft.overlays).slot = IF node.column = 0 THEN Sections ELSE Column(node.column)
      /\ SectionRow(node, draft.overlays).parent = node.parent
      /\ SectionRow(node, draft.overlays).kind = node.shared.case
      /\ SectionRow(node, draft.overlays).shared = node.shared
      /\ SectionRow(node, draft.overlays).pos = int32(node.index)
  BY <1>2, AcceptedFacts, SectionRowTyped
<1>4. TsPayloadValid("page", FALSE, node.shared, saved) /\ ((node.parent = 0) <=> (node.column = 0))
  BY AcceptedFacts DEF validatePageGraph
<1>5. node.shared.case \in PageKinds
  BY <1>4 DEF TsPayloadValid, TsKindAllowed
<1> HIDE DEF r, node
<1>6. ~IsRichFamily(r)
  BY <1>2, <1>3, SlotsDiffer DEF Alike, IsRichFamily
<1> QED BY <1>2, <1>3, <1>4, <1>5, <1>6 DEF Alike, r, node

\* The row of a block of the draft.
LEMMA BlockFromDraft ==
    ASSUME BothAccepted, NEW i \in DOMAIN draft.nodes, HasBlocks(draft.nodes[i]), NEW j \in DOMAIN draft.nodes[i].blocks
    PROVE  LET node == draft.nodes[i]
               block == node.blocks[j]
               r == RowOf(rows, block.id)
           IN /\ r \in ToSet(rows) /\ IsRichFamily(r) /\ block.id \in Ids(rows)
              /\ r.id = block.id /\ r.pos = int32(block.index)
              /\ r.parent = IF block.parent = 0 THEN node.id ELSE block.parent
              /\ r.kind = block.shared.case /\ r.shared.case = block.shared.case
              /\ r.kind \in ProfileBlocks["page"] /\ r.kind # "rich-text"
              /\ block.parent # 0 => \E k \in DOMAIN node.blocks : node.blocks[k].id = block.parent
<1> DEFINE node == draft.nodes[i]
           block == node.blocks[j]
           r == RowOf(rows, block.id)
<1>1. validateRichGraph(Source, "page", node.blocks, TsNestedOverlays(node, draft.overlays), saved)
  BY AcceptedFacts
<1>2. node.id = normalizeUUID(node.id) /\ block.id = normalizeUUID(block.id)
  BY <1>1, AcceptedFacts, SectionAsStored, BlockAsStored DEF BothAccepted, validateRichGraph
<1>3. r \in ToSet(rows) /\ r.id = block.id /\ Alike(r, BlockRow(node, draft.overlays, j)) /\ block.id \in Ids(rows)
  BY <1>2, BlockStored DEF BothAccepted
<1>4. node \in Node
  BY SectionStored DEF BothAccepted
<1>5. /\ BlockRow(node, draft.overlays, j).slot = Content
      /\ BlockRow(node, draft.overlays, j).parent = IF block.parent = 0 THEN node.id ELSE block.parent
      /\ BlockRow(node, draft.overlays, j).pos = int32(block.index)
      /\ BlockRow(node, draft.overlays, j).kind = block.shared.case
      /\ BlockRow(node, draft.overlays, j).shared = block.shared
  BY <1>2, <1>4, AcceptedFacts, BlockRowTyped
<1>6. /\ TsPayloadValid("page", TRUE, block.shared, saved)
      /\ block.parent # 0 => \E k \in DOMAIN node.blocks : node.blocks[k].id = block.parent
  BY <1>1 DEF validateRichGraph
<1>7. block.shared.case \in ProfileBlocks["page"] /\ block.shared.case # "rich-text"
  BY <1>6 DEF TsPayloadValid, TsKindAllowed, ProfileBlocks, RichKinds
<1> HIDE DEF r, node, block
<1> QED BY <1>3, <1>5, <1>6, <1>7 DEF Alike, IsRichFamily, r, node, block

\* Every row is that of a section or block of the draft.
LEMMA RowFromDraft ==
    ASSUME BothAccepted, NEW r \in ToSet(rows)
    PROVE  \E i \in DOMAIN draft.nodes :
              \/ ~IsRichFamily(r) /\ r.id = draft.nodes[i].id
              \/ /\ IsRichFamily(r) /\ HasBlocks(draft.nodes[i])
                 /\ \E j \in DOMAIN draft.nodes[i].blocks : r.id = draft.nodes[i].blocks[j].id
<1> DEFINE flat == FlattenPageDocumentStorage(draft)
<1>1. PICK y \in ToSet(flat) : Alike(r, y)
  BY DEF BothAccepted, StorageInv, FlatInv, AlikeRows
<1>2. PICK i \in DOMAIN draft.nodes :
         \/ y = SectionRow(draft.nodes[i], draft.overlays)
         \/ HasBlocks(draft.nodes[i]) /\ \E j \in DOMAIN draft.nodes[i].blocks : y = BlockRow(draft.nodes[i], draft.overlays, j)
  BY AcceptedFacts, FlatElements
<1>3. draft.nodes[i] \in Node
  BY AcceptedFacts, SequenceElements
<1>4. RowOf(rows, r.id) = r
  BY AcceptedFacts
<1>5. CASE y = SectionRow(draft.nodes[i], draft.overlays)
  <2>1. r.id = normalizeUUID(draft.nodes[i].id)
    BY <1>1, <1>3, <1>5, AcceptedFacts, SectionRowTyped DEF Alike
  <2>2. r.id = draft.nodes[i].id
    BY <2>1, AcceptedFacts, SectionAsStored DEF BothAccepted
  <2>3. ~IsRichFamily(r)
    BY <1>4, <2>2, SectionFromDraft
  <2> QED BY <2>2, <2>3
<1>6. ASSUME HasBlocks(draft.nodes[i]), NEW j \in DOMAIN draft.nodes[i].blocks, y = BlockRow(draft.nodes[i], draft.overlays, j)
      PROVE  IsRichFamily(r) /\ r.id = draft.nodes[i].blocks[j].id
  <2>1. r.id = normalizeUUID(draft.nodes[i].blocks[j].id)
    BY <1>1, <1>3, <1>6, AcceptedFacts, BlockRowTyped DEF Alike
  <2>2. r.id = draft.nodes[i].blocks[j].id
    BY <1>6, <2>1, AcceptedFacts, BlockAsStored DEF BothAccepted, validateRichGraph
  <2>3. IsRichFamily(r)
    BY <1>4, <1>6, <2>2, BlockFromDraft
  <2> QED BY <2>2, <2>3
<1> QED BY <1>2, <1>5, <1>6

\* The rows in the store are those of the draft.
LEMMA DraftRows ==
    ASSUME BothAccepted
    PROVE  RowsOfPage(draft, rows, saved)
<1>1. draft \in Page /\ TsFlattenPageAccepts(draft, saved) /\ StoredRows(rows) /\ UniqueIds(rows)
  BY AcceptedFacts DEF BothAccepted
<1>2. \A i \in DOMAIN draft.nodes : RowOfSection(draft, rows, i)
  BY SectionFromDraft DEF RowOfSection
<1>3. \A i \in DOMAIN draft.nodes :
         HasBlocks(draft.nodes[i]) => \A j \in DOMAIN draft.nodes[i].blocks : RowOfBlock(draft, rows, i, j)
  BY BlockFromDraft DEF RowOfBlock
<1>4. \A r \in ToSet(rows) : RowIsOf(draft, r)
  BY RowFromDraft DEF RowIsOf
<1> QED BY <1>1, <1>2, <1>3, <1>4 DEF RowsOfPage

(***************************************************************************)
(* The TypeScript runtime rebuilds what the Go runtime flattened of a page *)
(* both accept, when the rows are a tree and the indexes of the page are   *)
(* positions.                                                              *)
(***************************************************************************)
LEMMA StorageBrowser ==
    StorageInv => BrowserReadsServerRows
<1> SUFFICES ASSUME StorageInv, saved # "none", TsFlattenPageAccepts(draft, saved), Tree(rows)
             PROVE  TsMaterializePageAccepts(Source, rows) <=> PageFits(draft)
  BY DEF BrowserReadsServerRows
<1>1. BothAccepted /\ Grounded(rows)
  BY DEF BothAccepted, Tree
<1>2. RowsOfPage(draft, rows, saved)
  BY <1>1, DraftRows
<1> QED BY <1>1, <1>2, SavedOpens

(***************************************************************************)
(* In every behaviour a browser reads the rows the server made of a page   *)
(* both runtimes accept, unless an index of the page is 2^31 or more.      *)
(***************************************************************************)
THEOREM StorageReadByBrowser == Spec => []BrowserReadsServerRows
<1>1. StorageInv => BrowserReadsServerRows
  BY StorageBrowser
<1> QED BY <1>1, StorageInvariant, PTL

-------------------------------------------------------------------------------
(***************************************************************************)
(* Rows that are checked one by one come back.                             *)
(***************************************************************************)

\* A stored block has a parent: as a root of its rich text it was put under its section.
LEMMA BlocksHaveParents ==
    ASSUME StorageInv, saved # "none", NEW x \in ToSet(rows), x.slot = Content
    PROVE  x.parent # 0
<1> DEFINE flat == FlattenPageDocumentStorage(draft)
<1>1. draft \in Page /\ draft.nodes \in Seq(Node) /\ draft.overlays \in PartialFunctions(Locales, PageValues)
  BY DEF StorageInv, TypeInv, Page
<1>2. PICK y \in ToSet(flat) : Alike(x, y)
  BY DEF StorageInv, FlatInv, AlikeRows
<1>3. PICK i \in DOMAIN draft.nodes :
         \/ y = SectionRow(draft.nodes[i], draft.overlays)
         \/ HasBlocks(draft.nodes[i]) /\ \E j \in DOMAIN draft.nodes[i].blocks : y = BlockRow(draft.nodes[i], draft.overlays, j)
  BY <1>1, FlatElements
<1>4. draft.nodes[i] \in Node /\ normalizeUUID(draft.nodes[i].id) \in Uuid /\ normalizeUUID(draft.nodes[i].id) # 0
  <2>1. draft.nodes[i] \in Node
    BY <1>1, SequenceElements
  <2>2. draft.nodes[i].id \in Spellings
    BY <2>1 DEF Node
  <2> QED BY <2>1, <2>2, Spelt, UuidAssumption
<1>5. y # SectionRow(draft.nodes[i], draft.overlays)
  BY <1>1, <1>2, <1>4, SectionRowTyped, SlotsDiffer DEF Alike
<1>6. PICK j \in DOMAIN draft.nodes[i].blocks : y = BlockRow(draft.nodes[i], draft.overlays, j)
  BY <1>3, <1>5
<1>7. y.parent # 0
  BY <1>1, <1>4, <1>6, BlockRowTyped
<1> QED BY <1>2, <1>7 DEF Alike

(***************************************************************************)
(* Rows that form a tree and each pass the check of their place are rebuilt, *)
(* can be saved again and come back as the same rows.                      *)
(***************************************************************************)
LEMMA StorageReload ==
    StorageInv => CheckedRowsReload
<1> SUFFICES ASSUME StorageInv, saved # "none", Tree(rows), ParentChecked("page", rows),
                    \A i \in DOMAIN rows : rows[i].kind \notin PageKinds \cap RichKinds
             PROVE  /\ MaterializePageDocumentStorageAccepts(Source, rows)
                    /\ FlattenPageDocumentStorageAccepts(MaterializePageDocumentStorage(Source, rows), saved)
                    /\ ToSet(FlattenPageDocumentStorage(MaterializePageDocumentStorage(Source, rows)))
                         = {Completed(rows, rows[i]) : i \in DOMAIN rows}
  BY DEF CheckedRowsReload
<1>1. RowsChecked(rows, saved) /\ Len(rows) <= MaxDocumentBlocks
  <2>1. \A x \in ToSet(rows) : x.kind \notin PageKinds \cap RichKinds
    BY DEF ToSet
  <2>2. RowsInPlace(rows, saved)
    BY DEF RowsInPlace, StorageInv, TypeInv, FlatInv
  <2> QED BY <2>1, <2>2, BlocksHaveParents, OneFamilyChecked DEF StorageInv, TypeInv, FlatInv
<1>2. \A y : y \in ToSet(FlattenPageDocumentStorage(MaterializePageDocumentStorage(Source, rows)))
              <=> \E r \in ToSet(rows) : y = Completed(rows, r)
  BY <1>1, PageReturns
<1>3. \A y : (\E r \in ToSet(rows) : y = Completed(rows, r)) <=> y \in {Completed(rows, rows[i]) : i \in DOMAIN rows}
  BY DEF ToSet
<1>4. ToSet(FlattenPageDocumentStorage(MaterializePageDocumentStorage(Source, rows))) = {Completed(rows, rows[i]) : i \in DOMAIN rows}
  BY <1>2, <1>3
<1> QED BY <1>1, <1>4, CheckedAccepted, PageAccepted

(***************************************************************************)
(* In every behaviour checks of single rows are enough for the page.       *)
(***************************************************************************)
THEOREM StorageReloads == Spec => []CheckedRowsReload
  BY StorageInvariant, StorageReload, PTL

-------------------------------------------------------------------------------
(***************************************************************************)
(* The stored page in one of its locales.                                  *)
(***************************************************************************)

\* Rows that the TypeScript runtime opens in a locale have a value in it.
LEMMA OpenedInLocale ==
    ASSUME NEW l, NEW stored, NEW mode, StoredRows(stored), \A x \in ToSet(stored) : RowValid(Source, "page", x, mode),
           TsMaterializePageAccepts(l, stored)
    PROVE  \A x \in ToSet(stored) : l \in DOMAIN x.locales /\ RowValid(l, "page", x, mode)
<1>1. ShapedRows(Row, stored) /\ Grounded(stored)
  BY TsShaped
<1>2. stored \in Seq(Row) /\ RowSet(Row) /\ DistinctIds(stored) /\ \A x \in ToSet(stored) : x \in Row
  BY <1>1, ShapedFacts DEF ShapedRows
<1>3. \A x : /\ x \in ToSet(TsSectionRows(stored)) <=> x \in ToSet(stored) /\ ~IsRichFamily(x)
             /\ x \in ToSet(TsRichRows(stored)) <=> x \in ToSet(stored) /\ IsRichFamily(x)
  BY <1>2, TsRowsElements
<1>4. ASSUME NEW x \in ToSet(stored), ~IsRichFamily(x)
      PROVE  /\ l \in DOMAIN x.locales
             /\ x.kind = "rich-text" => TsMaterializeRichAccepts(l, "page", TsDescendants(stored, x.id))
  <2>1. PICK i \in DOMAIN TsSectionRows(stored) : TsSectionRows(stored)[i] = x
    BY <1>3, <1>4 DEF ToSet
  <2> QED BY <2>1 DEF TsMaterializePageAccepts
<1>5. ASSUME NEW x \in ToSet(stored), IsRichFamily(x) PROVE l \in DOMAIN x.locales
  <2>1. x.id \in Ids(TsRichRows(stored))
    BY <1>3, <1>5, IdsOfRows
  <2>2. PICK i \in DOMAIN TsSectionRows(stored) :
           /\ TsSectionRows(stored)[i].kind = "rich-text"
           /\ x.id \in Ids(TsDescendants(stored, TsSectionRows(stored)[i].id))
    BY <2>1 DEF TsMaterializePageAccepts
  <2> DEFINE s == TsSectionRows(stored)[i]
             below == Descendants(stored, s.id)
  <2>3. s \in ToSet(stored) /\ ~IsRichFamily(s) /\ s.kind = "rich-text"
    BY <1>3, <2>2 DEF ToSet
  <2>4. TsDescendants(stored, s.id) = below
    BY <1>1, <2>3, TsBlocks
  <2>5. TsMaterializeRichAccepts(l, "page", below)
    BY <1>4, <2>3, <2>4
  <2>6. x.id \in Ids(below)
    BY <2>2, <2>4
  <2>7. \A d : d \in ToSet(below) <=> \E r : BlockOf(stored, s.id, r) /\ d = Rooted(s.id, r)
    BY <1>2, DescendantsElements
  <2> HIDE DEF s, below
  <2>8. PICK j \in DOMAIN below : below[j].id = x.id
    BY <2>6 DEF Ids
  <2>9. below[j] \in ToSet(below) /\ l \in DOMAIN below[j].locales
    BY <2>5, <2>8 DEF TsMaterializeRichAccepts, ToSet
  <2>10. PICK r \in ToSet(stored) : below[j] = Rooted(s.id, r)
    BY <2>7, <2>9 DEF BlockOf
  <2>11. r.id = x.id /\ r.locales = below[j].locales
    BY <1>2, <2>8, <2>10, RowFacts DEF Rooted
  <2>12. r = x
    BY <1>2, <2>11, RowOfRow
  <2> QED BY <2>9, <2>11, <2>12
<1>6. ASSUME NEW x \in ToSet(stored) PROVE l \in DOMAIN x.locales
  BY <1>4, <1>5
<1>7. ASSUME NEW x \in ToSet(stored) PROVE RowValid(l, "page", x, mode)
  BY <1>6, <1>7 DEF RowValid
<1> QED BY <1>6, <1>7

\* The blocks of a section are accepted in every locale that they all have.
LEMMA BlocksInLocale ==
    ASSUME NEW l, NEW below \in Seq(Row), DistinctIds(below), TsMaterializeRichAccepts(Source, "page", below),
           \A x \in ToSet(below) : l \in DOMAIN x.locales /\ x.shared.case = x.kind
                                   /\ \A k \in DOMAIN x.locales : x.locales[k].case = x.kind
    PROVE  TsMaterializeRichAccepts(l, "page", below)
<1> DEFINE ordered == InPlacementOrder(below)
           nodes == RichNodes(below)
           overlays == RichOverlays(l, below)
<1>1. ordered \in Seq(Row) /\ ToSet(ordered) = ToSet(below)
  BY RowIsRowSet, PlacementOrder
<1>2. /\ DOMAIN nodes = DOMAIN ordered
      /\ \A k \in DOMAIN nodes : nodes[k].id = ordered[k].id /\ nodes[k].shared = ordered[k].shared
  BY RichNodesTyped
<1>3. l \in DOMAIN overlays
  BY RichOverlaysLocales
<1>4. \A k \in DOMAIN overlays : /\ DOMAIN overlays[k] = IdsIn(below, k)
                                 /\ \A id \in IdsIn(below, k) : overlays[k][id] = RowOf(below, id).locales[k]
  BY RichOverlaysAt
<1>5. validateRichGraph(Source, "page", nodes, RichOverlays(Source, below), "RESTORE_SNAPSHOT")
  BY DEF TsMaterializeRichAccepts
<1> HIDE DEF ordered, nodes, overlays
<1>6. OverlaysMatch(l, nodes, overlays)
  <2>1. ASSUME NEW k \in DOMAIN overlays, NEW id \in DOMAIN overlays[k]
        PROVE  \E i \in DOMAIN nodes : nodes[i].id = id /\ nodes[i].shared.case = overlays[k][id].case
    <3>1. PICK x \in ToSet(below) : x.id = id /\ k \in DOMAIN x.locales
      BY <1>4, <2>1, IdsInLocale
    <3>2. RowOf(below, id) = x
      BY <3>1, RowOfRow
    <3>3. overlays[k][id] = x.locales[k]
      BY <1>4, <2>1, <3>2
    <3>4. PICK i \in DOMAIN ordered : ordered[i] = x
      BY <1>1, <3>1 DEF ToSet
    <3> QED BY <1>2, <3>1, <3>3, <3>4
  <2> QED BY <1>3, <2>1 DEF OverlaysMatch
<1>7. validateRichGraph(l, "page", nodes, overlays, "RESTORE_SNAPSHOT")
  BY <1>5, <1>6 DEF validateRichGraph
<1>8. UniqueIds(below) /\ \A i \in DOMAIN below :
         below[i].kind \in RichKinds /\ below[i].shared.case = below[i].kind /\ below[i].pos >= 0
  BY DEF TsMaterializeRichAccepts
<1>9. \A i \in DOMAIN below : l \in DOMAIN below[i].locales
  BY DEF ToSet
<1> QED BY <1>7, <1>8, <1>9 DEF TsMaterializeRichAccepts, nodes, overlays

\* What a page is rebuilt from: its sections in placement order, with their blocks.
TsSections(stored) == InPlacementOrder(TsSectionRows(stored))
TsBlocksOf(stored) == [id \in Ids(stored) |-> TsDescendants(stored, id)]

\* The graph of a page is accepted in every locale that all its rows have.
LEMMA GraphInLocale ==
    ASSUME NEW l, NEW stored, NEW mode, StoredRows(stored), \A x \in ToSet(stored) : RowValid(Source, "page", x, mode),
           TsMaterializePageAccepts(Source, stored)
    PROVE  validatePageGraph(l, TsMaterializePage(l, stored).nodes, TsMaterializePage(l, stored).overlays, "RESTORE_SNAPSHOT")
<1> DEFINE nodes == TsMaterializePage(l, stored).nodes
           overlays == TsMaterializePage(l, stored).overlays
           sections == TsSections(stored)
           blocks == TsBlocksOf(stored)
<1>1. UniqueIds(stored)
  BY DEF TsMaterializePageAccepts
<1>2. /\ sections \in Seq(Row) /\ DistinctIds(sections)
      /\ \A x : x \in ToSet(sections) <=> x \in ToSet(stored) /\ ~IsRichFamily(x)
      /\ DOMAIN nodes = DOMAIN sections
      /\ \A k \in DOMAIN sections : nodes[k] = SectionNode(blocks, sections[k])
  BY <1>1, TsPage DEF TsSections, TsBlocksOf
<1>3. TsMaterializePage(Source, stored).nodes = nodes
  BY DEF TsMaterializePage, PageOf
<1>4. validatePageGraph(Source, nodes, TsMaterializePage(Source, stored).overlays, "RESTORE_SNAPSHOT")
  BY <1>3 DEF TsMaterializePageAccepts
<1>5. overlays = [k \in PageLocales(l, sections, blocks) |->
                    [id \in SectionsIn(l, sections, blocks, k) |-> SectionValue(l, blocks, RowOf(sections, id), k)]]
  <2>1. TsMaterializePage(l, stored) = PageOf(l, sections, blocks)
    BY DEF TsMaterializePage, TsSections, TsBlocksOf
  <2> HIDE DEF sections, blocks
  <2> QED BY <2>1, PageOfParts
<1> HIDE DEF nodes, overlays, sections, blocks
<1>6. l \in DOMAIN overlays
  BY <1>5 DEF PageLocales
<1>7. ASSUME NEW k \in DOMAIN overlays, NEW id \in DOMAIN overlays[k]
      PROVE  \E i \in DOMAIN nodes : nodes[i].id = id /\ nodes[i].shared.case = overlays[k][id].case
  <2>1. id \in SectionsIn(l, sections, blocks, k) /\ overlays[k][id] = SectionValue(l, blocks, RowOf(sections, id), k)
    BY <1>5, <1>7
  <2>2. PICK i \in DOMAIN sections : sections[i].id = id /\ k \in LocalesOf(l, blocks, sections[i])
    BY <2>1 DEF SectionsIn
  <2> DEFINE x == sections[i]
  <2>3. x \in ToSet(sections)
    BY DEF ToSet
  <2>4. RowOf(sections, id) = x
    BY <1>2, <2>2, <2>3, RowOfRow
  <2>5. RowValid(Source, "page", x, mode)
    BY <1>2, <2>3
  <2>6. x.shared.case = x.kind /\ \A m \in DOMAIN x.locales : x.locales[m].case = x.kind
    BY <2>5, RowValidFacts
  <2>7. k \in DOMAIN x.locales \/ x.kind = "rich-text"
    BY <2>2 DEF LocalesOf
  <2>8. nodes[i].id = x.id /\ nodes[i].shared = x.shared
    BY <1>2 DEF SectionNode
  <2> HIDE DEF x
  <2>9. SectionValue(l, blocks, x, k).case = x.kind
    BY <2>6, <2>7 DEF SectionValue
  <2> QED BY <1>2, <2>1, <2>2, <2>4, <2>6, <2>8, <2>9 DEF x
<1>8. OverlaysMatch(l, nodes, overlays)
  BY <1>6, <1>7 DEF OverlaysMatch
<1> QED BY <1>4, <1>8 DEF validatePageGraph, nodes, overlays

\* A page opened in its source locale can be opened in every locale that all its rows have.
LEMMA EveryLocaleOpens ==
    ASSUME NEW l, NEW stored, NEW mode, StoredRows(stored), \A x \in ToSet(stored) : RowValid(Source, "page", x, mode),
           TsMaterializePageAccepts(Source, stored), \A x \in ToSet(stored) : l \in DOMAIN x.locales
    PROVE  TsMaterializePageAccepts(l, stored)
<1>1. ShapedRows(Row, stored) /\ Grounded(stored)
  BY TsShaped
<1>2. stored \in Seq(Row) /\ RowSet(Row) /\ DistinctIds(stored) /\ \A x \in ToSet(stored) : x \in Row
  BY <1>1, ShapedFacts DEF ShapedRows
<1>3. \A i \in DOMAIN TsSectionRows(stored) :
         TsSectionRows(stored)[i] \in ToSet(stored) /\ ~IsRichFamily(TsSectionRows(stored)[i])
  <2>1. \A x : x \in ToSet(TsSectionRows(stored)) <=> x \in ToSet(stored) /\ ~IsRichFamily(x)
    BY <1>2, TsRowsElements
  <2> QED BY <2>1 DEF ToSet
<1>4. ASSUME NEW s \in ToSet(stored), s.kind = "rich-text", TsMaterializeRichAccepts(Source, "page", TsDescendants(stored, s.id))
      PROVE  TsMaterializeRichAccepts(l, "page", TsDescendants(stored, s.id))
  <2> DEFINE below == Descendants(stored, s.id)
  <2>1. TsDescendants(stored, s.id) = below
    BY <1>1, <1>4, TsBlocks
  <2>2. /\ below \in Seq(Row) /\ DistinctIds(below)
        /\ \A x \in ToSet(below) : \E r \in ToSet(stored) : x = Rooted(s.id, r)
    BY <1>2, DescendantsElements DEF BlockOf
  <2> HIDE DEF below
  <2>3. ASSUME NEW x \in ToSet(below)
        PROVE  /\ l \in DOMAIN x.locales /\ x.shared.case = x.kind
               /\ \A k \in DOMAIN x.locales : x.locales[k].case = x.kind
    <3>1. PICK r \in ToSet(stored) : x = Rooted(s.id, r)
      BY <2>2
    <3>2. x.kind = r.kind /\ x.shared = r.shared /\ x.locales = r.locales
      BY <1>2, <3>1, RowFacts DEF Rooted
    <3>3. r.shared.case = r.kind /\ \A k \in DOMAIN r.locales : r.locales[k].case = r.kind
      BY RowValidFacts
    <3> QED BY <3>2, <3>3
  <2> QED BY <1>4, <2>1, <2>2, <2>3, BlocksInLocale
<1>5. UniqueIds(stored) /\ \A id \in Ids(TsRichRows(stored)) :
         \E i \in DOMAIN TsSectionRows(stored) :
            TsSectionRows(stored)[i].kind = "rich-text" /\ id \in Ids(TsDescendants(stored, TsSectionRows(stored)[i].id))
  BY DEF TsMaterializePageAccepts
<1>6. \A i \in DOMAIN TsSectionRows(stored) :
         LET s == TsSectionRows(stored)[i]
         IN /\ s.kind \in PageKinds
            /\ s.shared.case = s.kind /\ s.pos >= 0
            /\ IF s.parent = 0 THEN s.slot = Sections ELSE s.slot[1] = "column"
            /\ s.kind = "rich-text" => TsMaterializeRichAccepts(Source, "page", TsDescendants(stored, s.id))
  BY DEF TsMaterializePageAccepts
<1>7. \A i \in DOMAIN TsSectionRows(stored) :
         LET s == TsSectionRows(stored)[i]
         IN /\ s.kind \in PageKinds
            /\ s.shared.case = s.kind /\ s.pos >= 0
            /\ l \in DOMAIN s.locales
            /\ IF s.parent = 0 THEN s.slot = Sections ELSE s.slot[1] = "column"
            /\ s.kind = "rich-text" => TsMaterializeRichAccepts(l, "page", TsDescendants(stored, s.id))
  BY <1>3, <1>4, <1>6
<1>8. validatePageGraph(l, TsMaterializePage(l, stored).nodes, TsMaterializePage(l, stored).overlays, "RESTORE_SNAPSHOT")
  BY GraphInLocale
<1> QED BY <1>5, <1>7, <1>8 DEF TsMaterializePageAccepts

\* What a section says in a locale does not depend on the locale it is opened in.
LEMMA SectionInLocale ==
    ASSUME NEW l, NEW blocks, NEW x, l \in DOMAIN x.locales
    PROVE  SectionValue(l, blocks, x, l) = SectionValue(Source, blocks, x, l)
<1> DEFINE below == blocks[x.id]
           there(s) == IF x.kind = "rich-text" /\ l \in DOMAIN RichOverlays(s, below) THEN RichOverlays(s, below)[l] ELSE NoValues
<1>1. \A s : SectionValue(s, blocks, x, l) = [case |-> x.locales[l].case, text |-> x.locales[l].text, blocks |-> there(s)]
  BY DEF SectionValue
<1>2. there(l) = there(Source)
  <2> DEFINE value == [id \in IdsIn(below, l) |-> RowOf(below, id).locales[l]]
  <2>1. \A s : l \in DOMAIN RichOverlays(s, below) <=> l \in RowLocales(below) \cup {s}
    BY RichOverlaysLocales
  <2>2. \A s : l \in DOMAIN RichOverlays(s, below) => RichOverlays(s, below)[l] = value
    BY DEF RichOverlays, IdsIn
  <2>3. l \notin RowLocales(below) => value = NoValues
    <3>1. l \notin RowLocales(below) => IdsIn(below, l) = {}
      BY DEF RowLocales, IdsIn
    <3> QED BY <3>1 DEF NoValues
  <2> HIDE DEF value
  <2> QED BY <2>1, <2>2, <2>3
<1> HIDE DEF there
<1> QED BY <1>1, <1>2

\* A page opened in a locale shows what the page as a whole has in it.
LEMMA ViewOfWhole ==
    ASSUME NEW l, NEW sections, DistinctIds(sections), NEW blocks,
           l = Source \/ sections # <<>>, DOMAIN sections = 1..Len(sections), Len(sections) \in Nat,
           \A x \in ToSet(sections) : l \in DOMAIN x.locales
    PROVE  View(PageOf(l, sections, blocks), l) = View(PageOf(Source, sections, blocks), l)
<1> DEFINE value(s) == [id \in SectionsIn(s, sections, blocks, l) |-> SectionValue(s, blocks, RowOf(sections, id), l)]
<1>1. \A s : l \in PageLocales(s, sections, blocks) =>
          View(PageOf(s, sections, blocks), l)
            = [nodes |-> [i \in DOMAIN sections |-> SectionNode(blocks, sections[i])], overlay |-> value(s)]
  <2> TAKE s
  <2> HAVE l \in PageLocales(s, sections, blocks)
  <2> DEFINE nodes == [i \in DOMAIN sections |-> SectionNode(blocks, sections[i])]
             overlays == [k \in PageLocales(s, sections, blocks) |->
                            [id \in SectionsIn(s, sections, blocks, k) |-> SectionValue(s, blocks, RowOf(sections, id), k)]]
  <2>1. PageOf(s, sections, blocks) = [nodes |-> nodes, overlays |-> overlays]
    BY PageOfParts
  <2>2. overlays[l] = value(s)
    OBVIOUS
  <2> HIDE DEF nodes, overlays, value
  <2>3. View(PageOf(s, sections, blocks), l) = [nodes |-> nodes, overlay |-> value(s)]
    BY <2>1, <2>2 DEF View
  <2> QED BY <2>3 DEF nodes
<1>2. \A i \in DOMAIN sections : l \in DOMAIN sections[i].locales
  BY DEF ToSet
<1>3. \A s, i : i \in DOMAIN sections => l \in LocalesOf(s, blocks, sections[i])
  BY <1>2 DEF LocalesOf
<1>4. l \in PageLocales(l, sections, blocks) /\ l \in PageLocales(Source, sections, blocks)
  <2>1. l \in PageLocales(l, sections, blocks)
    BY DEF PageLocales
  <2>2. CASE l = Source
    BY <2>1, <2>2
  <2>3. CASE sections # <<>>
    <3>1. 1 \in DOMAIN sections
      BY <2>3
    <3>2. l \in LocalesOf(Source, blocks, sections[1])
      BY <1>3, <3>1
    <3> QED BY <3>1, <3>2 DEF PageLocales
  <2> QED BY <2>1, <2>2, <2>3
<1>5. \A s : SectionsIn(s, sections, blocks, l) = {sections[i].id : i \in DOMAIN sections}
  BY <1>3 DEF SectionsIn
<1>6. ASSUME NEW id \in {sections[i].id : i \in DOMAIN sections}
      PROVE  SectionValue(l, blocks, RowOf(sections, id), l) = SectionValue(Source, blocks, RowOf(sections, id), l)
  <2>1. PICK i \in DOMAIN sections : sections[i].id = id
    BY <1>6
  <2>2. sections[i] \in ToSet(sections)
    BY DEF ToSet
  <2>3. RowOf(sections, id) = sections[i]
    BY <2>1, <2>2, RowOfRow
  <2> QED BY <1>2, <2>1, <2>3, SectionInLocale
<1>7. value(l) = value(Source)
  BY <1>5, <1>6
<1> HIDE DEF value
<1> QED BY <1>1, <1>4, <1>7

\* A page with rows has a section.
LEMMA SectionExists ==
    ASSUME NEW stored, ShapedRows(Row, stored), Grounded(stored), NEW r \in ToSet(stored)
    PROVE  \E s \in ToSet(stored) : ~IsRichFamily(s)
<1>1. CASE IsRichFamily(r)
  <2>1. 0 \in Lineage(stored, r.id)
    BY ShapedFacts DEF Grounded
  <2> QED BY <1>1, <2>1, BlockLineage
<1> QED BY <1>1

\* The view of a page in a locale of its rows is the same in both runtimes and of the whole page.
LEMMA StorageViews ==
    StorageInv => LocalizedViewsAgree
<1> SUFFICES ASSUME StorageInv, saved # "none", NEW l \in RowLocales(rows)
             PROVE  /\ TsMaterializePageAccepts(Source, rows) /\ (\A i \in DOMAIN rows : l \in DOMAIN rows[i].locales) =>
                          TsMaterializePageAccepts(l, rows)
                    /\ TsMaterializePageAccepts(l, rows) =>
                          /\ MaterializePageDocumentStorageAccepts(l, rows)
                          /\ MaterializeLocalizedPageDocumentStorage(l, rows) = TsMaterializeLocalizedPage(l, rows)
                          /\ MaterializeLocalizedPageDocumentStorage(l, rows)
                                = View(MaterializePageDocumentStorage(Source, rows), l)
  BY DEF LocalizedViewsAgree
<1>1. StoredRows(rows) /\ \A x \in ToSet(rows) : RowValid(Source, "page", x, saved)
  BY DEF StorageInv, TypeInv
<1>2. ASSUME TsMaterializePageAccepts(Source, rows), \A i \in DOMAIN rows : l \in DOMAIN rows[i].locales
      PROVE  TsMaterializePageAccepts(l, rows)
  <2>1. \A x \in ToSet(rows) : l \in DOMAIN x.locales
    BY <1>2 DEF ToSet
  <2> QED BY <1>1, <1>2, <2>1, EveryLocaleOpens
<1>3. ASSUME TsMaterializePageAccepts(l, rows)
      PROVE  /\ MaterializePageDocumentStorageAccepts(l, rows)
             /\ MaterializeLocalizedPageDocumentStorage(l, rows) = TsMaterializeLocalizedPage(l, rows)
             /\ MaterializeLocalizedPageDocumentStorage(l, rows)
                   = View(MaterializePageDocumentStorage(Source, rows), l)
  <2>1. \A x \in ToSet(rows) : l \in DOMAIN x.locales /\ RowValid(l, "page", x, saved)
    BY <1>1, <1>3, OpenedInLocale
  <2>2. /\ MaterializePageDocumentStorageAccepts(l, rows)
        /\ TsMaterializePage(l, rows) = MaterializePageDocumentStorage(l, rows)
    BY <1>1, <1>3, <2>1, OpenedAlike
  <2>3. MaterializeLocalizedPageDocumentStorage(l, rows) = TsMaterializeLocalizedPage(l, rows)
    BY <2>2 DEF MaterializeLocalizedPageDocumentStorage, TsMaterializeLocalizedPage
  <2>4. ShapedRows(Row, rows) /\ Grounded(rows)
    BY <1>1, <1>3, TsShaped
  <2>5. rows \in Seq(Row) /\ RowSet(Row) /\ DistinctIds(rows)
    BY <2>4, ShapedFacts DEF ShapedRows
  <2> DEFINE sections == InPlacementOrder(SectionRows(rows))
             blocks == BlocksOf(rows)
  <2>6. SectionRows(rows) \in Seq(Row) /\ DistinctIds(SectionRows(rows)) /\ ToSet(SectionRows(rows)) \subseteq ToSet(rows)
    BY <2>5, SectionRowsElements
  <2>7. sections \in Seq(Row) /\ DistinctIds(sections) /\ ToSet(sections) = ToSet(SectionRows(rows))
    BY <2>5, <2>6, PlacementOrder
  <2>8. sections # <<>>
    <3>1. PICK i \in DOMAIN rows : l \in DOMAIN rows[i].locales
      BY DEF RowLocales
    <3>2. \E s \in ToSet(rows) : ~IsRichFamily(s)
      BY <2>4, <3>1, SectionExists DEF ToSet
    <3>3. TsSectionRows(rows) = SectionRows(rows)
      BY <2>4, TsRows
    <3>4. \A x : x \in ToSet(TsSectionRows(rows)) <=> x \in ToSet(rows) /\ ~IsRichFamily(x)
      BY <2>5, TsRowsElements
    <3> HIDE DEF sections
    <3>5. ToSet(sections) # {}
      BY <2>7, <3>2, <3>3, <3>4
    <3> QED BY <2>7, <3>5, SequenceElements
  <2> HIDE DEF sections, blocks
  <2>9. DOMAIN sections = 1..Len(sections) /\ Len(sections) \in Nat
    BY <2>7, SequenceElements
  <2>10. \A x \in ToSet(sections) : l \in DOMAIN x.locales
    BY <2>1, <2>6, <2>7
  <2>11. View(PageOf(l, sections, blocks), l) = View(PageOf(Source, sections, blocks), l)
    BY <2>7, <2>8, <2>9, <2>10, ViewOfWhole
  <2>12. \A s : MaterializePageDocumentStorage(s, rows) = PageOf(s, sections, blocks)
    BY DEF MaterializePageDocumentStorage, sections, blocks
  <2>13. MaterializeLocalizedPageDocumentStorage(l, rows) = View(MaterializePageDocumentStorage(Source, rows), l)
    BY <2>11, <2>12 DEF MaterializeLocalizedPageDocumentStorage
  <2> QED BY <2>2, <2>3, <2>13
<1> QED BY <1>2, <1>3

(***************************************************************************)
(* In every behaviour, a page that a reader opens in a locale in a browser *)
(* can be opened in it by the service, and is in both what the page as a   *)
(* whole has in that locale; and a page translated in full can be opened   *)
(* in every locale it has.                                                 *)
(***************************************************************************)
THEOREM StorageViewsAgree == Spec => []LocalizedViewsAgree
  BY StorageInvariant, StorageViews, PTL
=================================================================================

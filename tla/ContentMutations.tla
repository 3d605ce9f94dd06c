---------------------------- MODULE ContentMutations ----------------------------
(***************************************************************************)
(* Mutation batches of a document: what an editor sends instead of the     *)
(* whole of it.  A batch holds base mutations in the order they were made, *)
(* and per locale the mutations of translated values; it is flattened to   *)
(* row upserts, deletes, moves and locale groups, in which the order of    *)
(* mutations of different sorts is gone.                                   *)
(*                                                                         *)
(* A base mutation is                                                      *)
(*   [op |-> "upsert", section, node], [op |-> "delete", section, id] or   *)
(*   [op |-> "move", section, id, parent, column, index]                   *)
(* where section is 0 for a mutation of a page's section or a post's block *)
(* and else the section whose rich text is mutated (mutateRichTextBlock).  *)
(* A locale mutation is                                                    *)
(*   [op |-> "upsert", id, value] or [op |-> "delete", id].                *)
(***************************************************************************)
EXTENDS ContentDocuments

(***************************************************************************)
(* Go: flattenPageMutationBatchStorage.                                    *)
(***************************************************************************)

(* Mutant: the owning section is forgotten.                                *)
RichParentAsSent(m, parent) == normalizeUUID(parent)

\* The roots of a section's rich text are rows under the section.
RichParent(m, parent) == IF normalizeUUID(parent) = 0 THEN normalizeUUID(m.section) ELSE normalizeUUID(parent)

(* Mutant: a moved section keeps the slot of root sections.                *)
MoveSlotRoot(m) == IF m.section # 0 THEN Content ELSE Sections

MoveSlot(m) == IF m.section # 0 THEN Content ELSE SectionSlot(m)

UpsertRow(m) ==
    LET node == m.node
    IN [id     |-> normalizeUUID(node.id),
        parent |-> IF m.section = 0 THEN normalizeUUID(node.parent) ELSE RichParent(m, node.parent),
        slot   |-> IF m.section = 0 THEN SectionSlot(node) ELSE Content,
        pos |-> int32(node.index), kind |-> node.shared.case, shared |-> node.shared]

MoveRow(m) ==
    [id     |-> normalizeUUID(m.id),
     parent |-> IF m.section = 0 THEN normalizeUUID(m.parent) ELSE RichParent(m, m.parent),
     slot   |-> MoveSlot(m), pos |-> int32(m.index)]

Sort(mutations, op) == Where(mutations, LAMBDA m : m.op = op)
Each(mutations, f(_)) == [i \in DOMAIN mutations |-> f(mutations[i])]

LocaleGroup(g) ==
    [locale  |-> g.locale,
     upserts |-> Each(Sort(g.mutations, "upsert"), LAMBDA m : [id |-> normalizeUUID(m.id), value |-> m.value]),
     deletes |-> Each(Sort(g.mutations, "delete"), LAMBDA m : normalizeUUID(m.id))]

FlattenPageMutationBatchStorage(batch) ==
    [expectedRevision |-> batch.expectedRevision,
     upserts |-> Each(Sort(batch.base, "upsert"), UpsertRow),
     deletes |-> Each(Sort(batch.base, "delete"), LAMBDA m : normalizeUUID(m.id)),
     moves   |-> Each(Sort(batch.base, "move"), MoveRow),
     groups  |-> Each(batch.groups, LocaleGroup)]

(* Mutant: one contributor is too few.                                     *)
validateMembersOffByOne(members) ==
    Len(members) > 1 /\ Cardinality({normalizeUUID(members[i]) : i \in DOMAIN members}) = Len(members)

validateMembers(members) ==
    members # <<>> /\ Cardinality({normalizeUUID(members[i]) : i \in DOMAIN members}) = Len(members)

\* A mutation of the system is nobody's contribution.
contributorsValid(batch) ==
    IF batch.system THEN batch.members = <<>> ELSE validateMembers(batch.members)

FlattenPageMutationBatchStorageAccepts(batch, mode) ==
    /\ contributorsValid(batch)
    /\ \A i \in DOMAIN batch.base :
          LET m == batch.base[i]
          IN m.op = "upsert" =>
                /\ m.section = 0 => m.node.blocks = <<>>
                /\ m.section # 0 => m.node.shared.case \in RichKinds
                /\ NormalizeContentStorageShared("page", m.node.shared.case, m.node.shared, mode)
    /\ \A i \in DOMAIN batch.groups :
          \A k \in DOMAIN batch.groups[i].mutations :
             LET m == batch.groups[i].mutations[k]
             IN m.op = "upsert" => NormalizeContentStorageLocale("page", m.value.case, m.value)

(***************************************************************************)
(* Go: flattenRichTextMutationBatchStorage, of a post.  A block at the     *)
(* root stays there, and a batch changes something.                        *)
(***************************************************************************)
RichUpsertRow(m) ==
    [id |-> normalizeUUID(m.node.id), parent |-> normalizeUUID(m.node.parent), slot |-> Content,
     pos |-> int32(m.node.index), kind |-> m.node.shared.case, shared |-> m.node.shared]

(* Mutant: a moved block keeps its parent as it was sent.                  *)
RichMoveRowAsSent(m) ==
    [id |-> normalizeUUID(m.id), parent |-> m.parent, slot |-> Content, pos |-> int32(m.index)]

RichMoveRow(m) ==
    [id |-> normalizeUUID(m.id), parent |-> normalizeUUID(m.parent), slot |-> Content, pos |-> int32(m.index)]

FlattenRichTextMutationBatchStorage(batch) ==
    [expectedRevision |-> batch.expectedRevision,
     upserts |-> Each(Sort(batch.base, "upsert"), RichUpsertRow),
     deletes |-> Each(Sort(batch.base, "delete"), LAMBDA m : normalizeUUID(m.id)),
     moves   |-> Each(Sort(batch.base, "move"), RichMoveRow),
     groups  |-> Each(batch.groups, LocaleGroup)]

FlattenRichTextMutationBatchStorageAccepts(profile, batch, mode) ==
    /\ contributorsValid(batch)
    /\ \A m \in ToSet(batch.base) :
          m.op = "upsert" => /\ m.node.shared.case \in RichKinds
                             /\ NormalizeContentStorageShared(profile, m.node.shared.case, m.node.shared, mode)
    /\ \A g \in ToSet(batch.groups) : \A m \in ToSet(g.mutations) :
          m.op = "upsert" => m.value.case \in RichKinds /\ NormalizeContentStorageLocale(profile, m.value.case, m.value)
    /\ batch.base # <<>> \/ batch.groups # <<>>

(***************************************************************************)
(* TypeScript: flattenPageMutationBatchStorage.  Contributors are compared *)
(* as they were sent, locales may not repeat, and a batch changes          *)
(* something.                                                              *)
(***************************************************************************)
TsFlattenPageMutationAccepts(batch, mode) ==
    /\ IF batch.system THEN batch.members = <<>>
       ELSE batch.members # <<>> /\ Distinct(batch.members, LAMBDA m : m)
    /\ \A i \in DOMAIN batch.base :
          LET m == batch.base[i]
          IN m.op = "upsert" =>
                /\ m.section = 0 => m.node.blocks = <<>>
                /\ TsPayloadValid("page", m.section # 0, m.node.shared, mode)
    /\ Distinct(batch.groups, LAMBDA g : g.locale)
    /\ \A i \in DOMAIN batch.groups :
          \A k \in DOMAIN batch.groups[i].mutations :
             LET m == batch.groups[i].mutations[k]
             IN m.op = "upsert" => m.value.case \in PageKinds \cup ProfileBlocks["page"]
    /\ batch.base # <<>> \/ batch.groups # <<>>

TsFlattenRichTextMutationAccepts(profile, batch, mode) ==
    /\ IF batch.system THEN batch.members = <<>>
       ELSE batch.members # <<>> /\ Distinct(batch.members, LAMBDA m : m)
    /\ \A m \in ToSet(batch.base) : m.op = "upsert" => TsPayloadValid(profile, TRUE, m.node.shared, mode)
    /\ Distinct(batch.groups, LAMBDA g : g.locale)
    /\ \A g \in ToSet(batch.groups) : \A m \in ToSet(g.mutations) :
          m.op = "upsert" => m.value.case \in ProfileBlocks[profile]
    /\ batch.base # <<>> \/ batch.groups # <<>>

(***************************************************************************)
(* TypeScript: pageMutationTouchesSource, whether a batch changes what     *)
(* translations are made from.  Mutations inside a section's rich text are *)
(* an operation of their own, which it does not look into.                 *)
(***************************************************************************)
(* Mutant: the values of the source locale are forgotten.                  *)
pageMutationTouchesSourceBase(batch) ==
    \E m \in ToSet(batch.base) : m.section = 0

pageMutationTouchesSource(batch) ==
    \/ \E m \in ToSet(batch.base) : m.section = 0
    \/ \E g \in ToSet(batch.groups) : g.locale = Source /\ g.mutations # <<>>

(* Mutant: only the blocks themselves are looked at.                       *)
richTextMutationTouchesSourceBase(batch) == batch.base # <<>>

richTextMutationTouchesSource(batch) ==
    \/ batch.base # <<>>
    \/ \E g \in ToSet(batch.groups) : g.locale = Source /\ g.mutations # <<>>

(***************************************************************************)
(* The batch functions by the profile of the document.                     *)
(***************************************************************************)
FlattenBatch(profile, batch) ==
    IF profile = "page" THEN FlattenPageMutationBatchStorage(batch) ELSE FlattenRichTextMutationBatchStorage(batch)

FlattenBatchAccepts(profile, batch, mode) ==
    IF profile = "page" THEN FlattenPageMutationBatchStorageAccepts(batch, mode)
                        ELSE FlattenRichTextMutationBatchStorageAccepts(profile, batch, mode)

TsFlattenBatchAccepts(profile, batch, mode) ==
    IF profile = "page" THEN TsFlattenPageMutationAccepts(batch, mode)
                        ELSE TsFlattenRichTextMutationAccepts(profile, batch, mode)

TouchesSource(profile, batch) ==
    IF profile = "page" THEN pageMutationTouchesSource(batch) ELSE richTextMutationTouchesSource(batch)
================================================================================

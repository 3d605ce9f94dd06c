----------------------------- MODULE ContentEditing -----------------------------
(***************************************************************************)
(* Editors of one document, a page or a post.  Each holds the document as  *)
(* it opened it, the revision it opened, and the mutations it has made     *)
(* since.  It sends them as a batch that names this revision; the store    *)
(* applies the flattened batch when the revision is still the current one, *)
(* in one transaction, and refuses it otherwise.  The answer may be lost.  *)
(* An editor that is refused opens the document again.                     *)
(*                                                                         *)
(* The editors and the store are outside the repository.  How a store      *)
(* orders the upserts, deletes and moves of a batch is not said there, so  *)
(* any order is modelled; in return an editor names a block in at most one *)
(* base mutation of a batch, the only way to be independent of the order.  *)
(***************************************************************************)
EXTENDS ContentMutations

CONSTANTS Editors,
          Forms,        \* by profile of the documents edited: the kinds, indexes and locales used
          Members,      \* lists of contributors batches are sent with
          MaxEdits,     \* bound on the edits of a batch
          MaxRevision   \* bound on the batches applied

ASSUME FormsAssumption ==
    /\ DOMAIN Forms \subseteq {"page", "post"}
    /\ \A p \in DOMAIN Forms :
          Forms[p].kinds \subseteq Kinds /\ Forms[p].indexes \subseteq UInt32 /\ Forms[p].locales \subseteq OtherLocales
ASSUME EditingBoundsAssumption == MaxEdits \in Nat /\ MaxRevision \in Nat

VARIABLES profile,   \* the profile of the document, "page" or "post"
          rows,      \* the rows in the store
          revision,  \* their revision
          page,      \* the document as the editor sees it
          base,      \* the revision it was opened or saved at
          made       \* the mutations made since: base mutations and locale groups

vars == <<profile, rows, revision, page, base, made>>

NoEdits == [base |-> <<>>, groups |-> <<>>]
EmptyPage == [nodes |-> <<>>, overlays |-> [l \in Locales |-> NoValues]]

Init ==
    /\ profile \in DOMAIN Forms
    /\ rows = <<>> /\ revision = 0
    /\ page = [e \in Editors |-> EmptyPage]
    /\ base = [e \in Editors |-> 0]
    /\ made = [e \in Editors |-> NoEdits]

-------------------------------------------------------------------------------
(***************************************************************************)
(* The editor's own document.  The blocks of a page are named by the       *)
(* section they are in, 0 for a section itself or a block of a post.       *)
(***************************************************************************)
Ranks(p, section) == {i \in DOMAIN p.nodes : p.nodes[i].id = section}
Rank(p, section) == CHOOSE i \in Ranks(p, section) : TRUE
Blocks(p, section) == IF profile = "post" \/ Ranks(p, section) = {} THEN <<>> ELSE p.nodes[Rank(p, section)].blocks
Level(p, section) == IF section = 0 THEN p.nodes ELSE Blocks(p, section)
Placed(p, section, id) == \E i \in DOMAIN Level(p, section) : Level(p, section)[i].id = id
AllIds(p) == Ids(p.nodes) \cup UNION {Ids(Blocks(p, id)) : id \in Ids(p.nodes)}

WithLevel(p, section, nodes) ==
    IF section = 0 THEN [p EXCEPT !.nodes = nodes]
                   ELSE [p EXCEPT !.nodes[Rank(p, section)].blocks = nodes]

Without(f, id) == [x \in DOMAIN f \ {id} |-> f[x]]

\* The value of a section in a locale, empty if there is none.
OwnValue(p, l, section) ==
    IF section \in DOMAIN p.overlays[l] THEN p.overlays[l][section]
    ELSE [case |-> p.nodes[Rank(p, section)].shared.case, text |-> "", blocks |-> NoValues]

WithValue(p, l, section, id, value) ==
    IF profile = "post" THEN [p EXCEPT !.overlays[l] = With(@, id, value)]
    ELSE IF section = 0
    THEN [p EXCEPT !.overlays[l] =
            With(@, id, [case |-> value.case, text |-> value.text, blocks |-> OwnValue(p, l, id).blocks])]
    ELSE [p EXCEPT !.overlays[l] =
            With(@, section, [OwnValue(p, l, section) EXCEPT !.blocks = With(@, id, value)])]

\* A value is taken away; a section keeps an empty one for the sake of its blocks.
WithoutValue(p, l, section, id) ==
    IF section # 0
    THEN IF section \in DOMAIN p.overlays[l]
         THEN [p EXCEPT !.overlays[l][section].blocks = Without(@, id)] ELSE p
    ELSE IF profile = "page" /\ id \in DOMAIN p.overlays[l] /\ p.overlays[l][id].blocks # NoValues
         THEN [p EXCEPT !.overlays[l][id].text = ""]
         ELSE [p EXCEPT !.overlays[l] = Without(@, id)]

-------------------------------------------------------------------------------
(***************************************************************************)
(* Edits.  Each changes the editor's page and is remembered as a mutation. *)
(***************************************************************************)
Mutations(e) ==
    Len(made[e].base)
    + Cardinality(UNION {{<<i, k>> : k \in DOMAIN made[e].groups[i].mutations} : i \in DOMAIN made[e].groups})

Named(e) == {IF m.op = "upsert" THEN m.node.id ELSE m.id : m \in ToSet(made[e].base)}

\* The groups with a locale mutation appended to the group of its locale.
InGroup(groups, l, m) ==
    IF \E i \in DOMAIN groups : groups[i].locale = l
    THEN [i \in DOMAIN groups |->
            IF groups[i].locale = l THEN [groups[i] EXCEPT !.mutations = Append(@, m)] ELSE groups[i]]
    ELSE Append(groups, [locale |-> l, mutations |-> <<m>>])

\* A new section, a new block of a rich-text section or of a post, with its source value.
Insert(e, section, node) ==
    LET value == [case |-> node.shared.case, text |-> "text"]
        placed == WithLevel(page[e], section, Append(Level(page[e], section), node))
    IN /\ Mutations(e) < MaxEdits
       /\ node.id \notin AllIds(page[e]) \cup Named(e)
       /\ section # 0 => \E i \in Ranks(page[e], section) : page[e].nodes[i].shared.case = "rich-text"
       /\ page' = [page EXCEPT ![e] = WithValue(placed, Source, section, node.id, value)]
       /\ made' = [made EXCEPT ![e].base = Append(@, [op |-> "upsert", section |-> section, node |-> node]),
                               ![e].groups = InGroup(@, Source, [op |-> "upsert", id |-> node.id, value |-> value])]
       /\ UNCHANGED <<profile, rows, revision, base>>

\* Another place on the same level; only a section's place names a column.
Move(e, section, id, parent, column, index) ==
    LET Moved(node) == IF profile = "page" /\ section = 0
                       THEN [node EXCEPT !.parent = parent, !.column = column, !.index = index]
                       ELSE [node EXCEPT !.parent = parent, !.index = index]
    IN /\ Mutations(e) < MaxEdits
       /\ Placed(page[e], section, id) /\ id \notin Named(e)
       /\ profile = "post" \/ section # 0 => column = 0
       /\ page' = [page EXCEPT ![e] =
             WithLevel(@, section, Each(Level(@, section), LAMBDA n : IF n.id = id THEN Moved(n) ELSE n))]
       /\ made' = [made EXCEPT ![e].base =
             Append(@, [op |-> "move", section |-> section, id |-> id, parent |-> parent, column |-> column, index |-> index])]
       /\ UNCHANGED <<profile, rows, revision, base>>

\* A section or block that nothing is below of.
Delete(e, section, id) ==
    /\ Mutations(e) < MaxEdits
    /\ Placed(page[e], section, id) /\ id \notin Named(e)
    /\ \A i \in DOMAIN Level(page[e], section) : Level(page[e], section)[i].parent # id
    /\ section = 0 => Blocks(page[e], id) = <<>>
    /\ page' = [page EXCEPT ![e] =
          LET left == WithLevel(@, section, Where(Level(@, section), LAMBDA n : n.id # id))
          IN [left EXCEPT !.overlays = [l \in DOMAIN @ |-> WithoutValue(left, l, section, id).overlays[l]]]]
    /\ made' = [made EXCEPT ![e].base = Append(@, [op |-> "delete", section |-> section, id |-> id])]
    /\ UNCHANGED <<profile, rows, revision, base>>

KindAt(p, section, id) ==
    LET i == CHOOSE i \in DOMAIN Level(p, section) : Level(p, section)[i].id = id
    IN Level(p, section)[i].shared.case

\* One mutation of a value per block, locale and batch, and none of a block the batch deletes.
Untouched(e, l, id) ==
    /\ \A i \in DOMAIN made[e].groups :
          made[e].groups[i].locale = l => \A m \in ToSet(made[e].groups[i].mutations) : m.id # id
    /\ id \notin Named(e)

Translate(e, l, section, id) ==
    LET value == [case |-> KindAt(page[e], section, id), text |-> "new"]
    IN /\ Mutations(e) < MaxEdits
       /\ Placed(page[e], section, id) /\ Untouched(e, l, id)
       /\ page' = [page EXCEPT ![e] = WithValue(@, l, section, id, value)]
       /\ made' = [made EXCEPT ![e].groups = InGroup(@, l, [op |-> "upsert", id |-> id, value |-> value])]
       /\ UNCHANGED <<profile, rows, revision, base>>

RemoveTranslation(e, l, section, id) ==
    /\ Mutations(e) < MaxEdits
    /\ Placed(page[e], section, id) /\ Untouched(e, l, id)
    /\ page' = [page EXCEPT ![e] = WithoutValue(@, l, section, id)]
    /\ made' = [made EXCEPT ![e].groups = InGroup(@, l, [op |-> "delete", id |-> id])]
    /\ UNCHANGED <<profile, rows, revision, base>>

-------------------------------------------------------------------------------
(***************************************************************************)
(* The store.                                                              *)
(***************************************************************************)
\* Each sort of a batch in one statement; a row that is put keeps the values it has.
PutRows(stored, upserts) ==
    Each(stored, LAMBDA r : IF r.id \in Ids(upserts) THEN Merged(RowOf(upserts, r.id), r) ELSE r)
    \o Each(Where(upserts, LAMBDA u : u.id \notin Ids(stored)), LAMBDA u : Merged(u, [locales |-> NoValues]))

MovedRows(stored, moves) ==
    Each(stored, LAMBDA r : IF r.id \in Ids(moves) THEN Merged(RowOf(moves, r.id), r) ELSE r)

Kept(stored, deletes) == Where(stored, LAMBDA r : r.id \notin ToSet(deletes))

Written(stored, flat, sort) ==
    CASE sort = "upserts" -> PutRows(stored, flat.upserts)
      [] sort = "moves"   -> MovedRows(stored, flat.moves)
      [] sort = "deletes" -> Kept(stored, flat.deletes)

InGroupOrder(stored, flat, sorts) ==
    Written(Written(Written(stored, flat, sorts[1]), flat, sorts[2]), flat, sorts[3])

\* The values of a row when the locale groups are written, in each of them the upserts before the deletes.
Put(groups, l, id) ==
    {u \in UNION {ToSet(g.upserts) : g \in {g \in ToSet(groups) : g.locale = l}} : u.id = id}
Dropped(groups, l, id) == \E g \in ToSet(groups) : g.locale = l /\ id \in ToSet(g.deletes)

WithGroups(stored, groups) ==
    LET AllLocales(r) == DOMAIN r.locales \cup {l \in {g.locale : g \in ToSet(groups)} : Put(groups, l, r.id) # {}}
        Value(r, l) == IF Put(groups, l, r.id) # {} THEN (CHOOSE u \in Put(groups, l, r.id) : TRUE).value ELSE r.locales[l]
    IN Each(stored, LAMBDA r : [r EXCEPT !.locales =
              [l \in {l \in AllLocales(r) : ~Dropped(groups, l, r.id)} |-> Value(r, l)]])

Applied(stored, flat, sorts) == WithGroups(InGroupOrder(stored, flat, sorts), flat.groups)

\* The checks a store makes on the rows before it commits.
Checked(stored) ==
    /\ Tree(stored) /\ ParentChecked(profile, stored)
    /\ \A i \in DOMAIN stored : RowValid(Source, profile, stored[i], "WRITE")

\* Ids are sent in lower case (spelling = 1) or in upper case (-1).
SpelledNode(m, spelling) ==
    IF profile = "page" /\ m.section = 0
    THEN [m.node EXCEPT !.id = spelling * @, !.parent = spelling * @, !.column = spelling * @]
    ELSE [m.node EXCEPT !.id = spelling * @, !.parent = spelling * @]

Spelled(m, spelling) ==
    LET Id(id) == spelling * id
    IN CASE m.op = "upsert" -> [m EXCEPT !.section = Id(@), !.node = SpelledNode(m, spelling)]
         [] m.op = "delete" -> [m EXCEPT !.section = Id(@), !.id = Id(@)]
         [] m.op = "move"   -> [m EXCEPT !.section = Id(@), !.id = Id(@), !.parent = Id(@), !.column = Id(@)]

\* system is whether the batch is sent by the system and not by members.
Batch(e, system, members, spelling) ==
    [expectedRevision |-> base[e], system |-> system, members |-> members,
     base   |-> Each(made[e].base, LAMBDA m : Spelled(m, spelling)),
     groups |-> Each(made[e].groups, LAMBDA g :
        [g EXCEPT !.mutations = Each(@, LAMBDA m : [m EXCEPT !.id = spelling * @])])]

Sorts == {<<"upserts", "moves", "deletes">>, <<"deletes", "moves", "upserts">>, <<"moves", "deletes", "upserts">>}

\* The flattened batches of what the editor may send, of those that are accepted.
Sent(e) ==
    {FlattenBatch(profile, batch) : batch \in
        {batch \in {Batch(e, system, members, spelling) :
                       system \in BOOLEAN, members \in Members, spelling \in {1, -1}} :
            FlattenBatchAccepts(profile, batch, "WRITE")}}

\* The store applies a batch; heard is whether the answer reaches the editor.
Save(e, heard) ==
    /\ revision < MaxRevision
    /\ \E flat \in Sent(e) :
          /\ flat.expectedRevision = revision
          /\ rows' \in {Applied(rows, flat, sorts) : sorts \in Sorts}
    /\ Checked(rows')
    /\ revision' = revision + 1
    /\ base' = IF heard THEN [base EXCEPT ![e] = revision + 1] ELSE base
    /\ made' = IF heard THEN [made EXCEPT ![e] = NoEdits] ELSE made
    /\ UNCHANGED <<profile, page>>

\* An editor that is refused, or has another reason to, opens the stored page again.
Reload(e) ==
    /\ MaterializeDocumentAccepts(profile, rows)
    /\ page' = [page EXCEPT ![e] =
          LET opened == MaterializeDocument(profile, rows)
          IN [opened EXCEPT !.overlays =
                [l \in Locales |-> IF l \in DOMAIN opened.overlays THEN opened.overlays[l] ELSE NoValues]]]
    /\ base' = [base EXCEPT ![e] = revision]
    /\ made' = [made EXCEPT ![e] = NoEdits]
    /\ UNCHANGED <<profile, rows, revision>>

Shared(kind) == [case |-> kind, settings |-> FALSE, media |-> "none",
                 columns |-> IF kind = "columns" THEN Columns ELSE {}]
SectionNodes ==
    {[id |-> id, parent |-> p, column |-> c, index |-> x, shared |-> Shared(k), blocks |-> <<>>] :
        id \in Uuid, p \in Uuid \cup {0}, c \in Columns \cup {0}, x \in Forms[profile].indexes, k \in Forms[profile].kinds \cap PageKinds}
BlockNodes ==
    {[id |-> id, parent |-> p, index |-> x, shared |-> Shared(k)] :
        id \in Uuid, p \in Uuid \cup {0}, x \in Forms[profile].indexes, k \in Forms[profile].kinds \cap RichKinds}

Edit(e) ==
    \/ \E node \in IF profile = "page" THEN SectionNodes ELSE BlockNodes : Insert(e, 0, node)
    \/ \E section \in Ids(page[e].nodes), node \in BlockNodes : Insert(e, section, node)
    \/ \E section \in Uuid \cup {0}, id \in Uuid :
          /\ Placed(page[e], section, id)
          /\ \/ \E parent \in Uuid \cup {0}, column \in Columns \cup {0}, index \in Forms[profile].indexes :
                   Move(e, section, id, parent, column, index)
             \/ Delete(e, section, id)
             \/ \E l \in {Source} \cup Forms[profile].locales : Translate(e, l, section, id)
             \/ \E l \in Forms[profile].locales : RemoveTranslation(e, l, section, id)

Next ==
    \E e \in Editors :
       \/ Mutations(e) < MaxEdits /\ Edit(e)
       \/ \E heard \in BOOLEAN : Save(e, heard)
       \/ Reload(e)

Spec == Init /\ [][Next]_vars

-------------------------------------------------------------------------------
\* The rows as a reader of the page sees them: an empty value of a rich-text section says nothing.
Meaning(stored) ==
    {[r EXCEPT !.locales =
        [l \in {l \in DOMAIN r.locales : l = Source \/ r.kind # "rich-text" \/ r.locales[l].text # ""} |-> r.locales[l]]]
     : r \in ToSet(stored)}

(***************************************************************************)
(* Every row is normalised and every editor is at a revision of the past.  *)
(***************************************************************************)
TypeOK ==
    /\ revision \in 0..MaxRevision
    /\ \A e \in Editors : base[e] \in 0..revision /\ Mutations(e) <= MaxEdits + 1
    /\ \A i \in DOMAIN rows : rows[i].id \in Uuid /\ rows[i].parent \in Uuid \cup {0}

(***************************************************************************)
(* Saving by mutations is saving the document: an editor at the current    *)
(* revision with nothing to send sees a page that flattens to the stored   *)
(* rows, whatever order the store applied its mutations in, however many   *)
(* answers were lost and whoever else has edited in between.               *)
(***************************************************************************)
EditorsInSync ==
    \A e \in Editors :
        base[e] = revision /\ made[e] = NoEdits =>
            Meaning(FlattenDocument(profile, page[e])) = Meaning(rows)

\* Whether a batch brings a block, section or value of certain kinds.
Of(kinds, batch) ==
    \/ \E m \in ToSet(batch.base) : m.op = "upsert" /\ m.node.shared.case \in kinds
    \/ \E g \in ToSet(batch.groups) : \E m \in ToSet(g.mutations) : m.op = "upsert" /\ m.value.case \in kinds

(***************************************************************************)
(* An editor at the current revision with something to send, whose         *)
(* document is one the TypeScript runtime accepts with nothing above       *)
(* itself, is not refused: its batch is accepted and the rows it leaves    *)
(* pass the store's checks, in whatever order they are written.  That is   *)
(* so unless it is of a page and of a kind that names a section and a      *)
(* block, which the Go runtime takes for the one or the other.             *)
(***************************************************************************)
ValidPagesSave ==
    \A e \in Editors, spelling \in {1, -1} :
        (/\ base[e] = revision /\ made[e] # NoEdits
         /\ TsFlattenDocumentAccepts(profile, page[e], "WRITE")
         /\ Grounded(FlattenDocument(profile, page[e]))) =>
            LET batch == Batch(e, FALSE, <<1>>, spelling)
                flat  == FlattenBatch(profile, batch)
            IN \/ profile = "page" /\ Of(PageKinds \cap RichKinds, batch)
               \/ /\ FlattenBatchAccepts(profile, batch, "WRITE")
                  /\ \A sorts \in Sorts : Checked(Applied(rows, flat, sorts))

(***************************************************************************)
(* A batch that the TypeScript runtime lets an editor send is one the Go   *)
(* runtime of the store accepts, unless it names a contributor twice in    *)
(* different spellings, which only the Go runtime sees, or is about a map  *)
(* section of a page, which only the TypeScript runtime knows.             *)
(***************************************************************************)
SentBatchesAccepted ==
    \A e \in Editors, system \in BOOLEAN, members \in Members :
        LET batch == Batch(e, system, members, 1)
        IN (/\ TsFlattenBatchAccepts(profile, batch, "WRITE")
            /\ Distinct(members, normalizeUUID)
            /\ profile = "page" => ~Of({"map"}, batch)) => FlattenBatchAccepts(profile, batch, "WRITE")

(***************************************************************************)
(* What the store has saved can be opened: the checks of single rows and   *)
(* of the tree are enough for rows that batches have made, unless there    *)
(* are more than a document may have, which no check of a batch or of a    *)
(* row counts, or a page has a block of a kind that names a section as     *)
(* well, below which another can be put.  And a browser opens, of the      *)
(* documents that are valid for it, those without an index of 2^31 or      *)
(* more.                                                                   *)
(***************************************************************************)
SavedPagesOpen ==
    /\ (/\ Len(rows) <= MaxDocumentBlocks
        /\ profile = "page" => \A i \in DOMAIN rows : rows[i].kind \notin PageKinds \cap RichKinds) =>
          MaterializeDocumentAccepts(profile, rows)
    /\ \A e \in Editors :
          base[e] = revision /\ made[e] = NoEdits /\ TsFlattenDocumentAccepts(profile, page[e], "WRITE")
             => (TsMaterializeDocumentAccepts(profile, rows) <=> DocumentFits(profile, page[e]))

\* Go: what ContentStorageTranslationSourceHash is a hash of.
TranslationSource(stored) ==
    {[id |-> r.id, parent |-> r.parent, slot |-> r.slot, pos |-> r.pos, kind |-> r.kind,
      values |-> {r.locales[l] : l \in DOMAIN r.locales \cap {Source}}] : r \in ToSet(stored)}

(***************************************************************************)
(* A batch that TypeScript says does not touch the source leaves what Go   *)
(* hashes as the source of translations as it was, unless it deletes or    *)
(* moves blocks inside a section, which TypeScript does not look at.       *)
(***************************************************************************)
QuietBatchesKeepSource ==
    \A e \in Editors :
        LET batch  == Batch(e, FALSE, <<1>>, 1)
            inside == \E m \in ToSet(batch.base) : m.section # 0 /\ m.op # "upsert"
        IN (/\ base[e] = revision /\ made[e] # NoEdits
            /\ ~TouchesSource(profile, batch) /\ ~inside) =>
              \A sorts \in Sorts :
                 TranslationSource(Applied(rows, FlattenBatch(profile, batch), sorts))
                    = TranslationSource(rows)
================================================================================

# A verification project for geul-event-contracts

The repository holds the contracts of the GEUL platform: protobuf, AsyncAPI and
SpiceDB sources, the code generated from them in Go and TypeScript, and a few
hand-written runtimes that both languages must agree on. The services that use
them (API, Collab, Web, workers) are in other repositories. This project models
the runtimes in TLA+, checks them with TLC, and proves with TLAPS what the
checks show on small instances.

Contents: [1 the system](#1-the-system), [2 modules](#2-modules-and-the-code-they-model),
[3 runs](#3-runs), [4 fairness](#4-fairness), [5 proofs](#5-proofs),
[6 disagreements](#6-disagreements-between-code-and-text),
[7 limits](#7-what-is-not-modelled), [8 plan](#8-plan).

## 1 The system

| Component | State | Operations | Where it is hard |
|---|---|---|---|
| **PGMQ durable queue transport** (`go/event/pgmq.go`, `packages/event/src/pgmq.ts`) | rows of a queue: message, headers, visibility time, read count; the producer's transaction; what consumers hold | `Enqueue`, `Read`, `Complete`, `DeadLetter`, `Retry`; validation of envelope and headers on both sides | competing consumers, leases that expire while a handler runs, crashes between effect and completion, sends inside a transaction that rolls back, malformed rows in a batch, two languages with one contract |
| **Content block storage runtime** (`scripts/generated/runtime/block_catalog_runtime.go.tmpl`, the TypeScript half written by `generate-block-catalog.mjs`) | none of its own; it maps page documents to rows and back, and batches of edits to upserts, deletes and moves | flatten, rebuild, check one row under its parent, normalise shared and locale payloads, rewrite missing attachments, flatten a batch | trees in two notations, ids in two spellings, locales spread over rows, a family read from ancestors in one language and from the kind in the other, edits of several people applied as unordered groups |
| **Interactive mutation relay** (`go/collaboration/interactive_mutation.go`, `packages/event/src/interactive-mutation.ts`, `collaboration.proto`) | none of its own; it accepts or refuses a relay from the API to a Collab room | the two validators | relays are sent once: lost, repeated, late, out of order, or read by a receiver of an older contract that does not see a field |
| **SpiceDB policy** (`config/spicedb`, `scripts/generated/spicedb`) | relationships | the catalog's checks, the schema, typed mutations and requests in two languages | permissions that are not monotone, chains and circles of parents, two expressions over one list of labels, a role hierarchy that is checked by counting |
| **Release pipeline** (`.github/workflows/release.yml`, `release-automation.yml`, `.github/scripts/release-publication.py`) | runs of two workflows with their attempts, jobs and outputs; who runs and who waits in each concurrency group; tags and published versions; what a notification has read so far | release, set up, publish two packages, verify; tell PR maintenance of a push; read the run, the latest release and the jobs, and tell the discovery | a step that fails between two publications, reruns of part or all of a run, runs and notifications that displace each other, evidence read at three moments |
| generators, catalogs, event names, audits, protobuf declarations, generated bindings, contract tests | none | text to text | drift between copies, which `--check` compares |

How they meet. A service changes its domain state and sends a PGMQ message in
one transaction; a worker reads, does its work and completes the row. The API
loads a page's rows, rebuilds the document with the Go runtime and hands it to
Collab and Web, which work on it with the TypeScript runtime and send batches of
edits back; the API flattens a batch with the Go runtime and applies it under
the document's revision. When an assistant edits a document through the API,
the API commits and relays the edit to the room of that document and locale.
Who may do any of it is decided by permissions of the SpiceDB schema. The two
languages never call each other: what ties them is that they accept and produce
the same data, which is why half of the properties relate the two.

What makes each component correct:

- *Queue*: a row exists exactly when its transaction committed. A command is
  executed at least once, and exactly once when the effect and the completion
  share a transaction, whatever leases expire. A lease keeps the others away.
  One malformed row neither blocks a batch nor is executed. Everything settles.
  What a constructor builds is read by both languages, but for one class of dates.
- *Content*: what is flattened can be rebuilt and flattens to the same rows; no
  translation is lost; the order of rows does not matter; the check of single
  rows suffices for the tree; both languages rebuild the same page, and the same
  view of it in one locale; an editor that saved sees what is stored; what is
  stored opens, in a browser unless an index does not fit its column; a valid
  document is never refused; a batch that is said to leave
  the source of translations alone does.
- *Relay*: a room never shows other content than the revisions it compares the
  next relay with, nor goes back to older ones; every commit can be relayed.
- *Policy*: a stronger permission includes the weaker ones; a relationship that
  is added takes nothing away and one that is removed gives nothing, but for the
  labels of an artist; what the bindings can write the schema allows; a resource
  deleted by its snapshot leaves nothing that names it.
- *Release*: tag, `geul-proto`, `geul-event` in this order; discovery is told only
  of what is on the registry, of each version once, and once more at most each time
  someone reruns the notification of it; as long as nothing fails, every merged
  release is published and every push reaches PR maintenance.

`PROJECT.json` lists the hazards at their lines and the properties that would
catch them.

## 2 Modules and the code they model

```
PgmqEnvelope -- PgmqTransport -- MCPgmqTransport          (runs pgmq_*)
DurableQueue ------/        \--- PgmqTransportProofs
ContentRows -- ContentRowsTs -- ContentUniverse
ContentUniverse -- ContentStorage -- ContentLocales -- MCContentStorage                (runs content_*)
       |                  \--- ContentStorageProofs ---- ContentPageProofs
       |-- ContentPageProofs                                    |
       \-- ContentDocuments -- ContentMutations -- ContentEditing -- MCContentEditing  (runs editing_*)
                                                   \--- ContentEditingLemmas -- ContentEditingProofs
RelayRequest -- RelayMutation -- RelayMutationProofs       (run relay)
PolicySchema -- PolicyRelationships -- MCPolicy            (run policy)
                          \--- PolicyProofs
Publication -- ReleasePipeline                             (runs release_*)
                    \--- ReleasePipelineProofs
```

### The queue

`PgmqEnvelope` is the data: a body is a record of classes. Its id and its type
are there or missing (or empty); its schema is the current version or another;
its date is RFC 3339, what `toISOString` prints of a year outside 0..9999
(`expandedYear`), a date alone, or nothing either language reads; its payload is
canonical base64, base64 that only Go takes (`loose`), missing or invalid; its
headers are all strings, null, or have a value of another type.
`GoEnvelopeValid`, `TsEnvelopeValid`, `Sendable` and `ContractError` are what the
two validators, `Enqueue` and `Read` make of it. `Constructed` are the bodies the
constructors build: the year of the date is the clock's in Go, and any in
TypeScript, whose caller may pass the `Date`.

`PgmqTransport` is the queue. The row's visibility time is `wait`, the seconds
until it is visible; `held` are the deliveries a consumer has read, with what is
left of their leases; `effects` counts the committed executions of a row's
command. Actions: `Begin`, `Enqueue`, `Commit`, `Abort` (the producer's
transaction), `ForeignSend` (a writer outside the contract), `Read`,
`CompleteTx` (completion in the transaction of the effect), `Apply` and
`Complete` (on its own connection), `DeadLetter`, `Retry`, `Abandon`, `Crash`,
`Tick`. `pgmq.send`, `read`, `delete`, `archive` and `set_vt` are PostgreSQL
functions outside the repository; they are what the SQL and the handling of the
answers make of them (`Succeeded`: true when a row was affected). Durations are
half seconds, so that truncation to whole seconds matters. Consumers are
outside too: they handle what they read before they read again, archive what is
flagged or was read `MaxReads` times, and retry the rest.

`DurableQueue` is the promise: rows appear with their command's domain state
and end completed or dead-lettered, once. That they do end is `EventuallySettled`.

### Content

Ids are integers; `-u` is `u` spelled in capitals (`normalizeUUID`). A payload
keeps its kind, whether it has settings, its columns and the state of its
attachment. An index is a uint32 in a document and an int32 in a row: `int32` and
`uint32` keep the bits, as Go's conversions do, so that an index from `HalfRange`
on (2^31 in the code, 2 in the runs) is a negative position; Go reads it back,
TypeScript does not. A locale payload its kind, whether it has text, and the payloads of
the blocks of a rich text. `ContentRows` is the Go runtime: `Flatten...`,
`Materialize...` with the operators they are built from, and an `...Accepts`
operator for what each refuses.
`ValidateContentStorageParent` is the check of one row. `ContentRowsTs` is the
TypeScript runtime, only where it differs: its validators of whole graphs, and a
page rebuilt from rows told apart by their family (`TsMaterializePage`). What the
code passes a source locale takes it as its first argument; documents are saved
in `Source`. A page is opened in one locale (`ContentLocales`) by rebuilding it
with that locale for its source and taking the overlay of it. `ContentUniverse` says which ids, kinds,
columns and locales there are, and what a store checks of the rows it holds:
that they are a tree (`Tree`) and that each passes the check under its parent
(`ParentChecked`). `ContentStorage` puts an author and a
store around them: the author composes any document the protobuf types allow
(dangling parents, repeated ids, cycles, capitals), `Save` flattens, the store
returns rows in either order, `Open` rebuilds, `RewriteMissing` is the rewriting
of attachments that are gone.

`ContentDocuments` has the functions of both forms of a document, a page and a
post (one rich text), by the profile of the document. `ContentMutations` flattens
the batches of both forms in both languages, sent by members or by the system,
and decides whether a batch touches the source of translations. `ContentEditing`
has a document of either form and editors that insert, move, delete and
translate on their own copy and send what they did under the revision they
opened; the store writes the upserts, moves and deletes of a batch in any order,
each of the three in one statement, then the values of its locale groups, all in one
transaction, if the revision is current and the rows it leaves pass its checks
(`Checked`). Answers may be lost. A document is a page or a post for ever;
`Forms` says, by this profile, which kinds, positions and locales are used.
`TranslationSource` is what Go hashes as the source of translations.

### The relay

`RelayRequest` has both validators in full, over requests whose texts are
empty, white space only, white space only one language trims, or something.
`RelayMutation` has a document with targets, an API that commits and relays, and
a room per locale that follows the comments of `collaboration.proto` and
`ai.proto`: apply a relay at the revisions it expects, reload otherwise. A relay
stays in `relays` once sent: it may be received late, repeatedly, in any order
or not at all, whole or with a field unseen (`Unseen`). Content is named by the
revisions it was committed at, and applying a relay to other content gives
`Garbage`. `ai.proto` binds the revision of a target to that of its document; the
model keeps the two apart, as the validators and the messages do, and a room
compares both, so that a write of the source makes a room of a target reload.

### The policy

`PolicySchema` is the catalog's schema over the relationships stored: a
permission is the set of accounts that have it, `+` is union, `&` intersection,
`policy->is_admin` is `PlatformAdmin`, `parent->manage` the union over `Lineage`,
and `label.all(p)` is `AllLabels`, empty without labels. Where the schema is
recursive (roles, parents) the model takes the least set that is closed, as
SpiceDB does where it finds an end; circles of parents are among the states,
and SpiceDB answers them with an error or with less. Types whose expressions are
the same share an operator (`Archived`, `AdminOnly`), with the permissions to
publish and to share where the type has them (`AdminRights`).

`PolicyRelationships` has the relationships as its one variable. `Mutations` are
exactly those a Touch or Delete method of the bindings can build, `Write` stores
one. What calls the methods is outside, so every order of them is possible, on
resources that exist or not. `Snapshot` is what the plan of a resource reads of
it before it is deleted.

### The release

A commit is its number on main; a commit that merges a Release Please PR
releases the version of that number. `ReleasePipeline` has the run of the Release
workflow of every commit: its attempt, its next step (`release`, `setup`,
`proto`, `event`, `verify`), the version its release job put out (`created`), its
conclusion, and the conclusion of the publish job of each attempt (`job`). A
concurrency group is who runs and who waits (`runs` for releases, `pushes` and
`completions` for the two kinds of notifications); a newcomer takes the place of
the one that waits (`Enter`), which is cancelled, and for releases that is an
event of its own. Actions: `Push`, `RerunFailed` (which keeps the outputs of a
release job that succeeded), `RerunAll`, the steps of a run, each of which may
fail, before or after its effect, `Maintain`, and of the evidence script
`ReadRun`, `ReadRelease`, `ReadJobs`, `Tell`, which are separate as the script
asks GitHub three times, and `NoteFails`, which may leave the first call of
`Tell` made, or both. Runs of the automation are rerun too: `RerunMaintenance`, and
`RerunNotification` of any completion whose notification ended or lost its place
(`over` counts them); nothing keeps what was told, so this tells again. `again`
counts these reruns, `announced` what the discovery was told of each version.
Release Please, GitHub and the registry are external.

`Publication` is the promise to those who install the packages: tag, then
`geul-proto`, then `geul-event`, then one announcement, and one more at most each
time someone asks for it (`Ask`).

## 3 Runs

All runs but `policy` have the check for deadlock off: authors, editors and producers may stop, and the
bounded models come to an end when their bounds are used up. "Mutants" in
`PROJECT.json` name, for each property, one plausible bug that breaks it.

| Run | Question | Bounds | Why they suffice |
|---|---|---|---|
| `pgmq_tx` | Is the outbox atomic, is each effect committed exactly once by consumers that complete in its transaction, do malformed rows only leave through the archive, does every row settle, is the abstract queue implemented? | 1 producer, 2 consumers in Go, 2 row identities, 1 crash, retries by holders whose lease is over, `FairSpec`, no symmetry | the interesting conflicts are of two holders of one row, and of one row with another of its batch; one crash is enough to lose a lease's holder |
| `pgmq_own` | Does a consumer on its own connection execute before it completes; does a lease keep others away from those who retry in time; which of what the constructors build can the four pairs of languages not read? | 2 producers and 2 consumers, one of each in Go and one in TypeScript, every class of body `Enqueue` accepts, 2 row identities, 1 crash, no stale retries | a third reader could only repeat what the second does; rows do not influence each other's validity |
| `pgmq_shared` (violation) | Can the four pairs of languages read whatever `Enqueue` accepts? | every class of body `Enqueue` accepts, 1 row | see section 6 |
| `content_columns` | Do checked rows rebuild, and flatten to themselves; do flattened rows pass the check; is every translation kept; do the runtimes rebuild the same page and the same view in one locale? | pages of 2 sections and blocks that vary in spelling, locales, attachments, mode and index (2 indexes, one on either side of the bound of a position), and of 3 that vary in shape (`MaxVaried` = 2); 1 column, 2 locales | columns in columns with a block inside need three nodes; a value is lost between one id, its spelling and its locale |
| `content_blocks` | Is the order of rows irrelevant; do the languages rebuild the same page; of which pages can TypeScript read what Go wrote? | 3 sections and blocks, a kind of both families, 2 indexes | an ancestor between two blocks, or two siblings under one section, need three |
| `content_placed` (violation) | Do flattened rows of every kind pass the check? | 2 nodes, `mermaid` | see section 6 |
| `editing_pair` | With two editors, two locales, lost answers and any order of groups: does the editor see what is stored, does a quiet batch leave the source alone? | a page or a post, 2 editors, 2 ids, 2 edits a batch, 2 saves, symmetry of editors | a conflict needs two editors, a lost answer a second save |
| `editing_columns` | The same for one editor with moves between columns, or for a post with a translation: is a valid document never refused, as member or system and with every list of contributors; does Go accept what TypeScript sends; does what was saved open, and which of it in a browser? | a page or a post, 2 ids, 1 column, 2 edits, 3 saves, indexes on both sides of the bound of a position | insert, move and delete of one id in three batches |
| `relay` | Does a room show what it takes itself for, and never go back to an older revision; is every commit relayed? | 1 target, 4 commits | create, write, delete and create again |
| `policy` | Are permissions nested; do only an artist's labels turn an added relationship into a loss; does the schema allow what the bindings write; are snapshots complete? | 1 account, 2 artists, 2 labels, one resource of every other form, `MaxChanges` = 4 relationships away from the core | no expression relates two accounts; a parent, or a second label, with someone in a role on it, takes three or four relationships |
| `release_runs` | Are the packages published in order and announced on true evidence, once and once more at most for each rerun of the notification; is every merged release published, and every push told, as long as nothing fails? | 3 pushes, 1 rerun of a run of either workflow, 1 failing step, `FairSpec` | a run that waits is displaced by the third push; a rerun while a notification reads makes its three answers of different attempts; one rerun of a notification tells twice |
| `release_lost` (violation) | Does merging a release PR lead to publication when failed runs are rerun? | 1 push, 2 reruns, 1 failing step, `FairSpec` | see section 6 |

`SYMMETRY` is used in `editing_pair`, for its editors, and in `policy`, for its
artists and its labels: nothing distinguishes them, and the properties are
invariants and properties of single steps, without liveness.

Properties that carry a precondition say why: `CheckedRowsReload` and
`FlattenedRowsPlaced` are about rows that form a tree, since neither runtime
checks the tree of a document (section 6), and the first also about kinds that
name a section or a block but not both, as the check of one row lets a block be
under a mermaid section; `TranslationsKept` is about rows with distinct ids, as
sections that differ in the spelling of their id only share one row's values;
`ValidPagesSave` is about documents the TypeScript editor accepts and leaves out
batches of a page about kinds of both families; the first part of `SavedPagesOpen`
leaves out, for a page, rows of kinds of both families, and more rows than a
document may have, which no check of a batch or of a row counts, and its second part is about
documents the TypeScript editor accepts, and says which of them a browser opens: those
without an index of 2^31 or more, as `BrowserReadsServerRows` says of pages; `SentBatchesAccepted` leaves out
contributors named twice in two spellings and the map sections of a page, which
only TypeScript knows; `QuietBatchesKeepSource` leaves out
deletions and moves inside a section, which TypeScript does not look at;
`SnapshotsComplete` leaves out the artists of a deleted label, whose edges the
plan does not read; `RoomsNeverGoBack` compares no revision of a missing target, which
has none; `LocalizedViewsAgree` is about views that TypeScript opens,
as Go opens more; `PublishedUnlessFailed` and `MaintainedUnlessFailed` end with
the first failing step.

## 4 Fairness

`pgmq_tx` assumes `FairSpec` of the queue: weak fairness of `Tick`, as the
database's clock passes; of `ReadSome(k)`, as consumers poll; and of handling
what a consumer holds, as a handler returns or fails in the end. Nothing is
assumed of producers, who may hang in a transaction for ever. Crashes are
bounded: a consumer that crashes before every completion settles nothing.
`EventuallySettled` needs the threshold on `ReadCount`, which is the consumer's
and not the runtime's: a handler that fails for ever and is never dead-lettered
keeps its row on the queue.

`release_runs` and `release_lost` assume `FairSpec` of the pipeline: weak
fairness of the notifications and of the steps of each run, as GitHub runs what
is queued, and of `RerunFailed(c)`, as people rerun what failed or was
cancelled; without the last the disagreement `release_lost` shows would be
nobody's surprise. Nothing is assumed of pushes, nor of reruns of all jobs.

The other runs assume nothing: authors, editors, services and rooms may stop.

## 5 Proofs

`PgmqTransportProofs` (any producers, consumers, commands, bodies and number of
rows; assumptions `BoundsAssumption`, `PartiesAssumption`, `InputsAssumption`):

- `TypeCorrect`: `TypeOK` is inductive; that no row waits a negative time needs
  the clamp of `DelaySeconds` and the test on the visibility timeout.
- `OutboxIsAtomic`: `OutboxInv` adds to the property that the rows of an open
  transaction are pending and carry its command, that no two transactions share
  a row, and that a row not handed out has no command. Without that a commit
  could publish another's rows.
- `EffectExactlyOnce`: `ExactlyOnceInv` adds that no delivery is marked as done;
  the rest is that a row is completed by the step that counts its effect.
- `LeaseIsExclusive` (assumes `~StaleRetry`): `LeaseInv` adds that a live row
  waits at least as long as any delivery of it has lease left, that deliveries
  are of rows that were sent, and that a consumer holds at most one delivery of
  a row. The first is what a late `Retry` breaks.
- `MalformedIsIsolated` (assumes consumers in Go): `MalformedInv` adds that
  every delivery of a malformed body is flagged and not done, and that no row
  that was not sent is executed.
- `EffectAtLeastOnce`: `DeliveryInv` adds that what a consumer holds is of a row
  that was sent, flagged as its language flags it, and that a delivery marked as
  done has a committed effect; a row is completed by such a delivery or with its
  effect.
- `ConstructedIsReadable`: a body of a constructor is a contract error for one
  reader only, Go, and for one class of dates, those `toISOString` prints with a
  sign. `DeliveryInv` gives the flag of each delivery, the rest are the classes.
- `TransportIsDurable`: each step maps to a step of `DurableQueue` or a stutter
  under the mapping at the end of `PgmqTransport`, from `OutboxInv`.

`RelayMutationProofs` (any source, targets and number of commits; assumptions
`LocalesDiffer`, `BoundAssumption`):

- `RoomsAreConsistent`, from `RelayInv`: revisions are integers,
  every relay on its way carries the revisions it leads from and to (`RelaysFit`),
  and the property itself. The step that carries it is `IncompleteFailsClosed`: a
  request with an unseen field is refused by the receiver's validator unless it
  still has the same operations and revisions.
- `TypeCorrect` and `CommitsAreRelayed`, from `HandedInv`: every
  revision, of the document, of a target, of a room or on its way, has been
  handed out, so that the request of a commit fits the receiver's validator.
- `RoomsGoOn`, from `NewestInv`: a relay leads from a content to one that is not
  behind it, and nothing a relay leads to or a room is at is ahead of the document.
  A relay that is applied starts at what the room shows (`RoomsAreConsistent`), and
  any other makes the room load what is newest.

`PolicyProofs` (any accounts, resources and number of relationships; assumption
`IdsAssumption`):

- `TypeCorrect`: `TypeOK` is inductive by `MethodsTyped`, that each method pairs
  a relation with subjects of its type.
- `SnapshotsAreComplete`: from `TypeCorrect`, a relationship that names a resource
  as its subject is a parent of its own type, which the snapshot reads, or a label
  of an artist.
- `Nesting`: `PermissionsNested` holds in every state, reachable or not
  (`AlwaysNested`); for artists by `PublishersManage`, that who publishes by all
  labels manages by all labels.
- `LossesComeFromLabels`: the closures of roles and parents, and with them each
  operator of the schema, grow and shrink with the relationships
  (`RolesFollow` to `ArtistsFollow`), `label.all` as long as labels stay.
- `FurtherLabelsTake`: a label's edge leaves all but `LabelsOf` as it was
  (`OthersStay`), and a longer list of labels that is not the first makes
  `label.all` smaller (`ArtistsLose`).

`ReleasePipelineProofs` (any number of pushes, reruns and
failures; assumption `BoundsAssumption`):

- `TypeCorrect` and `EvidenceIsPublished`, from `PipelineInv`: whoever is in the
  group of releases is a run that has not completed (`QueueOK`); one merged
  release is outstanding at a time (`ReleasedInOrder`), so that a run publishes
  its own commit's version or a later one (`CreatedOK`); a successful publish job
  of a release commit's run means that its version is published or is not the
  latest (`SuccessIsPublication`); and what a notification knows after each of
  its reads (`NoteTrue`), which holds although the run may be rerun, for another
  release, before the next, and although the notification itself may be a rerun.
- `PromiseIsKept`: the pipeline implements `Publication`, from `OnceInv`:
  `geul-proto` is out before `geul-event` is published (`ProtoFirst`), and no
  version is announced more often than once and once for each rerun of a
  notification of it. A version without a release, or whose own run has not
  succeeded, was not announced, and no notification of a success of its run waits
  or could be rerun (`UnreleasedFresh`, `OwnReleaseFresh`); once its run has
  published it, what was announced and what waits are together at most one more than
  what was asked for again (`PublishedSingle`): a rerun of the run makes further
  completions, but with a skipped job, which is no evidence. So what a notification is
  about to announce may be announced (`NoteFirst`). The call that arrives and fails
  counts as an announcement, and its notification tells again only if it is rerun.

`ContentPageProofs` and `ContentStorageProofs` (any ids, kinds,
columns, positions, locales, payloads, modes and size of pages; assumptions
`UuidAssumption`, `ColumnsAssumption`, `LocalesAssumption`, `SpelledAssumption`,
`IndexesAssumption`, `SettingsAssumption`, `MediasAssumption`, `ModesAssumption`,
`MaxDocumentBlocksAssumption`). `ContentPageProofs` is about documents and rows
alone. It starts with the operators: which
elements `FlattenSeq`, `Where` and `Reverse` give, that distinct ids are what
`UniqueIds` counts, that `InPlacementOrder` sorts (a counting argument over
ranks) and so returns the same for every order of the same rows, that `Lineage`
is closed and that a property handed from parent to child holds of a grounded
row if it holds of its root, by induction on the number of parent links.
`ContentStorageProofs` has the invariants of the author and the store.

- `StorageInvariant`: `StorageInv` is the types of document, rows and payloads
  together with what saving has established: the stored rows are the rows of the
  draft, or differ from them in attachments that went missing since (`FlatInv`).
  `TypeOK` needs nothing else; the properties that relate the stored rows to the
  draft they were flattened from need `FlatInv`, which `RewriteMissing` disturbs.
- `StorageTyped`, `StorageIgnoresRowOrder`: from `StorageInv` and the order lemmas.
- `StorageKeepsTranslations`: every entry of an overlay that TypeScript accepts
  names a section or block of the page in its stored spelling
  (`OverlaysMatch`), so the row of that id carries the entry's locale.
- `StoragePlacesRows` assumes that no kind in use names both a section and a
  block; the run `content_placed` shows that this cannot be dropped.
- `StorageReadByBrowser` is an equivalence: a browser opens the rows of a page it
  accepted if every index fits, and refuses them if one does not, as the row of that
  section or block then has a negative position and is validated where it stands.
- `StorageRuntimesAgree`, `StorageReadByBrowser` and `StorageReloads` rest on one
  notion, `PageShaped`: a section is at the root or in a section at the root that is
  not of rich text, a row of the family of blocks is below such a row or a
  rich-text section. On rows that are
  shaped and grounded "an ancestor is content of a rich text" and "is of the
  family of blocks" are the same, so that Go and TypeScript take the same rows for
  the blocks of a section. Each theorem shows that its premise makes the rows
  shaped: what TypeScript accepts, what was flattened of a page TypeScript
  accepts, and rows that each pass the check under their parent. For the last,
  `PageReturns` follows a row through rebuilding and flattening and finds it
  again (`SectionReturns`, `BlockRowsReturn`).
- `StorageViewsAgree`: the lemmas on rebuilding hold for any source locale, so what
  is left is what a change of it changes. A row that TypeScript opens in a locale has a
  value in it, be it a section or a block below one (`OpenedInLocale`); hence the rows are
  valid in that locale too and Go opens them to the same page (`OpenedAlike`, which
  `StorageRuntimesAgree` uses as well). The source only decides which overlays exist
  though nothing is in them, so the one of the locale is that of the whole page
  (`ViewOfWhole`). That a page translated in full opens (`EveryLocaleOpens`) needs that the
  overlays rebuilt with the new source still match the graph (`GraphInLocale`).
- The end of `ContentPageProofs` is about rows that are of a page TypeScript
  accepts, however they came to be stored: `RowsOfPage` says of each section and
  block of the page which row is its own. `GraphAccepted` shows that the blocks of
  a rich text that was accepted are accepted again once they are put together
  from rows, and `SavedOpens` the same of the whole page. `ContentStorageProofs` applies
  it to rows that were flattened, `ContentEditingProofs` to rows made by batches.

`ContentEditingLemmas` and `ContentEditingProofs` (any editors, ids, kinds, columns,
positions, locales, contributors, and bounds on edits and revisions; assumptions
`UuidAssumption`, `ColumnsAssumption`, `LocalesAssumption`, `FormsAssumption`,
`EditingBoundsAssumption`, `MaxDocumentBlocksAssumption`). The first says what
one edit, one flattening, one statement of the store and one rebuilding do; the
second draws the invariants from it:

- `EditingKept`: `EditingInvariant` is inductive. The rows pass the store's checks
  (`Checked`), each editor's document is well formed, with distinct ids and values
  of the kind of their section or block (`Document`), and its mutations are of
  nodes, places and values of the document's form, in groups of distinct
  locales (`EditsTyped`). What a document flattens to, what a batch flattens to and
  what the store makes of it in any order are then rows again, and rows that
  pass the checks open as a well-formed document (`Opened`).
- `EditingTyped`, `BatchesAccepted` and `QuietBatchesKept`: from `EditingInvariant`;
  the second compares the two runtimes' checks mutation by mutation, the third
  shows that a batch that is quiet for TypeScript has no base mutation at all, since an
  insert brings a source value, and nothing of the source locale.
- `SyncKept`: `SyncInvariant` is inductive beside `EditingInvariant`. An editor at
  the current revision sees the rows with its unsent mutations applied
  (`Agrees`). Documents and rows are compared by what they say: of each id its
  place (`ShapesOf`, `RowShape`) and its text in each locale (`SaysOf`, `RowSays`).
  An edit changes what the document says and what the mutations make of the
  rows alike (`EditsAgree`); a batch that is applied, in any order of its sorts,
  leaves rows that say just that, because a batch names an id in at
  most one base mutation and one value per locale (`NamedOnce`, `ValuedOnce`), and so the
  sorts commute (`SaveAgrees`); opening starts with nothing made (`ReloadAgrees`).
  Another's save moves the revision on and the editor is no longer bound. An
  empty value of a rich-text section says nothing, which is why the property is
  about `Meaning` and not about the rows.
- `EditorsKeptInSync`: with nothing unsent, `Agrees` says that document and rows say
  the same, and what a document says is what it flattens to.
- `SavedPagesOpened`: rows that pass the store's checks are in place (`RowsInPlace`),
  which is what `CheckedAccepted` of the page proofs needs for Go, with the two
  premises of the property: Go reads a negative position back as the index it was. The rows an editor is in sync with are those of its
  document (`SaidRows`), so that TypeScript opens them when it accepts the document and
  its indexes fit (`SavedOpens`, and `GraphAccepted` for a post), and refuses them when
  one does not.
- `MadeKept`: `MadeInvariant` is inductive beside the two. Unsent base mutations are
  named apart (`NamedApart`), no value that is sent is empty and a post's are of
  rich-text kinds (`AllFilled`), and nothing that an editor at the current revision sees as a
  section is stored as a block, nor the reverse (`FamilyKept`): a move keeps the family, and an
  id that is added is new to the document, hence, by `SyncInvariant`, to the rows.
- `ValidPagesSaved`: from the three. The Go runtime accepts the batch (`EditorSaves`,
  mutation by mutation as in `BatchesAccepted`, but from what made the mutations and not
  from TypeScript's check of the batch). The rows it leaves pass the store's checks: they
  say what the document says (`SaveAgrees`, `SaysTheTree`), hence stand where its rows
  stand, in its tree (`SavedTree`, `SavedPlaced`); what each row holds comes from an upsert that
  was sent or from a row that was stored (`ValueFrom`, `SavedFrom`), both of which fit
  (`SavedValueFits`), and of the same family (`Unmixed`, `SavedPayload`). The premise on
  kinds of both families is `Unmixed`, without which Go takes a section's value for a
  block's.

`EditingInvariant`, `SyncInvariant` and `MadeInvariant` contain sets of sequences and quantify over
all values, so TLC cannot evaluate them; the properties they imply are run.

Every invariant of the passing runs is proved. Only model-checked: liveness (`EventuallySettled`, `PublishedUnlessFailed`,
`MaintainedUnlessFailed`), which is out of TLAPS's reach.

## 6 Disagreements between code and text

With a run:

- **Two contracts for one envelope** (`pgmq_shared`). TypeScript's `enqueue`
  takes any date that `Date.parse` reads, Go's `Read` wants RFC 3339; Go's
  `Enqueue` takes base64 with line breaks, TypeScript's `read` does not. Both
  name it "the shared contract".
- **A mermaid block is taken for a section** (`content_placed`). The placement
  check decides by the kind, which names a section and a block, so a row that
  the page was flattened to is refused.
- **A release can be lost** (`release_lost`). When the release job fails after
  Release Please has tagged the release, its outputs are gone; the rerun finds no
  release to make, succeeds and publishes nothing, and neither does any later
  run, although the README says that merging the PR triggers publication.

Without a run of their own:

- An index of 2^31 or more is valid for TypeScript; Go stores it as a negative
  position (`int32(node.Index)`), reads it back as it was, and TypeScript, which
  decodes a position as a uint32, opens no page with such a row
  (`BrowserReadsServerRows` and `SavedPagesOpen` say so, and hold).
- `createPgmqEnvelope` takes any `Date`. Of a year outside 0..9999 `toISOString`
  prints a sign and six digits, which `Date.parse` reads and Go's `time.Parse` does
  not: Go archives the message (`ConstructedReadable` says so, and holds).
- The discovery can be told twice of one version: by a rerun of the notification, or
  of one whose second call failed after it arrived (`Publication` allows for it).
- TypeScript consumers do not check the types of header values; Go does.
- Go flattens a page whose sections repeat an id or form a cycle, although a
  comment speaks of one global tree; the rows can never be rebuilt.
- Sections of kind map and mermaid that have settings are refused by Go, which
  decodes their payload as the block of that name.
- A section with a parent and no column is stored in slot `sections` and rebuilt
  into a column named after the slot; the check of its placement refuses it.
- A page opened in one locale needs a value in it of every section for
  TypeScript, and only of the blocks of rich text for Go.
- TypeScript does not report the deletion or the move of a block inside a
  section as a change of the source of translations; Go's hash changes.
- Canonical hashes are of JSON in Go and of another text in TypeScript: the order
  of nested keys, the escaping of HTML and absent lists differ, so hashes of the
  two languages cannot be compared.
- An explicit empty parent of a block in a section is the section for Go, and
  stays empty in TypeScript (`?? sectionId`).
- When `geul-proto` was published and `geul-event` was not, rerunning the failed
  job stops at the version that exists and rerunning all jobs skips the
  publication: the second package needs a hand.
- The discovery is not told of a version whose release was made by another
  commit's run, whose notification was displaced by another, or whose
  verification failed after both packages were out.
- Go takes a page batch without mutations; TypeScript, and Go for posts, do not.
- Contributors are compared as spelled by TypeScript and in lower case by Go.
- `TrimSpace` and `trim` differ on U+0085 and U+FEFF.
- A missing target has no revision: a relay of its creation that arrives after
  its deletion is applied by a room that loaded in between.
- When only the expected revision of a target is unseen, a later write of the
  target passes for its first; the model leaves this case out, as no validator
  can tell.

## 7 What is not modelled

Within the modelled components: validation of single field values and the
descriptors behind it, the bytes of canonical hashes, locales that are explicitly empty, the limit on a document's blocks
beyond its guard, the storage of whole posts beyond what editing makes of them.
Time is counted in half seconds and clocks agree: the
database's is the only one. A store that loses committed data is outside.
Of the policy: the checks the loader makes of a catalog, requests (which name a
resource and a permission and keep nothing), delegation, the writing of
several relationships at once, and SpiceDB's limit on depth. Of the relay: the revision
of the document that the token of a target carries. Of the release: the access job of pull
requests, which changes nothing, and a deployment repository that fails to act
on what it is told.

Components without a module, with the reason for each, are in `PROJECT.json`:
generators without a state, declarations whose handlers are elsewhere
(the OG lease, the ingest of files, the configuration revision of posts, the
admission to collaboration, NOTIFY signals) and generated code. Most of the
repository's lines are such code: of some 82 600 lines of TypeScript,
JavaScript and Python, about 68 000 are written by protoc and carry descriptors
and message types without behaviour. The hand-written Go halves of the runtimes,
which the models also translate, are not among these lines.

## 8 Plan

Done: the queue, page content, editing pages and posts by batches, the relay,
the policy's permissions, relationships and snapshots, the release.

1. **Catalog loader**: the checks of `catalog-source.mjs` over bounded catalogs,
   against what they mean to guarantee: a chain of roles, expressions that name
   what is declared. They are one pass over static input, so a table of catalogs
   rather than a behaviour.
2. **Content**: explicit-empty locales, whole posts in storage, an abstract
   document that editing implements.

# A TLA+ verification of game-systems-api

game-systems-api keeps a catalog of role-playing game systems. Editors change
systems at once, submitters propose changes that reviewers accept, reject or
accept field by field, and every change is a new immutable version. This
directory holds TLA+ specifications of that service, the TLC configurations
that check them on small instances, and theorems about them checked by TLAPS.

All paths below are relative to `src/`.

## 1. Inventory

| Part | State it keeps | Operations | Where |
|---|---|---|---|
| Catalog store | MongoDB collections `game_systems_meta` (one record per system: slug, current version number, audit fields) and `game_systems_versions` (one document per version: content, state, base, review trail) | `GetMeta`, `GetVersion`, `nextVersionNumber`, inserts, `setVersionState`, `setMetaCurrentVersion`, unique indexes | `models/versioning.go` |
| Field diff and merge | none | overlay of a PATCH body, `changedFields`, target, conflicts, derived version | `models/versioning.go`, `server/game_systems.go` |
| Editorial workflow | none beyond a request's local variables | POST, PATCH, accept, reject, retract, set current | `server/game_systems.go`, `models/versioning.go` |
| Reads, listing, statistics | none | `Get`, `List`, `ListVersions`, `CountGameSystems` | `models/`, `server/` |
| Change events | a request's event in the making; the JetStream stream (external) | `publishSystemChange`, `Publisher.publish` | `server/game_systems.go`, `internal/events/` |
| Startup | the four indexes | `EnsureIndexes`, serving whether or not it succeeded | `cmd/game-systems-api/main.go` |
| Slug migration | the slugs in use, read once | list, then per record: load its version, make a slug, update | `cmd/migrate-system-ids` |
| Backfills | the records or the plan read once | list or distinct, then one update after another | `cmd/backfill-*` |
| Authorisation, rate limit, metrics, tracing, status | none of the catalog's | library middleware | `server/`, `cmd/` |

How the parts interact: each HTTP request runs on its own goroutine in one of
two replicas (`kubernetes/`), calls one function of `models/versioning.go`, and
that function runs two to nine database operations one after the other. The
replicas share nothing but MongoDB. There is no transaction, no lock and no
conditional update: reads guide writes made several operations later. After a
mutation that changes what is current, the handler reads the current version
again and publishes a change event. The one-off commands connect to the same
database from outside, read first and write later, while the service runs; the
migration's result is what the service's unique slug index needs before
`EnsureIndexes` can create it.

What is hard about it: two requests interleave at every database operation; a
request may end between any two (a database error, a client that goes away and
whose context cancels the remaining updates, a replica that dies) with no
compensation; the pointer and the states of two version documents are changed
by three separate writes; the merge of a field-wise accept relates four
versions; an event is put together from two further reads while others publish,
and the stream may store it late, twice or never; a command may be interrupted
anywhere and is run again. The hazards, each at its line, are listed in `PROJECT.json`.

What makes the parts correct:

- the store never loses or rewrites a version, numbers have no gaps or repeats,
  and the pointer only ever names a version that is not awaiting review;
- a submission is decided only by a request that names it, by someone who may;
- a derived version is the current one plus what the submitter changed and
  nobody else did;
- with requests one at a time, exactly the current version is live;
- a PATCH stores its body over one published version, whatever is published
  between its reads;
- a refused request has stored nothing; an id names a second system only when a
  slug is spelled like an `_id`;
- every request is answered, whatever the broker does;
- an event states the truth about one system, a mutation has one event under one
  id, and the version current in the end is among the events;
- paging shows every match once while nothing changes, hides none because systems
  are added and at most one for each version archived meanwhile;
- the migration never changes a slug in use, and migration and restarts end with
  all slugs that can be given and, unless two records can get none, all indexes;
- the backfills finish their work and never turn anyone into another person.

## 2. Modules

| Module | What it is |
|---|---|
| `FieldMerge` | Contents as functions from fields to opaque values; `Overlay`, `changedFields`, `Target`, `Conflicts`, `Derived` |
| `CatalogStore` | The two collections as partial functions from document ids; the queries and single-document writes; extends `FieldMerge` |
| `Versioning` | The six mutating requests as processes over `CatalogStore`, one action per database operation |
| `SystemHistory` | The abstract specification: an append-only numbered history per system, a set of pending versions, a pointer to decided versions |
| `VersioningProperties` | Types, guarantees, the refinement mapping to `SystemHistory`, and the claims concurrency breaks |
| `MCVersioning` | Values of the constants for TLC |
| `VersioningInvariant` | The inductive invariant: what every write keeps of the collections, and what a request may rely on at each step |
| `ChangeEvents` | Composes `Versioning` with what a handler does after its mutation, the publisher and the stream |
| `ChangeEventsProperties` | What consumers of the events can rely on |
| `ListQuery` | GET /systems: parameters, clamping, filter, sort, page, total; a client that walks the pages |
| `Rollout` | Replicas that start and create indexes, the slug migration, creations and PATCHes meanwhile |
| `Backfills` | Both backfill commands next to the service's writes of audit fields |
| `MCChangeEvents`, `MCListQuery`, `MCRollout`, `MCBackfills` | Values of the constants for TLC |
| `VersioningProofs` | Type correctness of `Versioning`, proved |
| `HistoryProofs` | The invariant of `Versioning`, proved, and what follows from it |
| `OutcomeProofs` | What refused and unfinished requests leave behind, proved |
| `EditorialProofs` | What decisions, merges and publishes mean: with any races, with PATCHes alone, and with requests one at a time, proved |
| `ChangeEventsProofs` | The events are well formed, true, one per mutation, and none is missing, proved |
| `RolloutProofs` | Types, slugs in use are kept, one operator's slugs differ, proved |
| `ListProofs` | Answers keep their limits; a walk through the pages is exact, or skips no more than was archived, proved |
| `BackfillProofs` | The audit trail keeps its shape and its persons, proved |

`Versioning` extends `CatalogStore`, which extends `FieldMerge`; `ChangeEvents`
extends `Versioning` and adds variables, so every behaviour with events is one of
the workflow (`WorkflowUndisturbed`). `Rollout` and `Backfills` model the service's
writes again, reduced to what the commands and the indexes look at: `Versioning`
assumes the unique indexes, `Rollout` is about the time before they exist.

### The workflow

`meta` and `versions` are the collections. `NewObjectID` never repeats and a
request inserts at most one document in each collection, so a document's `_id`
is the request that inserted it; `Seed` is the pair that exists at the start,
as `Create` would have left it. What a URL may hold (`GetMeta`'s `$or`, `Get`'s
fallback) is `MetaId`, `SlugId` or `DocId`. A slug of 24 hexadecimal digits is a
valid one (`SystemIDPattern`), so a slug may be spelled like an `_id`: `SpelledAs`
says which slugs are, and `GetMeta` then finds two records, of which the query's
limit takes either. `IdsApart` says that none is. Timestamps and the review note
are left out: nothing in the workflow reads them. `NoVersion` (0) is a nil `*int`.

A request q has a program counter `pc[q]` (the database operation it runs
next), a job `job[q]` (its decoded input) and local variables `reg[q]`. An
action is one database operation with the local computation up to the next:

| Request | Steps |
|---|---|
| POST /systems (`Create`) | `CreateInsertMeta`, `CreateInsertVersion` |
| PATCH (`patchGameSystem`, `CreateVersion`) | `PatchResolve`, `PatchRead` (Get), `PatchBase`, `PatchNumber`, `PatchInsert`, and for editors `ArchiveCurrent`, `PointMeta` |
| accept, whole and nothing published since | `AcceptLoad`, `AcceptDecide`, `ArchiveCurrent`, `AcceptPromote`, `PointMeta` |
| accept otherwise | `AcceptLoad`, `AcceptDecide`, `AcceptNumber`, `AcceptInsert`, `ArchiveCurrent`, `PointMeta`, `AcceptClose` |
| reject, retract | `RejectLoad`/`RejectMark`, `RetractLoad`/`RetractMark` |
| set current | `SetCurrentResolve`, `SetCurrentRead`, `ArchiveCurrent`, `SetCurrentRestore`, `PointMeta` |

Reads of immutable data (a version's content, base and submitter) are merged
into the step that uses them; `AcceptDecide` is the only step that covers more
than one query for this reason. Its one read of mutable data is the meta record.

`Refuse` is an answer the code gives by itself (400, 404, and the 500 of a
duplicate number). `Abort` ends a request at any step: every
`if err != nil { return }` of `models/versioning.go` has this effect, and since
an abort may come after the step's write it also covers an operation that took
effect although its acknowledgement was lost. Reads for the response (the final
`Get`) change nothing and are not steps of `Versioning`; in `ChangeEvents` they
are, as an event depends on them.

### Change events

`Handle` is a step of the workflow; when it answers a mutation that `Announces`,
the request's `notice` starts. POST and PATCH read the system again first
(`Confirm`) and answer 500 without an event when that read fails
(`ConfirmFails`). `publishSystemChange` is `LoadMeta` and `LoadVersion`, the two
reads of `models.Get`, between which others may publish; the event being built
is `letter[q]`. `Publish` draws a new `event_id` (`nth` counts a request's publishes)
and hands the event to the wire; `Acknowledged` or `GiveUp` (the publish timeout,
or the client's context) ends the wait. `Drop` is a failed read or send. `Deliver`,
which may leave a copy on the wire, and `Lose` are the stream's: within its
duplicate window it discards a message id it has stored, after it stores the copy
again, at most `MaxLate` times in a behaviour (`Late`). Publishing is enabled:
with `NATS_URL` unset nothing of this happens.

### Listing

A document of `ListQuery` is a version joined with its meta record. `Parsed`,
`Page`, `PerPage` and `Skip` are the parameters; `Skip` keeps Go's width (two's
complement in `2 * HalfRange`). `$sort` leaves the order of equal keys open, so
`Arrangements` is the set of sequences it may produce and a page is a window of
any of them: without the `_id` tiebreaker different pages may disagree. `Ask` is
one request with arbitrary parameters, `Walk` and `NextPage` a client that pages
until it sees an empty page. Meanwhile `Add` puts a row into the listing and
`Archive` takes one out. A creation is the first alone; a PATCH inserts the new
live version and archives the old one in separate steps, and so is both; a
rollback makes an old row reappear.

### Roll-out

Names are sequences of words and punctuation; `slugify` lowers and joins the
words, which is what decides whether two names collide, and `FreshSlug` tries the
suffixes. A replica is at one of the indexes of `IndexOrder`, `serving` or
`down`: `EnsureIndex` moves on or, at the first index that cannot be built, goes
to `serving`, as `main` only logs the error. Serving replicas take creations and
PATCHes (two or three steps each); `SlugTaken` and `NumberTaken` refuse only
while the index exists. An operator's run is `MigrateList`, then `MigrateLoad`
and `MigrateUpdate` for each record in any order (a cursor's), with the names and
pointers as read at its start. The update's filter is `Matches`. `Losses` are the
sets of legacy records that may lack their version document: the migration skips
them, so they stay without a `system_id`. Two of them are equal for the unique
slug index, which then can never be built, nor the index after it.

### Backfills

`StamperList` selects the records without `updated_at`; `StamperUpdate` writes one
by `_id` alone, as the code does. `RewriterDistinct` collects the subjects of the
four fields, `RewriterResolve` makes the plan, `RewriterUpdate` is one
`UpdateMany`. A run without `-apply` takes the same steps without the writes.
`RewriterDies` may leave an update half done. The service's requests are all that
write a part of the trail: PATCH, a submitter's PATCH, whole and field-wise
accept, rejection and rollback begin with `Arrive`, which copies the trail of the
version they are about (`copy`); a creation with `Bind`, since the body of a POST
may carry a reviewer, and `Enter`, which stamps the new record. `Insert`, `Review`
(`setVersionState`) and `Point` (`setMetaCurrentVersion`) come later and may bring
a subject back behind the rewrite. A retraction touches no audit field.

## 3. Runs

### The workflow

Two fields, three values, an editor, a submitter and a reviewer. Two PATCH
bodies clash on one field and differ on the other, so a merge has a conflict, a
field to carry over and a field to leave. Bounds: `Requests`, `MaxInFlight`
(requests handled at once), `MaxAborts`.

| Run | Bounds | Shows |
|---|---|---|
| `editorial` | 4 requests, 2 at once, 1 abort | `TypeOK`, `CurrentPublished`, `HistoryInv`, `PartialFaithful`, `DecidedByName`, `PatchCopiesPublished`, `ImplementsHistory` |
| `creation` | 3 requests, 3 at once, 1 abort, all forms of id | `RefusedLeavesNothing`, `VersionlessOnlyByCreate`, `CurrentLiveOrBeingReplaced`, `HistoryInv` |
| `serial` | 4 requests, one at a time, 1 abort, all forms of id | `AtRestOneLive`, `ConflictsNotOverwritten`, `PublishRepairs` |

A race needs two requests in flight; the deepest scenario the properties speak
of is a submission, a publish on top of it, an accept of the submission and a
request racing that accept, which is four requests of which the last two
overlap. One abort suffices for the safety properties because an abort only
removes later steps: two aborted requests leave what each leaves alone, and the
requests after them see that state. Requests are symmetric and the safety runs
use that; the liveness runs do not.

`serial` narrows the environment on purpose: its properties are false of
concurrent reviews, as the runs below show, and what remains true without that
concurrency is worth knowing. After its abort (anywhere, a publish that has
archived the old version and not moved the pointer included) `PublishRepairs`
says that whatever is published next is live again; `AtRestOneLive` speaks of
behaviours without aborts.

`PatchCopiesPublished` is the part of "a PATCH changes only its fields" that
survives concurrency. `patchGameSystem` copies the version current at one read,
`CreateVersion` reads the pointer again and names that one as base: when another
request publishes in between, the new version's content is that of the older one
with the body's fields replaced (see the known disagreements). What is kept is
that it is the content of ONE published version of the same system, whole, with
nothing replaced but what the body names.

### Events, listing, roll-out, backfills

| Run | Bounds | Shows |
|---|---|---|
| `events` | 3 announcing requests, 2 at once, 1 drop or loss, redeliveries within the duplicate window unbounded | `EventTypeOK`, `EventsFaithful`, `CurrentAnnounced` |
| `progress` | 2 requests of every kind, one slug spelled like the system's `_id`, 1 abort, 1 failed read, 1 drop, 1 redelivery after the window, handlers fair | `EveryRequestAnswered`, `PublishedBecomesCurrent`, `BrokerNeverBlocks`, `IdsNameOneOrTwo`, `OneEventPerMutation` |
| `paging` | 6 documents with ties, every subset, all parameters, up to 2 added and 2 archived during a walk, integers -8 to 7 | `AnswerTypeOK`, `WalkExact`, `SkipsBounded`, `TotalIsWalkLength` |
| `rollout` | 4 legacy records of which one or two lack their version, 1 replica, 2 operators, 1 request, 1 failure, fair | `RolloutTypeOK`, `SlugsDistinct`, `SlugsKept`, `RolloutCompletes` |
| `backfills` | 2 records, 3 versions, 2 subjects (one unknown to users-api), 1 request of any of seven kinds, 1 failure, 1 dry run, fair | `BackfillTypeOK`, `ProvenanceKept`, `StampedInTheEnd`, `CanonicalInTheEnd` |

`events`: three mutations are what it takes for one event to overtake another
while a third is between its two reads. Creations, PATCHes, accepts and
rollbacks announce; a submitter's PATCH must not. `CurrentAnnounced` speaks of
behaviours without failures; it does not say that the LAST event in the stream is
the current one, which is false: events overtake each other, and a consumer must
look at all of them.

`progress`: the second slug is spelled like the `_id` of the system that exists,
so two creations may race for an ambiguous id while PATCHes, accepts and rollbacks
name the system by that id or by its version's; `IdsNameOneOrTwo` says that this
spelling is the only way to make an id ambiguous and that none ever names three.
Messages may be stored after the duplicate window, so two entries of the stream
can be copies; `OneEventPerMutation` says that copies are all they are: the
handler never publishes a second event_id. `MaxLate` bounds the length of the
stream only; one late copy shows the case, and `OneEventAlways` is proved for any.

`paging`: three documents share a name and two a creation time; one is pending,
one soft-deleted. Page sizes 1, 2 and 3 put boundaries inside a group of equal
keys. The largest integer as page number makes the skip overflow both to a
negative number (which MongoDB refuses) and to a small positive one. Offset
paging may show a row twice while systems are added, and skips one when a version
that was shown is archived, because the rows behind it move forward. `SkipsBounded`
is what is left: no more systems are skipped than versions were archived, and
none by additions. The bound is reached, with one archived version as with two.

`rollout`: the names "Dune", "dune!" and "Dune 2" slugify to the same slug or to
the one another gets by its suffix, and one record has that slug already; a
fourth lacks its version document, and in some behaviours "dune!" does too, so
that there are two records no run can give a slug. The request creates a system
called dune or renames a record to "dune! 2". Two operators matter for `SlugsKept`, one for the
others: `SlugsDistinct` and `RolloutCompletes` are stated for one operator and no
creation (`Undisturbed`), because with a second writer of slugs the missing index
lets two records take the same slug, and then no run of anything creates it.
`RolloutCompletes` leaves out what the commands cannot mend (`Hopeless`): a record
without a version, a version whose name has no letter or digit; and two versions
with one number. It says what follows for the indexes: with one record without a
version all four are there in the end, with two none ever is.

`backfills`: one record has no creation time, one version is pending. The one
request may be any of the seven kinds that write or copy a part of the trail, on
any version they may be about, by the one user; a creation's body may name any
actor as reviewer. With it every write of the service meets every step of both
commands.

Deadlock is checked in every run. In `editorial`, `creation`, `serial`, `events`,
`progress` and `paging` a behaviour ends with an explicit stuttering step when
everything is answered; the commands of `rollout` and `backfills` can always be
run again.

### Fairness

- `HandlersFair` (`progress`): weak fairness of each request's own steps, in the
  workflow and while it announces, which includes `GiveUp`. Each request has a
  goroutine, the driver's calls return or fail, and the publisher's context has a
  timeout. Arrivals, aborts, failures and the broker are not fair: nothing is
  assumed of the stream. `PublishedBecomesCurrent` holds only without aborts: a
  failure between the insert and the pointer leaves a live version that never
  becomes current, which the code accepts.
- `Rollout!FairSpec`: a pod that is down is started and goes through its indexes
  (Kubernetes); a pod that serves without some index is restarted in the end
  (somebody reads the log); somebody runs the migration again and again and the
  process goes on. The service's requests are not fair.
- `Backfills!FairSpec`: both commands are run with `-apply` again and again, and a
  request in flight is finished. Dry runs and failures are not fair, and bounded.

### Disagreements with the repository's own text

| Run | Claim | What the code does |
|---|---|---|
| `reject_race` | `models/versioning.go:588`: marks a *submitted* version rejected | the update does not test the state; a version that an accept or a rollback has made live in between becomes rejected |
| `accept_race` | `models/versioning.go:459`: conflicts are "not silently overwritten" | the accept compares against a meta record read earlier |
| `accept_by_slug` | `models/versioning.go:484`: a slug is normalised | the version is looked up with the slug first, and not found |
| `unindexed` | `models/versioning.go:35`: `EnsureIndexes` "creates the indexes game system version queries rely on" | it stops at the slug index while slugs are missing, so the number index is not created and two PATCHes store the same number |

Each of these runs checks that one property and finds a behaviour that violates
it; `PROJECT.json` quotes the lines.

### Known disagreements

These were met while modelling and have no run of their own. The models do what
the code does; no property claims the contrary.

- **Two live versions.** `models/stats.go:9-10` says the count matches "what List
  returns". Two concurrent PATCHes that read the same current version each archive
  only that one (`models/versioning.go:400`): both stay live and List returns the
  system twice, while the count, one query on the meta records, has it once. A
  PATCH that ends between its insert and the pointer leaves a second live version
  as well, and no later publish archives it (`PublishRepairs` is about the version
  that becomes current, not about the others).
- **Ambiguous id.** `models/versioning.go:72-73` says that an id matches the `_id`
  or the slug. A slug may be 24 hexadecimal digits (`:26`) and equal to another
  system's `_id`; the query (`:77-80`) then matches two records and its limit of 1
  takes either, at each call anew. Such an id can reach the wrong system, a PATCH
  can copy one system's snapshot into the other, and an accept or a rollback can
  move the wrong pointer. So every theorem that depends on what an id names assumes
  `IdsApart`; `IdsNameOneOrTwo` bounds the damage without it.
- **Stale PATCH.** `server/game_systems.go:200` copies the version current at
  that moment; `CreateVersion` reads the meta record again and takes its pointer as
  base (`models/versioning.go:385`). What another request publishes in between is
  reverted in every field the PATCH does not name, and the new version's base is a
  version it was not made from.
- **Retract race.** Like `RejectVersion`, `RetractVersion` tests the state
  (`models/versioning.go:618`) and updates without testing it (`:624`): a version
  that is accepted in between is live, may be current, and becomes withdrawn.
- **Inherited review.** `models/version_lifecycle.go:9-10` calls the trail the
  version's own. `CreateVersion` (`models/versioning.go:385`) resets every
  lifecycle field of the copy it starts from except the reviewer, the review time,
  the note and the resulting version.
- **Stuck rollback.** `SetCurrentVersion` (`models/versioning.go:631`) makes a
  version live and current; when the version already is current it returns early
  (`:649-651`), also if a failed publish left it archived. A rollback to another
  version, or any publish, repairs it (`PublishRepairs`).
- **Lost announcement.** `server/game_systems.go:19` says "after every committed
  mutation". A mutation whose response cannot be read back (`:275-279`,
  `:184-186`) is answered 500 and not announced.
- **`entity_id`.** `internal/events/envelope.go:12` says it is the meta document's
  id. The handlers pass the id of the URL (`server/game_systems.go:280`, `:357`,
  `:412`), which may be a slug; `EventsFaithful` therefore resolves it as `Get`
  does.
- **Walks while systems change.** `models/versioning.go:227-228` says that "paging
  can't skip or repeat rows that share a sort value". That is so of an unchanging
  collection, and of all rows (`WalkExact`);
  each version archived during a walk, and so each PATCH of a live system, can make
  the walk skip one system that nobody touched.
- **Skip overflow.** `models/versioning.go:200-201` says an out-of-range page is
  clamped. Only its lower end is: a huge page wraps the skip (`:246`), and the
  query fails or answers a low page under a high number.
- **Creation during the migration.** `cmd/migrate-system-ids/main.go:18-21` wants
  the service running while the migration is. The slugs in use are read once
  (`:47`): a system created meanwhile may take a slug the run hands out, and the
  index can then not be created until a slug is changed by hand.
- **Records without a version.** `models/versioning.go:35` promises the indexes the
  queries rely on. The migration skips a record whose version it cannot load
  (`cmd/migrate-system-ids/main.go:59-62`); two
  such records lack `system_id` for good, the unique slug index is refused at every
  start, and none of the four indexes is ever created (`RolloutCompletes`).
- **Names without letters or digits.** The slug pattern (`models/versioning.go:24`)
  excludes the empty slug and a leading dash; the migration
  (`cmd/migrate-system-ids/main.go:67`) gives such names "" and "-2". A record with
  "" counts as one without a slug (`:49`, `:73`), so when a run ends between two such
  names the next one may give the second "" as well. The attempt to prove
  `SlugsDistinct` for all names showed this; `OperatorAlwaysDistinct` is what holds.
- **Stamp race.** `cmd/backfill-audit-fields/main.go:6` says a record that has
  `updated_at` is skipped. The update (`:75-77`) filters on `_id` only: a record
  the service updates after the selection loses that stamp to its creation's.

## 4. Proofs

The proofs hold for any number of requests, users, slugs, fields and values,
replicas, operators, records and failures, under the named assumptions on the
constants (`SeedAssumption`, `SpellingAssumption`, `WorkflowAssumption`, `EventAssumption`,
`RolloutAssumption`, `BackfillAssumption`, `ListAssumption`: the constants have the
types their comments give, the seed is no request, two slugs are not spelled alike,
subjects are not user ids, and there are finitely many records and requests),
`NumeralsDiffer`, and
`CollectionAssumption` (the collection is finite, and a page more than the systems
it lists is fewer than Go's integers can count), all of which the runs evaluate.

The theorems of `HistoryProofs` but the last, and all of `OutcomeProofs` and
`EditorialProofs`, `EventsAlwaysFaithful` and `CurrentAlwaysAnnounced`, state one
hypothesis more: `IdsApart`, no slug of the behaviour is spelled like an `_id`.
Without it the id a request looks up twice may name two records in turn, and what
is proved is false (see the known disagreements). The types, the events' ids,
`WorkflowUndisturbed` and `IdsAlwaysNameOneOrTwo` need no such hypothesis.

- `TypeCorrect` (`VersioningProofs`): `Spec => []TypeOK`. Types alone are not inductive, since
  `PatchInsert` and `PointMeta` write the number in `reg[q].next`; the invariant
  adds `NextKnown`, that at every step that uses that number it has been
  computed or asked for. The proof treats the store and the request bookkeeping
  apart: one lemma per kind of write (`InsertMetaType`, `InsertVersionType`,
  `ArchiveType`, `PointType`) and per way of moving on (`GotoType`,
  `RememberType`, `AnswerType`, `StartType`), then one lemma per handler with a
  case per action.
- `HistoryAlwaysKept`, `CurrentAlwaysPublished` (`HistoryProofs`):
  `Spec => []HistoryInv` and `Spec => []CurrentPublished`.
  `CurrentPublished` is far from inductive: a request moves the pointer to a
  number it found several operations earlier, while others write. `HistoryInv`
  (`VersioningInvariant`) adds what makes that safe. Of the collections: numbers
  are unique and dense in a record, every version but the first has a published
  base, slugs are unique, and the pointer was published (`CurrentKnown` also
  covers a record whose first version is not stored yet: its pointer is 1). Of a
  request: its own documents are not stored before it inserts them (`Fresh`);
  the record it read is still the one its id names (`RecordRead`, which needs
  the unique slug, as `PatchBase` looks the id up a second time); the current
  version it read is still a published one, although it may no longer be current
  (`CurrentRead`); the number it will insert comes after numbers in use, and the
  one it will point to is published by then (`NumberFound`).
- `HistoryImplemented` (`HistoryProofs`): `Spec => ImplementsHistory`. Every step
  from a state in `HistoryInv` is a `Register`, `Append`, `Decide` or
  `MovePointer` of `SystemHistory`, or stutters.
- `IdsAlwaysNameOneOrTwo` (`HistoryProofs`): `Spec => []IdsNameOneOrTwo`, whatever
  slugs are spelled like. Slugs stay unique by the index without any help from
  `HistoryInv` (`SlugsUnique` is inductive with the types); so an id is the `_id`
  of one record and the slug of one at most (`MetaTwoAtMost`), and when it is both
  of two different ones a slug is spelled like it (`AmbiguousOnlySpelled`).

The argument of `HistoryProofs`: a write of whatever request only adds
(`Grows`), and what it adds belongs to that request (`AddsOnly`); so what the
other requests rely on survives it (`OthersKept`). What is left per action is
that the write keeps the collections (`MarkKeeps`, `PointKeeps`,
`InsertMetaKeeps`, `InsertVersionKeeps`, which also map it to a step of the
history) and that the acting request may rely on what its next step needs
(`CreateKeeps`, `PatchKeeps`, `AcceptKeeps`, `DecisionKeeps`, `SetCurrentKeeps`,
`SharedKeeps`). `HistoryInv` was checked with TLC first; two runs keep doing so.

- `RefusedAlwaysLeavesNothing` (`OutcomeProofs`): `Spec => []RefusedLeavesNothing`.
  The inductive part is `OwnDocuments`: a request that has stored a document is
  past every step that refuses.
- `VersionlessAlwaysByCreate` (`OutcomeProofs`): a new record appears only in
  `CreateInsertMeta`, and its creator is between its two inserts or has been
  aborted there; from `HistoryInv` and `OwnDocuments`.
- `AlwaysDecidedByName` (`EditorialProofs`): `Spec => DecidedByName`. The update that
  decides a submission tests nothing but its `_id`, so the proof is about what the
  request checked earlier: `EditorialInv` says that the record it holds is still
  the one its id names (`Named`) and that a version it may withdraw is still its
  submitter's (`OwnSubmission`). `Rewritten` lists the writes that touch a stored
  version at all, and `StepMoves` what each does to its state.
- `PartialAlwaysFaithful` (`EditorialProofs`): `Spec => []PartialFaithful`. The merge
  relates four versions, read at different steps. `MergeFound` (of `EditorialInv`)
  says what the accept holds from `AcceptDecide` to `AcceptClose`: first the content
  it has put together (`CopyMade`), then the stored version that has it
  (`DerivedFrom`); `MergeKept` is that no other request disturbs it, since contents
  and bases never change.
- `PatchAlwaysCopiesPublished` (`EditorialProofs`): `Spec => PatchCopiesPublished`,
  with any requests publishing, accepting and submitting at the same time.
  `PatchSource`: from its read to its insert a PATCH holds the body laid over the
  content of a version of its own record that is published (`SourceRead`). It may
  have been replaced and archived meanwhile, but contents never change and a
  published version never becomes a submission again (`SourceKept`).
- `PatchAloneStaysListed` (`EditorialProofs`), under `PatchAlone` (no accept and no set
  current among `Ops`, as in the run `creation`): `Spec => []CurrentLiveOrBeingReplaced`.
  `PublishInv`: the current version of a system is live or held by a request that
  will still move the pointer, and such a request's new version is live and not
  current. Accepts and rollbacks break it, as they publish versions others archive.
- `SerialRepairs`, `SerialKeepsConflicts`, `SerialRestsOneLive`
  (`EditorialProofs`), under `Serial` (`MaxInFlight = 1`): the three properties of
  the run `serial`, for any number of requests one after the other, with any number
  of early ends but for the last. `AloneInv` says what a request may rely on while
  it is alone: the version it read is still current (`CurrentHeld`), what it will
  point to is live (`NextLive`), the submission is pending (`StillPending`), its
  content is the base with the body laid over it (`Overlaid`) and what it publishes
  is based on the current version (`BasedOnCurrent`). `RestInv` counts the live
  versions of the record being moved, step by step (`MovingLive`), and of the others.
- `WorkflowUndisturbed` (`ChangeEventsProofs`): `EventSpec => Spec`, so all of the
  above holds with events.
- `EventTypeCorrect`, `OneEventAlways` (`ChangeEventsProofs`): the second without any
  bound on late copies. `Mailed`: what is on the wire or in the stream is the letter
  of its request, as it was sent, and that request is past sending; no step leads
  back to `send` (`LetterKept`), so there is one letter per request.
- `EventsAlwaysFaithful` (`ChangeEventsProofs`): `EventSpec => []EventsFaithful`. The
  invariant `Truth` says what a handler may rely on between its reads
  (`LetterTrue`: the record still answers to the id, the number it read was
  published) and that what is on the wire is true. It is kept because versions
  never change, published ones never become submissions again and an id keeps its
  record; those are facts about `HistoryInv` (`ResolvedStays`, `TruthStays`,
  `WasCurrentStays`).
- `CurrentAlwaysAnnounced` (`ChangeEventsProofs`): `EventSpec => []CurrentAnnounced`.
  `Coverage` says, while nothing has failed, that every system's current version is
  told: in the stream, on the wire, in the letter of a request that is announcing,
  or due to a request that has yet to read the pointer (`Tells`, `WillTell`); or it
  is the seed's first and nobody has touched it (`Untold`). A request that moves the
  pointer becomes such a request in the same step; one that overtakes another's
  pointer takes over its duty, because `LoadMeta` reads the pointer after both.
- `SlugsAlwaysKept` (`RolloutProofs`): no step changes a slug that is present, since
  the migration's update filters on it and a creation writes under an `_id` of its
  own (`NotYet`).
- `RolloutTypeCorrect` (`RolloutProofs`): `Spec => []RolloutTypeOK`. The number a
  PATCH inserts comes from the numbers it found, and records never go away; `TypeInv`
  adds what each request knows of its record and its number (`RequestOK`).
- `SlugsAlwaysDistinct`, `OperatorAlwaysDistinct` (`RolloutProofs`), under
  `LegacyDistinct` (the slugs that some records have at the start differ) and the
  first also under `NamesHaveSlugs` (no name slugifies to nothing):
  `Spec => []SlugsDistinct`, and the same up to the empty slug. `SlugInv`: what a
  run holds as taken is in use (`Booked`), what is in use is taken while nobody else
  hands out slugs (`Covered`), and the slug chosen is not taken. The last is
  arithmetic: the slugs taken are at most one more than the records, and the
  candidates -2, -3, ... differ from each other and from the slug without a suffix
  (`CandidatesDiffer`), so one is free (`FreshSlugFree`, by the pigeonhole
  principle). That different numbers have different numerals is the assumption
  `NumeralsDiffer`, as the prover knows nothing of `ToString`.
- `TrailShapeKept`, `ProvenanceAlwaysKept` (`BackfillProofs`): the invariant says
  what the commands carry from their reads to their writes (`CommandsOK`: the plan
  is that of the subjects found, and of nothing but subjects) and what a request
  may rely on (`RequestsOK`).
- `AnswerTypeCorrect`, `WalkAlwaysExact`, `SkipsAlwaysBounded`, `TotalAlwaysWalkLength`
  (`ListProofs`): for any collection, search, sort order and page size. No induction
  over sequences is needed, because a row is told by its rank, the number of matches
  before it: with the `_id` tiebreaker two matches never rank equal (`BeforeTotal`),
  so the row at position i has rank i - 1 (`RankOf`) and there is one sorted sequence
  (`UniqueArrangement`), which makes the pages of different queries fit together
  (`WindowsJoin`). `WalkInv` says what a walk has behind it: its skip is less than a
  page past the matches, so it never wraps (`WithinRange`, `ReachedFits`); of what
  was there from the start, no more rows that were not shown are gone or rank before
  the skip than versions were archived (`FewLeftBehind`): an addition only raises
  ranks (`RankGrows`), and an archived version lowers the others by one at most
  (`RankWithout`), which brings one row before the skip at most (`ArchiveMisses`);
  and while nothing changes it has been shown exactly the first rows of the sorted sequence
  (`SeenInOrder`). A request for a page of its own may overflow: for it only
  `AnswerTypeOK` is promised.

Only model-checked: the liveness properties, which need ENABLED and are beyond
the prover. Every invariant and action property of a passing run is proved.

## 5. Not modelled

- The count of GET /stats: one query on the meta records, which no other operation
  uses.
- Soft deletion: the code filters on `deleted_at` and never sets it;
  `PublishSystemDeleted` is never called.
- In `Rollout` and `Backfills` a service request is not cut off half way
  (`Versioning` has that), and `Rollout` has one request in its `rollout` run and
  two only in `unindexed`. In the runs one replica stands for all: replicas share
  nothing but the database, and the requests are independent of them.
- An `UpdateMany` is one step unless the run is interrupted in it.
- Two runs of the same backfill at the same time.
- Search is a relation between documents and terms, the matching of a quoted
  regular expression is the database's.
- The libraries (driver, authorisation client, rate limiter, tracing), status
  and metrics endpoints, deployment files: no catalog state. Which roles a route
  requires is in `Versioning`; how a token is turned into roles is the library's.

## 6. Plan

1. `BackfillProofs`: the safety part of completion, that a run which finds no
   subject leaves none behind it when no request copies a trail.
2. The workflow on a store without the number index, composing `Rollout` with
   `Versioning`.

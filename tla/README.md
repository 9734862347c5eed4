# fty-rest: models, checks and proofs

This directory holds TLA+ models of the REST server of the 42ity project
(`fty-rest`), the TLC configurations that model-check them, and proofs checked
by TLAPS. Paths are those of the repository; `PROJECT.json` maps every
definition to the lines it models and lists every run, finding, hazard and
theorem.

Contents: 1 the system, 2 the modules, 3 the runs, 4 the proofs, 5 what
disagreed with the code's own words, 6 what is not modelled, 7 what could
come next.

## 1. The system

tntnet runs the pages under `ecpp/`, one thread per request. The threads share
one MariaDB database of assets, a malamute broker through which they talk to
agents (asset agent, licensing "activator", alert engine, ...), the files of
the machine, and a watchdog: a request that takes longer than `maxRequestTime`
makes tntnet kill the whole server. `src/` is the library below the pages.
Several of its functions (the import, the deletions, `send_configure`) are
called by no page of this repository any more; the tests call them, and so do
servers that link the library. Nothing here depends on who calls them.

| component | state | operations | talks to | hard, because | correct, if |
|---|---|---|---|---|---|
| SSE session: `sse.cc`, `admin_sse.ecpp` | two lists of assets, remembered alert states, clock readings of the loop | snapshots, subscriptions, loop, one handler per message | database, streams ASSETS, ALERTS, SSE, the client | snapshot and subscription are not one step; messages are lost and reordered; the payload is read later than the message; watchdog, token, dead client | the client is shown what the database holds or something is still on its way; deletions arrive; the loop ends in time |
| announcements: `configure_inform.cc` | none | `send_configure` | database, stream ASSETS | commits first, announces later, from many threads, and may fail in the middle | (part of the above) |
| CSV import: `importcsv.cc` | processed rows, updated ids, two reports | `load_asset_csv`, `process_row` | database, activator | rows wait for each other over several passes; a row is several transactions and calls, each may fail | what can be imported is; reports are true; names unique; licences agree |
| asset store: `asset_general.cc` | none besides the database | insert, update, delete of places, groups, devices | database, activator | statements of several threads interleave, fail, deadlock | each call is one atomic change or none, and its reply says which |
| deletion on request: `data.cc` | what is collected, replies | `delete_item` for one asset and for many | asset store | collects first and deletes later, in an order it computes | true replies; nothing is left that could go |
| address ranges: `cidr.cc` | networks, exclusions, position of the walk | `add`, `exclude`, `next` | none | overlapping networks and exclusions, edges of the address space | exactly the meant addresses, once each, and an end |
| CSV documents: `csv.cc` | titles and cells | `CsvMap`, `CsvMap_from_serialization_info` | none | titles that differ in blanks and case only; members that become columns | a cell is found under its title |
| CSV and JSON of assets: `exportcsv.cc`, `utils_json.cc` | none | `export_asset_csv`, `export_asset_json`, `getJsonAsset` | database | names are looked up later than the rows are read; lists are renumbered, split and merged | what is shown and put back is what was stored |
| augeas: `augtool.cc`, `netcfg.ecpp`, `time.ecpp` | two processes, each with a tree, shared by all requests | commands, `load`, `save` | augtool process | the mutex covers one command, the tree belongs to all; answers read with a time-out | a request saves what it set and reads its own answers |
| configuration files: `config.ecpp`, `my_profile.ecpp` | files | load, change, save | files | several keys, one save each | all keys or none, or the reply says which |
| alert pages: `alert_*.ecpp` | a client per request | send, wait for one agent's answer | agents | other messages arrive while waiting; time-outs | the reply is the answer to the request, within the time-out |
| pages that ask agents: gpio, scan, email, topology, ... | a pool of clients | send with a UUID, receive by UUID | agents | late answers reach the next user of the client | as above |
| first start: `license_POST.ecpp` | a child process | start services, wait | systemd, watchdog | waits for minutes under the watchdog | ends, and keeps the server alive |
| topic cache: `topic_cache.cc` | bounded map | add, get | none | cleared when it is full | never a wrong id |
| scaled integers: `utils.cc` | none | add, rescale | none | 32 bits | exact, or refused |
| interfaces, computed assets, JSON builders, agent state, older persistence functions, authentication, read-only and administration pages, command line, packaging | none of their own, or one row or file | reads, single statements, single commands | | | |

`PROJECT.json` lists the same components with their files, and under
`hazards` forty places, each with its line, where the code can go wrong in a
way a test would hardly reach.

## 2. The modules

Every module keeps the names of the code where TLA+ lets it. "Mutant" in a
comment marks a variant of an operator as a plausible bug would make it; every
property of a passing run is violated when one of them replaces the original.

### SseFeed: what a session shows

One session beside the database and the other requests. `db` is the asset
table (an asset is where it is: below the session's datacenter, elsewhere, or
without a location). A change is `Commit` and leaves a notice; `AddressNotice`
reads the parents, `SendNotice` publishes, `FailNotice` is `send_configure`
throwing. Three actions instead of one, because other threads run between
them. `Republish` is the inventory message of the asset agent, `PublishAlert`
an alert.

The session is `ReadDatacenter`, `ReadNoLocation` (two queries),
`ConsumeStream` three times, then `HandleAsset` and `HandleAlert`, which are
`changeFtyProtoAsset2Json` and `changeFtyProtoAlert2Json` with every branch.
A payload is read from `db` when the message is handled (`getJsonAsset`), may
fail to be read, and is what `told` records. `dropped`, `missed` and `unread`
are history: the three ways a message can be lost, so that properties can
exempt exactly those.

Malamute delivers the messages of one client in the order they were published;
this is external. Names are not used again after a deletion: the database
makes them from a counter.

### SseLoop: how long it runs

The loop of `admin_sse.ecpp` against the clock in ticks. Time passes in
`zpoller_wait` and while a message is handled (at most `Work`). `Top` is the
head of the loop (condition, shutdown, clock, token), `Exptime` the expiration
message, then `Receive`/`Handle` or `Heartbeat`. The environment revokes the
token, stops the server, disconnects the client, delivers messages at any
time.

### AssetImport: importing a document

`pc` walks through `process_row`: `CheckRow` or `RejectRow` (all checks are
reads of the table as it is then), `Deactivate` (licensing agent), `Store`
(the transaction, atomic by AssetStore), `Activate`, `Finish` (the name is
looked up again). `EndPass` begins another pass when one has imported
anything. `Abort` is any other exception or the death of the process, at any
step. `sanitize` is `sanitize_row_ext_names`: a column that names a stored
asset holds its internal name afterwards, which is why the code's comparison
with the row's own name can fail.

### AssetTable and AssetStore: storing and deleting

AssetTable is the promise: a call is one atomic change (`ApplyCall`), legal or
refused; besides the calls only the licensing agent writes, the status of a
device (`WriteStatus`). AssetStore is the code: each function a sequence of statements
(`Script`), run one at a time by several threads. Around the transaction stands
what the callers do about a device: `getJsonAsset` reads its text before it is
deleted and, when the database fails, returns an empty one, which nobody
notices; `Check` looks the name up, of a new asset or of one that is renamed
(`process_row`); `Deactivate` and `Activate` are the calls of the agent before
and after an import stores a device, `GiveBack` the one after a deletion.
`kept`, `unread`, `crossed` and `raced` are history: a deletion that replied an
error, a text that could not be read, an activation that crossed a deletion or
an update, a name two threads were giving at once. The database is external and
modelled by what the code relies on: a statement locks the rows it writes and
looks at the rows its foreign keys name, waits, or is given up to break a
deadlock (`GiveUp`); a plain SELECT reads what is committed. `Atomic` is
`Table!Spec` under the mapping of the `INSTANCE`: AssetStore implements
AssetTable, stutters included.

### BulkDelete: deleting a selection

`delete_item(vector)`: `Collect` per id, `Sort`, `Delete` per collected asset
(each the atomic step of AssetTable), and `Insert` by another request in
between. `Before` is the comparator as it is written, which searches the very
vector that is being sorted. It is no strict weak order, so the model takes
the insertion sort libstdc++ uses up to 16 elements, one insertion a step:
an element that has been moved out of the vector is not found there by its own
comparisons (`among` in `Inserted`). Beyond 16 the behaviour is undefined.
What no deletion of others can make deletable is `Kept`; an asset that powers
one which RC-0 is inside of or powered by is among it, since that one is
refused and stays.

### CidrList: walking through address ranges

Addresses of `W` bits with the arithmetic of the code: the carry out of the
highest byte is lost, address 0 is invalid. One `Iterate` per turn of the loop
in `next()`; `skipToNextPool` and `skipToExcludeEnd` with their strict
comparisons and their single pass over the list.

### AssetExport: exporting, changing, importing again

Extends AssetImport. `export_asset_csv` reads its rows in one transaction
(`snapshot`) and then, cell by cell, looks names up on other connections,
while `OtherRequest` renames, moves and deletes (RC-0 is never deleted).
`DatabaseError` ends the export wherever a statement or a lookup may fail; only
the lookup of the parent is not checked (`exportcsv.cc:220`), and leaves an
empty cell (`unread`). `StartImport` hands the
document to the import. `faithful` is history: nothing the document mentions
was deleted, renamed in the middle, had its name taken or could not be looked
up. A behaviour that
exports nothing imports a document from elsewhere, so one run carries both.

### AssetDocument: one asset, out and in

The attributes of one asset as three functions write them (`getJsonAsset`,
`export_asset_json`, `export_asset_csv`), what `CsvMap` and
`CsvMap_from_serialization_info` make of them, and the update
`process_row` makes of that. A keytag is a record of base, index and part, so
that lists can be split, sorted by the text of their numbers, and numbered
again as the code does. The only transition is `PutBack`: the asset's own
document, in one of three forms, comes back and is imported; the work is in
the operators. `Stamp` is what `load_asset_csv` adds to a device: the time of
the import and, if it is known who asks for it, the user.

`WellFormed` is what the database holds: keytags and values that are not
empty, items whose numbers are among those the order of text lists, power
links of devices only, and no attribute called like a reference ("group.1").
`AssetDocumentAssumption` says of `_ci_strip` that it changes none of the
program's own names, leaves something of every name, and nothing that it would
change again. The exceptions in the properties are what a document cannot
hold: two attributes whose names differ in spelling only, an attribute that is
taken for the tag or the subtype, the time and the user of the last import of
a device from CSV, and the cases of section 5.

### AugTool: network and time settings

Two augtool processes (with and without privileges), each with a tree loaded
once. A request is a sequence of commands: `Write` under the mutex, `Execute`
by the process, `Read` of what is printed by then; `Asks` says which command
a step of a page sends and `After` what the page does with the answer.
`Crash` kills a process, a `Read` before `Execute` is the half second
running out. A save stores each file that has changed or, for any of them,
leaves an error and the file as it was (`Save`, `errors`); the page netcfg asks
for the error before its first command and after its save, the page time never.
`base`, `mixed`, `slow` and `rejected` are history: what a request found when
it began undisturbed, which faults have happened, and that a request has failed
since a save last stored everything.
The abstract side is `Asked` and `Shown`: what a request asks of the
settings, without trees or commands.

### How they compose

BulkDelete and AssetStore instantiate AssetTable, the first because AssetStore
implements it (run `asset_store`, theorem `StoreIsAtomic`), so an import or a
deletion may treat a transaction as one step. AssetExport extends AssetImport:
it produces the document the other reads. SseFeed and SseLoop split one page
by question: what is shown, and when it ends; they share no variable except
that a closed session is closed in both.

## 3. The runs

| run | bounds | states | shows |
|---|---|---|---|
| `sse` | 1 asset, 1 rule, 2 states, 2 commits, 2 alerts, 1 republish, 1 failure | 476 000 | `ShownIsListed`, `StaleIsOnItsWay`, `GhostsAreAnnounced`, `AlertsRemembered`; under fairness `DeletedIsUnlisted`, `NewcomersAreListed` |
| `sse_loop` | limit 13, poll 2, period 3, work 1, clock starting at 0 and 5 | 149 000 | the four time bounds, `Terminates` |
| `import` | every document of 3 rows out of 14, 2 licences, 1 failed call; an export of 5 assets with 2 changes by others or unnoticed failures, and an error anywhere | 417 000 | `Fixpoint`, `ReportIsTrue`, `NamesUnique`, `LicencesAgree`, `DocumentAgrees`, `RoundTrip`, `Terminates` |
| `asset_store` | 2 threads, 3 calls out of 12 (2 of them rename), 2 failures | 725 000 | `Atomic`, `NamesClashOnlyInRaces`, `LicencesReturned` |
| `bulk_delete` | 4 assets and RC-0 in every tree and power chain, RC-0 powered by one or not, every order of 2 or 3, 1 insert, 1 failure | 3 290 000 | `RepliesAreTrue`, `FamiliesDeleted` |
| `cidr` | 4-bit addresses, up to 3 of 10 networks and 2 of 5 exclusions | 127 000 | `WalkIsSound`, `WalkIsComplete`, `WalkAdvances` (upwards, turn by turn), `WalkEnds` |
| `document` | 5 kinds of asset, up to 3 of 22 attributes, or some spelt like columns, 2 rounds, 3 formats, a user or none | 109 000 | `ShownAgain`, `NothingLost`, `NothingInvented`, `RefusedRightly` |
| `augtool` | 2 workers, 2 of 6 requests, 1 late answer, death or failed save | 514 000 | `AloneAsAsked`, `ReadersSeeTheStart`, `AnswersAreOwn`, `NothingLeftUnsaved`, `EveryRequestEnds` |
| `import_warned`, `import_own_source`, `store_last_dc`, `bulk_active` | smaller | – | violations, section 5 |

`TypeOK` is checked where a module has one; that of SseLoop is left to its proof.

Why the bounds are enough. An asset message touches its own asset only, so one
asset suffices for the lists; two commits and a republished row are a
creation or a move followed by a deletion, announced in any order. An alert
that is not listed arises with one asset, before its creation is handled.
Three rows are a chain in which the first needs the second and the second the
third (the longest wait needs as many passes as rows), and the fourteen rows
hold one for each reason to be rejected, renamed or licensed. Two changes of
others rename and delete, or move and rename, what one exported row mentions.
Two threads hold each other's locks; three calls allow one finished call
before a race. One failure may hit any statement; in the asset store a second
one may hit the agent or the text of a device. Four assets are a
grandparent, a parent, a child and a stranger. Four bits leave room for
networks next to each other, inside each other, at both ends. Three
attributes are the most that act on each other (two items of a list and a
read-only one in the place of the first; two parts of an outlet and the part
of the device); a second round is needed to see that the first has settled.
Two requests are one that leaves something behind and one that finds it, or
two that interleave. With one fault a failed save and a late answer do not come
together, which is when nobody sees the error; the theorems about
`NothingLeftUnsaved` and `AloneAsAsked` cover any number of them.

Reading the properties. Those that hold with exceptions name the exceptions:
`GhostsAreAnnounced` allows an asset to stay in the filter after its deletion
when the deletion was sent between snapshot and subscription, was overtaken by
another message of that asset, or was never sent. Each exception is a real gap of the code:
without it TLC finds a counterexample. `Fixpoint` says that a row
which was not imported is refused by the table the import leaves, so the order
of rows does not matter; it exempts rows stopped by a failed call and imports
with a failure after a commit. `WalkIsComplete` exempts two kinds of network
inside an exclusion that the walk passes over (one at the exclusion's last
address, one right before a network added earlier). `RoundTrip` and
`DocumentAgrees` exempt what was renamed or deleted between the two moments an
export reads, and a location that could not be looked up; `DocumentAgrees` also
says that power sources and groups are never left out in that way.
`LicencesReturned` names the ways a licence is lost (section 5).
`NothingLeftUnsaved` allows a file that could not be stored to go unnoticed
after the page time, which does not look, and after the page netcfg only if an
answer came late. `AloneAsAsked` is about requests nobody disturbs: two that change
settings at once write what both have set, which is the code's behaviour and
not a promise. `ReadersSeeTheStart` states a behaviour that is hard to see in
tests and easy to change by accident: the unprivileged process never loads the
files again.

Fairness. `sse`: a thread that committed goes on to announce, the
session goes through its setup and its inbox (weak fairness of those actions,
none of changes or failures); the code does nothing else there. `sse_loop`:
weak fairness of the loop, strong fairness of `Tick`, because a message only
interrupts the wait and cannot stop the clock. `import`, `cidr`,
`bulk_delete`: one thread runs (weak fairness of its step). `augtool`: each
process executes what is written to it, each worker goes on with its request
(weak fairness of each `Execute`, `Write`, `Read`, `Services`); a `Read` waits
at most half a second in the code, whether the process lives or not. Two workers that wait for one mutex are served because the requests are
bounded; for an endless stream of requests `EveryRequestEnds` would need
strong fairness of `Write`, that is, a fair mutex. Abort, failures, crashes
and the environment are never forced.

`CHECK_DEADLOCK FALSE` stands where the system may stop: a session that is
closed, an import that is done, calls, rounds or requests that are used up. `bulk_delete` and
`cidr` state their end as a stuttering step instead and keep the check.

## 4. The proofs

TLC checks small instances; the following holds for every value of the
constants, assuming only the named assumptions of the modules, which every run
evaluates. They say that constants have the types of their comments, and:
`SseLoopAssumption`, that two iterations fit into the half of `maxRequestTime`
the session leaves; `AssetImportAssumption`, that RC-0 is stored and the stored
names are unique; `AssetExportAssumption`, the same of the exported database as
its keys see to it: every asset has a name, its own, what it refers to is
stored, and RC-0 is a rack controller; `NetworksAssumption` of CidrList, that a
network is added by its own address, as `test-cidr.cc` does (a network with
host bits begins, for `next()`, at the address it was written with);
`CallersAssumption` of AssetStore, what its callers in the
repository do before they call (they look an asset up before they update or
delete it, give links to devices only, and store a device that is to be
activated, never RC-0, as inactive), and that ids
are given out upwards.

SseFeedProofs:

- `TypeCorrect`: `Spec => []TypeOK`.
- `ShownAssetsAreFollowed`: `Spec => []ShownIsListed`. Inductive with
  `TypeOK` and `PhaseInv` (before the loop nothing was told).
- `AlertsAgree`: `Spec => []AlertsRemembered`, inductive as it stands.
- `StaleIsAnnounced`: `Spec => []StaleIsOnItsWay`. Not inductive: a handler
  consumes a message, and which one is left matters. `FreshInv` says which: an
  outdated payload of an existing asset waits for an *update* (a creation can
  only be the first message of an asset), one of a deleted asset waits for the
  *deletion*. Two lemmas carry the argument, that publishing loses no message
  of the inbox (`AppendKeeps`) and that handling loses only the first
  (`TailKeeps`); then one lemma per kind of step.
- `GhostsAreTold`: `Spec => []GhostsAreAnnounced`. Not inductive either: a
  message of a deleted asset may list it again. `GhostInv` adds that every such
  message in the inbox is followed by a removal (`LastWord`), and `QuietInv`
  that the inbox holds no asset message before the session listens.

SseLoopProofs, by one inductive invariant `LoopInv`, one conjunct per
question, each saying how far the clock may be from an earlier event at each
place of the loop: `RequestTime` (the start and the last look at the clock),
`Unseen(t)` (a revocation or shutdown at time t not yet noticed),
`LateEvents` (events sent after a revocation), `Told` (the last expiration
message).

- `LoopTypeCorrect`, `EndsBeforeTheLimit` (`ClosedInTime`),
  `RevocationNoticed` (`CutOffInTime`), `ExpirationTold` (`ExptimeKept`),
  `DepartureNoticed` (`DeadClientNoticed`).

`EndsBeforeTheLimit` needs room for two iterations because the condition of
the loop tests the elapsed time read in the iteration before.

AssetImportProofs, first about `Spec` of AssetImport (any document, database
and number of licences):

- `ImportTypeCorrect`. `TypeInv` adds to `TypeOK` that the references of a row
  stay valid from their check to the storing of the asset.
- `ImportKeepsNamesUnique`: `NamesInv` adds that a name found free is free
  until it is stored.
- `ImportKeepsLicences`: `LicInv` says what the agent counts while a device is
  between its deactivation and its activation.
- `ImportReportIsTrue`: `ReportInv` relates the two lists to the rows that
  were committed.
- `ImportReachesFixpoint`: `FixInv` says why each row behind the current one
  was refused: by the table as it is, or the pass has imported something and
  another will follow, or a call failed.

then about `ExportSpec` of AssetExport (any database to export, and any changes
of other requests before the import begins):

- `ExportedDocumentAgrees`: `ExportSpec => []DocumentAgrees`. The document is
  written cell by cell and compared with a snapshot, so `ExportInv` keeps what
  relates the two at any moment: what may differ between `db` and `snapshot`
  (`SinceSnapshot`: names of `renamed`, rows of `lost`), that both are tables
  their keys allow (`Consistent`), and what the rows hold so far (`RowsInv`,
  `LocationAgrees`).
- `ImportAfterExport`: the five invariants of the import hold in `ExportSpec`
  too. Until the import begins the document grows and the table changes, so
  none of them is inductive there; `DbInv` keeps the table legal under the
  other requests, and `ReadyToImport` shows that what an export leaves is a
  state the inductive invariants of the import hold in.

and last about `DocumentSpec` of AssetDocument (any well-formed assets,
keytags of other assets, stripping of names, order of text and number of
rounds):

- `DocumentTypeCorrect`: what comes back is well formed again. This is half of
  the inductive invariant `DocInv`; the other half, `AnswerInv`, says that the
  answer is the one to the document of what was stored before.
  (TLC found `DocumentTypeOK` to hold for the assets of the run, which does not
  repeat it.)
- `DocumentRefusedRightly`, `DocumentInventsNothing`, `DocumentLosesNothing`.
  `DocumentIs` splits each of the three documents into the columns of the asset
  and those of its attributes. In a document that is not refused a title has
  one column (`NoDuplicates`), so the cell read under a title is the one
  written there; `ExtIs` and `ExtUnique` then say which attribute an update
  stores under a keytag. Groups, sources and the tag are read back because
  `SetToSeq` enumerates a set without gaps (`SequenceOfSet`), items of a list
  because their places are the numbers 1, 2, ... each once (`PlaceFacts`).

The proofs showed that four of the exceptions were missing in the properties,
all of assets the run did not have: attributes that differ in spelling only, an
attribute "Asset_Tag" or "Sub_Type" that is taken for the column, one called
"Update_TS" in a CSV document, and the type a group without one gets from such
an attribute. The run has such assets now.

AssetStoreProofs:

- `StoreIsAtomic`: `Spec => Atomic`, the refinement, for any number of
  threads and calls. The initial states map to initial states; `Begin`,
  `Commit` and the end of a refused call map to steps of AssetTable and every
  other statement to a stutter. This needs `StoreInv`: what each thread has
  locked (`LockInv`: a row when it is first written, and every row a statement
  names), that its copy of its rows is therefore what its own statements have
  made of the committed ones (`WorkInv`), and that an id is given out once
  (`RowInv`, `InsertInv`).
- `StoreTypeCorrect`; `StoreNamesClashOnlyInRaces`, by `NamesInv` (a thread
  that gives a name alone, to a new asset or an old one, has looked for it);
  `StoreReturnsLicences`, by `LicInv` (who still owes a licence, and what an
  activation may have crossed). The agent's writes of a status map to
  `WriteStatus`.

BulkDeleteProofs:

- `BulkTypeCorrect`, `BulkRepliesAreTrue`. Sorting must lose no element and
  double none whatever the comparator says: `SortStep` proves that an
  insertion permutes the vector. `WorkInv` says that an element not yet
  reached is stored, `AnswerInv` that every id handled has a reply or is
  collected and that what is refused once stays.

- `BulkFamiliesDeleted` (`FamiliesDeleted`), for every selection with a head
  and its direct dependants, in every order. The comparator is no strict weak
  order, but for such a family it suffices that the head is before nobody and
  everybody before the head (`HeadIsAfter`): once sorted in, the head stays
  last of what is sorted (`HeadInv`, over `LastOf` in `SortStep`, which says
  where an insertion leaves the last element). `FamilyInv`, as long as nobody
  inserts and nothing fails, says that what is collected is as it is stored
  (`SeenInv`), that what is not collected has RC-0 below (`CollectedInv`), that
  what is refused depends on something nobody asked for (`RefusedInv`), and
  that what stays after its turn is kept, or is the head and waits for a member
  (`OutcomeInv`). A deletion takes one id out of what is below and beside the
  others (`BelowAfter`) and makes nothing deletable that was kept
  (`KeptStays`). `collectChildren` is a recursive function of the model, of
  which `BelowFacts` and `AnyParentFacts` prove the first value and the step.

AugToolProofs:

- `OwnAnswers` (`AnswersAreOwn`), by `OwnInv`: a process that was never late
  has at most one command or answer under way, and it belongs to the holder
  of the mutex.
- `SavedByThen` (`NothingLeftUnsaved`), by `UnsavedInv`: where each kind of
  request may be (`PlaceInv`), and that a change not yet in the files has a
  save after it in the queue, or a request that has yet to write one, or an
  error (`SavedInv`). An error alone is not enough for the interfaces:
  `WatchInv` says that while they are not stored, no request has failed and no
  answer was late, some PUT has yet to save, or to look, and will see it then
  (`Looks`).
- `ShownFromTheStart` (`ReadersSeeTheStart`), by `ReadersInv`: nothing but
  reads is ever written to the process without privileges, so its tree stays
  the one it loaded, and what a GET has collected so far is what `Shown` says
  of that tree.
- `DoneAsAsked` (`AloneAsAsked`). `Asked` says what a request makes of the
  settings member by member (`AskedUpTo`), without commands; `Right` says what
  tree and files are before each command of a request, and which files could
  not be stored, where the loop over the
  members is in the middle of one (`Handling`: the method set and not yet
  asked for, the address removed and not yet the gateway, some interfaces with
  the new nameservers and some without). One lemma per kind of command shows
  that its answer takes the request on (`ChangeGoesOn`), and that a member the
  program refuses is one `Asked` refuses. `AloneInv` says that tree and files
  are so for who changes settings undisturbed, or were so before the command
  whose answer is still to be read, and that the process executes for nobody
  else meanwhile.

CidrListProofs, for every width of addresses and every list:

- `ListWalkIsSound` (`WalkIsSound`), `ListWalkIsComplete` (`WalkIsComplete`),
  `ListWalkAdvances` (`WalkAdvances`). `WalkInv` says that every address meant
  and not after the walk's own was given or is of the kinds passed over, and
  that the addresses given rise.
  Three steps of a walk need a reason why nothing is passed over: to the next
  network (`NextPool`), to the end of an exclusion or a network inside it
  (`ExcludeEnd`, over the list as it is walked once, `SelectedFacts`), and one
  address on (`NextSimpleFacts`). They rest on two networks being apart or one
  inside the other (`OneMultiple`, `NetworkRange`).
- By induction: that 2^n is a natural number and 2^(m+n) the product
  (`TwoToThe`, `TwoToTheSum`).

NaturalRecursion, used by four of the modules above:
the induction of the library cannot be used here, so `LeastNat` (a set of
naturals has a least element), `UpTo` (induction up to a number) and
`Recursion` (a function given by its first value and a step exists) are proved
once from the well-ordering of the naturals.

Only model-checked:

- `RoundTrip`: it is about what the run imports and not true of every database.
  When a group stands in a room that is a member of the group, and both are
  renamed after the export, each row waits for the other's new name and neither
  is imported. The databases of the run have no such circle.
- `ShownAgain` of AssetDocument: it compares two documents, and a set of groups
  or links that comes back is put in an order again, which need not be the one
  it had (`SetToSeq` chooses one; the database promises none either).
- All liveness (`DeletedIsUnlisted`, `NewcomersAreListed`, `Terminates`,
  `WalkEnds`, `EveryRequestEnds`), which is beyond the prover.

## 5. Where the code and its words disagree

Four runs expect a violation. Each checks one sentence of the code.

- `import_warned`: a device that is imported but not activated is in neither
  of the two lists `inout.h:70` promises, because `failRows` is cleared when
  the next pass begins (`importcsv.cc:1493`).
- `import_own_source`: "prevent power source being myself" compares the row's
  name with a column that was already converted (`importcsv.cc:922`).
- `store_last_dc`: "Don't allow the deletion of the last datacenter" counts
  without a lock (`asset_general.cc:463`): two deletions leave none.
- `bulk_active`: "we need device JSON in order to delete active device", but
  the status compared was never read (`data.cc:416`): a device deleted in a
  selection keeps its licence.

Observed without a run, because the repository promises nothing else in so
many words, or because the code concerned is used by tests only:

- Sessions: an asset that moves into the datacenter from elsewhere is never
  shown; its update is skipped with the log text "is not an element of the
  datacenter" (`sse.cc:318`). `NewcomersAreListed` is about creations for that
  reason.
- Licences: the text of a device that is deleted is empty when the database
  fails (`utils_json.cc:216`, 233); `delete_device` then leaves the agent alone
  and replies success (`asset_general.cc:597`), and the licence stays in use.
  It does, too, when a device is activated after another request has deleted
  it, or has read its status in order to (`importcsv.cc:1218`, 1277). A device
  activated between the check and the update of another import is stored
  inactive and still counted. `LicencesReturned` names the three cases.
- Export: a failed lookup of the parent is the only one not checked
  (`exportcsv.cc:220`): the location of the asset is exported as empty, and an
  import of that document takes the asset out of its place.
- Deleting: the sort of a selection may put a parent before its child when
  three levels are selected, or when a stranger stands between them
  (`data.cc:531`); the parent then is not deleted.
- Ranges: the walk passes over two kinds of network (section 3).
- Documents (`utils_json.cc`, `exportcsv.cc`): lists are numbered from 1
  again, and collide with read-only items that keep their numbers; a list of
  ten or more is sorted as text and so is in another order after each round;
  the page of many assets replaces the label of outlet 0 by that of the
  device, and has no groups, so that putting its object back removes them. An
  attribute whose name is a column's after stripping ("Asset_Tag") is read as
  that column.
- Import: the row announced after an import carries the status of a local
  variable, which may differ from the one stored (`importcsv.cc:1203`, 1261,
  1309).
- Network: the check of a method looks at the *old* method
  (`netcfg.ecpp`, `AUG_SET ("method", ...)`): any value is accepted while the
  old one is known, and after an unknown one no method can be set any more. A
  PUT that is rejected leaves its changes in the shared tree, and the next
  save of anybody stores them. A GET never shows a change, because the
  unprivileged process loads the files once. A process that dies is not
  started again. A list of nameservers that is empty reaches `substr(1)` of an
  empty string (`netcfg.ecpp:353`): the change is stored and the page answers
  an error. After a save that failed every PUT is refused by its first check
  (`netcfg.ecpp:76`), until the save of a POST succeeds, which then stores what
  the refused request had set.
- Time: the page stores the server before it restarts services that may fail,
  and does not look whether it was stored (`time.ecpp:179`): it answers success
  and shows a server that is in no file.
- A `maxRequestTime` of 0, which switches the watchdog of tntnet off, makes the
  time of a session 0 as well (`admin_sse.ecpp:150`): each one is closed at
  once.
- Import: any stored place is accepted as a location (`importcsv.cc:789`), so a
  chain of updates can make two places each other's parent.
- Others: `license_POST.ecpp:397-403` sleeps 3000 microseconds where the text
  says 3 seconds; `alert_ack.ecpp:205` keeps the message of another sender, so
  that it does not see the time-out; `config.ecpp:494` saves key by key, so a
  failure leaves some; `utils.cc:267` adds in 32 bits before it looks for an
  overflow (tests only).

## 6. What is not modelled

- Of the session: generic messages of the stream SSE (passed through),
  permissions.
- Of `send_configure`: the "inventory" message it sends for a UPS; the
  encoding of messages.
- Of the asset store: read-only attributes as data, the environment
  variable that overrides the check for the last datacenter, and the branch of
  `insert_device` for a device type that the monitoring tables do not know
  (`asset_general.cc:442`), since their rows come with the database. A failed
  lookup of a status (`get_status_from_db_helper`, of a library) is taken to
  throw.
- Of the import: the columns whose format alone is checked, and
  `process_one_asset`, which is `process_row` for one row (AssetDocument has
  what it does to the attributes); the subtype of a stored asset is fixed in
  AssetImport, while the code lets an unknown one (N_A) be set once
  (`importcsv.cc:855`). The agent's answer is either accepted or refused; that
  it may write the status of the asset itself is modelled as an option it has.
  `promote_rc0` (`importcsv.cc:145-520`), whose only call is commented out.
- Of the export: the filters of `export_asset_json` and the text of the file.
- Of the documents: attributes called like a reference ("group.1"), the
  attribute "name", which the import stores besides the column, and the inputs
  of a power link (`power_input`).
- Of the configuration through augeas: the date, the time zone, the list of
  interfaces and `resolv.conf`; an answer is read whole or not at all; the
  output of the first `load` is taken to be read before the first request.
- Alert pages and pages that ask an agent: each has a client of its own or
  takes one from the pool of the client library, and what would make a model
  interesting (matching, time limits, late answers in a pool) is in that
  library and not in the repository.
- First start: a script and services outside the repository.
- Configuration files: each key is loaded and saved whole by the configuration
  library, one after the other; there is no state between the keys to model.
- The topic cache, the scaled integers and the older persistence functions:
  called by tests only.
- IPv6 in `cidr.cc`: `_skipToNextPool` looks at IPv4 networks only, so lists
  with IPv6 networks are outside of what `WalkEnds` says. Networks with
  host bits are excluded by `NetworksAssumption`.
- Text: formats, JSON, SQL, CSV quoting, translations, logs.
- Read-only and administration pages, authentication, command line, scripts,
  packaging and the tests: single reads, single commands, or no program logic of
  the server.

## 7. What could come next

- The row an import announces as a variable of AssetExport, and a session that
  receives it: the status shown against the status stored.
- `RoundTrip` as a theorem, for databases without a circle of references.
- Three levels in `FamiliesDeleted`, should the comparator be replaced by a
  strict weak order; the other properties do not depend on it.
- IPv6 in CidrList.

## Running

    tlc -config SseFeed.cfg SseFeed
    tlc -config AssetImport.cfg MCAssetImport
    tlapm SseLoopProofs.tla

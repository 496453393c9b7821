# EIMS in TLA+

TLA+ models of the Enterprise Infrastructure Management System (EIMS), their
model-checking configurations and machine-checked proofs. Everything is
translated from the source: Python, the dashboard's TypeScript where a page keeps
state of its own, and the PowerShell scripts of the USB tools. The requirement
and architecture documents only supply statements to be tested against it.

## 1. The system

EIMS is one FastAPI process (`backend/main.py`, a single uvicorn worker) over
PostgreSQL, Redis and MinIO, with background tasks in the same event loop, and a
handful of clients. Everything in the server is a coroutine: it can be suspended
at every `await` and at no other place.

| Component | State it keeps | Operations | Talks to |
| --- | --- | --- | --- |
| Asset registry (`domain/asset_registry`) | `infrastructure_assets`, `audit_logs`, cache `eims:asset:*` | enrol, look up, transition, import report | database session per request, Redis |
| OCR registration (`ocr_worker.py`, OCR routes) | `ocr_registration_records`, MinIO objects | upload, clear history, worker pass | registry (`create_asset`), MinIO |
| Telemetry ingestion (`domain/telemetry`) | stream, failed-logon counters, bookmark in memory, `telemetry_metrics`, `windows_event_logs` | publish, fetch, scan, persist, trim | registry tables (quarantine), channel `eims:events:alerts` |
| Live alerts (`ws_controller.py`, observability page) | list of open sockets; the page's alerts, its socket and timer | listen, broadcast, connect, disconnect; visit, reconnect, poll, leave | channel `eims:events:alerts` |
| Evidence import (`import_pipeline.py`) | event rows and findings, with a deduplication key | import, analyse | follows a registry import, on its session |
| Knowledge base (`vector_db.py`, `history.py`, `feedback.py`, `analyze.py`) | `analysis_history`, `ai_knowledge` | analyse, export, vote, correct, delete | embeddings, language model |
| Evidence bundles and solutions (`analyzer/services`) | one request's files, entries, answer | read, classify, parse, correlate, compose, cite, store | knowledge base, web search |
| Authentication (`analyzer/auth.py`, `admin.py`) | users, tokens | sign in, create, delete, gates | all routes |
| Evaluations (`evaluations.py`, three dashboard pages) | sessions, evaluations, a customer's form | create, update, delete, submit, withdraw | authentication |
| Sticker client (`clients/sticker_ocr`) | folder on disk, job queue, dialog, drives | notice, enqueue, process, retry, plug | operator, USB drives |
| USB auditor (`clients/usb_auditor`, `tools`) | package and reports on a stick | build, deploy, verify, scan, save, sync, assess, resume | report import route |
| EVTX worker, search, timeline, form_project, log_analyzer, other pages, scripts | | | see section 7 |

`PROJECT.json` lists each of them with its sources and status, and under
`hazards` what in this code is hard to reach with a test, at the line where it
bites. The kinds that dominate:

* **Read, await, write.** Handlers load a row, await something, and commit. There
  is no row lock, no version column, and READ COMMITTED isolation; the ORM writes
  only the columns that differ from what was loaded. The same holds for look-ups
  that precede an insert without a unique index (evidence, knowledge).
* **Several stores, no common transaction.** Database, Redis, MinIO and a USB
  stick are written one after the other; a failure keeps the earlier writes.
* **Redelivery.** The stream consumer's bookmark lives in memory and the stream is
  trimmed approximately; a batch is read again after any failure.
* **Work marked before it is done.** OCR rows become `Processing`, photos are
  marked as seen, old reports are removed before the work whose failure would
  need them.
* **Lists that change under a walk**, in one event loop (`broadcast`) or between
  threads (the sticker client's `_seen`, queue and `_current`).
* **Rules that span several texts.** Windows, clocks, segments and families are cut
  and joined in several places of the analyzer, each for itself.

What makes each modelled component correct:

* registry: a fingerprint identifies one asset; the journal explains every
  committed row; recorded transitions are arrows of the matrix; an update that no
  other session overtook does to its row what it records; the cache never
  holds what was not committed;
* telemetry: what is in the stream is stored or still there, in order, copied
  only after failures; a quarantine is announced, and committed with its evidence;
  the stream drains;
* OCR: a row's image exists; Completed means linked to an existing asset; only a
  broken-off pass strands a row; verdicts are final; pending uploads are picked up;
* alerts: a broadcast reaches every connection unless the list shifts under it; a
  page shows alerts newest first; an open page is connected again;
* evidence: counters account for every event; only overlapping imports store one
  twice; a failed analysis takes nothing back;
* knowledge: no chain of reuse leads out of a source's family, but for the analyzer's own
  articles on the event's number, or to another identity without praise; only overlapping
  sessions store a text twice;
* bundles: limits hold; a verdict rests on what the named files share; the order of the
  uploads changes neither verdict nor diagnosis nor chronology, and clock offsets not the
  chronology; an article is cited only when one operation meets its condition;
* evaluations: every row is accounted for and keeps its session; only administrators write;
* sticker client: one outcome per photo put into the folder; no photo lost from sight; the
  queue moves;
* USB auditor: a verified package is the one that was built; a verdict rests on what was
  seen and is on record before it is uploaded.

## 2. Modules

| Module | Models |
| --- | --- |
| `AssetLifecycle` | The row, the lifecycle matrix, the audit entries and the row each UPDATE leaves. No state. |
| `AssetLedger` | Abstract specification: committed versions and journal entries, nothing else. |
| `AssetRegistry` | Requests as coroutines with sessions, the cache, failures; implements `AssetLedger`. |
| `TelemetryStream` | Agents, the Redis stream, the consumer and its counters. |
| `OcrWorkflow` | Upload handlers, the OCR worker, clearing of the history. |
| `AlertFeed` | The Redis listener, the broadcast over a changing list, the page and its sockets. |
| `EvidenceStore` | Abstract specification: evidence and conclusions about it, which only grow, but for retractions. |
| `EvidenceImport` | Concurrent imports on their sessions; implements `EvidenceStore`. |
| `KnowledgeBase` | Analyses, exports, votes and corrections in overlapping sessions. |
| `LogText` | Lines, records, compaction, retained lines, chronology, operations. Operators only. |
| `SourceParsing` | Classification of a text, its parser and its diagnostic code. Operators only; extends `LogText`. |
| `EvidenceBundle` | One upload of several files, from the first chunk to the export; extends `SourceParsing`. |
| `Solutions` | Articles, references, tiers of the search and the kinds of answer; extends `SourceParsing`. |
| `Accounts` | Users, tokens and the gates; composed into `Evaluations`. |
| `Evaluations` | The evaluation routes, the operators' pages and the customer's form; extends `Accounts`. |
| `StickerStation` | The sticker client's threads, its operator and its drives. |
| `ComplianceChecks` | The auditor's checks, score and verdict, and the assistant's plan. Operators only. |
| `UsbAuditor` | A stick's life: build, deployment, audits, remediation; extends `ComplianceChecks`. |
| `*MC` | Instances for TLC: symmetry sets and constant values. |
| `*Proofs` | Theorems and lemmas about the module they are named after. `AssetRegistryProofs` has the ledger's too, `TelemetryProofs` is about `TelemetryStream` and `AlertFeed`, `EvidenceProofs` about `EvidenceImport`, `EvidenceBundle` and `Solutions`. |

Operators that end in a way no code does (`CentresFar`, `SubmitAgain`, ...) are marked
"Mutant" where they stand: `PROJECT.json` says which property fails when they
replace the definition that follows them.

### AssetLifecycle, AssetLedger, AssetRegistry

`versions[a]` is the history of the committed rows of asset `a`; the table is its
last element. A session's `seen` and the cache are then version *numbers*: the
loaded version and the cached one. Each operation is cut at its awaits:

| Code | Actions |
| --- | --- |
| `create_asset` | `BeginEnroll`, `CommitEnroll`, `Refresh`, `Repopulate` |
| `get_asset_by_id` | `BeginLookup`, `ReadRow`, `FillCache` |
| `transition_state` | `BeginTransition`, `ReadRow`, `FillCache` (and the matrix check), `CommitTransition`, `Refresh`, `Repopulate` |
| `upsert_offline_report` | `BeginReport`, `MatchReport`, `CommitImport` or `CommitUpdate`, `Refresh`, `Repopulate` |
| `_persist_batch` on one asset | `BeginQuarantine`, `ReadForQuarantine`, `CommitQuarantine` |
| unique index, CHECK | `ConstraintViolated` |
| any exception, cancellation, stop | `Abort` |
| TTL, eviction | `ExpireCache` |

`Written` is SQLAlchemy's rule that an attribute assigned its loaded value is not
part of the UPDATE: this is where two sessions' writes mix. IP addresses, time
stamps and the report's JSON are left out: no operation decides on them. A
transaction takes effect at its commit; READ COMMITTED lets no other session see
it earlier.

`AssetLedger` hides requests, sessions and cache. Its steps take *some earlier
version* as the one the operation acted on, which is exactly what the code
guarantees: not serializability, but one journalled read-modify-write per commit.
`OnlyOverlapsDiverge` is the other half: where the version a session loaded is still the
latest at its commit (`Abreast`), the row before and after are what the entry says.

### TelemetryStream

A message is its position in the order of acceptance. `process_batch` is cut
into `Fetch`, one `Scan` per message, `Announce` (the SELECTs, marks and
PUBLISHes of `_persist_batch`), `Persist` (the commit) and `Trim` (XTRIM, bookmark). Each
can fail in its own way (`ScanFails`, `AnnounceFails`, `PersistFails`), including
a commit whose answer is lost, and `Restart` may strike anywhere. `Publish`
includes XADD's approximate length limit, `PublishFallback` the answer
"accepted" without a stream. `Enroll`, `Isolate` and `Release` are the registry's
part, `ExpireCount` that of time. Counters saturate one above the threshold: no
code distinguishes higher values. `lost` is a history variable: messages that
never reached the stream or were pushed out of it unread.

The acknowledgement (XACK) is not modelled: the singleton `telemetry_worker` is
created without a broker, and with one the command would name a consumer group
nobody creates.

### OcrWorkflow

A record is named after its upload. The handler is cut at the object store, the
look-up, the registration and the final commit; the worker at the SELECT, at each
commit, at the look-up and at the registration. The failing flush and the second
failing commit of the exception handler (`ocr_worker.py:126-130`) are `BreakOff`.
`abandoned` is a history variable: rows that some pass broke off on. An
unreadable image gets a random serial, which is represented by the record's own
name.

### AlertFeed

`redis_pubsub_listener` is `Subscribe`, `TakeAlert`, one `Send` per connection and
`EndBroadcast`; the walk is a *place* in the list, as Python's iterator is, so that
`Disconnect` of an earlier element shifts the rest under it. `ListenerFails` ends the
task for good. A visit of the page (`Visit`, `Leave`) has one socket at a time, named
by the number of the attempt; `OnClose` and `Retry` are its timer, which outlives the
page: a visit that is left keeps one connection open that nobody reads. `OnMessage`
and `PollDegraded` write the page's list.

### EvidenceStore, EvidenceImport

`ingest_report_events` is `Begin` (normalisation), `Lookup`, `Store` (one commit),
`Select` (the keys analysed already, read once) and then `Skip`, `Analyze` or
`AnalyzeFails` per candidate, with `LookupFails` and `StoreFails`; `Abort` is a cancelled
request. A row is its position in `logs` and remembers how many rows its import
had seen; this is what "overlapping" means in `OnlyRacesDuplicate`. `KeepsEvidence`
is the refinement: the rows and findings of an import are those of an `EvidenceStore`,
whose steps keep evidence (`Keep`), conclude about what is kept (`Conclude`) and
withdraw a conclusion (`Retract`), and do nothing else.

### KnowledgeBase

A source is a text with what the parser makes of it; a *solution* is the set of what contributed to
it, sources and articles, so that reuse can be followed through any chain.
`Analyze` is `submit_analysis` up to its answer: `Found` and `Usable` are the search and its guardrails,
`Best` and `Similar` the row that is reused, `Shown` the two rows a language model may be shown, and
`Curated` the articles the analyzer brings along, of a vendor code (three of the four have one) or of the
catalogue of Windows events, which is asked by the number alone (`summary.py:1021`, `event_knowledge.py:24-33`).
What `FamilyIsolation` promises is therefore not isolation: a JSON, Cisco or Fortinet log with a number of the
catalogue is given the Windows article on it, and that is stored and exported like any answer. (A text that
nobody could classify has the event "Unknown", and no article.) Then follow `Commit` its history entry, `Lookup`, `LookupHits`,
`Insert` and `Update` the export by `add_solution`, which votes (`SubmitFeedback`, `Feedback`)
use as well. `Update` writes the columns that differ from what was read. `GiveUp` is
every failure that rolls back. `praised` is a history variable.

### LogText, SourceParsing, EvidenceBundle, Solutions

A *line* has a length, a time and its clock, sessions and operations it names and
the set of *marks* the regular expressions find in it. Everything after the regular
expressions is translated: `Centres`, `Windows`, `Compacted` and `CompactedLength`
(`compact_log_evidence`), `Retained` and `Records` (`evidence.py`), `Ordered` (two sort
keys, one for a single clock), `Segments` (`operation_segments`, as a fold), `Classify`, `Resolve`
and one operator per parser, `Correlate` with its four ways of grouping, `Elect`, `Items`,
`Timeline`, `KbWindows`.

`EvidenceBundle` is the request: `Accept` or `TooMany`, `ReadChunk` until `HaveRead`,
`FileTooLarge`, `TotalTooLarge` or `ReadFails`, `Validate`, `ParseFile`, `Compose`, `Commit`,
`Export`, `Fails`. `Solutions` is the second half of a request: `Refer` (gated articles),
`SearchTier` and `SearchFails`, `Assemble` (official pages first, deduplicated, three of them), and one
action per kind of answer in the order the code tries them. `Articles` is the table of the articles'
conditions, and `Applies` tests them: a text about the environment as a whole, an operation window by
window. `Incident` is the account of a bundle (first and last of the chronology, what it rests on) and
`Doubt` why it may not be told as one; a summary is how many causes and steps it has, where
the texts themselves are fixed.

### Accounts, Evaluations

A call in flight is a record: who called, with which credentials, on what, and
how far it is (`sent`, `held`, `refresh`, `answered`). `Arrive` is the gate and the
look-up, `Commit` the commit, with the foreign key for a submission and the cascade
for a deletion, `Refresh` the reading back. The customer's form is `OpenForm`,
`Submit`, `Deliver`; `CallFails` lets the caller's `fetch` throw while the server goes on.
`hitch` counts how often a form was left in doubt. In secure mode the pages send no
credentials, so that their writes are refused; other clients send what they
have. `DeleteAccount` changes nothing: the coroutine that `db.delete` returns is not
awaited (`admin.py:56`), and the answer says "User deleted". (Outside the model: an account
created as `Admin` or `ADMIN` can never sign in, since `auth.py:84` looks `admin` up.)

### StickerStation

Threads are cut where another thread can see the difference: `Dispatch` and
`CheckDuplicate` and `Enqueue` (the put is outside the lock), `Take` and `Begin` (between
`get` and the assignment of `_current`), `Forget`, `MovePhoto` and `Rename` (from which on another
photo of that name is no duplicate). The dialog is a
rendezvous through one event: `Ask`, `Answer`, `Answered`; `WaitForUsb` finds that event
still set, so that its 300 waits of one second pass at once. The operator's override of the
drive is not modelled: the pipeline never reads it. `overlooked` is a history
variable with the two ways in which the client may lose sight of a photo.

### ComplianceChecks, UsbAuditor

A machine is what can be read of it: for each check an outcome or `Unread`. The
checks, the score (rounded half to even, as Python does) and the verdict are operators, and
so is the plan of the remediation assistant. The stick holds a package (files with
their version, `-1` for a damaged one) and reports. Building is `EnsureRuntime`, `Stage`;
deployment `Refuse` or `RemovePackage`, `CopyFile`, `Verify`; an audit `Scan`, `RemoveOld`,
`Write`, `Sync`; remediation `Assess`, `Apply` or `NotApplied`, `Close`. Each has its failures,
and `Pull` ends whatever writes to the stick. A package is what the manifest could name: bytecode,
reports and logs, which `find_problems` passes over (`build_usb_package.py:230-237`), are not in it. `Staging`, `Deployment`, `Audit` and
`Remediation` group the steps of the four programs.

## 3. Runs

| Run | Question | Bounds |
| --- | --- | --- |
| `registry` | Is a fingerprint ever shared? Do journal and cache stay faithful, and rows to their entries when nobody overlaps? Does the registry implement the ledger? | 2 assets, 1 host name, 2 fingerprints, 2 requests, 3 commits, a score on each side of the pass mark, 2 targets |
| `registry_lost_update` | The state machine's docstring, refuted | 2 requests, 4 commits |
| `telemetry` | Is anything dropped, reordered, copied without a failure, quarantined silently or without evidence? Does the stream drain? | 2 messages of every kind, 2 agents, 1 source, stream of 1, batches of 2, 1 fault |
| `ocr` | Do images, links and verdicts hold, and is every pending upload picked up? | 3 records, 2 serials, passes of 2, 1 fault |
| `alert_feed` | Do broadcasts, pages and reconnections keep up with each other? | 2 visits, 2 alerts, lists of 3, 1 fault |
| `evidence_import` | Do the counters add up, who duplicates, is anything lost? Does the import implement the store? | 2 assets, 2 requests, 2 imports, 3 events of 2 keys, 2 analyses each |
| `knowledge` | What can reuse carry where? | 7 sources of 5 families with common identifiers, 2 articles, 2 sessions, 2 entries, 2 votes, every failure |
| `bundle` | Limits, verdicts, chronology, operations | every list of at most 3 of 7 files, 5 odd lists, and some 5000 texts; small limits |
| `solutions` | What may an answer cite, and does it say anything at all? | 18 requests, 5 pages, 2 tiers |
| `portal` | Are rows accounted for, kept with their sessions, and written by administrators only? | 1 session, 2 evaluations, 1 form, 2 calls, 1 account client, 2 names, 1 token, 1 fault |
| `sticker` | Outcomes, photos lost from sight, a queue that moves | 1 photo put in twice, 1 drive, 1 plug, 1 fault, 1 event pending |
| `usb` | Verified packages, verdicts and their records | 2 machines in 8 conditions, 25 volumes, 2 versions, 2 minutes |

Why these bounds are enough to be interesting:

* Every race in the registry is between two requests (a third one adds nothing that
  a commit by the second does not show), and three commits are a birth and two
  competing updates. Nothing makes host names unique in the source, so one name
  is the case in which they collide; two fingerprints are what the unique index tells apart.
* Two telemetry messages with batches of two and a stream of one give a full
  batch, a partial one, a message that arrives in between, and one pushed out unread; with
  a threshold of one, two failed logons are below and above it.
* Three OCR records with passes of two leave one outside the pass.
* Two visits are a list with a first and a second element; the fault is the
  broken connection, the failed listener or the restart, whichever TLC chooses.
* In the import two of the events hash alike and one entry is unusable; the reports
  repeat each other, so that two requests race for the same keys and more
  events are eligible than are analysed.
* The knowledge base has a Windows number under three families, a number of the catalogue in a JSON log,
  vendor codes with and without an article, and one text close to another with another identity: one
  entry gives, the other takes.
* Three files are the smallest bundle in which two overlaps do not make a common moment. The
  texts have more lines than the limits allow; the limits are scaled down with the
  lines' lengths, none of the conditions compares them with anything but lengths.
* One photo suffices for the races of the sticker client, all of which are
  about the threads' views of one name; it is put in twice since `_seen` matters only then.
* The two machines' names begin with each other, since reports are found by a pattern.
* In the portal one session, two evaluations and two calls make a deletion meet a
  submission and a repeated submission; the account client creates an administrator
  while the token of another is alive.

`MaxCommits`, `MaxMessages`, `MaxFaults`, `MaxFailures`, `MaxImports`, `MaxEntries`, `MaxVotes`, `MaxAlerts`,
`MaxStays`, `MaxPlugs`, `MaxEvents`, `MaxVersion`, `MaxMinute` and `MaxTokens` are the
only artificial bounds; they are guards of the actions, and the theorems hold for all their values.
The primary keys in `Evaluations` are used once each, which bounds its tables.

**Type invariants.** `AssetRegistry.TypeOK` is checked, since the CHECK on the score is a real
constraint. The types of `AssetRegistry`, `TelemetryStream`, `OcrWorkflow`, `KnowledgeBase`,
`EvidenceImport`, `UsbAuditor`, `StickerStation`, `Evaluations`, `AlertFeed` and `Solutions` are proved, as a
part of each inductive invariant (section 5; `StickerStation`, `Evaluations` and `AlertFeed` state theirs in the
module of the proofs). Of `EvidenceBundle`'s (`BundleTypeOK`) what its theorems need is proved, in
`BundleInv`; the rest holds in its instance. They are not repeated in the runs.

**Fairness.** The registry, the import, the knowledge base, the bundles, the
portal and the USB stick never have to move: their specifications state no fairness, and their runs
say nothing about progress. Where something must happen in the end:

* `TelemetryStream`, `OcrWorkflow`: `WF_vars(Worker)`. The worker's task loops for as long as
  the server runs and swallows every exception (`worker.py:102-113`, `ocr_worker.py:33-44`).
  Nothing is assumed about agents, operators, uploads or failures, except
  that failures are finitely many. `Drains` carries in its statement that every agent
  is enrolled in the end and that fewer messages are malformed than a batch
  holds: without the one, a message that the database refuses stays in front of the
  others (`NotObstructed`); without the other, a batch that is malformed as a whole leaves the
  bookmark where it is (`worker.py:235`) and is fetched for ever. What the API
  publishes is always well-formed.
* `AlertFeed`: weak fairness of each step of the listener and of the broadcast, and, for each
  visit, of the handshake, `onclose`, the timer and `onmessage`: the event loops of
  server and browser go on. Nothing makes people come or Redis publish.
* `StickerStation`: `WF_vars(Worker)` (the thread runs, every wait in it but the dialog
  is bounded) and `WF_vars(Answer)`: an open dialog is answered. Without the
  operator the queue does stand still, by design.

**Deadlock** is checked in the registry, telemetry and OCR runs: there is always a
coroutine to start, or an idle turn of a worker's loop. In the others the bounds on
requests, files, visits or photos let the instance come to rest, and the cfg says
`CHECK_DEADLOCK FALSE`.

**Symmetry** is used in safety runs only: `registry`, `knowledge`, `portal`.

## 4. What the code does not keep

One refuted statement has a run: `registry_lost_update` shows that two concurrent PATCHes
perform a jump that the matrix forbids, against `state_machine.py:33` ("Prohibits
illegal state jumps ..."); the counterexample is two commits long. The others are
definitions in the modules, next to the properties that do hold; each was seen to
be violated when it was put into the cfg named here as its only property.

| Statement | Definition | Cfg | What happens |
| --- | --- | --- | --- |
| `state_machine.py:60`: Decommissioned is "Terminal read-only historical archival state" | `AssetRegistry!DecommissionedIsTerminal` | `AssetRegistryLostUpdate.cfg` | A report import or a quarantine assigns the state without asking the matrix. |
| `controller.py:215`: the import "sets its compliance score" | `AssetRegistry!ImportSetsScore` | `AssetRegistryLostUpdate.cfg` | A score equal to the loaded one is not written, and one committed in between stays. |
| `worker.py:213`: quarantine "if > 5 failed logins within 60s" | `TelemetryStream!QuarantineMeansFailedLogons` | `TelemetryStream.cfg` | Redelivered logons count again. |
| Architecture document, 203-205: state, journal, then alert | `TelemetryStream!AlertsAreTrue` | `TelemetryStream.cfg` | The alert precedes a commit that may fail. |
| Architecture document, 365: an offending payload goes to a dead letter queue | `TelemetryStream!NotObstructed` | `TelemetryStream.cfg` | A fingerprint without an asset stops ingestion. |
| Architecture document, 364: interrupted work is reassigned | `OcrWorkflow!CrashedWorkIsRedone` | `OcrWorkflow.cfg` | A row in Processing is never taken up again. |
| `import_pipeline.py:22`: "Duplicate events do not create duplicate analyses" | `EvidenceImport!NoDoubleAnalysis` | `EvidenceImport.cfg` | Two imports look up before either commits, or one report repeats an event. |
| `vector_db.py:128`: a rejected row is quarantined, "so retrieval guardrails exclude it" | `KnowledgeBase!QuarantineLasts` | `KnowledgeBase.cfg` | The export of the next analysis of the text (`analyze.py:282-285`) sets its score to 0. |
| `vector_db.py:219`: "JSON -> json only" | `KnowledgeBase!FamiliesApart` | `KnowledgeBase.cfg` | The rule holds for the rows retrieved; the catalogue of Windows events is asked by number alone (`summary.py:1021`), and what it says is stored as the log's own solution. |
| `analyze.py:190-191`: "Never silently discards failures" | `EvidenceBundle!SignalsSurvive` | `EvidenceBundle.cfg` | A signal beyond one radius but within two of a window opens none and is in none (`compaction.py:57`). |
| `vendor_knowledge.py:262`: environment articles use the whole segment | `Solutions!EnvironmentSeen` | `Solutions.cfg` | The evidence was cut to windows before (`analyze.py:205`). |
| `json_exporter.py:21`: one machine, one file | `UsbAuditor!EvidenceSurvives` | `UsbAuditor.cfg` | The old reports, and those of a machine whose name begins with this one's, are removed before the new one is written (`:78-80`). |

More that the models show, or the reading did, without a property:

* Delivery is at least once, not "Exactly-once" (`worker.py:231`): `CopiesBounded` is the best
  bound, and `PersistFails` reaches it. A message answered "accepted" while Redis was away is in
  `lost` (`PublishFallback`), against `worker.py:40`.
* A report that matches two assets, one by fingerprint and one by host name, is refused at
  every attempt (`MatchReport`).
* After its first exception the alert listener is gone until the server restarts, and
  the health check does not show it (`ListenerFails`).
* A disconnection while a broadcast walks the list makes it skip a connection (`ws_controller.py:32`).
  `ServedUnlessShifted` excuses exactly that, and says that nothing else, a failing send included, does.
* `delete_user` deletes nobody (`DeleteAccount`): `AsyncSession.delete` is not awaited (`admin.py:56`).
* Where no file of a bundle has a code, the primary is the first one uploaded (`analyze.py:376`), and
  which items are shown when there are more than `ItemsTotal` depends on the order too: neither is in
  `OrderOfUploadIrrelevant`.
* A deployment that fails after `RemovePackage` leaves a stick without package and reports.
* A form whose answer was lost submits again, and nothing recognises the second row:
  `EveryRowAccountedFor` counts what can be promised.

## 5. Proofs

TLAPS proves, for every value of the constants, what follows. Each module has one inductive
invariant, with a type invariant in it; the theorems are its consequences.

* `AssetRegistryProofs`: the registry's invariant (type, `SessionsStandOnCommitted`,
  `CacheHoldsCommitted`). `SessionsStandOnCommitted` is no more than an auxiliary: what the guards
  established when a session read still holds of the version it read. `OverlapsDiverge` uses it where that
  version is the latest: then the columns not written are the loaded ones, and only the
  session's own commit can come next (`OnlyItsCommitWrites`, `StepRecorded`). It is also used to show that each step is a ledger step or a stutter
  (`RegistryRefinesLedger`). The invariant is what makes refinement true: a commit is a ledger
  step only if the version the session loaded exists and passed the check. The second half is the
  ledger's own invariant (`LedgerSafe`), which the refinement carries over to the registry. The
  journal properties are not inductive alone: an entry about version *i* must refer to a
  version that exists, and `PrintFree` looks at current rows only, so the
  invariant adds that a row keeps the fingerprint of its first version.
* `TelemetryProofs`, on `TelemetryStream`: `StreamInv`. `NoSilentLoss` alone is not inductive, since
  `Trim` discards entries without looking at them. The strengthening says that
  everything up to the bookmark is stored or lost (`BookmarkCovers`), that the batch
  in hand is a gapless stretch after the bookmark (`BatchGapless`, which needs the
  cardinality argument in `FetchPreserves`), that copies are paid for by faults
  (`CopiesAccounted`), and that what is due for quarantine has its logon in the
  batch and was announced before the commit (`DueFounded`).
* `TelemetryProofs`, on `AlertFeed`: `FeedInv`. `ServedUnlessShifted` needs that everything before the
  walk's place has been tried as long as nothing was removed there (`WalkServes`). `NewestInFront` is
  about what is shown, and what is shown comes off the wire: the invariant orders the alerts along
  their whole way, from what is shown over what is on the wire and the one being broadcast to what
  waits for the listener (`InOrder`, `NotAhead`). That an alert is shown at most once per attempt is a
  count (`CopiesCounted`): its copies on the page and on the wire are at most as many as the visit has
  made attempts, and one less while its latest connection may still be reached by the
  walk. This needs that no connection is in the list twice (`Distinct`): a connection that is reached
  has been served, and the walk never comes back to it.
* `OcrWorkflowProofs`: `WorkflowInv`. `CompletedMeansLinked` needs to know what each
  handler and the worker hold when they are about to write: a serial that is
  registered already.
* `KnowledgeBaseProofs`: `KnowledgeInv`. That what a solution carries stays in its family, but for an article on the
  number, is a matter of the guardrails, for one step of reuse; `Update` mixes columns of a row with what a session read of
  it earlier, so the invariant follows what a session *carries* (`JobsInStep`, and the middle part
  of `PraiseExplains`). That a solution reaches another identity only after praise rests on scores:
  a positive one, in the table or on its way there, means that the identity was praised
  (`PraiseExplains`). That only overlapping sessions store a text twice needs the state between
  look-up and insert: the row about to be inserted is newer than all the look-up saw
  (`InsertsAreNew`).
* `EvidenceProofs`, on `EvidenceImport`: `ImportInv`. `ImportAccounted` is about a request that has finished; its
  counters are followed through the steps (`StepsCount`), with a lemma that the candidates taken in
  order of priority are as many as were counted. `StoresAreNew` is the counterpart of
  `InsertsAreNew`. `ImportKeepsEvidence` is the refinement of `EvidenceStore`, one step at a time: what
  an import analyses is a row it stored, and the rollback of a failed analysis retracts no evidence.
* `EvidenceProofs`, on `EvidenceBundle`: `BundleInv`. Its steps are simple (every file in hand is one of
  the offer, the sizes held are within the limits, the answer is computed from the entries); the
  work is in what the operators promise for all texts and files.
  * `BundleLimits`: what is held grows by a chunk that was measured before; the windows, the retained
    lines and the compacted length are folds over a text, and each has an invariant of its own
    (`CentresRun`, `WindowsRun`, `RetainedRuns`): a signal that opens no window is within two radii of one that is open, and
    what is retained costs at most `MaxChars` or is header and tail alone. That a fold keeps an
    invariant at all rests on one fact, that the recursion it stands for has a solution
    (`FoldSolved`), which is proved once, by induction on the length of a finite prefix; `FoldRuns` then
    follows it along the sequence.
  * `BundleVerdict`: windows that overlap two at a time, for any number of files, have the latest of
    their beginnings in common (`MomentFound`); and when a file outside the sources is removed the groups
    of the rest correspond one to one, with the same names, clocks and windows (`Without`,
    `Correspond`, `SharedWithout`), so the verdict is the same.
  * `BundleChronology`: both sort keys are strict total orders of the places (`StablySource`,
    `StablyTime`), and to shift a clock commutes with picking signals and with sorting them
    (`ShiftedSignals`, `ShiftedOrder`): times are compared only where all of them are of one clock, and all
    move together (`StoryShifted`). An answer without doubt has one clock and no signal without a
    time, and the order is that of the times (`UndoubtedOrdered`). That operations are neither mixed nor cut is
    an invariant of the partition as it runs along the records: what the open operation shows is
    what its records name (`Shown`), the closed ones are bounded by reasons to close (`Cleft`), and all of
    them together are the records so far (`Divides`).
  * `BundleOrder`: a permutation of the files carries groups to groups with the same names
    (`GroupMoves`, `IdsMove`, `PathsMove`, `SignaturesMove`), and leaves the votes as they are (`VotesMove`,
    `DiagnosisMoves`). The records of files with different names are the same set, none of
    them twice (`BundleApart`, `RecordsMove`), and a set is listed by a strict order in one way (`ListedOnce`).
* `EvidenceProofs`, on `Solutions`: `SolutionInv` and `SearchInv`, for `SolutionsFounded`.
  * That one operation meets the condition of an article that is cited, although the text was cut twice: a
    condition on marks stays true of more lines (`GateGrows`), a window's lines are lines of one operation
    (`WindowsCut`, `SegmentLines`), and a text without a window has no line with the marks the
    articles about operations ask for, since "missing" and "invalid" are anchors of the codes they answer
    (`OperationArticles`, `AppliesToOperation`).
  * That a window is one operation when it is numbered anew and partitioned again
    (`OneSegment`, `WindowOne`): it is a stretch of one operation, and a second operation in it
    would begin at a record that fits the first. The statement has a guard: `_retained_source_lines` keeps the line that reaches its
    budget, so a window may be longer than `MaxChars`, and is cut then.
  * That no reference is given twice: what is taken of a search is new to all addresses remembered, over
    searches that fail, repeat each other or return the page of an article (`TakeKeeps`, `TakenRuns`),
    and the starting points are filtered by the same set (`AssembleOnce`).
* `EvaluationsProofs`: `AccountsSound`, `TablesSound`, `CallsSound`, `FormsSound`. `AdminsOnly` needs that no
  role ever changes: what a token says of an administrator stays true, so that a call admitted once
  is still entitled when it commits (`DutySound`, `CallSound`). `EveryRowAccountedFor` is a counting
  argument (`FormSound`): the rows of a form, and the calls that may still make one, are at most
  those it was told of and those it was left in doubt about; a form waits for one call at a time.
* `StickerStationProofs`: `StationInv`. `OutcomesSound` limits the outcomes of a photo by its stays in
  the folder and the faults. This is not inductive: the strengthening says that as long as a photo is
  in the folder one outcome is still owed for it, unless the worker has just written that outcome and is
  about to move the photo (`OutcomeOwed`), and that only the worker takes photos out, one at a time
  (`WorkerInStep`). `NoPhotoLostFromSight` needs the converse of what the listings see: a name that
  is remembered although its photo is not in the folder has been overlooked (`Sighted`).
* `UsbAuditorProofs`: `AuditorInv`. That a compliant verdict rests on at least twelve checks that were
  seen is a count (`CompliantSeen`): a rounded score of 80 % loses at most nine half points, six of them to
  the checks that are not implemented and warn; of the checks that could not be read at
  most three more cost something, and three go unnoticed. That the auditor and the assistant agree
  about a volume compares two programs case by case (`ReadingsAgree`, `ResumedReads`). `PackagesWhole`
  rests on the manifest that lies on the stick being the staged one (`BuildInStep`): then equal
  names and hashes leave no room for anything else. `VerdictsOnRecord` rests on the report of this
  minute being the one just written (`AuditInStep`).

**Assumptions** are the named ASSUMEs of the modules, which TLC evaluates in the runs: positive sizes and
natural bounds; that header, tail, marks, note and slack together stay below `MaxChars` (with the
code's numbers, some 11 700 of 60 000 characters; at equality the mark that says the body was cut would
put the result over the cap, which the attempt to prove `CompactedFits` brought up); that an offer is a
sequence of files, and that the codes are listed in one order (the alphabet's, by which `submit_bundle` settles
ties); that a missing and an invalid file open windows for both codes they lead to, that only the texts of two
vendors have a code with an entry, and that the starting points of a family are different pages; that the
names of different things differ (no token reads like the configured one, none of the placeholders is a
name); in `KnowledgeBase`, what the parsers make of a source (which families
there are, that imported rows have a numeric event and no vendor code, that only vendor logs have a code and
none of them a number of the catalogue); in `StickerStation`, that photos are
finitely many; in `UsbAuditor`, what Windows reports about a volume (the enumerations of its
module, and that a fully encrypted volume is encrypted to 100 %) and that no source is called
`MANIFEST.txt`.

**Model-checked only:** every invariant and every action property of the passing runs is stated by a
theorem, and so are both refinements. TLC alone checks

* the liveness properties `Drains`, `PickedUp`, `Reconnects` and `QueueMoves`: fairness and ENABLED
  are beyond the prover;
* the refutations, of course.

Two habits of the provers shape the models: tlapm's CASE needs guards that exclude one another, so a
list of early returns that do not is an IF where it is reasoned about; and the SMT
backend does not take the empty string, so "nothing" is `"none"` in `UsbAuditor`.

## 6. What is left

1. The rest of `BundleTypeOK`: that the items never exceed `ItemsTotal` is about a fold over `SelectSeq`,
   a library operator the prover knows little of.
2. The safety half of the liveness properties, as leads-to chains without fairness: which steps of the
   worker or of a visit can take it further, and that no other step takes it back.
3. `Search` and `Timeline` read only; a model of the shared session of the search providers would say
   which results a failing statement takes with it.

## 7. Not modelled

* **EVTX upload and worker.** The route stores the file and then queues it through
  `broker.cache_manager`, an attribute the broker does not have (`controller.py:108`): no job is ever
  queued, and the worker never has one.
* **Search.** Providers read through one shared session, and a failing statement makes the later
  ones fail until it is rolled back; nothing is written.
* **Timeline.** A merge of three queries.
* **form_project.** CRUD over SQLite, one statement per request, except that a training is deleted in two
  statements.
* **`clients/log_analyzer`.** An older copy of the backend's analyzer.
* **Pages of the dashboard** other than the observability and evaluation pages: they render
  what the API returns.
* **Regular expressions, wording, what a language model or a web page says, image processing, password
  hashing and the binary EVTX format**: they appear as marks, choices and outcomes.
* **Migrations, container files, benchmark, demo and seeding scripts.**

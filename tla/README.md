# face-api in TLA+

A verification project for face-api, a Go service that enrolls faces, recognises
them in uploaded images and in frames of an RTSP camera, keeps an audit log of
every scan in bbolt, and answers Home Assistant over MQTT. The modules here model
its control: what each request reads and writes, in which order, under which
lock, and what happens when a step fails or the process dies. Images, embeddings,
JSON and HTML are abstracted to the distinctions the control makes.

Paths below are relative to the repository (`internal/...`, `cmd/...`).

## 1. The system

| component | state | operations | talks to |
|---|---|---|---|
| Face service (`internal/service/face_service.go`) | `mu`, `threshold`; users and audit through repositories | EnrollImage, RecognizeImage, CheckStream(Image), PromoteFromAudit, DeleteUser, DeletePicture, GetSettings, SetThreshold | processor, repositories; called by HTTP handlers and the MQTT worker |
| User repository (`internal/repository/user_repo.go`) | bucket `Faces`: name to embeddings and pictures | GetByName, Exists, Save, Delete, ListAll, backfill | one bbolt transaction per call |
| Audit repository (`internal/repository/audit_repo.go`) | bucket `Audit`: sequence of entries; statistics cache | Append, Recent, ListPaginated, CountAll, ComputeStats, ListRecognizeEntries, ListUnmatched, GetAuditFace, SetFaceThumb | one bbolt transaction per call, except that ListPaginated without filter and ListRecognizeEntries use two |
| Settings repository (`settings_repo.go`) | bucket `Settings`: one record | Get, Save | face service |
| Face processor (`internal/service/face_processor.go`) | two ONNX sessions, `inferMu` | DetectAndCrop (ExtractEmbedding and DetectAndCropFromRTSP are called by nothing) | ONNX runtime |
| RTSP reader (`internal/rtsp/reader.go`) | none between calls | ReadFrame | gortsplib: requests, packet callback |
| MQTT bridge (`internal/mqtt/bridge.go`) | trigger channel, `done`, context, worker | New, Run, Stop, onMessage, worker, OnConnect | paho client, broker, face service |
| HTTP API (`internal/http/handlers.go`) | none | one handler per route | face service |
| Middleware (`internal/http/middleware.go`) | none; the browser has the cookie | login, logout, cookie or token check, size limit | API, pages |
| Web UI (`internal/http/ui.go`, `templates/`) | template cache | pages, forms, in-process proxy to the API | face service, API |
| Main and wiring (`cmd/face-api/main.go`, `internal/di/wire.go`) | process life cycle | start, backfill, serve, signal, shutdown | all of them |

What is hard here:

* **Interleaving.** Every HTTP request has a goroutine, the MQTT worker is one
  more; a request is a series of bbolt transactions of which only some are under
  `FaceServiceImpl.mu`.
* **Partial failure and crashes.** Each transaction may fail on its own; the
  database survives a crash, locks and caches do not.
* **Identity by time.** The audit log has no entry identifiers in its API: a
  promotion names its entry by a time with a resolution of one second.
* **Asynchrony in MQTT.** One goroutine per message (`SetOrderMatters(false)`),
  one per OnConnect, a bounded channel with drop-oldest, reconnection, a will.
* **Stale pages.** A page names a picture by its position in a listing that other
  tabs change; reloads post forms again; a cookie, relative links and an ingress
  that strips a prefix must agree about URLs that no single place sees whole.
* **Native resources.** Two ONNX sessions behind one mutex, with values to close
  on each of six ways out of an inference.
* **Timeouts.** The RTSP callback races a timer and a close; timeouts are retried.

The list of hazards, each with its line, is in `PROJECT.json`.

## 2. Modules

| module | models | state and steps |
|---|---|---|
| `Enrollment` | the stored user record | pure operators: `HasRoom`, `WithFace`, `WithoutPicture`; what the properties ask of a record: `Aligned`, `Bounded`, `Surplus` |
| `UserGallery` | abstract: what the user store promises | `gallery`; whole operations, each in one step |
| `AuditLog` | the audit log and its queries | pure operators over a sequence of entries |
| `FaceService` | the requests on users and log | one step per transaction or lock operation |
| `Statistics` | abstract: what the statistics page promises | `log`, `answer`; `counting` says whose scans are still to be stored, `settled` what the last answer given without any such scan of another caller counted: no answer is older |
| `AuditRepository` | appends against statistics and paginated listings | clear, commit; look up, scan, store; count, collect, turn the page |
| `FaceProcessor` | DetectAndCrop, called concurrently | one step per call to ONNX Runtime, per anchor, per lock operation |
| `ThresholdSettings` | SetThreshold, its file, restart | validate, save, publish as separate steps |
| `WebUI` | pages, cookie, template cache, a browser with several tabs | one step per browser action, middleware decision, page handler part and use of the cache |
| `RtspReader` | ReadFrame | requests, packets, timer, close, retries |
| `MqttBridge` | Run, Stop, onMessage, worker, OnConnect | one step per channel operation or client call |
| `Migration` | what a start does to an older database | pure operators: `Backfill`, `SetFaceThumb`, which entries and users need it |
| `Lifecycle` | main and NewFaceAPI: start, migrate, serve, signal, shut down, die, start again | one step per migration transaction and per step of the shutdown |
| `EnrollmentProofs`, `FaceServiceProofs`, `AuditRepositoryProofs`, `FaceProcessorProofs`, `WebUIProofs`, `RtspReaderProofs`, `MqttBridgeProofs`, `LifecycleProofs` | theorems about the module of the name; `WebUIProofs` also those about `ThresholdSettings`, which `WebUI` extends | |
| `MC*` | instances for TLC | values of the constants |

`FaceService` extends `Enrollment` and `AuditLog` and instantiates `UserGallery`
with `gallery <- users`. `AuditRepository` extends `AuditLog` and instantiates
`Statistics`, where `counting` is the set of callers whose scan is still to be
stored and the other variables are its own. `WebUI` extends
`ThresholdSettings`, whose callers are its tabs, and `Enrollment`, whose
operations it takes as atomic because `FaceService` is proved to provide them so.
`Lifecycle` extends `Migration` and composes the start, HTTP requests, the MQTT
worker and the shutdown of one process.

### FaceService and the code

A handler's program counter `pc[c]` is the next transaction or lock operation of
the Go code:

| `pc` | next | code |
|---|---|---|
| `find` | `FindEntry` | `audit.Recent(10000)` and the search by time |
| `lock` | `Acquire` | `s.mu.Lock()` |
| `read` | `ReadForAdd`, `ReadForDeletePicture`, `ReadForDeleteUser` | `GetByName` / `Exists` and the checks on the result |
| `save` | `Save`, `SaveFails` | `users.Save` / `users.Delete` |
| `list` | `Match`, `ListFails` | `users.ListAll` and the comparison with the threshold |
| `append` | `AppendEntry`, `AppendFails` | `audit.Append` |

`req[c]` holds parameters and locals, `draft[c]` the record about to be saved.
Detection happens before anything shared is touched, so it is part of the step
that starts the request (its own order is `FaceProcessor`'s subject); its failure
is `RejectImage`. `Release` is the deferred Unlock and so accompanies every
return from under the mutex, the panic of DeletePicture included (net/http
recovers it). The time of an audit entry was read some time before its
transaction, so `AppendEntry` chooses it between the handler's previous step and
now.

A *face* is one crop: DetectAndCrop returns picture and embedding together, so
one model value stands for both, and "index-aligned" is equality of two
sequences. Users are numbered in key order because the scan in RecognizeImage
resolves ties by it. Records in the format without pictures are `InitUsers`
with an empty picture list.

### AuditRepository and the code

Goroutines append while any number of clients (`Callers`, each a request of its
own) ask for statistics; one of them, the `Walker`, leaves them for a listing and
back, one request at a time. Nothing but the log joins the two kinds of query, so
one walker is enough, while concurrent ComputeStats calls meet in the cache.
`Clear` resets both cache fields under one write lock, before the
transaction (`Commit`, `CommitFails`). ComputeStats is `Lookup` (both fields
under one read lock), `ScanStats` (one transaction) and `Store`, for each caller:
a scan may be stored over a newer one. `age` counts ticks since `cachedAt` and
stops at the TTL. `settled` is history, written by `Tell`: how many entries the
last answer counted that was given while no other call had a scan to store.

`Open`, `ListFiltered`, `Count`, `ScanPage` and `TurnPage` are the client of
ListPaginated and ListRecognizeEntries: with a status filter everything happens
in one transaction, otherwise rows are counted in one and collected in another.
A page is a set of indices into the log, and `Rank` is the loop counter `seen`.
Queries of a single transaction (`ListUnmatched`, `RecognizeSummary`, `FaceAt`)
are operators, compared with the listings in every state: each has its own loop
and limit, and `DefaultStatus` has its default for a missing status, a field for
each of the eight loops (ListRecognizeEntries has two). ListUnmatched's loop with its two caps is
a recursive function, `UnmatchedScan`, whose turn at one entry is `ScanUnmatched`.

### FaceProcessor and the code

`inferMu` is `holder`; `open` is the set of native values that exist. `phase`
tells the detection session from the recognition session: `runDetect` and
`runRecognize` share `Lock`, `NewTensor` and `Run` and differ in how outputs are
read. Outputs are read in any order because the code ranges over a Go map.
Detection results are fields of the image, chosen once: the runtime is external.
The scan takes one step per anchor and follows `detLevels`' order. Coordinates
are whole pixels and the scale is a rational, so `Scaled` and `MapBack` use
integer division where the code rounds floats; scores are integers or `NaN`,
whose comparisons are all false. Regression values are never `NaN` here.

### WebUI and the code

A URL is the sequence of its path segments, with `""` after the last slash, so
that resolving a relative reference, matching a cookie's path and the mux's
choice are operations on sequences. `Base` is `UI_BASE_PATH`: the browser sees
it, the program does not, except where it writes redirects and cookie paths.
`Links(kind)` lists the references of each template with what they are meant to
reach: the links (`Anchors`), the forms' targets (`Actions`), and what the page
loads by itself (`Fetches`: the stylesheet, the login page's included, the
header's statistics, and the four API calls of the audit page's script).

`ShowPlain` is the dashboard, the recognize, audit and statistics pages, `StatsFail`
the error of the statistics page; the dashboard ignores that error. No page links to
`/ui/stats`, so `Visit` types its address. The recognize form is answered by its
page after the API's handler has run in process, which changes no state of this
module. A deletion may fail like that of an unknown user; a failed upload and a
failed listing still give a page. A picture that an API client or a promotion from
the audit page adds is, for a tab, like an upload of another tab.

`step[t]` is where the tab's request is: `sent` (before the middleware), `list`
(the listing of the enroll page is still to be read), `set` (inside
SetThreshold), `render` (before the lookup in `templateCache`), `parse` and
`write` (the assignment to the unlocked map, whose beginning and end are apart),
`idle`. `Abort` is the runtime's "concurrent map read and map write", which it
may or may not notice. `Send` decides at once whether the cookie goes along,
since the browser attaches it when it sends.

The hidden `picture_index` of each delete form is its position in the listing the
page was made from. `meant` (the picture shown there), `outdated` and `signedIn`
are history, read by properties only. The browser, the ingress and the other
clients that warm the cache are external.

### The other modules and the code

* `ThresholdSettings`: thresholds are hundredths and `NaN` is a value of its own,
  because `v <= 0 || v >= 1` lets it through and `json.Marshal` does not.
  `written` (what was ever on disk) and `inForce` (what was ever live) are history.
* `MqttBridge`: triggers carry nothing (`chan struct{}`), so the channel is its
  length. The three nested selects of onMessage are three steps. `stop # "idle"`
  means that `done` is closed. The paho client and the broker are external:
  Connect fails exactly when the broker does not accept, a lost connection
  reconnects by itself, OnConnect runs in a goroutine, a publish on a broken
  connection is lost, and the broker publishes the will when it notices the loss
  or when the client comes back, unless the client disconnected cleanly. OnConnect
  calls of two connections are merged into the later one; they publish the same.
  Run's successful Connect and its `wg.Add` are two steps (`Connect`,
  `StartWorker`), and `early` remembers a Stop that came before the second one: it
  does not wait for the worker that Run starts afterwards.
  A Stop before Run has assigned `b.cancel` differs from one just after it only
  in whether Run returns, and is not kept apart.
* `RtspReader`: gortsplib is external: the packet callback runs in one goroutine
  and Close waits for it. Every request is bounded by the timeout.
* `Migration`, `Lifecycle`: the backfill's scan of the log is a recursive function,
  `Grouped`, whose turn is `Group`. `phase` is where main's goroutine is, `at` the index
  of the thumbnail loop, counted down because `Recent` lists newest first. Users
  come in two stored formats; only records can be backfilled. What a request does
  to a user is one step here, because its order under the mutex is `FaceService`'s
  subject, but Save and Append stay apart: a crash between them is what the next
  start may meet. A face's entry has its thumbnail (`FaceEntry`); a stream check
  without a face, of a request or of the MQTT worker, stores its frame without one
  (`FrameEntry`), so the next start makes it. `served` is history: the length of
  the log when the last start began to serve. There is one process at a time: bbolt's file lock, and the
  deployment's `Recreate` strategy, which cites it. The bridge is reduced to the
  worker: started or not, in a check or not, gone or not. A failed `bolt.Open`,
  model load or `EnsureBuckets` ends the process before it has changed anything
  and is not a step. Loading the threshold is `ThresholdSettings`' `Restart`.

## 3. Runs

Passing runs (TLC finishes, and between them they take every action):

| run | question | bounds, and why they are enough |
|---|---|---|
| `gallery` | Do concurrent enroll, promote, check and delete keep the store right, and is every request answered? | 2 handlers (every race here is between two requests for one name), 1 name, 2 faces (to tell the right picture from the wrong one), limit 2, one audited entry; a record starts absent, with one picture, or full |
| `log` | Does a promotion find the entry that was picked? What does the picture limit bound? | 2 entries, 2 seconds, 2 handlers; limit 2 (two promotions meet at it); a record starts absent, or as a backfill leaves it: with one embedding and two pictures, or with one and none |
| `audit` | Do statistics add up, is every answer that of one log, which answers may go back, and do they become right in the end? What can a walk over the pages miss? Do the other queries agree with the listings? | 2 appenders (who may pass the end of the log at once), 2 callers (one scan can be stored over the other), one of them the walker, 3 kinds of entry with each reading of the status, two of them of one second and one of double size, log of 3, pages of 1 (a second page exists), TTL 1, ListUnmatched capped at 1 entry and 2 bytes so that each cap can be the first |
| `inference` | Is one request at a time in ONNX Runtime? What is closed? Is the best face cut out? Does every call return? | 2 requests, 6 images (equal best scores, NaN, a box over the edge, one in the padding, one wider than the input, nobody, too narrow, undecodable), 3 outputs, input of 4 pixels with strides 2 and 4: two levels of different size. Every runtime call may fail. Requests finish, so deadlock is not checked |
| `pages` | Do session, links and prefix agree? Is the deleted picture the one shown? Which threshold may a page show? When can the template cache end the process? | 2 tabs of one browser, one with the threshold and user forms, the other with login, recognize, upload and picture forms (every race about gallery, cookie and cache is between two tabs; of two that set the threshold, see `threshold_divergence` and the theorems, which are about any number); a prefix; 1 user with 2 pictures, so that indices move; thresholds inside, out of range and NaN; the enroll template cold, the others warm; restarts unlimited |
| `rtsp` | Can callback, timer and close block each other? How long can it take? Does it return? | 3 attempts, 4 requests, 2 skipped packets, timeout 2 |
| `lifecycle` | Is a migration, interrupted and repeated, complete and harmless, and what does it leave to the next start? What is still running when sessions close? Does a signal end the process? | 2 handlers, 1 user, 1 crop, 2 frames of one second, with a face and without (two images tell which thumbnail is whose), limit 2, log of 3 (two of them old, one new), one tick for the five seconds; users without, with current and in both old formats |
| `mqtt` | Is the last trigger ever lost? Does a check outlive Stop? Are triggers answered, does Stop return, is a connection announced? | 2 message goroutines on a channel of 1: full, emptied and refilled between the selects; the number of triggers and of lost connections is unlimited |

Bounds named in the modules: `MaxAudit`, `MaxSec` (FaceService), `MaxLog`
(AuditRepository, Lifecycle). Everything else is finite by itself.

Violation runs show where the code does something else than its documents say
(`findings` in `PROJECT.json` quotes both):

| run | what happens |
|---|---|
| `legacy` | the start gives an old user the newest enrolled face as first picture, while the embeddings are oldest first; DeletePicture takes the lists for index-aligned and removes the embedding of another face. A record without pictures that is enrolled again (picture 0, embedding 1) ends the same way, and DeletePicture panics at an index that only the embeddings have |
| `status` | RecognizeImage leaves the status empty, which readers take for "matched", also when nobody matched |
| `threshold_divergence` | SetThreshold saves outside the mutex: two calls leave memory and disk different |
| `links` | the page that answers a deletion has the URL of the deletion, `/ui/enroll/delete-picture`, where its relative links, forms, stylesheet and statistics resolve one directory too deep: the next deletion from it gets 404 |

Other disagreements that reading showed and no run states:

* Run repeats a failed first connection ten times and then gives up for good
  (`2026-09-17-mqtt-design.md:67` promises retries with exponential backoff).
* `reader.go:38` says "The timeout applies to the full connection + frame capture";
  every request, the wait for a frame and every retry have the whole timeout anew.
  `TimeIsBounded` states the bound there really is, several times that one.
* `face_service.go:532` calls entries without a thumbnail "legacy data written before
  the thumbnail field existed"; the frames of stream checks without a face are still
  stored without one, and each start makes them up.
* `user_repo.go:161` collects enroll entries "oldest first" and reads them from the
  last to the first (the run `legacy` shows what comes of it).
* Users stored as arrays are skipped by the backfill although the readers accept
  them.
* `2026-09-25-stats-feature.md:81` says the computation "is not cached"; it is,
  for a TTL, and `Clear` comes before `Commit`, so that a scan in between
  hides the entry until the TTL is over. `EventuallyFresh` is what remains true.
* `middleware.go:31` and `main.go:88` say an empty token disables authentication;
  the pages under `/ui/` still ask for a cookie.
* `wire.go` comments "auth first (outer), size limit (inner)" and builds them the
  other way round.
* The login page's stylesheet is behind the cookie, no page offers the logout
  that the middleware serves, and the mux's redirect from `/ui` to `/ui/` drops
  the ingress prefix.

What the passing properties say on purpose of less than one might expect:

* `PicturesBounded` is a limit on embeddings, because that is what EnrollImage
  tests. A record that a backfill has given more pictures than it has embeddings
  (pictures of an earlier user of that name) can exceed the limit in pictures; the
  property says that no record ever has a larger surplus than one had at the start.
* `PicturesAligned`, and the theorem about `NoPanic`, hold where every stored
  record starts aligned, which is what `gallery` puts into `InitUsers`; `legacy`
  shows where other records come from.
* `PromotesPickedEntryOfUniqueTime` excludes entries of one second: of two such
  entries only the newer can be promoted.
* `DeletesPictureMeant` excepts a listing that another tab has made out of date
  and a form that is posted again by a reload: there the handler deletes whatever
  has the index now, and the pages reload themselves on a timer.
* `WarmCacheNeverAborts` is about a warm cache, once all six templates are in it.
  Two requests that meet while a template is being stored for the first time can
  end the process; no property excludes that, because the code does not.
* `OnlyFailedReadsLeak` names the path that leaks: the detection outputs after one
  that cannot be read are never closed.
* `ShownThresholdWasInForce` says the threshold was live in this or an earlier
  process, not that it is still.
* `ImplementsStatistics` does not say that answers never go back: of two concurrent
  ComputeStats calls the one that scanned first may store last, and the next answer
  is its older one. It says that this takes a scan which another call had finished
  and not yet stored when the newer answer was given.
* `MissedOnlyByLateAppends` bounds what an unfiltered listing, which counts and
  scans in two transactions, can miss; it does not exclude it.
* `NoCheckAfterStop` and `SessionsClosedAfterUse` except a Stop that comes before
  Run has reached `wg.Add`, while it connects or just after: it does not wait for
  the worker started later. An OnConnect
  call that is late may publish "online" after Stop's "offline".
* `SessionsClosedAfterUse` does not say that no request is in a session when it
  is closed, only that such a request has outlived the five seconds.
* `OnlyNewFramesAreLeft` is about starts whose transactions all succeed; the
  others are finished by a later start. It leaves frames without a face, written
  since, to the next start.
* Stop does not drain the queue; the worker's select may take `done` first.
* `TimeIsBounded` has a bound several times `Timeout`, against the comment quoted
  above, because every request, the wait for a frame and every retry have the whole
  timeout.

### Fairness

* `FaceService`: weak fairness of each running handler; strong fairness of
  `Acquire`, because Go's mutex hands over to a waiter after a millisecond
  (starvation mode). Clients need not send requests.
* `AuditRepository`: time passes; an append or a ComputeStats that began
  continues. The clients need not ask, and nobody need append.
* `FaceProcessor`: weak fairness of each request. Strong fairness of `Lock` is not
  needed: each of the finitely many requests locks twice at most.
* `WebUI`: none; its properties are safety properties.
* `MqttBridge`: goroutines run; strong fairness of the two cases of the worker's
  select (Go picks among ready cases at random, and a parked receiver is handed
  the next element); checks return (see `RtspReader`); paho reconnects whenever
  the broker is reachable often enough. The broker itself is not fair.
* `Lifecycle`: main's goroutine goes on; a check returns, and the worker's select
  takes `done` at last. Handlers may hang, and the process may always crash.
* `RtspReader`: timers fire and goroutines run; the camera need not do anything.

## 4. Proofs

The theorems hold for every value of the constants that the named assumptions
allow: any number of handlers, tabs, callers, requests or message goroutines, any
limits, images, seconds and timeouts.

| module | theorem | states |
|---|---|---|
| `FaceServiceProofs` | `TypeCorrectness` | `TypeOK` |
| | `MutexCorrectness` | `MutexHeldByHandler` |
| | `DraftsAreCurrent` | `DraftIsCurrent` (no lost update) |
| | `EnrollEntriesDescribeGallery` | `EnrollEntryDescribesGallery` |
| | `PicturesStayBounded` | `PicturesBounded`, if no initial record has too many embeddings (it may have any pictures) |
| | `PicturesStayAligned` | `PicturesAligned`, if the initial records are aligned |
| | `DeletionsNeverPanic` | `NoPanic`, if the initial records are aligned (not in a run) |
| | `PromotionsTakePickedEntry` | `PromotesPickedEntryOfUniqueTime` |
| | `ServiceImplementsGallery` | `ImplementsGallery` (refinement of `UserGallery`) |
| `AuditRepositoryProofs` | `AuditTypeCorrectness` | `TypeOK` |
| | `CacheImplementsStatistics` | `ImplementsStatistics` (refinement of `Statistics`) |
| | `SettledStatisticsStay` | `SettledAnswersStay`: neither the checks nor the last match of an answer given while no other scan was to be stored are ever shown smaller (not in a run) |
| | `WalkMissesOnlyLateAppends` | `MissedOnlyByLateAppends` |
| | `AuditQueriesAgree` | `QueriesAgreeWithListings` |
| `WebUIProofs` | `LiveThresholdWasPersisted` | `TypeOK`, `LiveWasPersisted`, of `ThresholdSettings` |
| | `PagesImplementSettings` | `UISpec => Spec` of `ThresholdSettings` (refinement) |
| | `PagesImplementGallery` | `UISpec => Spec` of `UserGallery` (refinement) |
| | `PagesKeepThresholdPersisted` | `LiveWasPersisted`, of the pages |
| | `ShownThresholds` | `ShownThresholdWasInForce` |
| | `UITypeCorrectness` | `UITypeOK` |
| | `SessionsCoverPages` | `SessionCoversPages` |
| | `WarmCacheStaysWarm` | `WarmCacheNeverAborts` |
| | `DeletionsHitTheirPicture` | `DeletesPictureMeant` |
| `FaceProcessorProofs` | `ProcessorTypeCorrectness` | `TypeOK` |
| | `RuntimeIsNeverShared` | `RuntimeIsExclusive` |
| | `OtherPathsCloseEverything` | `OnlyFailedReadsLeak` |
| | `EmbeddedFaceIsBest` | `CropsBestFace` |
| `MqttBridgeProofs` | `BridgeTypes` | `TypeOK` |
| | `LastTriggerSurvives` | `NoLostTrigger` |
| | `NoCheckOutlivesStop` | `NoCheckAfterStop` |
| | `AvailabilityIsTrue` | `OnlineIsConnected`: a retained "online" is that of a client that is connected, or lost with its will still to come, unless Stop is over (not in a run) |
| `RtspReaderProofs` | `ReaderTypeCorrectness` | `TypeOK` (not in a run) |
| | `CallbackIsFree` | `CallbackNeverStuck` |
| | `ReadFrameTimeIsBounded` | `TimeIsBounded` |
| `LifecycleProofs` | `LifecycleTypeCorrectness` | `TypeOK` |
| | `ThumbnailsShowTheirImages` | `ThumbShowsItsImage` |
| | `StartsLeaveOnlyNewFrames` | `OnlyNewFramesAreLeft` |
| | `SessionsAreClosedAfterUse` | `SessionsClosedAfterUse` |
| | `DeletedPicturesStayDeleted` | `DeletedStaysDeleted` |
| | `CurrentUsersStayAligned` | `DeletableIsAligned`, if every initial record is current: the run `legacy` refutes it of others |

Between them the theorems state every safety property that a passing run checks.

`EnrollmentProofs` holds the lemmas about the user record that the service and
the pages share.

### Assumptions

`EnrollmentAssumption`, `ServiceAssumption`, `ThresholdAssumption`,
`MigrationAssumption`, `LifecycleAssumption`, `AuditRepositoryAssumption`,
`BridgeAssumption`, `ReaderAssumption` and `FaceProcessorAssumption` say what kind
of value each constant is and that the special values are not ordinary ones. The
others say more:

* `EntryAssumption`: an appended entry has one of the three statuses or none.
* `WalkerAssumption`: the walker is one of the callers.
* `InitDisksAssumption`: the databases a start may find are well-formed, and their
  thumbnails, if any, are the ones of their images.
* `InitUsersAssumption`: the galleries the pages start with are bounded and
  aligned, as `PicturesStayBounded` and `PicturesStayAligned` carry on.
* `BaseAssumption`, `TemplatesAssumption`: a prefix is a sequence of segments, and
  the templates that are warm are templates.
* `SubmitsAssumption`: the tabs that submit the settings form are the callers of
  `ThresholdSettings`.

### Inductive invariants

* `FaceService`, `IndInv`. `DraftIsCurrent` is not inductive: a step of another
  handler could change the record under a draft unless it needs the mutex, and
  the mutex says nothing unless its owner is exactly the handler in the critical
  section. The invariant therefore joins, for each handler, the owner of the mutex
  (`Critical`), what its locals may be at each `pc` (`Locals`), that a draft is
  computed from the stored record (`Current`), and that a saved enrollment that
  still owes its audit entry is the newest picture of its user (`Saved`). The
  lemma `ClientStep` does the work once: a step of one client that writes `users`
  only as the owner of the mutex keeps everybody else's part. The refinement
  follows because only `Save` changes `users`. `PickInv` adds what a promotion
  knows of its entry while others are appended: it is the newest of its time
  unless a later one shares its second.
* `ThresholdSettings`, `SettingsInv`: every value between Validate and Publish has
  passed the check, and what is stored was written and is in range; a value can be
  live only through one of the two. What is live is in `inForce` (`LiveIsInForce`),
  which only grows.
* `WebUI`, `UIInv`: the settings part is `SettingsInv`; a tab is inside
  SetThreshold exactly at its step; every page shown has a URL that its kind can
  have, which makes resolving its references a finite case split; the cookie in
  the jar is the application's while signed in and absent otherwise. `ListingsOK`
  adds that a listing that is not outdated equals the gallery.
* `FaceProcessor`, `ProcessorInv`: which native values may be open at each step,
  and that the best anchor so far is the first highest of those already passed in
  the order of the scan (`BestIsFirstHighest`), which at the end is all of them.
* `MqttBridge`, `BridgeInv`: types, `NoLostTrigger` itself, and that a finished
  Stop found the worker gone unless it was early.
* `RtspReader`, `ReaderInv`: one frame at most is ever sent to the channel of one,
  and the elapsed time is bounded by a linear function of the attempts made and
  the requests left at each step.
* `Lifecycle`, `LifeInv`: no record that a backfill would change remains once its
  phase is over, except the frames stored since (`OnlyFrames`); thumbnails fit; a handler's save leaves a record the backfill
  leaves alone; entries above the loop's index have their thumbnails; who may be
  running in each phase of the shutdown. That the loop always finds the next entry
  uses a least number. For `TypeOK`, what the recursive scan recovers from the log
  is a sequence of its images (`RecoveredGroup`). For `CurrentUsersStayAligned`,
  every record is one of corresponding lists that no start changes (`AllCurrent`);
  saves and deletions leave only such records.
* `AuditRepository`, `AuditInv`. The statistics in the answer, in every caller's scan
  and in the cache are of prefixes of the log; a scan to be stored and a cache that
  is not cleared are of one with at least `settled` entries, since `settled` grows
  only while no other scan is to be stored. That is what a reset of one cache field
  only would break, although it changes no answer for the moment.
  `MissedOnlyByLateAppends` says nothing before the last page; its invariant says
  of each page so far that an entry which has not been shown has a rank behind
  those of the pages collected (an append moves it further back, never forward),
  and that only as many can be behind as the listing has grown by since it was
  counted.

The module set has no induction to cite over the length of a log. Where a proof
needs one, it looks at the least number for which the claim fails (`LeastNumber`,
from the well-foundedness of the natural numbers). `RecursionExists` shows so that
a function defined by its own previous value exists; `UnmatchedScan`, `NewestBytes`
and `Grouped` are such functions, and what the loops they stand for compute is
proved for logs of any length. Both lemmas are stated in each of the two modules
that use them, next to their uses.

### Only model-checked

Liveness, which is outside the prover: `RequestsAnswered`, `TriggersAnswered`,
`StopReturns`, `ConnectedIsListening`, `ReadFrameReturns`, `SignalEndsProcess`,
`EventuallyFresh`, `EveryRequestEnds`. The findings are counterexamples of runs.

## 5. Not modelled

* ExtractEmbedding and DetectAndCropFromRTSP, which nothing calls.
* Image decoding, tensor contents, similarity values and the pixels of
  thumbnails: data without control. Rounding of floats in the crop arithmetic, and
  regression values that are NaN.
* HTTP and JSON formats, template contents other than their links and forms, Home
  Assistant discovery documents: pure output. The parsing of uploads: FormValue
  consumes the body before the in-process proxy reads it, and the API's handler
  sees the file only because the parsed form stays cached in the request.
* X-Token and the body size limit, comparisons of one request with a constant; an
  empty token.
* Reading the configuration; deployment and end-to-end test drivers.
* Reading `s.threshold` without the mutex yields the old or the new value and is
  covered by `ThresholdSettings`' two values.

## 6. Plan

Done, in this order: the core (`Enrollment`, `AuditLog`, `UserGallery`,
`FaceService` and its proofs), `ThresholdSettings`, the statistics cache and the
listings (one module since they share the log: `AuditRepository`), `RtspReader`,
`MqttBridge`, `Migration`, `Lifecycle`, `FaceProcessor`, `WebUI`, the proofs of
every safety property, and the abstract specifications of what a component
promises: `UserGallery` (implemented by `FaceService` and by `WebUI`),
`ThresholdSettings` (by `WebUI`) and `Statistics` (by `AuditRepository`).

What could still be added: a second walker, and the API's handlers as callers of
`FaceService` in one module with the pages, instead of through the refinement of
`UserGallery`.

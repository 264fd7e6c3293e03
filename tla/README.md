# Person search, in TLA+

This directory holds the formal models of the person-search service under
`src/person_search/`: TLA+ modules translated from the source, the TLC
configurations that model-check them, and proofs checked by TLAPS.

    tlasany M.tla                      # parse
    tlc -workers 2 -config X.cfg M     # model-check (MC module in the table below)
    tlapm EvidenceStoreProofs.tla      # check the proofs
    tlapm SearchManagerProofs.tla
    tlapm SensitiveCleanupProofs.tla
    tlapm SourceEpochsProofs.tla
    tlapm FaceEmbeddingProofs.tla
    tlapm PreviewStreamProofs.tla
    tlapm SearchSessionProofs.tla
    tlapm TrackConfirmationProofs.tla

## 1. The system and its parts

A robot asks one process (a single uvicorn worker, all state in memory) to look
for one or more enrolled people on a camera. Frames flow from an RTSP, USB or
file source through a reader thread into a worker thread, which detects and
tracks persons, finds and embeds faces, matches them against the targets and
feeds each match to a per-target confirmation. Confirmed hits become events,
results and short-lived evidence (a full-frame JPEG and a face crop).

| Component | State | Operations | Interacts by |
|---|---|---|---|
| **Evidence store** (`service.py` 356-500, 920-1015) | retained JPEGs with deadlines, acknowledged ids (tombstones), discarded ids, a timer with its deadline | store, GET, DELETE, expire, wipe on stop/timeout/failure, timer callback | called by worker, API threads and timer threads under one lock |
| **Search session** (`service.py` 260-380, 1100-1230, 1531-1600, 2528-2662) | status, stop flag, targets left, results, deferred events, reader, `finished` | `start`, `stop`, `shutdown`, `_run`, `_transition`, `_handle_decisions`, `_publish_terminal_event` | worker thread, reader thread (status callback), API threads, `on_finished` into the manager |
| **Frame reader** (`video.py`) | bounded queue, stop flag, thread, source epoch, whether the loss was announced | `start`, `get`, `stop`, capture loop with reconnects | status callback into the session; join by worker and stoppers |
| **Track confirmation** (`confirmation.py`) | per track: window, tier, confirmed and shadow flags, last seen, closest attempt, departure state | `process_with_stats`, `reset`, flush at the end of a clip | called by the worker, once per frame and target; by the offline CLI |
| **Search manager** (`service.py` 2664-3348) | enrolled targets, sessions, request index, active slot, prune timer, shutdown flag | enroll, delete target, start search, look-ups, stop, shutdown, prune | creates, stops and retains sessions; `on_finished` callback |
| **Event hub and stream** (`service.py` 70-114, `api.py` 421-462, `static/monitor.html`) | bounded event log, a cursor per handler, the client's `eventSeq` | publish, replay, gap, reconnect | worker and stoppers publish, WebSocket handlers read, the monitor page resumes |
| **Preview hub** (`service.py` 117-160, `api.py`) | latest JPEG, a counter, number of streams | publish, wait, clear, subscribe | worker publishes while somebody watches, wipes clear, MJPEG handlers wait |
| **Sensitive cleanup** (`service.py` 481-864) | detached references, watcher thread, retry count | clear, defer, retry | stop, pruning, watcher |
| **Embedding of faces** (`service.py` 1885-2163, `backends.py`) | chunks still to embed, the provider's answer, misses | limit, embed in micro-batches, split, reconcile | worker calls a backend that may be another one; `stop` is polled between chunks |
| **Matching** (`service.py` 1531-1885) | per-target matchers, shared shadow tracks | rank, confirm, merge for the panel | worker only |
| **ROI scheduler** (`service.py` 2252-2526) | credit, measured pass times, per-track misses, skips and last turns | choose tracks for a pass, note its outcome, settle the credit | worker only |
| **Trackers** (`tracker.py`, `face_tracking.py`) | boxes, ages, next id | update, reset | worker only |
| **Detector, quality, backends, assets** | models, sessions | inference, `ensure_ready` | worker and manager |
| **HTTP/WebSocket API** (`api.py`, `main.py`) | none of its own | validation, mapping to manager calls | `asyncio.to_thread` |
| **Domain types, configuration, privacy** | declarations | validators | everywhere |
| **Offline evaluation** (`cli.py`, `evaluation.py`) | per-clip confirmation | evaluate, metrics | reuses Track confirmation |
| **Camera helper and scripts** | external processes | deploy, roll back, start a local RTSP server | shell |

What is hard in it: up to four kinds of threads (worker, reader, API, timers)
touch one session; `stop` is served while the worker is in the middle of a
frame; a join can time out; evidence has to disappear at the right moment and be
answered truthfully afterwards; a confirmation window outlives changes of the
policy that judges it; and the slot for the one active search is handed from a
finishing worker to the next request. `PROJECT.json` lists the hazards line by
line and the properties that watch each of them.

## 2. Modules

| Module | Models | Reads with |
|---|---|---|
| `EvidenceHandoff` | the abstract promise of the evidence endpoints: what sequence of answers one id may ever get | - |
| `EvidenceStore` | every critical section of the evidence dictionaries and the deadline timer, including timer threads that fire after they were cancelled | `EvidenceHandoff` |
| `EvidenceStoreProps` | properties, bounds and slips of the TLC runs | `EvidenceStore` |
| `EvidenceStoreProofs` | the theorems | `EvidenceStore`, `TLAPS` |
| `SearchSession` | one search: worker, reader, stop and shutdown threads, published log, evidence held | - |
| `SearchSessionProps` | properties of the runs | `SearchSession` |
| `SearchSessionProofs` | the theorems | `SearchSessionProps`, `FiniteSetTheorems`, `SequenceTheorems`, `TLAPS` |
| `ConfirmationRules` | the confirmation algorithm as pure operators over a track's record | - |
| `TrackConfirmation` | the state machine around it: frames, resets, the closing flush | `ConfirmationRules` |
| `TrackConfirmationProps` | properties and policies of the runs | `TrackConfirmation` |
| `TrackConfirmationProofs` | the theorems | `TrackConfirmationProps`, `FiniteSetTheorems`, `SequenceTheorems`, `WellFoundedInduction`, `TLAPS` |
| `SearchManager` | who may be searched for, the slot, the kept searches, the request ids, the janitor, shutdown | - |
| `SearchRegistry` | the abstract promise of the manager to its callers: one running search, request ids, what may be forgotten, the close | - |
| `SearchManagerProps` | properties of the run, the refinement mapping | `SearchManager`, `SearchRegistry` |
| `SearchManagerProofs` | the theorems | `SearchManagerProps`, `FiniteSetTheorems`, `WellFoundedInduction`, `TLAPS` |
| `SensitiveCleanup` | how one search gives up embeddings, per-track stores and its reader, with every thread that may do it | - |
| `SensitiveCleanupProps` | properties of the runs | `SensitiveCleanup` |
| `SensitiveCleanupProofs` | the theorems | `SensitiveCleanupProps`, `SequenceTheorems`, `TLAPS` |
| `SourceEpochs` | the frame queue, connections counted by reader and session, and what the worker forgets between them | - |
| `SourceEpochsProps` | properties of the run | `SourceEpochs` |
| `SourceEpochsProofs` | the theorems | `SourceEpochsProps`, `TLAPS` |
| `RoiScheduler` | who gets a second look at head and shoulders: budget, back-off, rotation | - |
| `RoiSchedulerProps` | properties of the runs | `RoiScheduler` |
| `EventStream` | the end of a search as it publishes it, the hub's window, the WebSocket handlers, the monitor page as their client | - |
| `PreviewStream` | the composition of the streams of one search: the above, the preview hub, its encoder, its wipes and the MJPEG streams | `EventStream` |
| `PreviewStreamProps` | properties of the run | `PreviewStream` |
| `PreviewStreamProofs` | the theorems, also about the event stream | `PreviewStreamProps`, `FiniteSetTheorems`, `SequenceTheorems`, `TLAPS` |
| `FaceEmbedding` | the faces of one frame: budget, micro-batches, splits, answers of a backend, reconciliation | - |
| `FaceEmbeddingProps` | properties of the run | `FaceEmbedding` |
| `FaceEmbeddingProofs` | the theorems | `FaceEmbeddingProps`, `FiniteSetTheorems`, `TLAPS` |

Operators commented "Slips" are plausible bugs kept beside the definition they
would replace. The specifications never use them; each property of a passing run
has one that breaks it.

### Evidence store

`held`, `released`, `discarded` and `results` follow `_evidence`,
`_released_evidence`, `_discarded_evidence` and `_confirmed_results`; `now` is a
discrete clock capped at `MaxTime`, and `fate` is history: what became of the
bytes of each id. Each action is one lock region: the worker's store, a GET, a
DELETE, the two cleanup passes and the wipe of a lifecycle end. `TimerFires` adds a
due timer to `callbacks`: its thread has started but not yet taken the lock. That
gap is the point: by the time the callback runs, another timer may have been scheduled, and
the code compares timer references before it clears the field. Bytes are absent
from the model: an item is held or not.

### Search session

The worker is a program counter over the regions of `_run`; every place where
the code releases the lock or returns from a blocking call is a step boundary.
A stopper (stop request or service shutdown) sets the flag, wipes, moves the status
to STOPPING when it is not terminal, joins the reader and waits for `finished`,
each as a step. The join and the waits may time out. The reader
announces RUNNING/SOURCE_LOST, queues frames up to the queue's size and may end.
A frame confirms any subset of the remaining targets, on one or two tracks.
`log` is the sequence of published events but for the statuses in passing (running,
source lost, stopping), which no property of this module reads and which `EventStream`
has; who holds evidence is a set of result ids.

### Track confirmation

`ConfirmationRules` follows `process_with_stats` in its order: switch of policy,
expiry of the window, recording the sample, gates, the decision, then the sweep
over tracks not seen in this frame with departure adjudication and lost
decisions. Scores are small integers. The aggregate (median or top-k mean) is
computed as in the code; the list it sorts is stated place by place (`Descending`: the
k-th is the greatest similarity that k samples reach), and so are the window that is left
when its oldest samples have expired (`InWindow`, the part from the first one inside on)
and what a listener holds after a frame's decisions (`HeardAll`, the last one that tells). `TrackConfirmation` supplies the frames: in each, a
track is visible with a policy, a score and a source flag, or absent.

### Search manager

The manager has two locks. `_lifecycle_lock` is held by one start, stop, target
deletion, enrolment or shutdown at a time, over seconds of model warm-up and over
the wait for a worker; `_lock` is held for moments, also by worker callbacks, the
janitor and status readers. One action is one holding of `_lock`; `call` is the
program counter of the start or stop in progress, and `LifecycleFree` says
whether the outer lock can be taken. A call's arguments are chosen where the code
first reads them, so a start that is only waiting carries none.

A search is a chain of phases: published by a start, live once its thread runs,
void if the thread could not be created, ended (terminal status), then the steps
of `_on_finished` (`_finished_at` set, slot and targets released, pruned, timer
rearmed twice) up to the `finished` event. `_finished_at` is written before the
callback and the `finished` bit after it, and the pruning looks at the bit: these
gaps are where the slot, the retention and the timer could go wrong. What happens
inside a live search is `SearchSession`.

A superseded timer callback compares generations and returns, so only the current
timer is modelled, as armed or fired. `Prune` may choose any correct set of oldest
searches where finishing times tie.

### Sensitive cleanup

`clear_sensitive_state` is a pass that any of five threads may run: the worker at
its end, a stop that timed out, the shutdown, the janitor that forgets the search,
a watcher thread. Passes overlap, since the reader is joined and drained outside
`_lock`, and every part of a pass may fail. Each thread has a place (`at`), the
locals of its pass (`pass`: does it hold the reader, could the reader not be
stopped, has everything worked so far) and a stack `calls` of what to go on with
when the call it is in returns, so that a retry inside a deferral inside a stop
returns to where the code returns. One action is one region under a lock or one
blocking call. `_lock` is an RLock: it appears as a variable only for the one case
in which it is held over several steps, a pass that finds the worker alive and
calls `defer_sensitive_cleanup` without letting go.

The wiped fields are two groups, the embeddings and the per-track stores; either
may fail in any pass. The preview is only one more thing that can fail. A
watcher's id is taken again when its thread has ended, so two ids stand for any
number of watchers. `SearchManager` appears as what it does to a search: start it
or fail to, stop it, shut it down, forget it.

### Lost connections

A frame is the connection it was decoded in. The reader counts a loss before it
tells the session, the session counts it before it empties the queue, and the
worker, which compares a frame's count with the one it searched last when it takes
the frame and with the session's before it counts what it saw, runs free of both:
`Fails`, `Announces` and each step of `Flushes` are actions of their own, and so are
`TakeFrame`, `Looks` and `Commits`. A person is a number of the tracker and the
connection in which it was given out; the program has only the number, and
`MemoryIsOfOneConnection` says that this is enough. What the stores keep about a
person is reduced to whom they speak of: `evidence` for the confirmations' windows,
`marks` for states, tiers, shadow marks and ROI notes together. The worker's second
look at the session's count, after the embedding, is the one that is modelled: the
first only saves work.

### ROI scheduler

One action is one frame: without a face pass (`QuietFrame`), with one
(`FaceFrame`), or with one and an ROI pass (`RoiFrame`). Time is counted in periods
of the target loop rate, what a pass takes is chosen from a small set, and a frame
without a face pass costs nothing. `misses` and `skips` are the two back-off
tables, `turns` the order of `_roi_last_pass`. The order of tracks that were never
looked at (by score in the code) is free, so are full-frame faces, heights and hits.
The 95th percentile of earlier passes is any value between the fastest and the
slowest of them. The tracker, the confirmations and the frame loop appear as what
they do to the scheduler: who is in the frame, who counts as confirmed, and what is
forgotten at a reconnect.

### Event stream and preview

An event is its number: `log` is what was published and the hub's deque is the part
of it from `Oldest` on. A handler (`at`) is polling in the hub's lock, waiting in its
condition, about to tell a gap, sending the batch it was answered with (`batch`, a
copy), or looking at the status; between any two of these the search publishes, ends
or is stopped. The client is the monitor page, with `connectEvents`, `onmessage`, `onclose`,
`pollStatus` and `stopSearch`: `link` is the handler it is connected to, `resume` its
`eventSeq`, which a gap moves to the oldest event kept (`ReceiveGap`), `story` and
`announced` what it received and what it was told is lost. `missed` is history: the
events it was neither sent nor told of and yet asked to be spared when it connected
again. `watching` ends when a status request tells it the end (`LearnsTheEnd`, it then
stays on the connection it has), when its own stop is answered (`StopSucceeds`), and
when it loses its connection while that stop is under way (`Drop`: `onclose` then
schedules nothing, even if the stop is refused later). A
connection drops without its handler knowing; the handler finds out when a send
fails (`Disconnected`), and the client is back with a second one meanwhile. Of the
search there is what matters to a reader: the order in which `_run`,
`_publish_terminal_event` and `stop` change the status and publish.

The preview hub is its JPEG (present or not), the viewers whose counter is behind
(`fresh`) and the number of subscribers. `encoding` is the worker inside
`_publish_preview`, between the look at `has_subscribers` and the publication: `stop`
may wipe in between. A stream can be cancelled at any of its awaits (`HangUp`) or
returns by itself (`ReturnOrPoll`); both run the generator's `finally`. The two hubs
share nothing but the search, so a behaviour has either an event client and news,
or viewers (`audience`); handlers are interchangeable and taken in order.

### Embedding of faces

A face is its place in the list that is embedded. The budget keeps the first of
them: which it prefers (tracked, larger, sharper) is left out. `pending` holds the
micro-batches still to do, in which an out-of-memory error replaces one by its
halves; each other outcome of `_embed_faces_microbatched` is an action: a stop, an
error that ends the search, a failure that misses a chunk, an answer. The answer of
`InsightFaceBackend` has a row for each crop that could be cut, or none at all if the
recogniser returned too few; a feature that cannot be normalised is a crop that could
not be cut. Its own batches are one, as a chunk is never larger. Any other backend of
the protocol may answer with any rows of faces of the chunk, copies or the very
objects, in any order, repeated, missing or unusable. `Pair` gives a row to a face as
the code does: the object itself, the only face with such a box, or, if the answer
fits the request place by place, the one in its place. Boxes are numbers that cannot be told apart
at distance 1: like `np.allclose`, a relation that is not transitive.

## 3. Runs

| Run | Instance | Shows |
|---|---|---|
| `evidence_store` | 2 ids, TTL 2, bounded clock | `TimerCoversDeadlines`: whatever is retained has a timer due in time; `AnswersSayWhatHappened`: who asks for bytes that are gone learns what took them; `ImplementsHandoff` (refinement); `MemoryIsFreed` (liveness) |
| `search` | 2 targets, a stop and a shutdown | `OffersAreHonest`: an offer of evidence is true when it is made; `SlotFreeBeforeTheNews`; `ReaderIsSilenced`; `AbortLeavesNothing`; `FinishedStoryIsComplete`; and the liveness properties `StopEndsTheSearch`, `EveryStopReturns` |
| `track_confirmation` | 1 track, three tiers, scores 1..3, gaps 1 and 3, clock to 8 | windows are pure, what was published agrees with the state, hits take time, each departure is explained once, nothing lingers, the best attempt is the one reported |
| `manager` | 2 searches, 1 target, 1 request id, a thread, one kept, clock to 2 | `OneLiveSearch`, `SpentTargetsAreGone`, `JanitorWillCome`; `ImplementsRegistry` (refinement); `ClosedForGood`, `ForgottenInOrder`; under fairness, `FinishedAreForgotten` |
| `cleanup` | the worker, a request that stops or shuts down, the janitor, watchers, two tries, one refused thread | `WipedIsNeverUsed`: the worker never meets a wiped gallery; `OneWatcher`; `LocksAreOrdered`: the two locks are not waited for crosswise; `ReaderIsNeverForgotten`; `ClearedIsTrue`; `SettledOrRecorded`: when all is quiet, everything is released or the failure is on record |
| `source_epochs` | a camera lost twice, a queue of two, two persons per connection | `MemoryIsOfOneConnection`: nothing crosses a reconnect; under fairness, `FramesAreSearched`: while the camera delivers, frames are searched |
| `roi_rotation` | 2 persons, 1 per pass, back-off of up to 3 | under fairness, `EveryTrackGetsItsTurn` |
| `streams` | a window of 2 events, 5 events at most, one lost connection, 2 handlers, 2 viewers | `NothingIsSkipped`: the client gets events in order and none twice, knows what is lost, and misses one unawares at most for each connection it lost; `NoFrameOutlivesTheSearch`; `ViewersAreCounted`; under fairness, `StoryReachesTheClient` (the late events too, unless it has given up and is gone) and `StreamsEnd` |
| `embedding` | up to 4 faces of which 3 are embedded, chunks of 2 or 3, one level of splits, three places | `OwnVector`: nobody is ranked by another person's embedding; `MissesAreCounted` |
| `evidence_refused`, `stream_reconciled`, `roi_starved` | see section 6 | a document or comment that the code does not keep |

Every module states a type invariant. All but the ROI scheduler's are proved for every
instance (section 4), and so are `AcknowledgementIsRepeatable`,
`LiveSearchIsReachable` and `RetriesFindTheirSearch`, which no run repeats. The ROI scheduler's can be added to a
run's configuration as `TypeOK`.

Bounds and why they are enough. Two ids are the smallest instance in which a
cleanup triggered by one item can miss the other, in which a timer is
rescheduled for an earlier deadline, and in which an old callback meets a new
timer; the clock runs past two whole TTLs. One search with two concurrent
stoppers covers every pair of threads that meets in the code; two targets are
needed for a deferred `target_found` beside one still open. One report of the reader
is enough for a transition of its own against those of the worker and the stops; more
of them, more tracks and more stops are left to the proofs of the five safety
properties. A track confirmation
keeps independent records per track apart from the sweep, so one track with
three tiers reaches every branch; eight units exceed the longest window, the
grace period and a return after it.

For the manager, two searches are one that is ending and one that is being started,
under the same request id or without; the target is enrolled again for the second, or
is what a failed or refused start leaves behind. Of two finished searches one may
be kept, so expiry and surplus come in either order, and the clock runs past
the TTL. Three searches that finish at different times within one TTL, and more targets
and request ids, are not run: the safety properties are proved for any number of
them. `Marks` is held back when the bounded clock could no longer give a search its
TTL: without that, the bound and not the code would decide liveness.

For the cleanup, the worker, one request that either stops the search or shuts the
service down, the janitor and the watchers give every pair of kinds of passes that
can overlap, and three at once; that a stop and a shutdown run together is left to
the proofs, which hold for any threads. Two tries are the smallest number at which a
retry differs from the last one, and one refusal reaches everything that depends on
it.

Two losses are the smallest number at which a frame of the first connection can meet
a session that has already counted the third, and a queue of two is the code's
default and the smallest in which the flush and the worker take turns. For the ROI
scheduler, two persons compete for one place per pass, and a back-off limit of
three cuts the second break short. `EveryTrackGetsItsTurn` needs what the instance grants and a
deployment has to provide: that full-frame passes leave the loop some time over,
that a pass costs no more than the credit cap, and that newcomers, who go first, do
not keep coming; `MaxId` ends them.

For the streams, a window of two events out of five gives a client that was away every
kind of answer: nothing, all that is newer, and a gap of one event or of several. One
lost connection is enough for a handler that does not know and its successor; two
viewers are one that leaves while the other stays. `stream_reconciled` has one more event
before the end and no viewers: the page is told of a gap while the search runs, as it
is in the run `streams` too. For the embedding, a chunk of three is the smallest with a face between two
that are told apart, halves of unequal size and an answer that is a rotation; with
chunks of two the frame has two micro-batches.

All runs set `CHECK_DEADLOCK FALSE`: a session whose worker has finished and whose
stoppers have returned, a flushed clip, a manager that is shut down and idle, and
a store whose capped clock has run out and which holds nothing, a search whose
threads have all ended, a story told to a client that has left, and a frame whose faces
are embedded really stop. The reader and the ROI scheduler never do.

Fairness. `EvidenceStore`: weak fairness of the clock, of a due timer and of a
callback that has started (a `threading.Timer` fires, a runnable thread takes a
lock that is always released). `SearchSession`: weak fairness of the worker and
of each stopper, since all their waits carry timeouts. Nothing is assumed of the
camera, the reader thread, consumers or the arrival of frames: `StopEndsTheSearch`
and `EveryStopReturns` hold with a reader stuck in its driver. `SearchManager`: weak
fairness of the clock, a due timer, a worker past its terminal status and a thread
that has begun a request. Strong fairness only of `RunPruneTimer`: in the program
the callback has a thread of its own, in the model it shares `Threads` with status
requests, whose endless arrival must not starve it. Nothing makes a live search
end or a client ask. `SourceEpochs`: weak fairness of the reader's reaction to a
loss and of the worker's stages, strong fairness of `TakeFrame`: the worker waits in
`Queue.get`, which a put wakes, and the reader spends at least the time of a grab
before it takes a frame back; a weak condition would allow the queue to be found
empty each time. `FramesAreSearched` has the camera as its premise, not as an
assumption. `RoiScheduler`: frames keep coming. `PreviewStream`: the worker ends what it
has begun to end and the encoding of a frame, a stop that was begun goes on, the
event loop serves every handler and every stream, and a client without a connection
tries again while it watches (the page's reconnect timer). Nobody has to stop the search, to
watch, to stay or to leave. Each condition is on the variables that all its steps change
(`WF_worker`, `WF_handlerVars`, ...), which says the same of them as `WF_vars`.

## 4. Proofs

`EvidenceStoreProofs` proves, for any finite or infinite set of ids, any TTL and
any clock bound:

- `TypeCorrect`: the type invariant, with held and acknowledged ids disjoint;
- `TimerAlwaysCovers`: `TimerCoversDeadlines`;
- `AnswersTellTheFate`: `AnswersSayWhatHappened`;
- `AcknowledgementHolds`: the repeated DELETE;
- `StoreImplementsHandoff`: the refinement of `EvidenceHandoff`.

The argument. Coverage of the deadlines is not inductive alone, because a
callback that already started could clear a newer timer: the invariant is
strengthened with what a callback in flight may refer to and with the relation
between a timer's deadline and the clock. Each theorem is the usual three facts
(initially, per action, implies), one step per action; the refinement maps each
concrete action to an abstract answer or to a stutter. The assumptions are the
module's own, on its constants.

`SearchManagerProofs` proves, for any sets of searches, targets, request ids and
threads and any limits:

- `TypeCorrect`: the type invariant, in which slot and request ids lead only to
  kept searches;
- `OneSearchAtATime`, `LiveSearchStaysReachable`: the slot;
- `RetriesAreRecognised`: the request ids;
- `TargetsServeOnce`: the targets;
- `JanitorAlwaysComes`: the prune timer;
- `ClosedManagerStaysClosed`, `OldestAreForgottenFirst`: two action properties;
- `ManagerImplementsRegistry`: the refinement of `SearchRegistry`.

The argument. The slot's invariant is strengthened with what a start has
established at each of its steps (`StartKnows`): from the moment it saw the slot
free until the worker is launched nobody else can fill it, and everybody who
cleans up (`Tidied`) removes only what is no longer live. The request ids need
that a start's id stays unused until its search is published. The targets need
that whatever a search or a start holds was enrolled and can only leave. The
janitor's timer needs that the next deadline is at most its longest sleep away,
for which the minimum of the deadlines exists (well-foundedness of `<`). The
order of forgetting counts what a pass leaves over, of finitely many kept searches. For
the refinement a search begins when its worker is started, not when it enters the
tables: a search that is only published may be rolled back, and nobody has been promised
anything yet. Beside the invariants it needs that a request id leads to a search of its
own (`IndexMeans`); a pass of the pruning, whoever runs it, is one step that forgets.

`SensitiveCleanupProofs` proves, for any sets of threads, any number of tries and
any number of refused watchers:

- `TypeCorrect`: the type invariant, with the stacks of unfinished calls;
- `WorkerKeepsItsState`: the worker never meets a wiped gallery or store;
- `ReaderIsKept`: an unreleased reader is in its field, in one pass's hands or on
  record as a failure;
- `ClearedTellsTheTruth`: what `_sensitive_cleared` says;
- `WatcherIsAlone`: at most one watcher retries;
- `LocksDoNotCross`: while no thread was refused, no one waits for a lock crosswise;
- `CleanupIsSettled`: when everybody is done, all is released or the failure on record.

The argument. Every theorem follows from one invariant of six parts beside the
type invariant. `Lifecycle`: only the worker, or a thread that saw the worker
ended, is ever at a wiping step. `Watching`: whoever starts a watcher starts the one
that is published. `InHand`: at most one pass holds the reader, and took it out of
the field when it did. `Told`: a pass that ends with nothing failed leaves nothing
behind, and one that failed takes the flag back. `Orderly`: as long as no thread was
refused, no pass of another thread begins before the worker's end, so `_lock` is
never kept over a wait. `Attended`: as long as no thread was refused, the state is clear, or
the last failure is recorded, or somebody will still see to it (`Handled`). Who that is
cannot be read off the places alone: a thread may be deep inside a pass that it began for
another call, so `Stacked` says which frames lie on whose stack at which place, and a
watcher that was only published counts because its publisher is about to start it
(`Announced`).

`SourceEpochsProofs` proves, for any queue size, number of losses and number of
persons:

- `TypeCorrect`;
- `NothingCrossesAReconnect`: `MemoryIsOfOneConnection`;
- `CountsNeverDrift`: the session's count of lost connections is the reader's, save
  for the moment in which one is being announced.

The argument. What is remembered is of one connection because the frame in hand is
of the connection searched last from the moment it is taken to its end (`InHand`).
The counts agree because only the reader's thread ever changes either.

`FaceEmbeddingProofs` proves, for any limit, any micro-batch sizes, any depth of
splits, any number of faces and any boxes:

- `TypeCorrect`;
- `OwnVectorHolds`: `OwnVector`;
- `MissesAreCountedOnce`: `MissesAreCounted`;
- `OrderIsKeptHolds`: over batches, retries and halves no face is returned after one
  that followed it (`OrderIsKept`, what the docstring at service.py:1890 promises).

The argument. An answer is straight if no face is in it twice and, where it fits the
request place by place, every row is in its place. While a straight answer is gone
through, the own face of each row still to come is unused (`GivenOwnRow`,
`OthersAreAlike`), so it is among the candidates: if there is only one, it is the own
face, and otherwise the position decides. What the InsightFace backend answers is
straight because the crops are in order and a wrong number of features is no answer
(`CheckedRowsAreStraight`). The order needs that the chunks that wait lie apart and behind what
was returned: offsets lie a batch apart, halves split an interval. So do the counts: the
faces that wait, those of the chunk in hand, those returned and those missed are apart
and together all that were asked for.

`PreviewStreamProofs` proves, for any window of the hub, any number of events, handlers,
viewers and lost connections:

- `TypeCorrect`;
- `NothingIsEverSkipped`: `NothingIsSkipped`, of the monitor page as it is;
- `NoFrameStays`, `ViewersCounted`: `NoFrameOutlivesTheSearch`, `ViewersAreCounted`.

The argument. A batch begins at or before the event after its handler's cursor and ends
behind it, and a gap begins behind it (`Sending`). The client's number is the cursor of the handler
it is connected to, or one more after a gap (`Resumes`), and what is before that cursor
the client has, was told of, or already missed. A handler that waits or looks at the
status found nothing newer, so there the two numbers agree, since neither is beyond the
last event: only a connection that is lost leaves an event out, and only one
(`FewAreMissed`, by the cardinality of what the client would ask to be spared,
`Unaware`). A frame is only being encoded while the search has not
ended, and the end wipes. A stream is counted out by the step that ends it, whichever.

`SearchSessionProofs` proves, for any targets, any number of tracks that hit one target
in a frame, any threads that stop the search, any queue and any reader:

- `TypeCorrect`, with the lock of the join held exactly by who joins;
- `TheReaderIsSilenced`: `ReaderIsSilenced`;
- `AbortsLeaveNothing`: `AbortLeavesNothing`;
- `TheSlotIsFreeFirst`: `SlotFreeBeforeTheNews`;
- `TheOffersAreHonest`: `OffersAreHonest`;
- `TheStoryIsComplete`: `FinishedStoryIsComplete`.

The argument. Whoever holds the join's lock has told the reader to stop and nothing
takes that back, so a reader that is started later ends at its first look
(`SilencedInv`). The status is terminal from the end of the loop on and then stands; an
aborted search wipes before it goes on and nothing is stored after; the slot is freed
before the first step that tells (`EndInv`). The one terminal event is published before
every `target_found`, those before the outcome (`ToldInv`). While the worker tells,
evidence only leaves, and is wiped only by a thread that was called to stop
(`OffersStand`), so what was true of a crop when it was looked at, one step before
`target_found`, is true when it is published and afterwards (`OfferInv`). A frame numbers
the hits of a target without leaving one out (`HitInv`), so every recorded hit is in one
place: in hand, deferred or told (`StoryInv`), and confirmed before it is deferred
(`ConfirmedInv`); the targets still active are those without a result, which is what the
outcome says (`OutcomeInv`).

`TrackConfirmationProofs` proves, for any number of tracks, any finite set of policies, any
similarities, intervals and grace, and either statistic:

- `TypeCorrect`: the type invariant of records, decisions and outcomes;
- `RecordsStaySound`: the inductive invariant `TracksAreSound`;
- `WindowsStayPure`, `HearingIsEnough`, `RecordsAreLetGo`: `WindowsArePure`,
  `HeardMatchesState`, `NothingLingers`;
- `HitsTookTime`, `DeparturesAreAccountedFor`, `ClosestAttemptIsKept`: the action properties
  `HitsTakeTime`, `DepartureSaysWhyOnce`, `ClosestAttemptStands`.

The argument. A record is sound (`Sound`) if its timestamps are in order (`Clocked`); it is
not a hit and a lead at once (`OneVerdict`); its window is no older than its first sample
(`Banked`), of the policy in force and spaced (`PureWindow`, `OnePerInstant`), and inside its
length since the last sweep (`Fresh`); the closest attempt counted no more samples than
there were instants between the first and the last one banked (`AttemptTookTime`), so that
a post-mortem can vouch for its duration after the samples themselves are gone; whoever banked a sample has an attempt or an outcome to show
(`Explained`), and with a full quorum an attempt beyond the first gate (`QuorumShown`). A frame
is followed in the order of `process_with_stats`, with lemmas for each stage: after the switch
of policy the window may be empty but not mixed, banking appends one sample an interval
later or none, the verdict explains what was banked, the sweep removes from the front. Some
parts fail in the middle of a frame and are restored at its end, so each stage has its own
record of what holds after it. A listener's view is followed beside the record
(`HearingIsEnough`): each stage says just what it changes. That the k-th similarity is well
defined needs greatest elements of finite sets, from the well-foundedness of `<` on
cardinalities; that no record lingers needs the longest window, hence finitely many
policies. The code has one per tier, built from the settings at start. That `None` is no
policy, attempt, record or face is an assumption of its own (`NoneAssumption`), since in
Python it is none of them.

Only model-checked: the liveness properties (`MemoryIsFreed`, `StopEndsTheSearch`,
`EveryStopReturns`, `FinishedAreForgotten`, `FramesAreSearched`, `EveryTrackGetsItsTurn`,
`StoryReachesTheClient`, `StreamsEnd`), since liveness under fairness is out of the prover's
reach; and all about `RoiScheduler`, whose back-off is a power of two, beyond the SMT
backend. Every invariant and every action property of a passing run is proved.

## 5. Plan

1. Done: evidence store (model, refinement, proofs), search session, track
   confirmation.
2. Done: `SearchManager`, with its proofs and the abstract registry it implements.
3. `TargetMatching`: several confirmations over shared tracks, the shared shadow
   marks and the panel state.
4. Done: `EventStream` and `PreviewStream`.
5. Done: `SensitiveCleanup` and `SourceEpochs`, with their proofs.
6. Done: `RoiScheduler`; `FaceEmbedding`, with its proofs. Left: trackers, tier
   selection, `ensure_ready` of the model backends (a backend becomes visible before
   its provider's name is set, backends.py:108), the deployment switch.
7. Done: the proofs about the session, the streams, the embedding, the cleanup and the track
   confirmation: every safety property of a passing run is a theorem.

## 6. Where the code and its words differ

Each is a run that checks one statement of the repository's own text and is
violated by what the code does; `PROJECT.json` quotes the lines.

- `ReleasedMeansDeleted` (run `evidence_refused`): a GET between a stop's flag and its
  wipe drops the bytes without noting them as discarded (service.py:391), so the id is
  answered `evidence_released` although nobody deleted it. The service's README gives
  that answer to one's own `DELETE` only (line 484) and `evidence_discarded` to what a
  stop empties (line 486), and the comment at service.py:317 keeps the two apart "so a
  stop/timeout/failure is never reported as a successful downstream hand-off".
  `AnswersSayWhatHappened` states what does hold: this GET is the only exception.
- `StreamIsReconciled` (run `stream_reconciled`): the monitor page resumes a gap at
  `oldest_seq` (monitor.html:479), the number of the oldest event kept, as if it had that
  one. If the connection drops right after the gap was told, the page asks for what is newer
  than an event it never got, and is never told of it, where the docstring of
  `after_with_meta` has a replay-aware client reconcile its cursor "instead of silently
  assuming that the stream is complete". `NothingIsSkipped` states what does hold: one
  event at most for each connection lost.
- `SlowPassIsForgiven` (run `roi_starved`): an ROI pass is admitted when the credit covers what passes
  have taken so far, and only a pass adds to that record. If the first one took longer
  than the credit cap (two periods of 100 ms by default; the README measures passes
  of 136 ms, and 233 ms before the scales were quantised), there is never a second
  in this search. The docstring of `_settle_budget_credit` promises that one
  catastrophic pass does not starve the stage.

Seen while modelling, without runs of their own:

- Two tracks that confirm one target in one frame publish `target_found` twice, and
  the README (line 467) says that a target is published at its first confirmation and
  leaves the list (service.py:1774; `Tracks = 2` in `SearchSession`).
- A hit stored after a stop's wipe survives when the frame in hand completes the search,
  because COMPLETED does not wipe (service.py:369, 2631): the stop then returns with the
  JPEGs still held, until their TTL. The README (line 475) says that an explicit stop
  empties at once. `AbortLeavesNothing` holds for searches that end as stopped, failed or
  timed out.
- The page stops to reconnect when a status request tells it the end, which may be before
  the last events are out; a handler, too, closes on a terminal status whose events are
  still to come. A page that still reconnects, or is still connected, gets them
  (`StoryReachesTheClient`); one that has given up and is closed on does not.
- A page that loses its connection while its own request to stop is under way never
  reconnects, also if the stop is refused and the search goes on (monitor.html:452, 495):
  `onclose` runs once, and sees `stopping`.
- A frame that is being encoded while `stop` wipes is published after the wipe and kept until
  the finalizer, which the comment at service.py:472-475 wants to avoid. It never
  outlives the search (`NoFrameOutlivesTheSearch`).
- The frame with the last target's hit is never previewed: the loop ends before it is
  drawn (service.py:1550-1552).
- A foreign backend that repeats a row, of faces whose boxes cannot be told apart, gives one
  person's vector to another: when one of them is taken the other is the only
  candidate left, and the comment at service.py:2119-2122 ("fail closed") is not kept
  (`Repeats` in `OwnVector`).
- The shadow marks are one set for all targets: losing or confirming one target's lead on
  a track unmarks another's (service.py:1765 and 1769). Only preview and panel show it.
- A track confirmed formally whose face then shrinks into the far tier is lost with
  `shadow=True`, because the flag is that of the policy in force, and answers no shadow
  hit (`Departure`; the comment at confirmation.py:616-618 speaks of pairs).
- The candidate search says that tracks already confirmed are excluded. A live search
  drops a target with its formal hit, so such a track is a candidate again as soon as
  no other target has it confirmed (`stated` is free in `RoiScheduler`).
- A shadow lead that later becomes a formal hit records two outcomes for one track.
- The follow-up prune that `_on_finished` schedules is not short when the search that
  is just finishing is not yet counted and another one is: the timer then sleeps
  until that one's deadline.
- `_sensitive_cleared` can be true for a while with the reader unreleased: one pass
  still holds the reader, a second finds no field set and concludes that all is
  done. The first corrects the flag if it fails (`ClearedIsTrue`, `Unsettled`).
- When no watcher thread can be started, a caller that saw the watcher published may
  have relied on it; its own failed pass is then retried by nobody until the
  janitor forgets the search. And a deferral that keeps `_lock` can then run a
  pass that waits for `_reader_stop_lock`, held by a thread that waits for `_lock`.
  Hence `refusals > 0` in `SettledOrRecorded` and `LocksAreOrdered`: with a refused start
  there is no promise left to state about the caller that is alone.

A comment that holds for another reason than it gives: `start_batch_search` checks
again after the warm-up because shutdown "is allowed to happen while it runs". The
lifecycle lock that the start holds keeps shutdown out (`StartKnows`), so that
check never fails.

## 7. Not modelled, and why

Inference, image statistics, drawing and metrics are numeric and have no state
to interleave. Of the HTTP layer only the two streaming endpoints wait, and they are
modelled; the others validate a request and map one call of the manager. Ranking,
association and tier selection work on one frame and keep nothing but what the track
confirmation and the scheduler model. Domain types and
settings are declarations; the relations the models rely on are their named
assumptions. The camera helper and the scripts wrap external programs.

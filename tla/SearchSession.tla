----------------------------- MODULE SearchSession -----------------------------
(***************************************************************************)
(* The life of one search (service.py, SearchSession): the worker thread   *)
(* that looks for the targets, the frame reader it drives, and the threads *)
(* that stop it.  They share the session's fields under one RLock, but a   *)
(* transition is three separate steps: the status is set under the lock,   *)
(* the evidence is wiped under the lock again, and the event is published  *)
(* outside it.  Of the passing statuses (running, source_lost, stopping)   *)
(* the publication is left out: the log is about how a search ends.        *)
(*                                                                         *)
(* A hit is one formal confirmation of a target by one person track, so    *)
(* two tracks may hit the same target in one frame.  Which frame confirms  *)
(* what is left open here (module TrackConfirmation).  The evidence of a   *)
(* hit is abstracted to what became of its JPEGs (module EvidenceStore).   *)
(*                                                                         *)
(* Init is the state in which start() has returned.  Errors of the OS or   *)
(* of a callee appear where the code has a handler for them.               *)
(***************************************************************************)
EXTENDS Naturals, Sequences, FiniteSets

CONSTANTS
  Targets,     \* the batch of targets
  Tracks,      \* how many tracks can confirm one target in one frame
  Requests,    \* DELETE /v1/searches/{id} and replace_active requests
  Shutdowns,   \* {"shutdown"}, or {} where the service is not shut down
  QueueSize,   \* settings.frame_queue_size
  MaxReports   \* bound: status changes the reader announces

ASSUME SizesAssumption ==
  Tracks \in Nat \ {0} /\ QueueSize \in Nat \ {0} /\ MaxReports \in Nat
ASSUME RequestsAssumption ==
  {"worker", "shutdown", "free"} \cap Requests = {} /\ Shutdowns \subseteq {"shutdown"}

VARIABLES
  status,      \* self.status
  stop,        \* self._stop is set
  active,      \* self._active_targets
  hit,         \* the last formal decision of the frame in hand, or NoHit
  evidence,    \* what became of the JPEGs of each hit
  results,     \* the hits named by self._confirmed_results
  deferred,    \* self._deferred_events: hits, in order
  log,         \* self.events: everything published but passing statuses, in order
  finished,    \* self._finished is set
  slotFree,    \* on_finished has run: the manager's slot is free
  attached,    \* self._reader refers to the reader
  reader,      \* where the reader thread is
  report,      \* the status the reader announced last, or None
  reports,     \* how many it has announced
  queued,      \* decoded frames in reader.frames
  readerStop,  \* reader._stop is set
  joined,      \* self._reader_stop_succeeded
  stopLock,    \* who holds self._reader_stop_lock
  pc           \* where the worker and each stopping thread are

sessionVars == <<active, hit, evidence, results, deferred>>
readerVars == <<reader, report, reports, queued>>
joinVars == <<attached, readerStop, joined, stopLock>>
rest == <<stop, finished, slotFree, readerVars, joinVars>>
vars == <<status, stop, sessionVars, log, finished, slotFree, readerVars,
          joinVars, pc>>

Stoppers == Requests \cup Shutdowns
Hits == Targets \X (1 .. Tracks)
NoHit == <<>>
Free == "free"

Aborted == {"stopped", "failed", "timed_out"}
Terminal == Aborted \cup {"completed"}
Statuses == Terminal \cup {"initializing", "running", "source_lost", "stopping"}

(* Where the worker can be: its own statements, the second half of each    *)
(* terminal transition, and the publication of the deferred events.        *)
WorkerLabels ==
  {"construct", "attach", "start", "loop", "poll", "empty", "frame", "store",
   "record", "confirm", "mark", "wipe_then_teardown", "teardown", "joining",
   "wipe_then_settle", "settle", "wipe_then_conclude", "conclude", "announce",
   "flush", "offer", "withhold", "scrub", "retire", "rejoining", "finish",
   "done"}

StopperLabels ==
  {"idle", "set", "wipe", "mark", "look", "take", "joining", "wait",
   "late_wipe", "done", "gave_up"}

ReaderLabels ==
  {"off", "top", "work", "told", "transit", "put", "ended"}

TypeOK ==
  /\ status \in Statuses
  /\ stop \in BOOLEAN /\ finished \in BOOLEAN /\ slotFree \in BOOLEAN
  /\ active \subseteq Targets
  /\ hit \in Hits \cup {NoHit}
  /\ evidence \in [Hits -> {"new", "none", "held", "left", "wiped"}]
  /\ results \subseteq Hits
  /\ deferred \in Seq(Hits)
  /\ reader \in ReaderLabels
  /\ report \in {"none", "running", "source_lost"}
  /\ reports \in 0 .. MaxReports
  /\ queued \in 0 .. QueueSize
  /\ attached \in BOOLEAN /\ readerStop \in BOOLEAN /\ joined \in BOOLEAN
  /\ stopLock \in Stoppers \cup {"worker", Free}
  /\ DOMAIN pc = Stoppers \cup {"worker"}
  /\ pc["worker"] \in WorkerLabels
  /\ \A a \in Stoppers : pc[a] \in StopperLabels
  /\ \A a \in Stoppers \cup {"worker"} :
       (stopLock = a) <=> (pc[a] \in {"joining", "rejoining"})

Init ==
  /\ status = "initializing"
  /\ stop = FALSE /\ finished = FALSE /\ slotFree = FALSE
  /\ active = Targets
  /\ hit = NoHit
  /\ evidence = [h \in Hits |-> "new"]
  /\ results = {}
  /\ deferred = <<>>
  /\ log = <<>>
  /\ reader = "off" /\ report = "none" /\ reports = 0 /\ queued = 0
  /\ attached = FALSE /\ readerStop = FALSE /\ joined = FALSE /\ stopLock = Free
  /\ pc = [a \in Stoppers \cup {"worker"} |-> IF a = "worker" THEN "construct" ELSE "idle"]

-----------------------------------------------------------------------------
(* Building blocks.                                                        *)

At(a, label) == pc[a] = label
Goto(a, label) == pc' = [pc EXCEPT ![a] = label]

Held == {h \in Hits : evidence[h] = "held"}

(* clear_evidence: what is held is destroyed.                              *)
ClearEvidence ==
  evidence' = [h \in Hits |-> IF h \in Held THEN "wiped" ELSE evidence[h]]

(* The first half of _transition: nothing leaves a terminal status, and a  *)
(* transition to the status in force is none.                              *)
Changes(s) == status \notin Terminal /\ status # s

SetStatus(s) == status' = IF Changes(s) THEN s ELSE status

Publish(event) == log' = Append(log, event)

StatusEvent(s) == [type |-> "search_status", status |-> s]

(* The worker's _transition, publish=False: it goes on at `wipe`, which is *)
(* the second half if `s` is in Aborted, or at `next` if nothing changed.  *)
Transition(s, wipe, next) ==
  /\ SetStatus(s)
  /\ Goto("worker", IF Changes(s) THEN wipe ELSE next)

-----------------------------------------------------------------------------
(* _stop_reader_once, called by `a` at label `from`.                       *)

TakeReader(a, from, joining, ok) ==
  /\ At(a, from)
  /\ stopLock = Free
  /\ IF joined THEN /\ Goto(a, ok)
                    /\ UNCHANGED joinVars
     ELSE /\ stopLock' = a
          /\ readerStop' = TRUE
          /\ Goto(a, joining)
          /\ UNCHANGED <<attached, joined>>
  /\ UNCHANGED <<status, stop, sessionVars, log, finished, slotFree, readerVars>>

(* reader.stop() joins the capture thread: it has exited, or was never     *)
(* started.                                                                *)
Join(a, joining, ok) ==
  /\ At(a, joining)
  /\ reader \in {"off", "ended"}
  /\ joined' = TRUE
  /\ stopLock' = Free
  /\ Goto(a, ok)
  /\ UNCHANGED <<status, stop, sessionVars, log, finished, slotFree,
                 readerVars, attached, readerStop>>

(* ... or the thread is stuck in the driver and the join times out.        *)
JoinFails(a, joining, failed, lock) ==
  /\ At(a, joining)
  /\ reader \notin {"off", "ended"}
  /\ stopLock' = lock
  /\ Goto(a, failed)
  /\ UNCHANGED <<status, stop, sessionVars, log, finished, slotFree,
                 readerVars, attached, readerStop, joined>>

(* Slips: the lock is not released on the way out; join has no timeout.    *)
JoinFailsKeepingLock(a, joining, failed) == JoinFails(a, joining, failed, stopLock)
JoinWaitsForever(a, joining, failed) == Join(a, joining, failed)

JoinTimesOut(a, joining, failed) == JoinFails(a, joining, failed, Free)

-----------------------------------------------------------------------------
(* The worker: _run up to its main loop.                                   *)

Construct ==
  /\ At("worker", "construct")
  /\ \/ Goto("worker", "attach") /\ UNCHANGED status
     \/ Transition("failed", "wipe_then_conclude", "conclude")
  /\ UNCHANGED <<sessionVars, log, rest>>

Attach ==
  /\ At("worker", "attach")
  /\ attached' = ~stop
  /\ Goto("worker", "start")
  /\ UNCHANGED <<status, stop, sessionVars, log, finished, slotFree,
                 readerVars, readerStop, joined, stopLock>>

(* reader.start(), with the reader's stop flag at `flag` afterwards; a     *)
(* reader that was not attached stays off.                                 *)
StartReader(flag) ==
  /\ At("worker", "start")
  /\ \/ /\ attached
        /\ reader' = "top"
        /\ readerStop' = flag
        /\ Goto("worker", "loop")
        /\ UNCHANGED <<status, stop>>
     \/ /\ attached
        /\ Transition("failed", "wipe_then_teardown", "teardown")
        /\ UNCHANGED <<stop, reader, readerStop>>
     \/ /\ ~attached
        /\ stop' = TRUE
        /\ Goto("worker", "loop")
        /\ UNCHANGED <<status, reader, readerStop>>
  /\ UNCHANGED <<sessionVars, log, finished, slotFree, report, reports,
                 queued, attached, joined, stopLock>>

(* Slip: starting forgets a stop that came first.                          *)
StartRearms == StartReader(FALSE)
Start == StartReader(readerStop)

Loop ==
  /\ At("worker", "loop")
  /\ Goto("worker", IF stop THEN "teardown" ELSE "poll")
  /\ UNCHANGED <<status, sessionVars, log, rest>>

TimeOut ==
  /\ At("worker", "poll")
  /\ Transition("timed_out", "wipe_then_teardown", "teardown")
  /\ UNCHANGED <<sessionVars, log, rest>>

GetPacket ==
  /\ At("worker", "poll")
  /\ IF queued > 0 THEN queued' = queued - 1 /\ Goto("worker", "frame")
     ELSE UNCHANGED queued /\ Goto("worker", "empty")
  /\ UNCHANGED <<status, stop, sessionVars, log, finished, slotFree, reader,
                 report, reports, joinVars>>

(* get() gave up; only then is reader.ended looked at.                     *)
NoPacket ==
  /\ At("worker", "empty")
  /\ Goto("worker", IF reader = "ended" THEN "teardown" ELSE "loop")
  /\ UNCHANGED <<status, sessionVars, log, rest>>

-----------------------------------------------------------------------------
(* The worker: one frame and its formal decisions (_handle_decisions).     *)

(* The next hit of target `t` in this frame: the frame works through the   *)
(* targets that were active, one after the other.                          *)
NextHit(t) == <<t, 1 + Cardinality({n \in 1 .. Tracks : evidence[<<t, n>>] # "new"})>>

Decide(t) ==
  /\ At("worker", "frame")
  /\ t \in active \/ (hit # NoHit /\ hit[1] = t)
  /\ NextHit(t) \in Hits
  /\ hit' = NextHit(t)
  /\ Goto("worker", "store")
  /\ UNCHANGED <<status, active, evidence, results, deferred, log, rest>>

(* _store_evidence; it may fail, or be switched off.                       *)
StoreEvidence ==
  /\ At("worker", "store")
  /\ \E fate \in {"held", "none"} : evidence' = [evidence EXCEPT ![hit] = fate]
  /\ Goto("worker", "record")
  /\ UNCHANGED <<status, active, hit, results, deferred, log, rest>>

RecordResult ==
  /\ At("worker", "record")
  /\ results' = results \cup {hit}
  /\ Goto("worker", "confirm")
  /\ UNCHANGED <<status, active, hit, evidence, deferred, log, rest>>

PublishConfirmed ==
  /\ At("worker", "confirm")
  /\ Publish([type |-> "confirmed", hit |-> hit])
  /\ Goto("worker", "mark")
  /\ UNCHANGED <<status, sessionVars, rest>>

MarkFound ==
  /\ At("worker", "mark")
  /\ deferred' = Append(deferred, hit)
  /\ active' = active \ {hit[1]}
  /\ Goto("worker", "frame")
  /\ UNCHANGED <<status, hit, evidence, results, log, rest>>

(* A detector, the embedding or the confirmation raised.                   *)
FrameFails ==
  /\ At("worker", "frame")
  /\ Transition("failed", "wipe_then_teardown", "teardown")
  /\ UNCHANGED <<sessionVars, log, rest>>

(* The frame is done: complete the search when every target was found.     *)
FrameEnds ==
  /\ At("worker", "frame")
  /\ hit' = NoHit
  /\ IF active = {} THEN Transition("completed", "teardown", "teardown")
     ELSE UNCHANGED status /\ Goto("worker", "loop")
  /\ UNCHANGED <<active, evidence, results, deferred, log, rest>>

-----------------------------------------------------------------------------
(* The worker: the finally block.                                          *)

(* The second half of _transition to a status of Aborted.                  *)
WipeAfterTransition ==
  /\ \/ At("worker", "wipe_then_teardown") /\ Goto("worker", "teardown")
     \/ At("worker", "wipe_then_settle") /\ Goto("worker", "settle")
     \/ At("worker", "wipe_then_conclude") /\ Goto("worker", "conclude")
  /\ ClearEvidence
  /\ UNCHANGED <<status, active, hit, results, deferred, log, rest>>

Teardown == TakeReader("worker", "teardown", "joining", "settle")
TeardownJoins == Join("worker", "joining", "settle")

(* Capture teardown failed: _transition to FAILED.                         *)
TeardownFails ==
  /\ At("worker", "joining")
  /\ reader \notin {"off", "ended"}
  /\ stopLock' = Free
  /\ Transition("failed", "wipe_then_settle", "settle")
  /\ UNCHANGED <<stop, sessionVars, log, finished, slotFree, readerVars,
                 attached, readerStop, joined>>

(* Whatever has not ended otherwise was stopped.                           *)
SettleVia(wipe, next) ==
  /\ At("worker", "settle")
  /\ Transition("stopped", wipe, next)
  /\ UNCHANGED <<sessionVars, log, rest>>

(* Slips: the transition does not wipe; the early exit skips on_finished.  *)
SettleWithoutWipe == SettleVia("conclude", "conclude")
SettleSkipsCallback == SettleVia("wipe_then_conclude", "announce")
Settle == SettleVia("wipe_then_conclude", "conclude")

(* on_finished: the manager's slot is free before anything is published.   *)
Conclude ==
  /\ At("worker", "conclude")
  /\ slotFree' = TRUE
  /\ Goto("worker", "announce")
  /\ UNCHANGED <<status, stop, sessionVars, log, finished, readerVars, joinVars>>

(* _publish_terminal_event: the status, then each deferred target_found    *)
(* with the availability its evidence has by then, then how it ended.      *)
Announce ==
  /\ At("worker", "announce")
  /\ Publish(StatusEvent(status))
  /\ Goto("worker", "flush")
  /\ UNCHANGED <<status, sessionVars, rest>>

(* _refresh_evidence_availability; slip: what was stored was offered.      *)
WasStored(h) == evidence[h] # "none"
Available(h) == h \in Held /\ ~stop

Refresh ==
  /\ At("worker", "flush")
  /\ deferred # <<>>
  /\ Goto("worker", IF Available(Head(deferred)) THEN "offer" ELSE "withhold")
  /\ UNCHANGED <<status, sessionVars, log, rest>>

PublishFound ==
  /\ At("worker", "offer") \/ At("worker", "withhold")
  /\ Publish([type |-> "target_found", hit |-> Head(deferred),
              available |-> At("worker", "offer")])
  /\ deferred' = Tail(deferred)
  /\ Goto("worker", "flush")
  /\ UNCHANGED <<status, active, hit, evidence, results, rest>>

PublishOutcomeAfter(flushed) ==
  /\ At("worker", "flush")
  /\ flushed
  /\ \/ status = "completed" /\ Publish([type |-> "all_found"])
     \/ status = "timed_out" /\ Publish([type |-> "search_timeout", unfound |-> active])
     \/ status \notin {"completed", "timed_out"} /\ UNCHANGED log
  /\ Goto("worker", "scrub")
  /\ UNCHANGED <<status, sessionVars, rest>>

(* Slip: the outcome does not wait for the deferred events.                *)
PublishOutcomeAtOnce == PublishOutcomeAfter(TRUE)
PublishOutcome == PublishOutcomeAfter(deferred = <<>>)

(* clear_sensitive_state detaches the reader, retries a failed stop and    *)
(* drops the decoded frames.                                               *)
Scrub ==
  /\ At("worker", "scrub")
  /\ attached' = FALSE
  /\ Goto("worker", IF attached THEN "retire" ELSE "finish")
  /\ UNCHANGED <<status, stop, sessionVars, log, finished, slotFree,
                 readerVars, readerStop, joined, stopLock>>

Retire == TakeReader("worker", "retire", "rejoining", "finish")
RetireJoins == Join("worker", "rejoining", "finish")
RetireGivesUp == JoinTimesOut("worker", "rejoining", "finish")

Finish ==
  /\ At("worker", "finish")
  /\ queued' = 0
  /\ finished' = TRUE
  /\ Goto("worker", "done")
  /\ UNCHANGED <<status, stop, sessionVars, log, slotFree, reader, report,
                 reports, joinVars>>

-----------------------------------------------------------------------------
(* The reader thread: LatestFrameReader._capture_loop and the session's    *)
(* _on_reader_status, which runs on it.                                    *)

others == <<stop, sessionVars, finished, slotFree, joinVars, pc>>

ReaderTop ==
  /\ reader = "top"
  /\ reader' = IF readerStop THEN "ended" ELSE "work"
  /\ UNCHANGED <<status, log, report, reports, queued, others>>

(* A source that cannot be opened or read, or the first frame of a         *)
(* connection, is announced once.                                          *)
ReaderAnnounces(s) ==
  /\ reader = "work"
  /\ s # report
  /\ reports < MaxReports
  /\ reader' = "told"
  /\ report' = s
  /\ reports' = reports + 1
  /\ UNCHANGED <<status, log, queued, others>>

(* _on_reader_status: nothing is reported once stop is set; a lost source  *)
(* drops the frames decoded before it.                                     *)
ReaderTold ==
  /\ reader = "told"
  /\ reader' = IF ~stop THEN "transit" ELSE IF report = "running" THEN "put" ELSE "top"
  /\ queued' = IF ~stop /\ report = "source_lost" THEN 0 ELSE queued
  /\ UNCHANGED <<status, log, report, reports, others>>

ReaderTransition ==
  /\ reader = "transit"
  /\ SetStatus(report)
  /\ reader' = IF report = "running" THEN "put" ELSE "top"
  /\ UNCHANGED <<log, report, reports, queued, others>>

(* A decoded frame is queued, or dropped when the queue is full.           *)
ReaderPuts ==
  /\ reader = "put" \/ (reader = "work" /\ report = "running" /\ queued < QueueSize)
  /\ queued' = IF queued < QueueSize THEN queued + 1 ELSE queued
  /\ reader' = "top"
  /\ UNCHANGED <<status, log, report, reports, others>>

(* The worker is behind: the stalest frame goes, undecoded the new one.    *)
ReaderSkips ==
  /\ reader = "work"
  /\ queued = QueueSize
  /\ queued' = queued - 1
  /\ reader' = "top"
  /\ UNCHANGED <<status, log, report, reports, others>>

(* The file is over, or the loop died; the source stays lost.              *)
ReaderEnds ==
  /\ reader = "work"
  /\ reader' = "ended"
  /\ UNCHANGED <<status, log, report, reports, queued, others>>

ReaderRetries ==
  /\ reader = "work"
  /\ report = "source_lost"
  /\ reader' = "top"
  /\ UNCHANGED <<status, log, report, reports, queued, others>>

Reader ==
  \/ ReaderTop \/ ReaderTold \/ ReaderTransition
  \/ ReaderPuts \/ ReaderSkips \/ ReaderEnds \/ ReaderRetries
  \/ \E s \in {"running", "source_lost"} : ReaderAnnounces(s)

-----------------------------------------------------------------------------
(* Stopping: SearchSession.stop, called by stop_search, by a replacing     *)
(* start_batch_search, and by shutdown.                                    *)

(* The API requests hold the manager's _lifecycle_lock while they stop.    *)
LifecycleFree == \A r \in Requests : pc[r] \in {"idle", "done", "gave_up"}

BeginRequest(r) ==
  /\ At(r, "idle")
  /\ LifecycleFree
  /\ Goto(r, IF finished THEN "late_wipe" ELSE "set")
  /\ UNCHANGED <<status, sessionVars, log, rest>>

(* shutdown takes the lock only to look: a session that has left the slot  *)
(* is not stopped, one that is terminal may have been pruned from it.      *)
BeginShutdown(d) ==
  /\ At(d, "idle")
  /\ LifecycleFree
  /\ \/ ~slotFree /\ ~finished /\ Goto(d, "set")
     \/ (slotFree \/ status \in Terminal) /\ Goto(d, "late_wipe")
  /\ UNCHANGED <<status, sessionVars, log, rest>>

SetStop(a) ==
  /\ At(a, "set")
  /\ stop' = TRUE
  /\ Goto(a, "wipe")
  /\ UNCHANGED <<status, sessionVars, log, finished, slotFree, readerVars,
                 joinVars>>

StopWipes(a) ==
  /\ \/ At(a, "wipe") /\ Goto(a, "mark")
     \/ At(a, "late_wipe") /\ Goto(a, "done")
  /\ ClearEvidence
  /\ UNCHANGED <<status, active, hit, results, deferred, log, rest>>

MarkStopping(a) ==
  /\ At(a, "mark")
  /\ SetStatus("stopping")
  /\ Goto(a, "look")
  /\ UNCHANGED <<sessionVars, log, rest>>

LookForReader(a) ==
  /\ At(a, "look")
  /\ Goto(a, IF attached THEN "take" ELSE "wait")
  /\ UNCHANGED <<status, sessionVars, log, rest>>

(* The worker finishes in time, or the caller is told that it did not;     *)
(* shutdown goes on to wipe every session either way.                      *)
StopReturns(a) ==
  /\ At(a, "wait")
  /\ Goto(a, IF a \in Shutdowns THEN "late_wipe" ELSE IF finished THEN "done" ELSE "gave_up")
  /\ UNCHANGED <<status, sessionVars, log, rest>>

Stopper(a) ==
  \/ SetStop(a) \/ StopWipes(a) \/ MarkStopping(a)
  \/ LookForReader(a) \/ TakeReader(a, "take", "joining", "wait")
  \/ Join(a, "joining", "wait") \/ JoinTimesOut(a, "joining", "wait")
  \/ StopReturns(a)

-----------------------------------------------------------------------------
(* A consumer's DELETE of an evidence item, or its TTL.                    *)
EvidenceLeaves(h) ==
  /\ h \in Held
  /\ evidence' = [evidence EXCEPT ![h] = "left"]
  /\ UNCHANGED <<status, active, hit, results, deferred, log, pc, rest>>

Worker ==
  \/ Construct \/ Attach \/ Start \/ Loop \/ TimeOut \/ GetPacket \/ NoPacket
  \/ \E t \in Targets : Decide(t)
  \/ StoreEvidence \/ RecordResult \/ PublishConfirmed \/ MarkFound
  \/ FrameFails \/ FrameEnds \/ WipeAfterTransition
  \/ Teardown \/ TeardownJoins \/ TeardownFails \/ Settle \/ Conclude
  \/ Announce \/ Refresh \/ PublishFound \/ PublishOutcome
  \/ Scrub \/ Retire \/ RetireJoins \/ RetireGivesUp \/ Finish

Next ==
  \/ Worker
  \/ Reader
  \/ \E r \in Requests : BeginRequest(r)
  \/ \E d \in Shutdowns : BeginShutdown(d)
  \/ \E a \in Stoppers : Stopper(a)
  \/ \E h \in Hits : EvidenceLeaves(h)

(* The worker runs, its frames end, and a call to stop() goes on: each of  *)
(* their steps changes pc.  Nothing is assumed of the camera, the reader   *)
(* thread or the consumers.                                                *)
Fairness == WF_pc(Worker) /\ \A a \in Stoppers : WF_pc(Stopper(a))

Spec == Init /\ [][Next]_vars /\ Fairness
=============================================================================

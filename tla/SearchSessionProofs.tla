-------------------------- MODULE SearchSessionProofs --------------------------
(***************************************************************************)
(* Proofs about SearchSession, for any targets, any number of tracks that  *)
(* hit one target, any threads that stop the search, any queue and any     *)
(* number of status changes the reader announces.                          *)
(***************************************************************************)
EXTENDS SearchSessionProps, FiniteSetTheorems, SequenceTheorems, TLAPS

Threads == Stoppers \cup {"worker"}
Labels == WorkerLabels \cup StopperLabels

Events ==
  [type : {"search_status"}, status : Statuses] \cup [type : {"confirmed"}, hit : Hits]
  \cup [type : {"target_found"}, hit : Hits, available : BOOLEAN]
  \cup [type : {"all_found"}] \cup [type : {"search_timeout"}, unfound : SUBSET Targets]

(* Beside TypeOK: the worker has a hit in hand while it deals with one, a  *)
(* deferred one while it publishes it; the reader announces what it knows. *)
Typed ==
  /\ TypeOK
  /\ pc \in [Threads -> Labels]
  /\ log \in Seq(Events)
  /\ pc["worker"] \in {"store", "record", "confirm", "mark"} => hit \in Hits
  /\ pc["worker"] \in {"offer", "withhold"} => deferred # <<>>
  /\ reader \in {"told", "transit"} => report # "none"

LEMMA ThreadsApart == "worker" \notin Stoppers /\ Free \notin Threads
  BY RequestsAssumption DEF Stoppers, Threads, Free

(* A thread that goes on leaves the others where they are.                 *)
LEMMA GoingOn ==
  ASSUME pc \in [Threads -> Labels], NEW a \in Threads, NEW to \in Labels, Goto(a, to)
  PROVE  /\ pc' \in [Threads -> Labels] /\ pc'[a] = to
         /\ \A b \in Threads : b # a => pc'[b] = pc[b]
  BY DEF Goto

-----------------------------------------------------------------------------
(* The parts of the state each step leaves alone.                          *)
LockOK ==
  /\ stopLock \in Threads \cup {Free}
  /\ \A a \in Threads : (stopLock = a) <=> (pc[a] \in {"joining", "rejoining"})

PcOK ==
  /\ pc \in [Threads -> Labels] /\ DOMAIN pc = Threads
  /\ pc["worker"] \in WorkerLabels
  /\ \A a \in Stoppers : pc[a] \in StopperLabels

FlagsOK ==
  /\ status \in Statuses
  /\ stop \in BOOLEAN /\ finished \in BOOLEAN /\ slotFree \in BOOLEAN
  /\ attached \in BOOLEAN /\ readerStop \in BOOLEAN /\ joined \in BOOLEAN

ReaderOK ==
  /\ reader \in ReaderLabels
  /\ report \in {"none", "running", "source_lost"}
  /\ reports \in 0 .. MaxReports
  /\ queued \in 0 .. QueueSize
  /\ reader \in {"told", "transit"} => report # "none"

HitsOK ==
  /\ active \subseteq Targets
  /\ hit \in Hits \cup {NoHit}
  /\ evidence \in [Hits -> {"new", "none", "held", "left", "wiped"}]
  /\ results \subseteq Hits
  /\ deferred \in Seq(Hits)
  /\ log \in Seq(Events)
  /\ pc["worker"] \in {"store", "record", "confirm", "mark"} => hit \in Hits
  /\ pc["worker"] \in {"offer", "withhold"} => deferred # <<>>

LEMMA TypedParts == Typed <=> LockOK /\ PcOK /\ FlagsOK /\ ReaderOK /\ HitsOK
  BY DEF Typed, TypeOK, LockOK, PcOK, FlagsOK, ReaderOK, HitsOK, Threads

LEMMA InitTyped == Init => Typed
<1> SUFFICES ASSUME Init PROVE LockOK /\ PcOK /\ FlagsOK /\ ReaderOK /\ HitsOK
  BY TypedParts
<1> USE DEF Init
<1>1. /\ pc \in [Threads -> Labels] /\ pc["worker"] = "construct" /\ DOMAIN pc = Threads
      /\ \A a \in Stoppers : pc[a] = "idle"
  BY ThreadsApart DEF Threads, Labels, WorkerLabels, StopperLabels
<1>2. LockOK
  BY <1>1, ThreadsApart DEF LockOK, Threads
<1>3. PcOK
  BY <1>1 DEF PcOK, WorkerLabels, StopperLabels
<1>4. FlagsOK
  BY DEF FlagsOK, Statuses
<1>5. ReaderOK
  BY SizesAssumption DEF ReaderOK, ReaderLabels
<1>6. HitsOK
  <2>1. <<>> \in Seq(Hits) /\ <<>> \in Seq(Events)
    OBVIOUS
  <2> QED BY <1>1, <2>1 DEF HitsOK
<1> QED BY <1>2, <1>3, <1>4, <1>5, <1>6

-----------------------------------------------------------------------------
(* Where the threads go: each step moves at most one, to a label of its.   *)
WorkerMoves == \E to \in WorkerLabels : Goto("worker", to)

LEMMA WorkerGoesOn == Worker => WorkerMoves
<1> SUFFICES ASSUME Worker PROVE WorkerMoves
  OBVIOUS
<1> USE DEF WorkerMoves, WorkerLabels
<1>1. CASE Construct \/ Attach \/ Start \/ Loop \/ TimeOut \/ GetPacket \/ NoPacket
  BY <1>1 DEF Construct, Attach, Start, StartReader, Loop, TimeOut, GetPacket, NoPacket, Transition
<1>2. CASE \/ (\E t \in Targets : Decide(t)) \/ StoreEvidence \/ RecordResult
           \/ PublishConfirmed \/ MarkFound \/ FrameFails \/ FrameEnds \/ WipeAfterTransition
  BY <1>2 DEF Decide, StoreEvidence, RecordResult, PublishConfirmed, MarkFound, FrameFails,
              FrameEnds, WipeAfterTransition, Transition
<1>3. CASE Teardown \/ TeardownJoins \/ TeardownFails \/ Retire \/ RetireJoins \/ RetireGivesUp
  BY <1>3 DEF Teardown, TeardownJoins, TeardownFails, Retire, RetireJoins, RetireGivesUp,
              TakeReader, Join, JoinTimesOut, JoinFails, Transition
<1>4. CASE \/ Settle \/ Conclude \/ Announce \/ Refresh \/ PublishFound \/ PublishOutcome
           \/ Scrub \/ Finish
  BY <1>4 DEF Settle, SettleVia, Conclude, Announce, Refresh, PublishFound, PublishOutcome,
              PublishOutcomeAfter, Scrub, Finish, Transition
<1> QED BY <1>1, <1>2, <1>3, <1>4 DEF Worker

StopperMoves == \E a \in Stoppers : \E to \in StopperLabels \ {"idle"} : pc[a] # "done" /\ Goto(a, to)

Stopping ==
  \/ \E r \in Requests : BeginRequest(r)
  \/ \E d \in Shutdowns : BeginShutdown(d)
  \/ \E a \in Stoppers : Stopper(a)

LEMMA StoppersGoOn == Stopping => StopperMoves
<1> SUFFICES ASSUME Stopping PROVE StopperMoves
  OBVIOUS
<1> USE DEF StopperMoves, StopperLabels
<1>1. CASE (\E r \in Requests : BeginRequest(r)) \/ \E d \in Shutdowns : BeginShutdown(d)
  BY <1>1 DEF BeginRequest, BeginShutdown, Stoppers, At
<1>2. CASE \E a \in Stoppers : Stopper(a)
  BY <1>2 DEF Stopper, SetStop, StopWipes, MarkStopping, LookForReader, TakeReader,
              Join, JoinTimesOut, JoinFails, StopReturns, At
<1> QED BY <1>1, <1>2 DEF Stopping

Elsewhere == Reader \/ (\E h \in Hits : EvidenceLeaves(h)) \/ UNCHANGED vars

LEMMA StepsOfTheSession == [Next]_vars => Worker \/ Stopping \/ Elsewhere
  BY DEF Next, Stopping, Elsewhere

LEMMA ElsewhereNobodyMoves ==
  Elsewhere => UNCHANGED <<pc, stop, finished, slotFree, joinVars, active, hit, results, deferred>>
  BY DEF Elsewhere, Reader, ReaderTop, ReaderTold, ReaderTransition, ReaderPuts,
         ReaderSkips, ReaderEnds, ReaderRetries, ReaderAnnounces, EvidenceLeaves, vars, others,
         sessionVars, rest, joinVars

LEMMA NextPcOK == PcOK /\ [Next]_vars => PcOK'
<1> SUFFICES ASSUME PcOK, [Next]_vars PROVE PcOK'
  OBVIOUS
<1>1. CASE Worker
  <2>1. PICK to \in WorkerLabels : Goto("worker", to)
    BY <1>1, WorkerGoesOn DEF WorkerMoves
  <2> QED BY <2>1, ThreadsApart DEF PcOK, Goto, Threads, Labels
<1>2. CASE Stopping
  <2>1. PICK a \in Stoppers : \E to \in StopperLabels : Goto(a, to)
    BY <1>2, StoppersGoOn DEF StopperMoves
  <2> QED BY <2>1, ThreadsApart DEF PcOK, Goto, Threads, Labels
<1>3. CASE Elsewhere
  BY <1>3, ElsewhereNobodyMoves DEF PcOK
<1> QED BY <1>1, <1>2, <1>3, StepsOfTheSession

(* The lock of the reader is taken by who joins it, and given back after.  *)
Joining == {"joining", "rejoining"}

Takes(a) ==
  /\ stopLock = Free /\ stopLock' = a /\ readerStop' /\ UNCHANGED joined
  /\ \E to \in Joining : Goto(a, to)

Releases(a) ==
  /\ pc[a] \in Joining /\ stopLock' = Free /\ UNCHANGED readerStop
  /\ joined' => joined \/ reader \in {"off", "ended"}
  /\ \E to \in Labels \ Joining : Goto(a, to)

Passes(a) ==
  /\ pc[a] \notin Joining /\ UNCHANGED <<stopLock, joined>>
  /\ readerStop' \in {readerStop, TRUE}
  /\ \E to \in Labels \ Joining : Goto(a, to)

LEMMA LockSteps ==
  PcOK /\ FlagsOK /\ (Worker \/ Stopping) => \E a \in Threads : Takes(a) \/ Releases(a) \/ Passes(a)
<1> SUFFICES ASSUME PcOK, FlagsOK, Worker \/ Stopping
             PROVE  \E a \in Threads : Takes(a) \/ Releases(a) \/ Passes(a)
  OBVIOUS
<1> USE DEF Takes, Releases, Passes, Joining, Labels, WorkerLabels, StopperLabels
<1>0. "worker" \in Threads /\ Stoppers \subseteq Threads
  BY DEF Threads
<1>1. CASE \/ Construct \/ Attach \/ Start \/ Loop \/ TimeOut \/ GetPacket \/ NoPacket
  <2>1. Passes("worker")
    BY <1>1 DEF Construct, Attach, Start, StartReader, Loop, TimeOut, GetPacket, NoPacket,
                Transition, At, rest, joinVars, FlagsOK
  <2> QED BY <1>0, <2>1
<1>2. CASE \/ (\E t \in Targets : Decide(t)) \/ StoreEvidence \/ RecordResult
           \/ PublishConfirmed \/ MarkFound \/ FrameFails \/ FrameEnds \/ WipeAfterTransition
  <2>1. Passes("worker")
    BY <1>2 DEF Decide, StoreEvidence, RecordResult, PublishConfirmed, MarkFound, FrameFails,
                FrameEnds, WipeAfterTransition, Transition, At, rest, joinVars
  <2> QED BY <1>0, <2>1
<1>3. CASE \/ Settle \/ Conclude \/ Announce \/ Refresh \/ PublishFound \/ PublishOutcome
           \/ Scrub \/ Finish
  <2>1. Passes("worker")
    BY <1>3 DEF Settle, SettleVia, Conclude, Announce, Refresh, PublishFound, PublishOutcome,
                PublishOutcomeAfter, Scrub, Finish, Transition, At, rest, joinVars
  <2> QED BY <1>0, <2>1
<1>4. CASE Teardown \/ TeardownJoins \/ TeardownFails \/ Retire \/ RetireJoins \/ RetireGivesUp
  <2>1. Takes("worker") \/ Releases("worker") \/ Passes("worker")
    BY <1>4 DEF Teardown, TeardownJoins, TeardownFails, Retire, RetireJoins, RetireGivesUp,
                TakeReader, Join, JoinTimesOut, JoinFails, Transition, At, joinVars
  <2> QED BY <1>0, <2>1
<1>5. CASE (\E r \in Requests : BeginRequest(r)) \/ \E d \in Shutdowns : BeginShutdown(d)
  <2>1. PICK a \in Stoppers : (a \in Requests /\ BeginRequest(a)) \/ (a \in Shutdowns /\ BeginShutdown(a))
    BY <1>5 DEF Stoppers
  <2>2. Passes(a)
    BY <2>1 DEF BeginRequest, BeginShutdown, At, rest, joinVars
  <2> QED BY <1>0, <2>2
<1>6. CASE \E a \in Stoppers : Stopper(a)
  <2>1. PICK a \in Stoppers : Stopper(a)
    BY <1>6
  <2>2. CASE \/ SetStop(a) \/ StopWipes(a) \/ MarkStopping(a)
             \/ LookForReader(a) \/ StopReturns(a)
    <3>1. Passes(a)
      BY <2>2 DEF SetStop, StopWipes, MarkStopping, LookForReader, StopReturns,
                  At, rest, joinVars
    <3> QED BY <1>0, <3>1
  <2>3. CASE TakeReader(a, "take", "joining", "wait")
    <3>1. Takes(a) \/ Passes(a)
      BY <2>3 DEF TakeReader, At, joinVars
    <3> QED BY <1>0, <3>1
  <2>4. CASE Join(a, "joining", "wait") \/ JoinTimesOut(a, "joining", "wait")
    <3>1. Releases(a)
      BY <2>4 DEF Join, JoinTimesOut, JoinFails, At
    <3> QED BY <1>0, <3>1
  <2> QED BY <2>1, <2>2, <2>3, <2>4 DEF Stopper
<1> QED BY <1>1, <1>2, <1>3, <1>4, <1>5, <1>6 DEF Worker, Stopping

LEMMA NextLockOK == PcOK /\ FlagsOK /\ LockOK /\ [Next]_vars => LockOK'
<1> SUFFICES ASSUME PcOK, FlagsOK, LockOK, [Next]_vars PROVE LockOK'
  OBVIOUS
<1>1. CASE Worker \/ Stopping
  <2>1. PICK a \in Threads : Takes(a) \/ Releases(a) \/ Passes(a)
    BY <1>1, LockSteps
  <2>2. CASE Takes(a)
    BY <2>2, ThreadsApart DEF Takes, Goto, LockOK, PcOK, Joining
  <2>3. CASE Releases(a)
    BY <2>3, ThreadsApart DEF Releases, Goto, LockOK, PcOK, Joining
  <2>4. CASE Passes(a)
    BY <2>4, ThreadsApart DEF Passes, Goto, LockOK, PcOK, Joining
  <2> QED BY <2>1, <2>2, <2>3, <2>4
<1>2. CASE Elsewhere
  BY <1>2, ElsewhereNobodyMoves DEF LockOK, joinVars
<1> QED BY <1>1, <1>2, StepsOfTheSession

-----------------------------------------------------------------------------
(* The status, the flags, the reader and the hits keep their types.        *)
LEMMA SettingKeepsStatus ==
  ASSUME status \in Statuses, NEW s \in Statuses, SetStatus(s) \/ UNCHANGED status
  PROVE  status' \in Statuses
  BY DEF SetStatus

LEMMA NextFlagsOK == FlagsOK /\ ReaderOK /\ [Next]_vars => FlagsOK'
<1> SUFFICES ASSUME FlagsOK, ReaderOK, [Next]_vars PROVE FlagsOK'
  OBVIOUS
<1> USE DEF FlagsOK
<1>1. status' \in Statuses
  <2>1. UNCHANGED status \/ \E s \in Statuses : SetStatus(s)
    <3> USE DEF Statuses, Terminal, Aborted
    <3>1. CASE \/ Construct \/ Attach \/ Start \/ Loop \/ TimeOut \/ GetPacket \/ NoPacket
               \/ (\E t \in Targets : Decide(t)) \/ StoreEvidence \/ RecordResult
               \/ PublishConfirmed \/ MarkFound \/ FrameFails \/ FrameEnds \/ WipeAfterTransition
      BY <3>1 DEF Construct, Attach, Start, StartReader, Loop, TimeOut, GetPacket, NoPacket,
                  Decide, StoreEvidence, RecordResult, PublishConfirmed, MarkFound, FrameFails,
                  FrameEnds, WipeAfterTransition, Transition
    <3>2. CASE \/ Teardown \/ TeardownJoins \/ TeardownFails \/ Retire \/ RetireJoins
               \/ RetireGivesUp \/ Settle \/ Conclude \/ Announce \/ Refresh \/ PublishFound
               \/ PublishOutcome \/ Scrub \/ Finish
      BY <3>2 DEF Teardown, TeardownJoins, TeardownFails, Retire, RetireJoins, RetireGivesUp,
                  TakeReader, Join, JoinTimesOut, JoinFails, Settle, SettleVia, Conclude,
                  Announce, Refresh, PublishFound, PublishOutcome, PublishOutcomeAfter, Scrub,
                  Finish, Transition
    <3>3. CASE Stopping
      BY <3>3 DEF Stopping, BeginRequest, BeginShutdown, Stopper, SetStop, StopWipes, MarkStopping,
                  LookForReader, TakeReader, Join, JoinTimesOut, JoinFails, StopReturns
    <3>4. CASE Reader
      BY <3>4 DEF Reader, ReaderTop, ReaderTold, ReaderTransition, ReaderPuts,
                  ReaderSkips, ReaderEnds, ReaderRetries, ReaderAnnounces, ReaderOK
    <3>5. CASE (\E h \in Hits : EvidenceLeaves(h)) \/ UNCHANGED vars
      BY <3>5 DEF EvidenceLeaves, vars
    <3> QED BY <3>1, <3>2, <3>3, <3>4, <3>5, StepsOfTheSession DEF Worker, Elsewhere
  <2> QED BY <2>1, SettingKeepsStatus
<1>2. /\ stop' \in BOOLEAN /\ finished' \in BOOLEAN /\ slotFree' \in BOOLEAN
      /\ attached' \in BOOLEAN /\ readerStop' \in BOOLEAN /\ joined' \in BOOLEAN
  <2>1. CASE Elsewhere
    BY <2>1, ElsewhereNobodyMoves DEF joinVars
  <2>2. CASE \/ Construct \/ Attach \/ Start \/ Loop \/ TimeOut \/ GetPacket \/ NoPacket
             \/ (\E t \in Targets : Decide(t)) \/ StoreEvidence \/ RecordResult
             \/ PublishConfirmed \/ MarkFound \/ FrameFails \/ FrameEnds \/ WipeAfterTransition
    BY <2>2 DEF Construct, Attach, Start, StartReader, Loop, TimeOut, GetPacket, NoPacket,
                Decide, StoreEvidence, RecordResult, PublishConfirmed, MarkFound, FrameFails,
                FrameEnds, WipeAfterTransition, rest, joinVars
  <2>3. CASE \/ Teardown \/ TeardownJoins \/ TeardownFails \/ Retire \/ RetireJoins
             \/ RetireGivesUp \/ Settle \/ Conclude \/ Announce \/ Refresh \/ PublishFound
             \/ PublishOutcome \/ Scrub \/ Finish
    BY <2>3 DEF Teardown, TeardownJoins, TeardownFails, Retire, RetireJoins, RetireGivesUp,
                TakeReader, Join, JoinTimesOut, JoinFails, Settle, SettleVia, Conclude,
                Announce, Refresh, PublishFound, PublishOutcome, PublishOutcomeAfter, Scrub,
                Finish, rest, joinVars
  <2>4. CASE Stopping
    BY <2>4 DEF Stopping, BeginRequest, BeginShutdown, Stopper, SetStop, StopWipes, MarkStopping,
                LookForReader, TakeReader, Join, JoinTimesOut, JoinFails,
                StopReturns, rest, joinVars
  <2> QED BY <2>1, <2>2, <2>3, <2>4, StepsOfTheSession DEF Worker
<1> QED BY <1>1, <1>2

LEMMA NextReaderOK == ReaderOK /\ [Next]_vars => ReaderOK'
<1> SUFFICES ASSUME ReaderOK, [Next]_vars PROVE ReaderOK'
  OBVIOUS
<1> USE SizesAssumption DEF ReaderOK, ReaderLabels
<1>1. CASE Reader
  BY <1>1 DEF Reader, ReaderTop, ReaderTold, ReaderTransition, ReaderPuts,
              ReaderSkips, ReaderEnds, ReaderRetries, ReaderAnnounces
<1>2. CASE Start \/ GetPacket \/ Finish
  BY <1>2 DEF Start, StartReader, GetPacket, Finish
<1>3. CASE Elsewhere /\ ~Reader
  BY <1>3 DEF Elsewhere, EvidenceLeaves, rest, readerVars, vars
<1>4. CASE \/ Construct \/ Attach \/ Loop \/ TimeOut \/ NoPacket
           \/ (\E t \in Targets : Decide(t)) \/ StoreEvidence \/ RecordResult
           \/ PublishConfirmed \/ MarkFound \/ FrameFails \/ FrameEnds \/ WipeAfterTransition
  BY <1>4 DEF Construct, Attach, Loop, TimeOut, NoPacket, Decide, StoreEvidence, RecordResult,
              PublishConfirmed, MarkFound, FrameFails, FrameEnds, WipeAfterTransition, rest, readerVars
<1>5. CASE \/ Teardown \/ TeardownJoins \/ TeardownFails \/ Retire \/ RetireJoins
           \/ RetireGivesUp \/ Settle \/ Conclude \/ Announce \/ Refresh \/ PublishFound
           \/ PublishOutcome \/ Scrub
  BY <1>5 DEF Teardown, TeardownJoins, TeardownFails, Retire, RetireJoins, RetireGivesUp,
              TakeReader, Join, JoinTimesOut, JoinFails, Settle, SettleVia, Conclude, Announce,
              Refresh, PublishFound, PublishOutcome, PublishOutcomeAfter, Scrub, rest, readerVars
<1>6. CASE Stopping
  BY <1>6 DEF Stopping, BeginRequest, BeginShutdown, Stopper, SetStop, StopWipes, MarkStopping,
              LookForReader, TakeReader, Join, JoinTimesOut, JoinFails, StopReturns,
              rest, readerVars
<1> QED BY <1>1, <1>2, <1>3, <1>4, <1>5, <1>6, StepsOfTheSession DEF Worker

(* The steps of the worker that only drive the search on.                  *)
Driving ==
  \/ Construct \/ Attach \/ Start \/ Loop \/ TimeOut \/ GetPacket \/ NoPacket \/ FrameFails
  \/ Teardown \/ TeardownJoins \/ TeardownFails \/ Settle \/ Conclude
  \/ Scrub \/ Retire \/ RetireJoins \/ RetireGivesUp \/ Finish

Working == {"store", "record", "confirm", "mark"}

LEMMA DrivingKeepsHits ==
  PcOK /\ Driving => /\ UNCHANGED <<sessionVars, log>>
                     /\ pc'["worker"] \notin Working \cup {"flush", "offer", "withhold"}
<1> SUFFICES ASSUME PcOK, Driving
             PROVE  /\ UNCHANGED <<sessionVars, log>>
                    /\ pc'["worker"] \notin Working \cup {"flush", "offer", "withhold"}
  OBVIOUS
<1>1. UNCHANGED <<sessionVars, log>>
  BY DEF Driving, Construct, Attach, Start, StartReader, Loop, TimeOut, GetPacket, NoPacket, FrameFails,
         Teardown, TeardownJoins, TeardownFails, Settle, SettleVia, Conclude, Scrub, Retire,
         RetireJoins, RetireGivesUp, Finish, TakeReader, Join, JoinTimesOut, JoinFails, sessionVars
<1>2. \E to \in Labels \ (Working \cup {"flush", "offer", "withhold"}) : Goto("worker", to)
  BY DEF Driving, Construct, Attach, Start, StartReader, Loop, TimeOut, GetPacket, NoPacket, FrameFails,
         Teardown, TeardownJoins, TeardownFails, Settle, SettleVia, Conclude, Scrub, Retire,
         RetireJoins, RetireGivesUp, Finish, TakeReader, Join, JoinTimesOut, JoinFails, Transition,
         Working, Labels, WorkerLabels
<1> QED BY <1>1, <1>2 DEF PcOK, Goto, Threads

LEMMA StoppingKeepsHits ==
  Stopping =>
    /\ UNCHANGED <<active, hit, results, deferred, log>>
    /\ UNCHANGED evidence \/ ClearEvidence
  BY DEF Stopping, BeginRequest, BeginShutdown, Stopper, SetStop, StopWipes, MarkStopping,
         LookForReader, TakeReader, Join, JoinTimesOut, JoinFails, StopReturns,
         sessionVars

LEMMA ElsewhereKeepsHits ==
  ReaderOK /\ Elsewhere =>
    /\ UNCHANGED evidence \/ \E h \in Held : evidence' = [evidence EXCEPT ![h] = "left"]
    /\ UNCHANGED log
  BY DEF Elsewhere, Reader, ReaderTop, ReaderTold, ReaderTransition, ReaderPuts,
         ReaderSkips, ReaderEnds, ReaderRetries, ReaderAnnounces, EvidenceLeaves, vars, others,
         sessionVars, ReaderOK

LEMMA StoppersLeaveTheWorker == PcOK /\ Stopping => pc'["worker"] = pc["worker"]
<1> SUFFICES ASSUME PcOK, Stopping PROVE pc'["worker"] = pc["worker"]
  OBVIOUS
<1>1. PICK a \in Stoppers : \E to \in StopperLabels : Goto(a, to)
  BY StoppersGoOn DEF StopperMoves
<1> QED BY <1>1, ThreadsApart DEF Goto, PcOK, Threads

(* What is published, and what was before.                                 *)
LEMMA Publishing ==
  ASSUME log \in Seq(Events), NEW event \in Events, Publish(event)
  PROVE  /\ log' \in Seq(Events)
         /\ Len(log) \in Nat /\ DOMAIN log = 1 .. Len(log)
         /\ Len(log') = Len(log) + 1 /\ DOMAIN log' = 1 .. Len(log) + 1
         /\ \A i \in DOMAIN log : log'[i] = log[i]
         /\ log'[Len(log) + 1] = event
  BY AppendProperties DEF Publish

LEMMA WipingKeepsTypes ==
  ASSUME HitsOK, ClearEvidence
  PROVE  evidence' \in [Hits -> {"new", "none", "held", "left", "wiped"}]
  BY DEF HitsOK, ClearEvidence

LEMMA StatusEvents ==
  \A s \in Statuses : StatusEvent(s) \in Events
  BY DEF StatusEvent, Events

LEMMA NextHitsOK ==
  PcOK /\ FlagsOK /\ ReaderOK /\ HitsOK /\ [Next]_vars => HitsOK'
<1> SUFFICES ASSUME PcOK, FlagsOK, ReaderOK, HitsOK, [Next]_vars PROVE HitsOK'
  OBVIOUS
<1> USE DEF HitsOK
<1> DEFINE w == pc'["worker"]
<1>0. ASSUME NEW to, Goto("worker", to) PROVE w = to
  BY <1>0 DEF Goto, PcOK, Threads
<1>1. CASE Driving
  BY <1>1, DrivingKeepsHits DEF sessionVars, Working
<1>2. CASE Stopping
  <2>1. log' \in Seq(Events)
    BY <1>2, StoppingKeepsHits, StatusEvents, Publishing DEF Statuses
  <2> QED BY <1>2, <2>1, StoppingKeepsHits, WipingKeepsTypes, StoppersLeaveTheWorker
<1>3. CASE Elsewhere
  <2>1. log' \in Seq(Events)
    BY <1>3, ElsewhereKeepsHits, StatusEvents, Publishing DEF Statuses
  <2>2. evidence' \in [Hits -> {"new", "none", "held", "left", "wiped"}]
    BY <1>3, ElsewhereKeepsHits
  <2> QED BY <1>3, <2>1, <2>2, ElsewhereNobodyMoves
<1>4. CASE \E t \in Targets : Decide(t)
  <2>1. hit' \in Hits /\ w = "store" /\ UNCHANGED <<active, evidence, results, deferred, log>>
    BY <1>0, <1>4 DEF Decide
  <2> QED BY <2>1
<1>5. CASE StoreEvidence
  <2>1. hit \in Hits /\ w = "record" /\ UNCHANGED <<active, hit, results, deferred, log>>
    BY <1>0, <1>5 DEF StoreEvidence, At
  <2>2. evidence' \in [Hits -> {"new", "none", "held", "left", "wiped"}]
    BY <1>5 DEF StoreEvidence
  <2> QED BY <2>1, <2>2
<1>6. CASE RecordResult
  <2>1. /\ hit \in Hits /\ w = "confirm" /\ UNCHANGED <<active, hit, evidence, deferred, log>>
        /\ results' = results \cup {hit}
    BY <1>0, <1>6 DEF RecordResult, At
  <2> QED BY <2>1
<1>7. CASE PublishConfirmed
  <2>1. /\ hit \in Hits /\ w = "mark" /\ UNCHANGED <<active, hit, evidence, results, deferred>>
        /\ Publish([type |-> "confirmed", hit |-> hit])
    BY <1>0, <1>7 DEF PublishConfirmed, At, sessionVars
  <2>2. [type |-> "confirmed", hit |-> hit] \in Events
    BY <2>1 DEF Events
  <2>3. log' \in Seq(Events)
    BY <2>1, <2>2, Publishing
  <2> QED BY <2>1, <2>3
<1>8. CASE MarkFound
  <2>1. /\ hit \in Hits /\ w = "frame" /\ UNCHANGED <<hit, evidence, results, log>>
        /\ deferred' = Append(deferred, hit) /\ active' \subseteq active
    BY <1>0, <1>8 DEF MarkFound, At
  <2>2. deferred' \in Seq(Hits)
    BY <2>1, AppendProperties
  <2> QED BY <2>1, <2>2
<1>9. CASE FrameEnds
  <2>1. /\ w \in {"teardown", "loop"} /\ hit' = NoHit
        /\ UNCHANGED <<active, evidence, results, deferred, log>>
    BY <1>0, <1>9 DEF FrameEnds, Transition
  <2> QED BY <2>1
<1>10. CASE WipeAfterTransition
  <2>1. /\ w \in {"teardown", "settle", "conclude"} /\ ClearEvidence
        /\ UNCHANGED <<active, hit, results, deferred, log>>
    BY <1>0, <1>10 DEF WipeAfterTransition
  <2> QED BY <2>1, WipingKeepsTypes
<1>11. CASE Announce
  <2>1. w = "flush" /\ UNCHANGED sessionVars /\ Publish(StatusEvent(status))
    BY <1>0, <1>11 DEF Announce
  <2>2. log' \in Seq(Events)
    BY <2>1, StatusEvents, Publishing DEF FlagsOK
  <2> QED BY <2>1, <2>2 DEF sessionVars
<1>12. CASE Refresh
  <2>1. w \in {"offer", "withhold"} /\ UNCHANGED <<sessionVars, log>> /\ deferred # <<>>
    BY <1>0, <1>12 DEF Refresh
  <2> QED BY <2>1 DEF sessionVars
<1>13. CASE PublishFound
  <2> DEFINE event == [type |-> "target_found", hit |-> Head(deferred),
                       available |-> At("worker", "offer")]
  <2>1. /\ w = "flush" /\ UNCHANGED <<active, hit, evidence, results>>
        /\ deferred # <<>> /\ deferred' = Tail(deferred) /\ Publish(event)
    BY <1>0, <1>13 DEF PublishFound, At
  <2>2. Head(deferred) \in Hits /\ deferred' \in Seq(Hits)
    BY <2>1, HeadTailProperties
  <2>3. event \in Events
    BY <2>2 DEF Events, At
  <2> HIDE DEF event
  <2>4. log' \in Seq(Events)
    BY <2>1, <2>3, Publishing
  <2> QED BY <2>1, <2>2, <2>4
<1>14. CASE PublishOutcome
  <2>1. /\ w = "scrub" /\ UNCHANGED sessionVars
        /\ \/ UNCHANGED log \/ Publish([type |-> "all_found"])
           \/ Publish([type |-> "search_timeout", unfound |-> active])
    BY <1>0, <1>14 DEF PublishOutcome, PublishOutcomeAfter
  <2>2. [type |-> "all_found"] \in Events /\ [type |-> "search_timeout", unfound |-> active] \in Events
    BY DEF Events
  <2>3. log' \in Seq(Events)
    BY <2>1, <2>2, Publishing
  <2> QED BY <2>1, <2>3 DEF sessionVars
<1> QED BY <1>1, <1>2, <1>3, <1>4, <1>5, <1>6, <1>7, <1>8, <1>9, <1>10, <1>11, <1>12, <1>13,
           <1>14, StepsOfTheSession DEF Worker, Driving

(* Every reachable state is well typed, for any values of the constants.   *)
LEMMA NextTyped == Typed /\ [Next]_vars => Typed'
<1> SUFFICES ASSUME Typed, [Next]_vars PROVE Typed'
  OBVIOUS
<1>1. LockOK /\ PcOK /\ FlagsOK /\ ReaderOK /\ HitsOK
  BY TypedParts
<1>2. LockOK' /\ PcOK' /\ FlagsOK' /\ ReaderOK' /\ HitsOK'
  BY <1>1, NextLockOK, NextPcOK, NextFlagsOK, NextReaderOK, NextHitsOK
<1>3. TypeOK'
  BY <1>2 DEF TypeOK, LockOK, PcOK, FlagsOK, ReaderOK, HitsOK, Threads
<1> QED BY <1>2, <1>3 DEF Typed, LockOK, PcOK, FlagsOK, ReaderOK, HitsOK

THEOREM TypeCorrect == Spec => []TypeOK
<1>1. Typed => TypeOK
  BY DEF Typed
<1> QED BY <1>1, InitTyped, NextTyped, PTL DEF Spec

-----------------------------------------------------------------------------
(* The reader.  Whoever joins it has told it to stop, nothing takes that   *)
(* back, and a thread that is started all the same ends at once.           *)
SilencedInv == (stopLock # Free => readerStop) /\ ReaderIsSilenced

LEMMA SilencedInit == Init => SilencedInv
  BY DEF Init, SilencedInv, ReaderIsSilenced

LEMMA WorkersAndStoppersOnlyStartIt ==
  Worker \/ Stopping => reader' \in {reader, "top"} /\ (reader' # reader => UNCHANGED joined)
<1>1. CASE Start
  BY <1>1 DEF Start, StartReader
<1>2. CASE \/ Construct \/ Attach \/ Loop \/ TimeOut \/ GetPacket \/ NoPacket
           \/ (\E t \in Targets : Decide(t)) \/ StoreEvidence \/ RecordResult
           \/ PublishConfirmed \/ MarkFound \/ FrameFails \/ FrameEnds \/ WipeAfterTransition
  BY <1>2 DEF Construct, Attach, Loop, TimeOut, GetPacket, NoPacket, Decide, StoreEvidence,
              RecordResult, PublishConfirmed, MarkFound, FrameFails, FrameEnds,
              WipeAfterTransition, rest, readerVars
<1>3. CASE \/ Teardown \/ TeardownJoins \/ TeardownFails \/ Retire \/ RetireJoins
           \/ RetireGivesUp \/ Settle \/ Conclude \/ Announce \/ Refresh \/ PublishFound
           \/ PublishOutcome \/ Scrub \/ Finish
  BY <1>3 DEF Teardown, TeardownJoins, TeardownFails, Retire, RetireJoins, RetireGivesUp,
              TakeReader, Join, JoinTimesOut, JoinFails, Settle, SettleVia, Conclude, Announce,
              Refresh, PublishFound, PublishOutcome, PublishOutcomeAfter, Scrub, Finish, rest,
              readerVars
<1>4. CASE Stopping
  BY <1>4 DEF Stopping, BeginRequest, BeginShutdown, Stopper, SetStop, StopWipes, MarkStopping,
              LookForReader, TakeReader, Join, JoinTimesOut, JoinFails, StopReturns,
              rest, readerVars
<1> QED BY <1>1, <1>2, <1>3, <1>4 DEF Worker

LEMMA JoinsSilence ==
  Typed /\ SilencedInv /\ (Worker \/ Stopping) => SilencedInv'
<1> SUFFICES ASSUME Typed, SilencedInv, Worker \/ Stopping PROVE SilencedInv'
  OBVIOUS
<1> USE DEF SilencedInv, ReaderIsSilenced
<1>0. LockOK /\ PcOK /\ FlagsOK
  BY TypedParts
<1>1. PICK a \in Threads : Takes(a) \/ Releases(a) \/ Passes(a)
  BY <1>0, LockSteps
<1>2. reader' \in {reader, "top"} /\ (reader' # reader => UNCHANGED joined)
  BY WorkersAndStoppersOnlyStartIt
<1>3. CASE Takes(a)
  BY <1>2, <1>3 DEF Takes
<1>4. CASE Releases(a)
  <2>1. stopLock = a /\ readerStop
    BY <1>0, <1>4, ThreadsApart DEF Releases, LockOK, Joining
  <2> QED BY <1>2, <1>4, <2>1 DEF Releases
<1>5. CASE Passes(a)
  BY <1>2, <1>5, <1>0 DEF Passes, FlagsOK
<1> QED BY <1>1, <1>3, <1>4, <1>5

LEMMA SilencedReaderEnds ==
  Typed /\ SilencedInv /\ Elsewhere => SilencedInv'
<1> SUFFICES ASSUME Typed, SilencedInv, Elsewhere PROVE SilencedInv'
  OBVIOUS
<1>1. UNCHANGED <<stopLock, readerStop, joined>>
  BY ElsewhereNobodyMoves DEF joinVars
<1>2. joined => reader' \in {"off", "top", "ended"}
  BY DEF SilencedInv, ReaderIsSilenced, Elsewhere, Reader, ReaderTop, ReaderTold, ReaderTransition,
         ReaderPuts, ReaderSkips, ReaderEnds, ReaderRetries, ReaderAnnounces,
         EvidenceLeaves, rest, readerVars, vars
<1> QED BY <1>1, <1>2 DEF SilencedInv, ReaderIsSilenced

(* After a join that succeeded no status of the camera can reach the       *)
(* client any more, for any number of threads that stop and join.          *)
THEOREM TheReaderIsSilenced == Spec => []ReaderIsSilenced
<1>1. Typed /\ SilencedInv /\ [Next]_vars => SilencedInv'
  BY JoinsSilence, SilencedReaderEnds, StepsOfTheSession
<1>2. SilencedInv => ReaderIsSilenced
  BY DEF SilencedInv
<1> QED BY <1>1, <1>2, InitTyped, NextTyped, SilencedInit, PTL DEF Spec

-----------------------------------------------------------------------------
(* The end of a search.  Its status is terminal from the end of its loop   *)
(* on; an abort wipes before it goes on, and nothing is stored after; the  *)
(* slot is free before anything is told.                                   *)
Before == {"construct", "attach", "start", "loop", "poll", "empty", "frame"} \cup Working
Wiping == {"wipe_then_teardown", "wipe_then_settle", "wipe_then_conclude"}
Telling == {"announce", "flush", "offer", "withhold", "scrub", "retire", "rejoining", "finish", "done"}

EndInv ==
  /\ pc["worker"] \in Before => status \notin Terminal
  /\ pc["worker"] \in Wiping => status \in Aborted
  /\ Concluding => status \in Terminal
  /\ status \in Aborted /\ pc["worker"] \notin Wiping => Held = {}
  /\ pc["worker"] \in Telling => slotFree

LEMMA InitEndInv == Init => EndInv
<1> SUFFICES ASSUME Init PROVE EndInv
  OBVIOUS
<1>1. pc["worker"] = "construct" /\ status = "initializing"
  BY DEF Init
<1> QED BY <1>1 DEF EndInv, Before, Wiping, Telling, Concluding, Terminal, Aborted

(* The other threads leave a terminal status as it is, make no status      *)
(* terminal and store nothing.                                             *)
LEMMA OthersDoNotEnd ==
  ReaderOK /\ HitsOK /\ (Stopping \/ Elsewhere) =>
    /\ UNCHANGED slotFree
    /\ status \in Terminal => UNCHANGED status
    /\ status' \in Terminal => status \in Terminal
    /\ \A h \in Hits : evidence'[h] = "held" => evidence[h] = "held"
<1> SUFFICES ASSUME ReaderOK, HitsOK, Stopping \/ Elsewhere
             PROVE  /\ UNCHANGED slotFree
                    /\ status \in Terminal => UNCHANGED status
                    /\ status' \in Terminal => status \in Terminal
                    /\ \A h \in Hits : evidence'[h] = "held" => evidence[h] = "held"
  OBVIOUS
<1>1. UNCHANGED status \/ \E s \in {"stopping", "running", "source_lost"} : SetStatus(s)
  <2>1. CASE Stopping
    BY <2>1 DEF Stopping, BeginRequest, BeginShutdown, Stopper, SetStop, StopWipes, MarkStopping,
                LookForReader, TakeReader, Join, JoinTimesOut, JoinFails, StopReturns
  <2>2. CASE Elsewhere
    BY <2>2 DEF Elsewhere, Reader, ReaderTop, ReaderTold, ReaderTransition,
                ReaderPuts, ReaderSkips, ReaderEnds, ReaderRetries, ReaderAnnounces,
                EvidenceLeaves, vars, ReaderOK
  <2> QED BY <2>1, <2>2
<1>2. UNCHANGED slotFree
  BY ElsewhereNobodyMoves
  DEF Stopping, BeginRequest, BeginShutdown, Stopper, SetStop, StopWipes, MarkStopping,
      LookForReader, TakeReader, Join, JoinTimesOut, JoinFails, StopReturns, rest
<1>3. \A h \in Hits : evidence'[h] = "held" => evidence[h] = "held"
  <2>1. \/ UNCHANGED evidence \/ ClearEvidence
        \/ \E h \in Held : evidence' = [evidence EXCEPT ![h] = "left"]
    BY StoppingKeepsHits, ElsewhereKeepsHits
  <2> QED BY <2>1 DEF ClearEvidence, Held, HitsOK
<1> QED BY <1>1, <1>2, <1>3 DEF SetStatus, Changes, Terminal, Aborted

(* The worker's own transition ends the search unless it has ended.        *)
LEMMA EndingIt ==
  ASSUME PcOK, FlagsOK, NEW s \in Terminal, NEW wipe, NEW next, Transition(s, wipe, next)
  PROVE  \/ status \notin Terminal /\ status' = s /\ pc'["worker"] = wipe
         \/ status \in Terminal /\ UNCHANGED status /\ pc'["worker"] = next
  BY DEF Transition, SetStatus, Changes, Goto, PcOK, Threads

LEMMA WorkerEndInv == Typed /\ EndInv /\ Worker => EndInv'
<1> SUFFICES ASSUME Typed, EndInv, Worker PROVE EndInv'
  OBVIOUS
<1> DEFINE w == pc["worker"]
           v == pc'["worker"]
<1>0. PcOK /\ FlagsOK /\ HitsOK
  BY TypedParts
<1>10. ASSUME NEW to, Goto("worker", to) PROVE v = to
  BY <1>0, <1>10 DEF Goto, PcOK, Threads
<1>1. ASSUME UNCHANGED <<status, evidence, slotFree>>,
             \/ w \in Before /\ v \in Before
             \/ w \notin Wiping \cup Telling /\ v \in {"teardown", "joining", "settle"} /\ ~Concluding
             \/ w \in Telling /\ v \in Telling
      PROVE  EndInv'
  BY <1>1 DEF EndInv, Held, Before, Working, Wiping, Telling, Concluding
<1>2. ASSUME NEW s \in Terminal, NEW wipe, NEW next, Transition(s, wipe, next),
             w \notin Wiping, UNCHANGED <<evidence, slotFree>>,
             IF s \in Aborted THEN wipe \in Wiping ELSE wipe \in {"teardown"},
             next \in {"teardown", "settle"} \/ next = "conclude"
      PROVE  EndInv'
  <2>1. \/ status \notin Terminal /\ status' = s /\ v = wipe
        \/ status \in Terminal /\ UNCHANGED status /\ v = next
    BY <1>0, <1>2, EndingIt
  <2>2. Held' = Held
    BY <1>2 DEF Held
  <2>3. s \in Aborted \/ s = "completed"
    BY DEF Terminal
  <2> QED BY <1>2, <2>1, <2>2, <2>3
    DEF EndInv, Before, Working, Wiping, Telling, Concluding, Terminal, Aborted
<1>3. CASE Construct \/ Start \/ TimeOut \/ FrameFails \/ FrameEnds \/ TeardownFails \/ Settle
  <2>1. w \notin Wiping /\ UNCHANGED <<evidence, slotFree>>
    BY <1>3 DEF Construct, Start, StartReader, TimeOut, FrameFails, FrameEnds, TeardownFails, Settle,
                SettleVia, At, Wiping, sessionVars, rest
  <2>2. CASE \/ Transition("failed", "wipe_then_conclude", "conclude")
             \/ Transition("failed", "wipe_then_teardown", "teardown")
             \/ Transition("timed_out", "wipe_then_teardown", "teardown")
             \/ Transition("completed", "teardown", "teardown")
             \/ Transition("failed", "wipe_then_settle", "settle")
             \/ Transition("stopped", "wipe_then_conclude", "conclude")
    BY <1>2, <2>1, <2>2 DEF Terminal, Aborted, Wiping
  <2>3. CASE UNCHANGED status /\ w \in Before /\ v \in Before
    BY <1>1, <2>1, <2>3
  <2> QED BY <1>3, <1>10, <2>2, <2>3
    DEF Construct, Start, StartReader, TimeOut, FrameFails, FrameEnds, TeardownFails, Settle,
        SettleVia, At, Before
<1>4. CASE \/ Attach \/ Loop \/ GetPacket \/ NoPacket \/ (\E t \in Targets : Decide(t))
           \/ RecordResult \/ PublishConfirmed \/ MarkFound
  <2>1. UNCHANGED <<status, evidence, slotFree>>
    BY <1>4 DEF Attach, Loop, GetPacket, NoPacket, Decide, RecordResult, PublishConfirmed, MarkFound,
                sessionVars, rest
  <2>2. w \in Before /\ v \in Before \cup {"teardown"}
    BY <1>4, <1>10 DEF Attach, Loop, GetPacket, NoPacket, Decide, RecordResult, PublishConfirmed,
                      MarkFound, At, Before, Working
  <2>3. w \notin Wiping \cup Telling /\ ~Concluding
    BY <2>2 DEF Before, Working, Wiping, Telling, Concluding
  <2> QED BY <1>1, <2>1, <2>2, <2>3
<1>5. CASE StoreEvidence
  <2>1. w = "store" /\ v = "record" /\ UNCHANGED status
    BY <1>5, <1>10 DEF StoreEvidence, At
  <2> QED BY <2>1 DEF EndInv, Before, Working, Wiping, Telling, Concluding, Terminal
<1>6. CASE WipeAfterTransition
  <2>1. /\ w \in Wiping /\ v \in {"teardown", "settle", "conclude"}
        /\ UNCHANGED <<status, slotFree>> /\ ClearEvidence
    BY <1>6, <1>10 DEF WipeAfterTransition, At, Wiping, rest
  <2>2. Held' = {}
    BY <2>1 DEF ClearEvidence, Held
  <2> QED BY <2>1, <2>2 DEF EndInv, Before, Working, Wiping, Telling, Concluding, Terminal
<1>7. CASE Teardown \/ TeardownJoins \/ Retire \/ RetireJoins \/ RetireGivesUp
  <2>1. UNCHANGED <<status, evidence, slotFree>>
    BY <1>7 DEF Teardown, TeardownJoins, Retire, RetireJoins, RetireGivesUp, TakeReader, Join,
                JoinTimesOut, JoinFails, sessionVars
  <2>2. \/ w \in {"teardown", "joining"} /\ v \in {"joining", "settle"}
        \/ w \in Telling /\ v \in Telling
    BY <1>7, <1>10 DEF Teardown, TeardownJoins, Retire, RetireJoins, RetireGivesUp, TakeReader, Join,
                      JoinTimesOut, JoinFails, At, Telling
  <2>3. w \in {"teardown", "joining"} => w \notin Wiping \cup Telling /\ ~Concluding
    BY DEF Wiping, Telling, Concluding
  <2> QED BY <1>1, <2>1, <2>2, <2>3
<1>8. CASE Conclude
  <2>1. w = "conclude" /\ v = "announce" /\ UNCHANGED <<status, evidence>> /\ slotFree'
    BY <1>8, <1>10 DEF Conclude, At, sessionVars
  <2> QED BY <2>1 DEF EndInv, Held, Before, Working, Wiping, Telling, Concluding
<1>9. CASE Announce \/ Refresh \/ PublishFound \/ PublishOutcome \/ Scrub \/ Finish
  <2>1. UNCHANGED <<status, evidence, slotFree>>
    BY <1>9 DEF Announce, Refresh, PublishFound, PublishOutcome, PublishOutcomeAfter, Scrub, Finish,
                sessionVars, rest
  <2>2. w \in Telling /\ v \in Telling
    BY <1>9, <1>10 DEF Announce, Refresh, PublishFound, PublishOutcome, PublishOutcomeAfter, Scrub,
                      Finish, At, Telling
  <2> QED BY <1>1, <2>1, <2>2
<1> QED BY <1>3, <1>4, <1>5, <1>6, <1>7, <1>8, <1>9 DEF Worker

LEMMA NextEndInv == Typed /\ EndInv /\ [Next]_vars => EndInv'
<1> SUFFICES ASSUME Typed, EndInv, [Next]_vars PROVE EndInv'
  OBVIOUS
<1>1. CASE Stopping \/ Elsewhere
  <2>1. PcOK /\ ReaderOK /\ HitsOK
    BY TypedParts
  <2>2. pc'["worker"] = pc["worker"]
    BY <1>1, <2>1, StoppersLeaveTheWorker, ElsewhereNobodyMoves
  <2>3. /\ UNCHANGED slotFree
        /\ status \in Terminal => UNCHANGED status
        /\ status' \in Terminal => status \in Terminal
        /\ Held' \subseteq Held
    BY <1>1, <2>1, OthersDoNotEnd DEF Held
  <2> QED BY <2>2, <2>3 DEF EndInv, Concluding, Terminal
<1> QED BY <1>1, WorkerEndInv, StepsOfTheSession

(* A stopped, failed or timed-out search leaves no JPEG behind, wherever   *)
(* the stop met the worker; for any targets, tracks and stopping threads.  *)
THEOREM AbortsLeaveNothing == Spec => []AbortLeavesNothing
<1>1. EndInv => AbortLeavesNothing
  BY DEF EndInv, AbortLeavesNothing, Concluding, Wiping
<1> QED BY <1>1, InitTyped, NextTyped, InitEndInv, NextEndInv, PTL DEF Spec

-----------------------------------------------------------------------------
(* What is told.                                                           *)
Announced == Telling \ {"announce"}
Flushed == {"scrub", "retire", "rejoining", "finish", "done"}

(* The events of one type in a log.                                        *)
OfType(type, events) == {i \in DOMAIN events : events[i].type = type}

Found == OfType("target_found", log)
Outcomes == OfType("all_found", log) \cup OfType("search_timeout", log)

ToldInv ==
  /\ pc["worker"] \notin Announced => TerminalEvents = {} /\ Found = {}
  /\ pc["worker"] \in Announced =>
       \E i \in DOMAIN log :
         /\ TerminalEvents = {i} /\ log[i].status = status
         /\ \A j \in Outcomes \cup Found : i < j
  /\ pc["worker"] \notin Flushed => Outcomes = {}
  /\ \A i \in Found, j \in Outcomes : i < j

(* Published events stay, in their places.                                 *)
Recorded == DOMAIN log \subseteq DOMAIN log' /\ \A i \in DOMAIN log : log'[i] = log[i]

NewsTypes == {"search_status", "target_found", "confirmed", "all_found", "search_timeout"}

(* No step of the story: at most that the camera or a stop was reported.   *)
Quiet ==
  /\ Recorded
  /\ UNCHANGED TerminalEvents
  /\ \A type \in NewsTypes \ {"search_status"} : OfType(type, log') = OfType(type, log)

LEMMA Silence == UNCHANGED log => Quiet
  BY DEF Quiet, Recorded, TerminalEvents, Published

(* One event more, the last.                                               *)
LEMMA OneMore ==
  ASSUME log \in Seq(Events), NEW event \in Events, Publish(event),
         NEW n, n = Len(log) + 1
  PROVE  /\ Recorded /\ n \in Nat
         /\ DOMAIN log' = DOMAIN log \cup {n} /\ log'[n] = event
         /\ \A i \in DOMAIN log : i \in Nat /\ i < n
         /\ \A type \in NewsTypes :
              OfType(type, log') = IF event.type = type THEN OfType(type, log) \cup {n}
                                   ELSE OfType(type, log)
         /\ TerminalEvents' = IF event.type = "search_status" /\ event.status \in Terminal
                              THEN TerminalEvents \cup {n} ELSE TerminalEvents
<1>1. /\ Len(log) \in Nat /\ DOMAIN log = 1 .. Len(log)
      /\ DOMAIN log' = 1 .. Len(log) + 1
      /\ \A i \in DOMAIN log : log'[i] = log[i]
      /\ log'[Len(log) + 1] = event
  BY Publishing
<1>2. Recorded /\ n \in Nat /\ log'[n] = event
  BY <1>1 DEF Recorded
<1>3. DOMAIN log' = DOMAIN log \cup {n}
  BY <1>1
<1>4. \A i \in DOMAIN log : i \in Nat /\ i < n
  BY <1>1
<1>5. ASSUME NEW type \in NewsTypes
      PROVE  OfType(type, log') = IF event.type = type THEN OfType(type, log) \cup {n}
                                  ELSE OfType(type, log)
  BY <1>1, <1>2, <1>3, <1>4 DEF OfType
<1>6. TerminalEvents' = IF event.type = "search_status" /\ event.status \in Terminal
                        THEN TerminalEvents \cup {n} ELSE TerminalEvents
  <2>1. TerminalEvents' = {i \in DOMAIN log' : log'[i].type = "search_status" /\ log'[i].status \in Terminal}
    BY DEF TerminalEvents, Published
  <2>2. TerminalEvents = {i \in DOMAIN log : log[i].type = "search_status" /\ log[i].status \in Terminal}
    BY DEF TerminalEvents, Published
  <2> QED BY <1>1, <1>2, <1>3, <1>4, <2>1, <2>2
<1> QED BY <1>2, <1>3, <1>4, <1>5, <1>6

LEMMA MostStepsAreQuiet ==
  ASSUME Typed,
         \/ Stopping \/ Elsewhere \/ Driving \/ StoreEvidence \/ RecordResult \/ MarkFound
         \/ FrameEnds \/ WipeAfterTransition \/ Refresh \/ \E t \in Targets : Decide(t)
  PROVE  Quiet
<1>0. PcOK /\ ReaderOK /\ log \in Seq(Events)
  BY TypedParts DEF Typed
<1>1. UNCHANGED log
  BY <1>0, StoppingKeepsHits, ElsewhereKeepsHits, DrivingKeepsHits
  DEF StoreEvidence, RecordResult, MarkFound, FrameEnds, WipeAfterTransition, Refresh, Decide
<1> QED BY <1>0, <1>1, Silence

(* How far the worker is with telling changes only as it tells.            *)
LEMMA MostStepsTellNothing ==
  ASSUME Typed, EndInv,
         \/ Stopping \/ Elsewhere \/ Driving \/ StoreEvidence \/ RecordResult \/ MarkFound
         \/ FrameEnds \/ WipeAfterTransition \/ Refresh \/ PublishConfirmed
         \/ \E t \in Targets : Decide(t)
  PROVE  /\ pc["worker"] \in Announced <=> pc'["worker"] \in Announced
         /\ pc["worker"] \in Flushed <=> pc'["worker"] \in Flushed
         /\ pc["worker"] \in Announced => UNCHANGED status
<1> USE DEF Announced, Telling, Flushed
<1>0. PcOK /\ ReaderOK /\ HitsOK
  BY TypedParts
<1>1. pc["worker"] \in Announced => status \in Terminal
  BY DEF EndInv, Concluding
<1>2. CASE Stopping \/ Elsewhere
  <2>1. pc'["worker"] = pc["worker"]
    BY <1>0, <1>2, StoppersLeaveTheWorker, ElsewhereNobodyMoves
  <2> QED BY <1>0, <1>1, <1>2, <2>1, OthersDoNotEnd
<1>3. ASSUME NEW to, Goto("worker", to) PROVE pc'["worker"] = to
  BY <1>0, <1>3 DEF Goto, PcOK, Threads
<1>4. CASE \/ StoreEvidence \/ RecordResult \/ MarkFound \/ PublishConfirmed
           \/ FrameEnds \/ WipeAfterTransition \/ Refresh \/ \E t \in Targets : Decide(t)
  BY <1>3, <1>4 DEF StoreEvidence, RecordResult, MarkFound, PublishConfirmed, FrameEnds,
                    WipeAfterTransition, Refresh, Decide, Transition, At
<1>5. CASE Driving
  <2>1. \/ pc["worker"] \notin Announced /\ pc'["worker"] \notin Announced
        \/ /\ pc["worker"] \in Flushed /\ pc'["worker"] \in Flushed
           /\ UNCHANGED status
    BY <1>3, <1>5 DEF Driving, Construct, Attach, Start, StartReader, Loop, TimeOut, GetPacket,
         NoPacket, FrameFails, Teardown, TeardownJoins, TeardownFails, Settle, SettleVia, Conclude,
         Scrub, Retire, RetireJoins, RetireGivesUp, Finish, TakeReader, Join, JoinTimesOut,
         JoinFails, Transition, At
  <2> QED BY <2>1
<1> QED BY <1>2, <1>4, <1>5

LEMMA ToldInit == Init => ToldInv
<1> SUFFICES ASSUME Init PROVE ToldInv
  OBVIOUS
<1>1. pc["worker"] = "construct" /\ DOMAIN log = {}
  BY DEF Init
<1> QED BY <1>1 DEF ToldInv, Announced, Telling, Flushed, TerminalEvents, Found, Outcomes, Published, OfType

LEMMA NextToldInv == Typed /\ EndInv /\ ToldInv /\ [Next]_vars => ToldInv'
<1> SUFFICES ASSUME Typed, EndInv, ToldInv, [Next]_vars PROVE ToldInv'
  OBVIOUS
<1> DEFINE w == pc["worker"]
           v == pc'["worker"]
           n == Len(log) + 1
<1>0. PcOK /\ FlagsOK /\ HitsOK /\ log \in Seq(Events) /\ n = Len(log) + 1
  BY TypedParts DEF Typed
<1>1. ASSUME NEW to, Goto("worker", to) PROVE v = to
  BY <1>0, <1>1 DEF Goto, PcOK, Threads
<1> HIDE DEF n
(* Nothing of the story is told.                                           *)
<1>2. ASSUME Recorded, UNCHANGED <<TerminalEvents, Found, Outcomes>>,
             w \in Announced <=> v \in Announced, w \in Flushed <=> v \in Flushed,
             w \in Announced => UNCHANGED status
      PROVE  ToldInv'
  BY <1>2 DEF ToldInv, Recorded
<1>3. CASE \/ Stopping \/ Elsewhere \/ Driving \/ StoreEvidence \/ RecordResult \/ MarkFound
           \/ FrameEnds \/ WipeAfterTransition \/ Refresh \/ \E t \in Targets : Decide(t)
  <2>1. Quiet
    BY <1>3, MostStepsAreQuiet
  <2>2. UNCHANGED <<TerminalEvents, Found, Outcomes>> /\ Recorded
    BY <2>1 DEF Quiet, Found, Outcomes, NewsTypes
  <2> QED BY <1>2, <1>3, <2>2, MostStepsTellNothing
<1>4. CASE PublishConfirmed
  <2> DEFINE event == [type |-> "confirmed", hit |-> hit]
  <2>1. hit \in Hits /\ Publish(event)
    BY <1>4 DEF PublishConfirmed, At, Typed
  <2>2. event \in Events /\ event.type = "confirmed"
    BY <2>1 DEF Events
  <2> HIDE DEF event
  <2>3. UNCHANGED <<TerminalEvents, Found, Outcomes>> /\ Recorded
    BY <1>0, <2>1, <2>2, OneMore DEF Found, Outcomes, NewsTypes
  <2> QED BY <1>2, <1>4, <2>3, MostStepsTellNothing
<1>5. CASE Announce
  <2> DEFINE event == StatusEvent(status)
  <2>1. /\ Publish(event) /\ UNCHANGED status /\ status \in Terminal
        /\ w = "announce" /\ v = "flush"
    BY <1>1, <1>5 DEF Announce, At, EndInv, Concluding
  <2>2. event \in Events /\ event.type = "search_status" /\ event.status = status
    BY <1>0, StatusEvents DEF FlagsOK, StatusEvent
  <2> HIDE DEF event
  <2>3. /\ TerminalEvents' = TerminalEvents \cup {n} /\ UNCHANGED <<Found, Outcomes>>
        /\ DOMAIN log' = DOMAIN log \cup {n} /\ log'[n] = event
    BY <1>0, <2>1, <2>2, OneMore DEF Found, Outcomes, NewsTypes
  <2>4. TerminalEvents = {} /\ Found = {} /\ Outcomes = {}
    BY <2>1 DEF ToldInv, Announced, Telling, Flushed
  <2> QED BY <2>1, <2>2, <2>3, <2>4 DEF ToldInv, Announced, Telling, Flushed
<1>6. CASE PublishFound
  <2> DEFINE event == [type |-> "target_found", hit |-> Head(deferred),
                       available |-> At("worker", "offer")]
  <2>1. /\ Publish(event) /\ UNCHANGED status
        /\ w \in {"offer", "withhold"} /\ v = "flush"
    BY <1>1, <1>6 DEF PublishFound, At
  <2>2. event \in Events /\ event.type = "target_found"
    <3>1. Head(deferred) \in Hits
      BY <1>0, <2>1, HeadTailProperties DEF HitsOK
    <3>2. At("worker", "offer") \in BOOLEAN
      BY DEF At
    <3> QED BY <3>1, <3>2 DEF Events
  <2> HIDE DEF event
  <2>3. /\ UNCHANGED <<TerminalEvents, Outcomes>> /\ Found' = Found \cup {n}
        /\ Recorded /\ \A i \in DOMAIN log : i < n
    BY <1>0, <2>1, <2>2, OneMore DEF Found, Outcomes, NewsTypes
  <2>4. Outcomes = {} /\ w \in Announced /\ v \in Announced /\ w \notin Flushed /\ v \notin Flushed
    BY <2>1 DEF ToldInv, Announced, Telling, Flushed
  <2> QED BY <2>1, <2>3, <2>4 DEF ToldInv, Recorded
<1>7. CASE PublishOutcome
  <2>1. UNCHANGED status /\ w = "flush" /\ v = "scrub"
    BY <1>1, <1>7 DEF PublishOutcome, PublishOutcomeAfter, At
  <2>2. w \in Announced /\ v \in Announced /\ w \notin Flushed /\ v \in Flushed
    BY <2>1 DEF Announced, Telling, Flushed
  <2>3. CASE UNCHANGED log
    <3>1. UNCHANGED <<TerminalEvents, Found, Outcomes>> /\ Recorded
      BY <2>3 DEF TerminalEvents, Published, Found, Outcomes, Recorded
    <3> QED BY <2>1, <2>2, <3>1 DEF ToldInv, Recorded
  <2>4. CASE \E event \in Events :
               Publish(event) /\ event.type \in {"all_found", "search_timeout"}
    <3>1. PICK event \in Events :
            Publish(event) /\ event.type \in {"all_found", "search_timeout"}
      BY <2>4
    <3>2. /\ UNCHANGED <<TerminalEvents, Found>> /\ Outcomes' = Outcomes \cup {n}
          /\ Recorded /\ \A i \in DOMAIN log : i < n
      BY <1>0, <3>1, OneMore DEF Found, Outcomes, NewsTypes
    <3>3. Found \subseteq DOMAIN log /\ Outcomes = {}
      BY <2>2 DEF Found, OfType, ToldInv
    <3> QED BY <2>1, <2>2, <3>2, <3>3 DEF ToldInv, Recorded
  <2>5. [type |-> "all_found"] \in Events /\ [type |-> "search_timeout", unfound |-> active] \in Events
    BY <1>0 DEF Events, HitsOK
  <2> QED BY <1>7, <2>3, <2>4, <2>5 DEF PublishOutcome, PublishOutcomeAfter
<1> QED BY <1>3, <1>4, <1>5, <1>6, <1>7, StepsOfTheSession DEF Worker, Driving

(* A client that reacts to the end of a search by starting the next one is *)
(* never refused because the manager still holds the old one.              *)
THEOREM TheSlotIsFreeFirst == Spec => []SlotFreeBeforeTheNews
<1>1. EndInv /\ ToldInv => SlotFreeBeforeTheNews
  BY DEF EndInv, ToldInv, SlotFreeBeforeTheNews, Announced
<1> QED BY <1>1, InitTyped, NextTyped, InitEndInv, NextEndInv, ToldInit, NextToldInv, PTL DEF Spec

-----------------------------------------------------------------------------
(* What is offered.  Somebody has called stop(); a hit the consumer can    *)
(* fetch, or could until it took it, its TTL passed or a stop wiped it.    *)
Called == \E a \in Stoppers : pc[a] # "idle"
Kept == {h \in Hits : evidence[h] \in {"held", "left"} \/ (evidence[h] = "wiped" /\ Called)}

OfferInv ==
  /\ pc["worker"] = "offer" => status = "completed" /\ Head(deferred) \in Kept
  /\ pc["worker"] = "withhold" => (Head(deferred) \in Held => stop)
  /\ \A i \in Found : IF log[i].available THEN status = "completed" /\ log[i].hit \in Kept
                      ELSE log[i].hit \in Held => stop

LEMMA StopStays == FlagsOK /\ [Next]_vars => (stop => stop')
<1> SUFFICES ASSUME FlagsOK, [Next]_vars, stop PROVE stop'
  OBVIOUS
<1>1. CASE Driving
  BY <1>1 DEF Driving, Construct, Attach, Start, StartReader, Loop, TimeOut, GetPacket, NoPacket,
    FrameFails, Teardown, TeardownJoins, TeardownFails, Settle, SettleVia, Conclude, Scrub, Retire,
    RetireJoins, RetireGivesUp, Finish, TakeReader, Join, JoinTimesOut, JoinFails, rest
<1>2. CASE Worker /\ ~Driving
  BY <1>2 DEF Worker, Driving, Decide, StoreEvidence, RecordResult, PublishConfirmed, MarkFound,
    FrameEnds, WipeAfterTransition, Announce, Refresh, PublishFound, PublishOutcome,
    PublishOutcomeAfter, rest
<1>3. CASE Stopping
  BY <1>3 DEF Stopping, BeginRequest, BeginShutdown, Stopper, SetStop, StopWipes, MarkStopping,
    LookForReader, TakeReader, Join, JoinTimesOut, JoinFails, StopReturns, rest
<1>4. CASE Elsewhere
  BY <1>4, ElsewhereNobodyMoves
<1> QED BY <1>1, <1>2, <1>3, <1>4, StepsOfTheSession

(* While the worker tells, the outcome stands, nothing is stored, and what *)
(* was kept is lost to nobody but the consumer, its TTL or a stop.         *)
LEMMA OffersStand ==
  ASSUME Typed, EndInv, [Next]_vars, pc["worker"] \in Telling
  PROVE  UNCHANGED status /\ Kept \subseteq Kept' /\ Held' \subseteq Held
<1>0. PcOK /\ ReaderOK /\ HitsOK /\ status \in Terminal
  BY TypedParts DEF EndInv, Concluding, Telling
<1>1. CASE Worker
  <2>1. UNCHANGED <<status, evidence>>
    BY <1>1 DEF Worker, Telling, Construct, Attach, Start, StartReader, Loop, TimeOut, GetPacket,
      NoPacket, Decide, StoreEvidence, RecordResult, PublishConfirmed, MarkFound, FrameFails,
      FrameEnds, WipeAfterTransition, Teardown, TeardownJoins, TeardownFails, Settle, SettleVia,
      Conclude, Announce, Refresh, PublishFound, PublishOutcome, PublishOutcomeAfter, Scrub, Retire,
      RetireJoins, RetireGivesUp, Finish, TakeReader, Join, JoinTimesOut, JoinFails, At,
      sessionVars, rest
  <2>2. \A a \in Stoppers : pc'[a] = pc[a]
    BY <1>0, <1>1, WorkerGoesOn, ThreadsApart DEF WorkerMoves, Goto, PcOK, Threads
  <2> QED BY <2>1, <2>2 DEF Kept, Held, Called
<1>2. CASE Stopping
  <2>1. Called'
    BY <1>0, <1>2, StoppersGoOn DEF StopperMoves, Goto, PcOK, Threads, Called
  <2>2. UNCHANGED evidence \/ ClearEvidence
    BY <1>2, StoppingKeepsHits
  <2>3. \A h \in Hits : \/ evidence'[h] = evidence[h]
                        \/ evidence[h] = "held" /\ evidence'[h] = "wiped"
    BY <2>2 DEF ClearEvidence, Held
  <2> QED BY <1>0, <1>2, <2>1, <2>3, OthersDoNotEnd DEF Kept, Held
<1>3. CASE Elsewhere
  <2>1. Called' = Called
    BY <1>3, ElsewhereNobodyMoves DEF Called
  <2>2. \A h \in Hits : \/ evidence'[h] = evidence[h]
                        \/ evidence[h] = "held" /\ evidence'[h] = "left"
    BY <1>0, <1>3, ElsewhereKeepsHits DEF HitsOK, Held
  <2> QED BY <1>0, <1>3, <2>1, <2>2, OthersDoNotEnd DEF Kept, Held
<1> QED BY <1>1, <1>2, <1>3, StepsOfTheSession

LEMMA NothingIsFound ==
  ASSUME Typed, EndInv, [Next]_vars, ~PublishFound
  PROVE  UNCHANGED Found /\ Recorded
<1>0. PcOK /\ FlagsOK /\ HitsOK /\ log \in Seq(Events)
  BY TypedParts DEF Typed
<1>1. CASE \/ Stopping \/ Elsewhere \/ Driving \/ StoreEvidence \/ RecordResult \/ MarkFound
           \/ FrameEnds \/ WipeAfterTransition \/ Refresh \/ \E t \in Targets : Decide(t)
  <2>1. Quiet
    BY <1>1, MostStepsAreQuiet
  <2> QED BY <2>1 DEF Quiet, Found, NewsTypes
<1>2. ASSUME NEW event \in Events, Publish(event), event.type \in NewsTypes \ {"target_found"}
      PROVE  UNCHANGED Found /\ Recorded
  BY <1>0, <1>2, OneMore DEF Found, NewsTypes
<1>3. CASE PublishConfirmed
  <2>1. [type |-> "confirmed", hit |-> hit] \in Events
    BY <1>3 DEF PublishConfirmed, At, Typed, Events
  <2> QED BY <1>2, <1>3, <2>1 DEF PublishConfirmed, NewsTypes
<1>4. CASE Announce
  <2>1. StatusEvent(status) \in Events /\ StatusEvent(status).type = "search_status"
    BY <1>0, StatusEvents DEF FlagsOK, StatusEvent
  <2> QED BY <1>2, <1>4, <2>1 DEF Announce, NewsTypes
<1>5. CASE PublishOutcome
  <2>1. [type |-> "all_found"] \in Events /\ [type |-> "search_timeout", unfound |-> active] \in Events
    BY <1>0 DEF Events, HitsOK
  <2>2. CASE UNCHANGED log
    BY <2>2 DEF Found, Recorded
  <2> QED BY <1>2, <1>5, <2>1, <2>2 DEF PublishOutcome, PublishOutcomeAfter, NewsTypes
<1> QED BY <1>1, <1>3, <1>4, <1>5, StepsOfTheSession DEF Worker, Driving

(* The worker takes an offer in hand only by looking at the evidence, and  *)
(* before it tells there is nothing to be honest about.                    *)
LEMMA OffersInHand ==
  ASSUME Typed, [Next]_vars, ~Refresh, ~PublishFound,
         pc'["worker"] \in {"offer", "withhold"}
  PROVE  pc["worker"] = pc'["worker"] /\ UNCHANGED deferred
<1>0. PcOK
  BY TypedParts
<1>1. CASE Stopping
  BY <1>0, <1>1, StoppersLeaveTheWorker, StoppingKeepsHits
<1>2. CASE Elsewhere
  BY <1>2, ElsewhereNobodyMoves
<1>3. CASE Driving
  BY <1>0, <1>3, DrivingKeepsHits
<1>4. CASE Worker /\ ~Driving
  <2>1. \E to \in WorkerLabels \ {"offer", "withhold"} : Goto("worker", to)
    BY <1>4 DEF Worker, Driving, Decide, StoreEvidence, RecordResult, PublishConfirmed, MarkFound,
      FrameEnds, WipeAfterTransition, Announce, PublishOutcome, PublishOutcomeAfter, Transition,
      WorkerLabels
  <2> QED BY <1>0, <2>1 DEF Goto, PcOK, Threads
<1> QED BY <1>1, <1>2, <1>3, <1>4, StepsOfTheSession

LEMMA TellingStarts ==
  ASSUME Typed, [Next]_vars, pc["worker"] \notin Telling
  PROVE  pc'["worker"] \notin Announced
<1>0. PcOK
  BY TypedParts
<1>1. CASE Stopping \/ Elsewhere
  BY <1>0, <1>1, StoppersLeaveTheWorker, ElsewhereNobodyMoves DEF Announced
<1>2. CASE Worker
  <2>1. \E to \in WorkerLabels \ Announced : Goto("worker", to)
    BY <1>2 DEF Worker, Telling, Announced, Construct, Attach, Start, StartReader, Loop, TimeOut,
      GetPacket, NoPacket, Decide, StoreEvidence, RecordResult, PublishConfirmed, MarkFound,
      FrameFails, FrameEnds, WipeAfterTransition, Teardown, TeardownJoins, TeardownFails, Settle,
      SettleVia, Conclude, Announce, Refresh, PublishFound, PublishOutcome, PublishOutcomeAfter,
      Scrub, Retire, RetireJoins, RetireGivesUp, Finish, TakeReader, Join, JoinTimesOut, JoinFails,
      Transition, At, WorkerLabels
  <2> QED BY <1>0, <2>1 DEF Goto, PcOK, Threads
<1> QED BY <1>1, <1>2, StepsOfTheSession

LEMMA NextOfferInv == Typed /\ EndInv /\ ToldInv /\ OfferInv /\ [Next]_vars => OfferInv'
<1> SUFFICES ASSUME Typed, EndInv, ToldInv, OfferInv, [Next]_vars PROVE OfferInv'
  OBVIOUS
<1> DEFINE w == pc["worker"]
           v == pc'["worker"]
           n == Len(log) + 1
<1>0. PcOK /\ FlagsOK /\ HitsOK /\ log \in Seq(Events) /\ n = Len(log) + 1
  BY TypedParts DEF Typed
<1>1. ASSUME NEW to, Goto("worker", to) PROVE v = to
  BY <1>0, <1>1 DEF Goto, PcOK, Threads
<1> HIDE DEF n
<1>2. CASE w \notin Telling
  <2>1. v \notin Announced
    BY <1>2, TellingStarts
  <2>2. Found' = {}
    BY <2>1, NextToldInv DEF ToldInv
  <2> QED BY <2>1, <2>2 DEF OfferInv, Announced, Telling
<1>3. CASE w \in Telling
  <2>1. UNCHANGED status /\ Kept \subseteq Kept' /\ Held' \subseteq Held /\ (stop => stop')
    BY <1>0, <1>3, OffersStand, StopStays
  <2>2. \A i \in Found : i \in DOMAIN log
    BY DEF Found, OfType
  <2>3. CASE PublishFound
    <3> DEFINE event == [type |-> "target_found", hit |-> Head(deferred),
                         available |-> At("worker", "offer")]
    <3>1. Publish(event) /\ w \in {"offer", "withhold"} /\ v = "flush"
      BY <1>1, <2>3 DEF PublishFound, At
    <3>2. Head(deferred) \in Hits
      BY <1>0, <3>1, HeadTailProperties DEF HitsOK
    <3>3. At("worker", "offer") \in BOOLEAN
      BY DEF At
    <3>4. /\ event \in Events /\ event.type = "target_found"
          /\ event.hit = Head(deferred) /\ event.available = (w = "offer")
      BY <3>2, <3>3 DEF Events, At
    <3> HIDE DEF event
    <3>5. Recorded /\ Found' = Found \cup {n} /\ log'[n] = event
      BY <1>0, <3>1, <3>4, OneMore DEF Found, NewsTypes
    <3>6. IF log'[n].available THEN status = "completed" /\ log'[n].hit \in Kept
          ELSE log'[n].hit \in Held => stop
      <4>1. /\ w = "offer" => status = "completed" /\ event.hit \in Kept
            /\ w # "offer" => (event.hit \in Held => stop)
        BY <3>1, <3>4 DEF OfferInv
      <4> QED BY <3>4, <3>5, <4>1
    <3>7. v \notin {"offer", "withhold"}
      BY <3>1
    <3>8. ASSUME NEW i \in Found'
          PROVE  IF log'[i].available THEN status = "completed" /\ log'[i].hit \in Kept
                 ELSE log'[i].hit \in Held => stop
      BY <2>2, <3>5, <3>6 DEF OfferInv, Recorded
    <3> QED BY <2>1, <3>7, <3>8 DEF OfferInv
  <2>4. CASE ~PublishFound
    <3>1. UNCHANGED Found /\ \A i \in Found : log'[i] = log[i]
      BY <2>2, <2>4, NothingIsFound DEF Recorded
    <3>2. CASE Refresh
      <4>1. /\ UNCHANGED <<deferred, evidence, stop>>
            /\ v = IF Available(Head(deferred)) THEN "offer" ELSE "withhold"
            /\ w = "flush"
        BY <1>1, <3>2 DEF Refresh, At, sessionVars, rest
      <4>2. Held = {} \/ status = "completed"
        BY <4>1 DEF EndInv, Concluding, Terminal, Wiping
      <4>3. Held \subseteq Kept
        BY DEF Held, Kept
      <4> QED BY <2>1, <3>1, <4>1, <4>2, <4>3 DEF OfferInv, Available
    <3>3. CASE ~Refresh
      <4>1. v \in {"offer", "withhold"} => v = w /\ UNCHANGED deferred
        BY <2>4, <3>3, OffersInHand
      <4> QED BY <2>1, <3>1, <4>1 DEF OfferInv
    <3> QED BY <3>2, <3>3
  <2> QED BY <2>3, <2>4
<1> QED BY <1>2, <1>3

(* Whatever target_found says of a crop holds from then on, for any        *)
(* interleaving of the worker, the stops, the consumer and the TTL.        *)
THEOREM TheOffersAreHonest == Spec => []OffersAreHonest
<1>1. Init => OfferInv
  BY DEF Init, OfferInv, Found, OfType
<1>2. Typed /\ OfferInv => OffersAreHonest
  <2> SUFFICES ASSUME Typed, OfferInv, NEW i \in Published("target_found")
               PROVE  LET e == evidence[log[i].hit] IN
                      IF log[i].available
                      THEN /\ status = "completed"
                           /\ e \in {"held", "left"} \/ (e = "wiped" /\ \E a \in Stoppers : pc[a] # "idle")
                      ELSE e = "held" => stop
    BY DEF OffersAreHonest
  <2>1. i \in Found /\ log \in Seq(Events) /\ i \in DOMAIN log
    BY DEF Published, Found, OfType, Typed
  <2>2. log[i].hit \in Hits
    <3>1. log[i] \in Events /\ log[i].type = "target_found"
      BY <2>1, ElementOfSeq DEF Found, OfType
    <3> QED BY <3>1 DEF Events
  <2> QED BY <2>1, <2>2 DEF OfferInv, Kept, Held, Called
<1> QED BY <1>1, <1>2, InitTyped, NextTyped, InitEndInv, NextEndInv, ToldInit, NextToldInv,
           NextOfferInv, PTL DEF Spec

-----------------------------------------------------------------------------
(* The whole story.                                                        *)
Confirmed == OfType("confirmed", log)
AllFound == OfType("all_found", log)
TimedOut == OfType("search_timeout", log)

(* Neither a frame is worked on, nor anything of the story told.           *)
Idle ==
  \/ Stopping \/ Elsewhere \/ Driving \/ FrameEnds \/ WipeAfterTransition
  \/ Refresh \/ Announce

LEMMA StepsOfTheStory ==
  [Next]_vars => \/ Idle \/ StoreEvidence \/ RecordResult \/ PublishConfirmed \/ MarkFound
                 \/ PublishFound \/ PublishOutcome \/ \E t \in Targets : Decide(t)
  BY StepsOfTheSession DEF Worker, Idle, Driving

Untold ==
  /\ Recorded
  /\ UNCHANGED <<Found, Confirmed, AllFound, TimedOut>>

LEMMA IdleTellsNothing == Typed /\ Idle => Untold
<1> SUFFICES ASSUME Typed, Idle PROVE Untold
  OBVIOUS
<1>1. FlagsOK /\ log \in Seq(Events)
  BY TypedParts DEF Typed
<1>2. CASE ~Announce
  <2>1. Quiet
    BY <1>2, MostStepsAreQuiet DEF Idle
  <2> QED BY <2>1 DEF Quiet, Untold, Found, Confirmed, AllFound, TimedOut, NewsTypes
<1>3. CASE Announce
  <2> DEFINE event == StatusEvent(status)
             n == Len(log) + 1
  <2>1. event \in Events /\ event.type = "search_status" /\ Publish(event) /\ n = Len(log) + 1
    BY <1>1, <1>3, StatusEvents DEF Announce, FlagsOK, StatusEvent
  <2> HIDE DEF event, n
  <2> QED BY <1>1, <2>1, OneMore DEF Untold, Found, Confirmed, AllFound, TimedOut, NewsTypes
<1> QED BY <1>2, <1>3

LEMMA IdleKeepsHits ==
  ASSUME Typed, Idle
  PROVE  /\ UNCHANGED <<active, results, deferred>>
         /\ \A h \in Hits : evidence'[h] = "new" <=> evidence[h] = "new"
         /\ \/ pc'["worker"] = pc["worker"] /\ UNCHANGED hit
            \/ {pc["worker"], pc'["worker"]} \cap Working = {}
<1>0. PcOK /\ ReaderOK /\ HitsOK
  BY TypedParts
<1>1. ASSUME NEW to, Goto("worker", to) PROVE pc'["worker"] = to
  BY <1>0, <1>1 DEF Goto, PcOK, Threads
<1>2. ASSUME ClearEvidence \/ UNCHANGED evidence \/ \E h \in Held : evidence' = [evidence EXCEPT ![h] = "left"]
      PROVE  \A h \in Hits : evidence'[h] = "new" <=> evidence[h] = "new"
  BY <1>0, <1>2 DEF ClearEvidence, Held, HitsOK
<1>3. CASE Stopping
  BY <1>0, <1>2, <1>3, StoppingKeepsHits, StoppersLeaveTheWorker
<1>4. CASE Elsewhere
  BY <1>0, <1>2, <1>4, ElsewhereKeepsHits, ElsewhereNobodyMoves
<1>5. CASE Driving
  <2>1. UNCHANGED sessionVars /\ pc'["worker"] \notin Working
    BY <1>0, <1>5, DrivingKeepsHits
  <2>2. pc["worker"] \notin Working
    BY <1>5 DEF Working, Driving, Construct, Attach, Start, StartReader, Loop, TimeOut, GetPacket,
      NoPacket, FrameFails, Teardown, TeardownJoins, TeardownFails, Settle, SettleVia, Conclude,
      Scrub, Retire, RetireJoins, RetireGivesUp, Finish, TakeReader, Join, JoinTimesOut,
      JoinFails, At
  <2> QED BY <1>2, <2>1, <2>2 DEF sessionVars
<1>6. CASE FrameEnds \/ WipeAfterTransition \/ Refresh \/ Announce
  <2>1. UNCHANGED <<active, results, deferred>> /\ (ClearEvidence \/ UNCHANGED evidence)
    BY <1>6 DEF FrameEnds, WipeAfterTransition, Refresh, Announce, sessionVars
  <2>2. {pc["worker"], pc'["worker"]} \cap Working = {}
    BY <1>1, <1>6 DEF FrameEnds, WipeAfterTransition, Refresh, Announce, Transition, At, Working
  <2> QED BY <1>2, <2>1, <2>2
<1> QED BY <1>3, <1>4, <1>5, <1>6 DEF Idle

(* A frame numbers the hits of a target without leaving one out, so each   *)
(* decision is a hit of its own.                                           *)
HitInv ==
  /\ \A h \in results : evidence[h] # "new"
  /\ \A t \in Targets : \A m, n \in 1 .. Tracks :
       m < n /\ evidence[<<t, n>>] # "new" => evidence[<<t, m>>] # "new"
  /\ pc["worker"] = "store" =>
       /\ evidence[hit] = "new"
       /\ \A m \in 1 .. Tracks : m < hit[2] => evidence[<<hit[1], m>>] # "new"
  /\ pc["worker"] = "record" => evidence[hit] # "new" /\ hit \notin results

LEMMA NextHitIsNew ==
  ASSUME HitsOK, HitInv, NEW t \in Targets, NextHit(t) \in Hits
  PROVE  /\ NextHit(t)[1] = t /\ evidence[NextHit(t)] = "new"
         /\ \A m \in 1 .. Tracks : m < NextHit(t)[2] => evidence[<<t, m>>] # "new"
<1> DEFINE seen == {n \in 1 .. Tracks : evidence[<<t, n>>] # "new"}
           c == Cardinality(seen)
<1>1. Tracks \in Nat
  BY SizesAssumption
<1>2. IsFiniteSet(1 .. Tracks) /\ IsFiniteSet(seen) /\ c \in Nat
  <2>1. IsFiniteSet(1 .. Tracks)
    BY <1>1, FS_Interval
  <2>2. seen \subseteq 1 .. Tracks
    OBVIOUS
  <2> HIDE DEF seen
  <2> QED BY <2>1, <2>2, FS_Subset, FS_CardinalityType
<1>3. NextHit(t) = <<t, 1 + c>> /\ 1 + c \in 1 .. Tracks
  BY DEF NextHit, Hits
<1>4. \A m, n \in 1 .. Tracks : m < n /\ n \in seen => m \in seen
  BY DEF HitInv
<1>5. seen \subseteq 1 .. Tracks
  OBVIOUS
<1>6. \A n \in 1 .. Tracks : n \in seen <=> evidence[<<t, n>>] # "new"
  OBVIOUS
<1> HIDE DEF seen
<1>7. 1 + c \notin seen
  <2> SUFFICES ASSUME 1 + c \in seen PROVE FALSE
    OBVIOUS
  <2>1. 1 .. 1 + c \subseteq seen
    BY <1>1, <1>2, <1>3, <1>4
  <2>2. Cardinality(1 .. 1 + c) = 1 + c
    BY <1>2, FS_Interval
  <2> QED BY <1>2, <2>1, <2>2, FS_Subset
<1>8. ASSUME NEW m \in 1 .. Tracks, m < 1 + c PROVE m \in seen
  <2> SUFFICES ASSUME m \notin seen PROVE FALSE
    OBVIOUS
  <2>1. seen \subseteq 1 .. m - 1
    BY <1>1, <1>4, <1>5
  <2>2. IsFiniteSet(1 .. m - 1) /\ Cardinality(1 .. m - 1) = m - 1
    BY <1>1, FS_Interval
  <2>3. Cardinality(seen) <= m - 1
    BY <2>1, <2>2, FS_Subset
  <2> QED BY <1>2, <1>8, <2>3
<1> QED BY <1>3, <1>6, <1>7, <1>8

LEMMA NextHitInv == Typed /\ HitInv /\ [Next]_vars => HitInv'
<1> SUFFICES ASSUME Typed, HitInv, [Next]_vars PROVE HitInv'
  OBVIOUS
<1> DEFINE w == pc["worker"]
           v == pc'["worker"]
<1>0. PcOK /\ HitsOK
  BY TypedParts
<1>1. ASSUME NEW to, Goto("worker", to) PROVE v = to
  BY <1>0, <1>1 DEF Goto, PcOK, Threads
<1>2. \A t \in Targets : \A n \in 1 .. Tracks : <<t, n>> \in Hits
  BY DEF Hits
<1>3. CASE Idle
  <2>1. \/ v = w /\ UNCHANGED hit
        \/ v \notin {"store", "record"}
    BY <1>3, IdleKeepsHits DEF Working
  <2>2. /\ UNCHANGED results
        /\ \A h \in Hits : evidence'[h] = "new" <=> evidence[h] = "new"
    BY <1>3, IdleKeepsHits
  <2>3. v \in {"store", "record"} => hit \in Hits \/ v # w
    BY <1>0 DEF HitsOK
  <2>4. /\ \A h \in results' : evidence'[h] # "new"
        /\ \A t \in Targets : \A m, n \in 1 .. Tracks :
             m < n /\ evidence'[<<t, n>>] # "new" => evidence'[<<t, m>>] # "new"
    BY <1>0, <1>2, <2>2 DEF HitInv, HitsOK
  <2>5. v = "store" =>
          /\ evidence'[hit'] = "new"
          /\ \A m \in 1 .. Tracks : m < hit'[2] => evidence'[<<hit'[1], m>>] # "new"
    BY <1>2, <2>1, <2>2, <2>3 DEF HitInv, Hits
  <2>6. v = "record" => evidence'[hit'] # "new" /\ hit' \notin results'
    BY <2>1, <2>2, <2>3 DEF HitInv
  <2> QED BY <2>4, <2>5, <2>6 DEF HitInv
<1>4. ASSUME NEW t \in Targets, Decide(t) PROVE HitInv'
  <2>1. /\ UNCHANGED <<results, evidence>> /\ v = "store"
        /\ hit' = NextHit(t) /\ NextHit(t) \in Hits
    BY <1>1, <1>4 DEF Decide
  <2> QED BY <1>0, <2>1, NextHitIsNew DEF HitInv
<1>5. CASE StoreEvidence
  <2>1. PICK fate \in {"held", "none"} : evidence' = [evidence EXCEPT ![hit] = fate]
    BY <1>5 DEF StoreEvidence
  <2>2. UNCHANGED <<results, hit>> /\ v = "record" /\ w = "store" /\ hit \in Hits
    BY <1>0, <1>1, <1>5 DEF StoreEvidence, At, HitsOK
  <2>3. /\ evidence'[hit] # "new"
        /\ \A h \in Hits : h # hit => evidence'[h] = evidence[h]
        /\ hit = <<hit[1], hit[2]>> /\ hit[2] \in 1 .. Tracks /\ hit[1] \in Targets
    BY <1>0, <2>1, <2>2 DEF HitsOK, Hits
  <2>4. hit \notin results
    BY <2>2 DEF HitInv
  <2>5. \A h \in results' : evidence'[h] # "new"
    BY <1>0, <2>2, <2>3 DEF HitInv, HitsOK
  <2>6. ASSUME NEW t \in Targets, NEW m \in 1 .. Tracks, NEW n \in 1 .. Tracks,
               m < n, evidence'[<<t, n>>] # "new"
        PROVE  evidence'[<<t, m>>] # "new"
    <3>1. CASE <<t, n>> = hit
      <4>1. hit[1] = t /\ hit[2] = n
        BY <3>1
      <4>2. evidence[<<t, m>>] # "new"
        BY <2>2, <2>6, <4>1 DEF HitInv
      <4> QED BY <1>2, <2>3, <4>2
    <3>2. CASE <<t, n>> # hit
      <4>1. evidence[<<t, n>>] # "new"
        BY <1>2, <2>3, <2>6, <3>2
      <4>2. evidence[<<t, m>>] # "new"
        BY <2>6, <4>1 DEF HitInv
      <4> QED BY <1>2, <2>3, <4>2
    <3> QED BY <3>1, <3>2
  <2> QED BY <2>2, <2>3, <2>4, <2>5, <2>6 DEF HitInv
<1>6. CASE RecordResult
  <2>1. results' = results \cup {hit} /\ UNCHANGED <<evidence, hit>> /\ w = "record" /\ v = "confirm"
    BY <1>1, <1>6 DEF RecordResult, At
  <2> QED BY <2>1 DEF HitInv
<1>7. CASE PublishConfirmed \/ MarkFound \/ PublishFound \/ PublishOutcome
  <2>1. UNCHANGED <<results, evidence>> /\ v \notin {"store", "record"}
    BY <1>1, <1>7 DEF PublishConfirmed, MarkFound, PublishFound, PublishOutcome,
                      PublishOutcomeAfter, sessionVars
  <2> QED BY <2>1 DEF HitInv
<1> QED BY <1>3, <1>4, <1>5, <1>6, <1>7, StepsOfTheStory

(* Each recorded hit is in exactly one place: in hand, deferred or told.   *)
InHand == IF pc["worker"] \in {"confirm", "mark"} THEN {hit} ELSE {}
Deferred == {deferred[i] : i \in DOMAIN deferred}
Told == {log[i].hit : i \in Found}

StoryInv ==
  /\ results = Deferred \cup Told \cup InHand
  /\ Deferred \cap Told = {} /\ InHand \cap (Deferred \cup Told) = {}
  /\ \A i, j \in DOMAIN deferred : deferred[i] = deferred[j] => i = j
  /\ \A i, j \in Found : log[i].hit = log[j].hit => i = j
  /\ pc["worker"] \in Flushed => deferred = <<>>
  /\ finished => pc["worker"] = "done"

LEMMA DeferredGrows ==
  ASSUME HitsOK, NEW h \in Hits, deferred' = Append(deferred, h),
         h \notin Deferred, \A i, j \in DOMAIN deferred : deferred[i] = deferred[j] => i = j
  PROVE  /\ Deferred' = Deferred \cup {h}
         /\ \A i, j \in DOMAIN deferred' : deferred'[i] = deferred'[j] => i = j
<1>1. /\ Len(deferred) \in Nat /\ DOMAIN deferred = 1 .. Len(deferred)
      /\ DOMAIN deferred' = 1 .. Len(deferred) + 1
      /\ \A i \in DOMAIN deferred : deferred'[i] = deferred[i]
      /\ deferred'[Len(deferred) + 1] = h
  BY AppendProperties, LenProperties DEF HitsOK
<1> QED BY <1>1 DEF Deferred

LEMMA DeferredShrinks ==
  ASSUME HitsOK, deferred # <<>>, deferred' = Tail(deferred),
         \A i, j \in DOMAIN deferred : deferred[i] = deferred[j] => i = j
  PROVE  /\ Head(deferred) \in Deferred /\ Deferred' = Deferred \ {Head(deferred)}
         /\ \A i, j \in DOMAIN deferred' : deferred'[i] = deferred'[j] => i = j
<1>1. /\ Len(deferred) \in Nat \ {0} /\ DOMAIN deferred = 1 .. Len(deferred)
      /\ DOMAIN deferred' = 1 .. Len(deferred) - 1
      /\ \A i \in DOMAIN deferred' : deferred'[i] = deferred[i + 1]
      /\ Head(deferred) = deferred[1]
  BY HeadTailProperties, LenProperties, EmptySeq DEF HitsOK
<1>2. \A i \in DOMAIN deferred : i # 1 => i - 1 \in DOMAIN deferred' /\ i = (i - 1) + 1
  BY <1>1
<1>3. ASSUME NEW i \in DOMAIN deferred', NEW j \in DOMAIN deferred', deferred'[i] = deferred'[j]
      PROVE  i = j
  <2>1. i + 1 \in DOMAIN deferred /\ j + 1 \in DOMAIN deferred /\ i \in Nat /\ j \in Nat
    BY <1>1
  <2>2. deferred[i + 1] = deferred[j + 1]
    BY <1>1, <1>3
  <2>3. i + 1 = j + 1
    BY <2>1, <2>2
  <2> QED BY <2>1, <2>3
<1>4. Head(deferred) \in Deferred
  BY <1>1 DEF Deferred
<1>5. ASSUME NEW h PROVE h \in Deferred' => h \in Deferred \ {Head(deferred)}
  <2> SUFFICES ASSUME NEW i \in DOMAIN deferred', h = deferred'[i]
               PROVE  h \in Deferred \ {Head(deferred)}
    BY DEF Deferred
  <2>1. i + 1 \in DOMAIN deferred /\ h = deferred[i + 1] /\ 1 \in DOMAIN deferred /\ i + 1 # 1
    BY <1>1
  <2>2. deferred[i + 1] # deferred[1]
    BY <2>1
  <2> QED BY <1>1, <2>1, <2>2 DEF Deferred
<1>6. ASSUME NEW h PROVE h \in Deferred \ {Head(deferred)} => h \in Deferred'
  <2> SUFFICES ASSUME NEW i \in DOMAIN deferred, h = deferred[i], h # Head(deferred)
               PROVE  h \in Deferred'
    BY DEF Deferred
  <2>1. i - 1 \in DOMAIN deferred' /\ i = (i - 1) + 1
    BY <1>1, <1>2
  <2>2. deferred'[i - 1] = h
    BY <1>1, <2>1
  <2> QED BY <2>1, <2>2 DEF Deferred
<1> QED BY <1>3, <1>4, <1>5, <1>6

(* The worker is done with the deferred events when none is left, and      *)
(* finished when it is done.                                               *)
LEMMA FlushedStays ==
  ASSUME Typed, EndInv, [Next]_vars, ~PublishFound, ~PublishOutcome
  PROVE  pc["worker"] \in Flushed <=> pc'["worker"] \in Flushed
<1>1. PcOK
  BY TypedParts
<1>2. CASE Announce
  BY <1>1, <1>2 DEF Announce, At, Goto, PcOK, Threads, Flushed
<1> QED BY <1>2, MostStepsTellNothing, StepsOfTheSession DEF Worker, Driving

LEMMA FinishedIsDone ==
  ASSUME Typed, [Next]_vars, finished => pc["worker"] = "done"
  PROVE  finished' => pc'["worker"] = "done"
<1>0. PcOK
  BY TypedParts
<1>1. ASSUME NEW to, Goto("worker", to) PROVE pc'["worker"] = to
  BY <1>0, <1>1 DEF Goto, PcOK, Threads
<1>2. CASE Finish
  BY <1>1, <1>2 DEF Finish
<1>3. CASE Worker /\ ~Finish
  <2>1. UNCHANGED finished /\ pc["worker"] # "done"
    BY <1>3 DEF Worker, Construct, Attach, Start, StartReader, Loop, TimeOut, GetPacket,
      NoPacket, Decide, StoreEvidence, RecordResult, PublishConfirmed, MarkFound, FrameFails,
      FrameEnds, WipeAfterTransition, Teardown, TeardownJoins, TeardownFails, Settle, SettleVia,
      Conclude, Announce, Refresh, PublishFound, PublishOutcome, PublishOutcomeAfter, Scrub, Retire,
      RetireJoins, RetireGivesUp, TakeReader, Join, JoinTimesOut, JoinFails, At, rest
  <2> QED BY <2>1
<1>4. CASE Stopping
  <2>1. UNCHANGED finished
    BY <1>4 DEF Stopping, BeginRequest, BeginShutdown, Stopper, SetStop, StopWipes, MarkStopping,
      LookForReader, TakeReader, Join, JoinTimesOut, JoinFails, StopReturns, rest
  <2> QED BY <1>0, <1>4, <2>1, StoppersLeaveTheWorker
<1>5. CASE Elsewhere
  BY <1>5, ElsewhereNobodyMoves
<1> QED BY <1>2, <1>3, <1>4, <1>5, StepsOfTheSession

LEMMA NextStoryInv ==
  Typed /\ EndInv /\ ToldInv /\ HitInv /\ StoryInv /\ [Next]_vars => StoryInv'
<1> SUFFICES ASSUME Typed, EndInv, ToldInv, HitInv, StoryInv, [Next]_vars PROVE StoryInv'
  OBVIOUS
<1> DEFINE w == pc["worker"]
           v == pc'["worker"]
           n == Len(log) + 1
<1>0. PcOK /\ HitsOK /\ log \in Seq(Events) /\ n = Len(log) + 1
  BY TypedParts DEF Typed
<1>1. ASSUME NEW to, Goto("worker", to) PROVE v = to
  BY <1>0, <1>1 DEF Goto, PcOK, Threads
<1> HIDE DEF n
<1>2. finished' => v = "done"
  BY FinishedIsDone DEF StoryInv
<1>3. \A i \in Found : i \in DOMAIN log
  BY DEF Found, OfType
(* Nothing is found and nothing deferred or recorded.                      *)
<1>4. ASSUME Recorded, UNCHANGED <<Found, results, deferred>>, InHand' = InHand,
             v \in Flushed => w \in Flushed \/ deferred = <<>>
      PROVE  StoryInv'
  <2>1. Told' = Told /\ Deferred' = Deferred
    BY <1>3, <1>4 DEF Recorded, Told, Deferred
  <2> QED BY <1>2, <1>3, <1>4, <2>1 DEF StoryInv, Recorded
<1>5. CASE Idle
  <2>1. ~PublishFound /\ ~PublishOutcome => (w \in Flushed <=> v \in Flushed)
    BY FlushedStays
  <2>2. InHand' = InHand /\ UNCHANGED <<results, deferred>>
    BY <1>5, IdleKeepsHits DEF InHand, Working
  <2>3. UNCHANGED Found /\ Recorded
    BY <1>5, IdleTellsNothing DEF Untold
  <2>4. CASE PublishFound \/ PublishOutcome
    <3>1. v \in {"flush", "scrub"} /\ (v = "scrub" => deferred = <<>>)
      BY <1>1, <2>4 DEF PublishFound, PublishOutcome, PublishOutcomeAfter
    <3> QED BY <1>4, <2>2, <2>3, <3>1 DEF Flushed
  <2> QED BY <1>4, <2>1, <2>2, <2>3, <2>4
<1>6. CASE StoreEvidence \/ PublishConfirmed \/ \E t \in Targets : Decide(t)
  <2>1. InHand' = InHand /\ UNCHANGED <<results, deferred>> /\ v \notin Flushed
    BY <1>1, <1>6 DEF StoreEvidence, PublishConfirmed, Decide, At, InHand, Flushed, sessionVars
  <2>2. ~PublishFound
    BY <1>6 DEF StoreEvidence, PublishConfirmed, Decide, PublishFound, At
  <2>3. UNCHANGED Found /\ Recorded
    BY <2>2, NothingIsFound
  <2> QED BY <1>4, <2>1, <2>3
<1>7. CASE RecordResult
  <2>1. /\ results' = results \cup {hit} /\ UNCHANGED <<hit, deferred, log>>
        /\ w = "record" /\ v = "confirm"
    BY <1>1, <1>7 DEF RecordResult, At
  <2>2. InHand = {} /\ InHand' = {hit} /\ hit \notin results
    BY <2>1 DEF InHand, HitInv
  <2>3. Told' = Told /\ Deferred' = Deferred /\ Found' = Found
    BY <2>1 DEF Told, Deferred, Found
  <2> QED BY <1>2, <2>1, <2>2, <2>3 DEF StoryInv, Flushed
<1>8. CASE MarkFound
  <2>1. /\ deferred' = Append(deferred, hit) /\ UNCHANGED <<results, log>>
        /\ w = "mark" /\ v = "frame" /\ hit \in Hits
    BY <1>0, <1>1, <1>8 DEF MarkFound, At, HitsOK, rest
  <2>2. InHand = {hit} /\ InHand' = {}
    BY <2>1 DEF InHand
  <2>3. /\ Deferred' = Deferred \cup {hit}
        /\ \A i, j \in DOMAIN deferred' : deferred'[i] = deferred'[j] => i = j
    BY <1>0, <2>1, <2>2, DeferredGrows DEF StoryInv
  <2>4. Told' = Told /\ Found' = Found
    BY <2>1 DEF Told, Found
  <2> QED BY <1>2, <2>1, <2>2, <2>3, <2>4 DEF StoryInv, Flushed
<1>9. CASE PublishFound
  <2> DEFINE event == [type |-> "target_found", hit |-> Head(deferred),
                       available |-> At("worker", "offer")]
             h == Head(deferred)
  <2>1. /\ Publish(event) /\ deferred' = Tail(deferred) /\ UNCHANGED results
        /\ w \in {"offer", "withhold"} /\ v = "flush"
    BY <1>1, <1>9 DEF PublishFound, At
  <2>2. deferred # <<>> /\ h \in Hits
    BY <1>0, <2>1, HeadTailProperties DEF HitsOK
  <2>3. event \in Events /\ event.type = "target_found" /\ event.hit = h
    <3>1. At("worker", "offer") \in BOOLEAN
      BY DEF At
    <3> QED BY <2>2, <3>1 DEF Events
  <2> HIDE DEF event, h
  <2>4. /\ Recorded /\ Found' = Found \cup {n} /\ log'[n] = event
        /\ \A i \in DOMAIN log : i \in Nat /\ i < n
    BY <1>0, <2>1, <2>3, OneMore DEF Found, NewsTypes
  <2>5. /\ h \in Deferred /\ Deferred' = Deferred \ {h}
        /\ \A i, j \in DOMAIN deferred' : deferred'[i] = deferred'[j] => i = j
    BY <1>0, <2>1, <2>2, DeferredShrinks DEF StoryInv, h
  <2>6. Told' = Told \cup {h}
    BY <1>3, <2>3, <2>4 DEF Told, Recorded
  <2>7. \A i \in Found : log'[i] = log[i] /\ log[i].hit \in Told
    BY <1>3, <2>4 DEF Recorded, Told
  <2>8. h \notin Told
    BY <2>5 DEF StoryInv
  <2>9. \A i, j \in Found' : log'[i].hit = log'[j].hit => i = j
    BY <2>3, <2>4, <2>7, <2>8 DEF StoryInv
  <2>10. InHand = {} /\ InHand' = {} /\ v \notin Flushed
    BY <2>1 DEF InHand, Flushed
  <2> QED BY <1>2, <2>1, <2>5, <2>6, <2>8, <2>9, <2>10 DEF StoryInv
<1>10. CASE PublishOutcome
  <2>1. /\ UNCHANGED <<results, deferred>> /\ deferred = <<>>
        /\ w = "flush" /\ v = "scrub"
    BY <1>1, <1>10 DEF PublishOutcome, PublishOutcomeAfter, At, sessionVars
  <2>2. ~PublishFound /\ InHand' = InHand
    BY <2>1 DEF PublishFound, At, InHand
  <2>3. UNCHANGED Found /\ Recorded
    BY <2>2, NothingIsFound
  <2> QED BY <1>4, <2>1, <2>2, <2>3
<1> QED BY <1>5, <1>6, <1>7, <1>8, <1>9, <1>10, StepsOfTheStory

(* A hit is confirmed before it is deferred, and so before it is found.    *)
ToldOf(h, confirmations, events) == \E j \in confirmations : events[j].hit = h

ConfirmedInv ==
  /\ \A h \in Deferred : ToldOf(h, Confirmed, log)
  /\ pc["worker"] = "mark" => ToldOf(hit, Confirmed, log)
  /\ \A i \in Found : \E j \in Confirmed : j < i /\ log[j].hit = log[i].hit

LEMMA NextConfirmedInv ==
  Typed /\ EndInv /\ ToldInv /\ StoryInv /\ ConfirmedInv /\ [Next]_vars => ConfirmedInv'
<1> SUFFICES ASSUME Typed, EndInv, ToldInv, StoryInv, ConfirmedInv, [Next]_vars
             PROVE  ConfirmedInv'
  OBVIOUS
<1> USE DEF ToldOf
<1> DEFINE w == pc["worker"]
           v == pc'["worker"]
           n == Len(log) + 1
<1>0. PcOK /\ HitsOK /\ log \in Seq(Events) /\ n = Len(log) + 1
  BY TypedParts DEF Typed
<1>1. ASSUME NEW to, Goto("worker", to) PROVE v = to
  BY <1>0, <1>1 DEF Goto, PcOK, Threads
<1> HIDE DEF n
<1>2. Found \subseteq DOMAIN log /\ Confirmed \subseteq DOMAIN log
  BY DEF Found, Confirmed, OfType
(* What was confirmed stays so; nothing is found or deferred.              *)
<1>3. ASSUME Recorded, Confirmed \subseteq Confirmed', Found' = Found, Deferred' = Deferred,
             v = "mark" => (w = "mark" /\ UNCHANGED hit) \/ ToldOf(hit', Confirmed', log')
      PROVE  ConfirmedInv'
  <2>1. \A j \in Confirmed : log'[j] = log[j] /\ j \in Confirmed'
    BY <1>2, <1>3 DEF Recorded
  <2>2. \A i \in Found : log'[i] = log[i]
    BY <1>2, <1>3 DEF Recorded
  <2> QED BY <1>3, <2>1, <2>2 DEF ConfirmedInv
<1>4. CASE Idle
  <2>1. UNCHANGED deferred /\ (v = "mark" => w = "mark" /\ UNCHANGED hit)
    BY <1>4, IdleKeepsHits DEF Working
  <2>2. UNCHANGED <<Found, Confirmed>> /\ Recorded
    BY <1>4, IdleTellsNothing DEF Untold
  <2> QED BY <1>3, <2>1, <2>2 DEF Deferred
<1>5. CASE StoreEvidence \/ RecordResult \/ \E t \in Targets : Decide(t)
  <2>1. UNCHANGED <<deferred, log>> /\ v # "mark"
    BY <1>1, <1>5 DEF StoreEvidence, RecordResult, Decide
  <2>2. UNCHANGED <<Found, Confirmed>> /\ Recorded
    BY <2>1 DEF Found, Confirmed, Recorded
  <2> QED BY <1>3, <2>1, <2>2 DEF Deferred
<1>6. CASE PublishConfirmed
  <2> DEFINE event == [type |-> "confirmed", hit |-> hit]
  <2>1. Publish(event) /\ UNCHANGED <<deferred, hit>> /\ hit \in Hits
    BY <1>0, <1>6 DEF PublishConfirmed, At, sessionVars, HitsOK
  <2>2. event \in Events /\ event.type = "confirmed" /\ event.hit = hit
    BY <2>1 DEF Events
  <2> HIDE DEF event
  <2>3. Recorded /\ Found' = Found /\ Confirmed' = Confirmed \cup {n} /\ log'[n] = event
    BY <1>0, <2>1, <2>2, OneMore DEF Found, Confirmed, NewsTypes
  <2>4. ToldOf(hit', Confirmed', log')
    BY <2>1, <2>2, <2>3
  <2> QED BY <1>3, <2>1, <2>3, <2>4 DEF Deferred
<1>7. CASE MarkFound
  <2>1. /\ deferred' = Append(deferred, hit) /\ UNCHANGED log
        /\ w = "mark" /\ v = "frame" /\ hit \in Hits
    BY <1>0, <1>1, <1>7 DEF MarkFound, At, HitsOK, rest
  <2>2. Deferred' = Deferred \cup {hit}
    <3>1. hit \notin Deferred
      BY <2>1 DEF StoryInv, InHand
    <3> QED BY <1>0, <2>1, <3>1, DeferredGrows DEF StoryInv
  <2>3. UNCHANGED <<Found, Confirmed>>
    BY <2>1 DEF Found, Confirmed
  <2> QED BY <2>1, <2>2, <2>3 DEF ConfirmedInv
<1>8. CASE PublishFound
  <2> DEFINE event == [type |-> "target_found", hit |-> Head(deferred),
                       available |-> At("worker", "offer")]
             h == Head(deferred)
  <2>1. /\ Publish(event) /\ deferred' = Tail(deferred)
        /\ w \in {"offer", "withhold"} /\ v = "flush"
    BY <1>1, <1>8 DEF PublishFound, At
  <2>2. deferred # <<>> /\ h \in Hits
    BY <1>0, <2>1, HeadTailProperties DEF HitsOK
  <2>3. event \in Events /\ event.type = "target_found" /\ event.hit = h
    <3>1. At("worker", "offer") \in BOOLEAN
      BY DEF At
    <3> QED BY <2>2, <3>1 DEF Events
  <2> HIDE DEF event, h
  <2>4. /\ Recorded /\ Found' = Found \cup {n} /\ log'[n] = event /\ Confirmed' = Confirmed
        /\ \A i \in DOMAIN log : i \in Nat /\ i < n
    BY <1>0, <2>1, <2>3, OneMore DEF Found, Confirmed, NewsTypes
  <2>5. h \in Deferred /\ Deferred' = Deferred \ {h}
    BY <1>0, <2>1, <2>2, DeferredShrinks DEF StoryInv, h
  <2>6. \A j \in Confirmed : log'[j] = log[j] /\ j < n
    BY <1>2, <2>4 DEF Recorded
  <2>7. \A i \in Found : log'[i] = log[i]
    BY <1>2, <2>4 DEF Recorded
  <2>8. \E j \in Confirmed' : j < n /\ log'[j].hit = log'[n].hit
    BY <2>3, <2>4, <2>5, <2>6 DEF ConfirmedInv
  <2> QED BY <2>1, <2>4, <2>5, <2>6, <2>7, <2>8 DEF ConfirmedInv
<1>9. CASE PublishOutcome
  <2>1. UNCHANGED deferred /\ v = "scrub" /\ ~PublishFound
    BY <1>1, <1>9 DEF PublishOutcome, PublishOutcomeAfter, At, sessionVars, PublishFound
  <2>2. CASE UNCHANGED log
    <3>1. UNCHANGED <<Found, Confirmed>> /\ Recorded
      BY <2>2 DEF Found, Confirmed, Recorded
    <3> QED BY <1>3, <2>1, <3>1 DEF Deferred
  <2>3. CASE \E event \in Events :
               Publish(event) /\ event.type \in {"all_found", "search_timeout"}
    <3>1. UNCHANGED <<Found, Confirmed>> /\ Recorded
      BY <1>0, <2>3, OneMore DEF Found, Confirmed, NewsTypes
    <3> QED BY <1>3, <2>1, <3>1 DEF Deferred
  <2>4. [type |-> "all_found"] \in Events /\ [type |-> "search_timeout", unfound |-> active] \in Events
    BY <1>0 DEF Events, HitsOK
  <2> QED BY <1>9, <2>2, <2>3, <2>4 DEF PublishOutcome, PublishOutcomeAfter
<1> QED BY <1>4, <1>5, <1>6, <1>7, <1>8, <1>9, StepsOfTheStory

(* How it ended is said once, and with the targets that are still active:  *)
(* those without a result, save the one of the hit in hand.                *)
Unfound == {t \in Targets : \A h \in results : h[1] # t}

OutcomeInv ==
  /\ active \ {h[1] : h \in InHand} = Unfound
  /\ status = "completed" => active = {}
  /\ pc["worker"] \in Flushed =>
       /\ status = "completed" <=> AllFound # {}
       /\ status = "timed_out" <=> TimedOut # {}
       /\ \A i \in TimedOut : log[i].unfound = active

LEMMA CompletesWhenAllAreFound ==
  ASSUME Typed, [Next]_vars, status' = "completed", status # "completed"
  PROVE  active = {}
<1>0. PcOK /\ FlagsOK /\ ReaderOK /\ HitsOK
  BY TypedParts
<1>1. CASE Stopping \/ Elsewhere
  BY <1>0, <1>1, OthersDoNotEnd DEF Terminal
<1>2. CASE FrameEnds
  BY <1>2 DEF FrameEnds
<1>3. CASE Driving
  BY <1>3 DEF Driving, Construct, Attach, Start, StartReader, Loop, TimeOut, GetPacket,
    NoPacket, FrameFails, Teardown, TeardownJoins, TeardownFails, Settle, SettleVia, Conclude,
    Scrub, Retire, RetireJoins, RetireGivesUp, Finish, TakeReader, Join, JoinTimesOut, JoinFails,
    Transition, SetStatus
<1>4. CASE Worker /\ ~Driving /\ ~FrameEnds
  BY <1>4 DEF Worker, Driving, Decide, StoreEvidence, RecordResult, PublishConfirmed, MarkFound,
    WipeAfterTransition, Announce, Refresh, PublishFound, PublishOutcome, PublishOutcomeAfter
<1> QED BY <1>1, <1>2, <1>3, <1>4, StepsOfTheSession

LEMMA NextOutcomeInv ==
  Typed /\ EndInv /\ ToldInv /\ OutcomeInv /\ [Next]_vars => OutcomeInv'
<1> SUFFICES ASSUME Typed, EndInv, ToldInv, OutcomeInv, [Next]_vars PROVE OutcomeInv'
  OBVIOUS
<1> DEFINE w == pc["worker"]
           v == pc'["worker"]
           n == Len(log) + 1
<1>0. PcOK /\ HitsOK /\ log \in Seq(Events) /\ n = Len(log) + 1
  BY TypedParts DEF Typed
<1>1. ASSUME NEW to, Goto("worker", to) PROVE v = to
  BY <1>0, <1>1 DEF Goto, PcOK, Threads
<1> HIDE DEF n
<1>2. status' = "completed" => active = {}
  BY CompletesWhenAllAreFound DEF OutcomeInv
<1>3. TimedOut \subseteq DOMAIN log
  BY DEF TimedOut, OfType
(* Nothing is recorded, nor said of the outcome.                           *)
<1>4. ASSUME UNCHANGED <<active, results, AllFound, TimedOut>>, Recorded, InHand' = InHand,
             w \in Flushed <=> v \in Flushed, w \in Flushed => UNCHANGED status
      PROVE  OutcomeInv'
  <2>1. Unfound' = Unfound
    BY <1>4 DEF Unfound
  <2>2. \A i \in TimedOut : log'[i] = log[i]
    BY <1>3, <1>4 DEF Recorded
  <2> QED BY <1>2, <1>4, <2>1, <2>2 DEF OutcomeInv
<1>5. CASE Idle
  <2>1. UNCHANGED <<active, results>> /\ InHand' = InHand
    BY <1>5, IdleKeepsHits DEF InHand, Working
  <2>2. UNCHANGED <<AllFound, TimedOut>> /\ Recorded
    BY <1>5, IdleTellsNothing DEF Untold
  <2>3. w \in Flushed <=> v \in Flushed
    <3>1. CASE Announce
      BY <1>1, <3>1 DEF Announce, At, Flushed
    <3> QED BY <1>5, <3>1, MostStepsTellNothing DEF Idle
  <2>4. w \in Flushed => UNCHANGED status
    <3>1. CASE Announce
      BY <3>1 DEF Announce
    <3> QED BY <1>5, <3>1, MostStepsTellNothing DEF Idle, Flushed, Announced, Telling
  <2> QED BY <1>4, <2>1, <2>2, <2>3, <2>4
<1>6. CASE StoreEvidence \/ \E t \in Targets : Decide(t)
  <2>1. /\ UNCHANGED <<active, results, log>> /\ InHand' = InHand
        /\ w \notin Flushed /\ v \notin Flushed
    BY <1>1, <1>6 DEF StoreEvidence, Decide, At, InHand, Flushed
  <2> QED BY <1>4, <2>1 DEF AllFound, TimedOut, Recorded
<1>7. CASE RecordResult
  <2>1. /\ results' = results \cup {hit} /\ UNCHANGED <<hit, active>>
        /\ w = "record" /\ v = "confirm"
    BY <1>1, <1>7 DEF RecordResult, At
  <2>2. InHand = {} /\ InHand' = {hit}
    BY <2>1 DEF InHand
  <2>3. Unfound' = Unfound \ {hit[1]}
    BY <2>1 DEF Unfound
  <2> QED BY <1>2, <2>1, <2>2, <2>3 DEF OutcomeInv, Flushed
<1>8. CASE PublishConfirmed \/ PublishFound
  <2>1. /\ UNCHANGED <<active, results>> /\ InHand' = InHand
        /\ w \notin Flushed /\ v \notin Flushed
    BY <1>1, <1>8 DEF PublishConfirmed, PublishFound, At, InHand, Flushed, sessionVars
  <2>2. Unfound' = Unfound
    BY <2>1 DEF Unfound
  <2> QED BY <1>2, <2>1, <2>2 DEF OutcomeInv
<1>9. CASE MarkFound
  <2>1. /\ active' = active \ {hit[1]} /\ UNCHANGED results
        /\ w = "mark" /\ v = "frame"
    BY <1>1, <1>9 DEF MarkFound, At
  <2>2. InHand = {hit} /\ InHand' = {}
    BY <2>1 DEF InHand
  <2>3. Unfound' = Unfound
    BY <2>1 DEF Unfound
  <2> QED BY <1>2, <2>1, <2>2, <2>3 DEF OutcomeInv, Flushed
<1>10. CASE PublishOutcome
  <2>1. /\ UNCHANGED <<status, active, results>> /\ w = "flush" /\ v = "scrub"
    BY <1>1, <1>10 DEF PublishOutcome, PublishOutcomeAfter, At, sessionVars
  <2>2. InHand' = InHand /\ Unfound' = Unfound
    BY <2>1 DEF InHand, Unfound
  <2>3. AllFound = {} /\ TimedOut = {}
    BY <2>1 DEF ToldInv, Flushed, Outcomes, AllFound, TimedOut
  <2>4. /\ status = "completed" <=> AllFound' # {}
        /\ status = "timed_out" <=> TimedOut' # {}
        /\ \A i \in TimedOut' : log'[i].unfound = active
    <3>1. CASE status = "completed"
      <4> DEFINE event == [type |-> "all_found"]
      <4>1. event \in Events /\ event.type = "all_found" /\ Publish(event)
        BY <1>10, <3>1 DEF PublishOutcome, PublishOutcomeAfter, Events
      <4> HIDE DEF event
      <4>2. AllFound' = AllFound \cup {n} /\ TimedOut' = TimedOut
        BY <1>0, <4>1, OneMore DEF AllFound, TimedOut, NewsTypes
      <4> QED BY <2>3, <3>1, <4>2
    <3>2. CASE status = "timed_out"
      <4> DEFINE event == [type |-> "search_timeout", unfound |-> active]
      <4>1. /\ event \in Events /\ event.type = "search_timeout" /\ event.unfound = active
            /\ Publish(event)
        BY <1>0, <1>10, <3>2 DEF PublishOutcome, PublishOutcomeAfter, Events, HitsOK
      <4> HIDE DEF event
      <4>2. AllFound' = AllFound /\ TimedOut' = TimedOut \cup {n} /\ log'[n] = event
        BY <1>0, <4>1, OneMore DEF AllFound, TimedOut, NewsTypes
      <4> QED BY <2>3, <3>2, <4>1, <4>2
    <3>3. CASE status \notin {"completed", "timed_out"}
      <4>1. UNCHANGED log
        BY <1>10, <3>3 DEF PublishOutcome, PublishOutcomeAfter
      <4> QED BY <2>3, <3>3, <4>1 DEF AllFound, TimedOut
    <3> QED BY <3>1, <3>2, <3>3
  <2> QED BY <1>2, <2>1, <2>2, <2>4 DEF OutcomeInv
<1> QED BY <1>5, <1>6, <1>7, <1>8, <1>9, <1>10, StepsOfTheStory

LEMMA InitStory == Init => HitInv /\ StoryInv /\ ConfirmedInv /\ OutcomeInv
<1> SUFFICES ASSUME Init PROVE HitInv /\ StoryInv /\ ConfirmedInv /\ OutcomeInv
  OBVIOUS
<1>1. /\ pc["worker"] = "construct" /\ status = "initializing" /\ ~finished
      /\ active = Targets /\ results = {} /\ deferred = <<>> /\ log = <<>>
      /\ evidence = [h \in Hits |-> "new"]
  BY DEF Init
<1>2. Found = {} /\ Deferred = {} /\ Told = {} /\ InHand = {}
  BY <1>1 DEF Found, OfType, Deferred, Told, InHand
<1>3. \A t \in Targets : \A n \in 1 .. Tracks : evidence[<<t, n>>] = "new"
  BY <1>1 DEF Hits
<1>4. HitInv
  BY <1>1, <1>3 DEF HitInv
<1>5. StoryInv
  BY <1>1, <1>2 DEF StoryInv, Flushed
<1>6. ConfirmedInv
  BY <1>1, <1>2 DEF ConfirmedInv
<1>7. OutcomeInv
  BY <1>1, <1>2 DEF OutcomeInv, Unfound, Flushed
<1> QED BY <1>4, <1>5, <1>6, <1>7

LEMMA StoryIsComplete ==
  Typed /\ ToldInv /\ StoryInv /\ ConfirmedInv /\ OutcomeInv => FinishedStoryIsComplete
<1> SUFFICES ASSUME Typed, ToldInv, StoryInv, ConfirmedInv, OutcomeInv, finished
             PROVE  FinishedStoryIsComplete
  BY DEF FinishedStoryIsComplete
<1>1. /\ pc["worker"] \in Flushed /\ pc["worker"] \in Announced /\ deferred = <<>>
      /\ InHand = {} /\ Deferred = {}
  BY DEF StoryInv, Flushed, Announced, Telling, InHand, Deferred
<1>2. /\ Published("target_found") = Found /\ Published("confirmed") = Confirmed
      /\ Published("all_found") = AllFound /\ Published("search_timeout") = TimedOut
      /\ Outcomes = AllFound \cup TimedOut
  BY DEF Published, Found, Confirmed, AllFound, TimedOut, Outcomes, OfType
<1>3. results = Told
  BY <1>1 DEF StoryInv
<1>4. ASSUME NEW h \in Hits
      PROVE  Cardinality(FoundEvents(h)) = IF h \in results THEN 1 ELSE 0
  <2>1. FoundEvents(h) = {i \in Found : log[i].hit = h}
    BY <1>2 DEF FoundEvents
  <2>2. CASE h \in results
    <3>1. PICK i \in Found : log[i].hit = h
      BY <1>3, <2>2 DEF Told
    <3>2. FoundEvents(h) = {i}
      BY <2>1, <3>1 DEF StoryInv
    <3> QED BY <2>2, <3>2, FS_Singleton
  <2>3. CASE h \notin results
    <3>1. FoundEvents(h) = {}
      BY <1>3, <2>1, <2>3 DEF Told
    <3> QED BY <2>3, <3>1, FS_EmptySet
  <2> QED BY <2>2, <2>3
<1>5. active = Unfound
  BY <1>1 DEF OutcomeInv
<1>6. \E i \in TerminalEvents :
        /\ TerminalEvents = {i}
        /\ log[i].status = status
        /\ \A j \in Outcomes \cup Found : i < j
  BY <1>1 DEF ToldInv
<1>7. /\ \A i \in Found : \E j \in Confirmed : j < i /\ log[j].hit = log[i].hit
      /\ \A i \in Found, j \in Outcomes : i < j
  BY DEF ConfirmedInv, ToldInv
<1>8. /\ status = "completed" <=> AllFound # {}
      /\ status = "timed_out" <=> TimedOut # {}
      /\ status = "completed" => \A t \in Targets : \E h \in results : h[1] = t
      /\ \A i \in TimedOut : log[i].unfound = Unfound
  BY <1>1, <1>5 DEF OutcomeInv, Unfound
<1> QED BY <1>2, <1>4, <1>6, <1>7, <1>8 DEF FinishedStoryIsComplete, Unfound

(* However many targets are hit by however many tracks, and whatever stops *)
(* it, a finished search has told each hit once, in order, and how it      *)
(* ended.                                                                  *)
THEOREM TheStoryIsComplete == Spec => []FinishedStoryIsComplete
<1> DEFINE IInv == /\ Typed /\ EndInv /\ ToldInv
                   /\ HitInv /\ StoryInv /\ ConfirmedInv /\ OutcomeInv
<1>1. Init => IInv
  BY InitTyped, InitEndInv, ToldInit, InitStory
<1>2. IInv /\ [Next]_vars => IInv'
  BY NextTyped, NextEndInv, NextToldInv, NextHitInv, NextStoryInv, NextConfirmedInv, NextOutcomeInv
<1>3. IInv => FinishedStoryIsComplete
  BY StoryIsComplete
<1> HIDE DEF IInv
<1> QED BY <1>1, <1>2, <1>3, PTL DEF Spec
=============================================================================

----------------------------- MODULE SourceEpochs -----------------------------
(***************************************************************************)
(* What a lost camera means to a search (video.py, and the head of the     *)
(* frame loop in service.py).  The reader thread and the session each      *)
(* count the connections they have lost; a frame carries the reader's      *)
(* count, the worker compares it with the one it searched last and, when   *)
(* it differs, forgets everything about persons: the tracker numbers them  *)
(* from 1 again, so what is kept under a number would be about somebody    *)
(* else.                                                                   *)
(*                                                                         *)
(* A frame is its connection, as the reader counts them: a capture found   *)
(* closed and opened again at once is no new one, in the program and here. *)
(* A person is a number and the connection in which the tracker gave it    *)
(* out; the second half is not in the program.                             *)
(***************************************************************************)
EXTENDS Naturals, Sequences

CONSTANTS
  QueueSize,   \* settings.frame_queue_size
  MaxLosses,   \* bound: how often a working camera is lost
  MaxId        \* bound: persons numbered in one connection

ASSUME SizesAssumption ==
  QueueSize \in Nat \ {0} /\ MaxLosses \in Nat /\ MaxId \in Nat \ {0}

VARIABLES
  queue,         \* reader.frames
  readerEpoch,   \* reader._source_epoch
  lost,          \* announced_lost
  reader,        \* where the reader thread is
  sessionEpoch,  \* session._source_epoch
  worker,        \* where the worker is in its loop
  packet,        \* the frame in hand
  seen,          \* seen_source_epoch, under which the frame is searched, or NotYet
  nextId,        \* the tracker's _next_id
  tracks,        \* the persons the tracker follows
  evidence,      \* whom the confirmations keep embeddings of
  marks          \* whom the other per-track stores speak of

readerVars == <<queue, readerEpoch, lost, reader>>
memory == <<nextId, tracks, evidence, marks>>
vars == <<readerVars, sessionEpoch, worker, packet, seen, memory>>

Epochs == 0 .. MaxLosses
Persons == (1 .. MaxId) \X Epochs
NotYet == MaxLosses + 1      \* -1 in the code: no frame's connection

TypeOK ==
  /\ queue \in Seq(Epochs) /\ Len(queue) <= QueueSize
  /\ readerEpoch \in Epochs /\ sessionEpoch \in Epochs
  /\ lost \in BOOLEAN
  /\ reader \in {"open", "top", "grab", "read", "announce", "flush"}
  /\ worker \in {"get", "look", "embed"}
  /\ packet \in Epochs /\ seen \in Epochs \cup {NotYet}
  /\ nextId \in 1 .. MaxId + 1
  /\ tracks \subseteq Persons /\ evidence \subseteq Persons /\ marks \subseteq Persons

Init ==
  /\ queue = <<>> /\ readerEpoch = 0 /\ lost = FALSE /\ reader = "open"
  /\ sessionEpoch = 0
  /\ worker = "get" /\ packet = 0 /\ seen = NotYet
  /\ nextId = 1 /\ tracks = {} /\ evidence = {} /\ marks = {}

-----------------------------------------------------------------------------
(* The reader thread.  Whether the next frame is worth decoding is decided *)
(* before it is grabbed; the worker may have emptied the queue by then.    *)
Opens ==
  /\ reader = "open"
  /\ reader' = "top"
  /\ UNCHANGED <<queue, readerEpoch, lost>>

Decides ==
  /\ reader = "top"
  /\ reader' = IF Len(queue) = QueueSize THEN "grab" ELSE "read"
  /\ UNCHANGED <<queue, readerEpoch, lost>>

(* The capture is no longer open: it is opened again, no loss is counted.  *)
FindsClosed ==
  /\ reader = "top"
  /\ reader' = "open"
  /\ UNCHANGED <<queue, readerEpoch, lost>>

(* A frame that would be thrown away is only grabbed, and the oldest       *)
(* decoded one makes room.                                                 *)
Evicts ==
  /\ reader = "grab"
  /\ queue' = IF queue = <<>> THEN queue ELSE Tail(queue)
  /\ reader' = "top"
  /\ UNCHANGED <<readerEpoch, lost>>

Reads ==
  /\ reader = "read"
  /\ queue' = Append(queue, readerEpoch)
  /\ lost' = FALSE
  /\ reader' = "top"
  /\ UNCHANGED readerEpoch

(* Slip: the reader leaves the counting to the session.                    *)
FailsUncounted ==
  /\ reader \in {"open", "grab", "read"}
  /\ IF lost THEN reader' = "open"
             ELSE sessionEpoch < MaxLosses /\ reader' = "announce"
  /\ UNCHANGED <<queue, readerEpoch, lost>>

(* The camera cannot be opened, or gives no frame.  Only the first failure *)
(* after a decoded frame counts as a loss.                                 *)
Fails ==
  /\ reader \in {"open", "grab", "read"}
  /\ IF lost
     THEN reader' = "open" /\ UNCHANGED readerEpoch
     ELSE /\ readerEpoch < MaxLosses
          /\ readerEpoch' = readerEpoch + 1
          /\ reader' = "announce"
  /\ UNCHANGED <<queue, lost>>

(* on_status(SOURCE_LOST): the session counts the loss under its lock and  *)
(* then empties the queue, frame by frame; the reader is the only one that *)
(* fills it.                                                               *)
Announces ==
  /\ reader = "announce"
  /\ sessionEpoch' = sessionEpoch + 1
  /\ reader' = "flush"
  /\ UNCHANGED <<queue, readerEpoch, lost>>

Flushes ==
  /\ reader = "flush"
  /\ IF queue # <<>>
     THEN queue' = Tail(queue) /\ UNCHANGED <<lost, reader>>
     ELSE lost' = TRUE /\ reader' = "open" /\ UNCHANGED queue
  /\ UNCHANGED readerEpoch

ReaderStep ==
  \/ Announces /\ UNCHANGED <<worker, packet, seen, memory>>
  \/ /\ Opens \/ FindsClosed \/ Decides \/ Evicts \/ Reads \/ Fails \/ Flushes
     /\ UNCHANGED <<sessionEpoch, worker, packet, seen, memory>>

-----------------------------------------------------------------------------
(* The worker.                                                             *)

(* _reset_temporal_state, and the loop's own list of tracks.  A tracker    *)
(* that cannot be reset is replaced.  The warning about a confirmation     *)
(* that cannot be cleared has no case: clearing drops lists and mappings,  *)
(* and _wipe_array reports no failure of an array of numbers.              *)
ForgetPersons ==
  nextId' = 1 /\ tracks' = {} /\ evidence' = {} /\ marks' = {}

(* The connection a frame is searched under.                               *)
(* Slip: the session's count at the time the frame is taken.               *)
LabelledLate(frame) == sessionEpoch

Labelled(frame) == frame

TakeFrame ==
  /\ worker = "get"
  /\ queue # <<>>
  /\ queue' = Tail(queue)
  /\ packet' = Head(queue)
  /\ seen' = Labelled(Head(queue))
  /\ IF seen' # seen THEN ForgetPersons ELSE UNCHANGED memory
  /\ worker' = "look"
  /\ UNCHANGED <<readerEpoch, lost, reader, sessionEpoch>>

(* The persons the tracker still follows, and those it numbers anew.       *)
Tracked(kept, n) == kept \cup {<<i, packet>> : i \in nextId .. nextId + n - 1}

(* The detectors run for as long as they take; ROI scheduling leaves notes *)
(* about live tracks (module RoiScheduler) whatever becomes of the frame.  *)
Looks ==
  /\ worker = "look"
  /\ \E kept \in SUBSET tracks, n \in 0 .. MaxId + 1 - nextId :
       /\ tracks' = Tracked(kept, n)
       /\ nextId' = nextId + n
  /\ \E noted \in SUBSET tracks', left \in SUBSET (marks \ tracks') :
       marks' = (marks \ left) \cup noted
  /\ worker' = "embed"
  /\ UNCHANGED <<readerVars, sessionEpoch, packet, seen, evidence>>

(* The frame's connection is no longer the session's: what was seen in it  *)
(* is not counted.                                                         *)
Abandons ==
  /\ worker = "embed"
  /\ seen # sessionEpoch
  /\ worker' = "get"
  /\ UNCHANGED <<readerVars, sessionEpoch, packet, seen, memory>>

(* The faces of some tracks become evidence and change their states; the   *)
(* records of tracks that have left may be swept.  Nothing from the second *)
(* check to the end of the frame reads the session's count again.          *)
Commits ==
  /\ worker = "embed"
  /\ seen = sessionEpoch
  /\ \E fed \in SUBSET tracks, swept \in SUBSET (evidence \ tracks) :
       evidence' = (evidence \ swept) \cup fed
  /\ \E stated \in SUBSET evidence', left \in SUBSET marks :
       marks' = (marks \ left) \cup stated
  /\ worker' = "get"
  /\ UNCHANGED <<readerVars, sessionEpoch, packet, seen, nextId, tracks>>

WorkerStep == TakeFrame \/ Looks \/ Abandons \/ Commits

Next == ReaderStep \/ WorkerStep

Spec == Init /\ [][Next]_vars

(* The reader reacts to a loss by itself.  The worker waits for a frame in *)
(* get(), which a put wakes: however often it finds the queue emptied      *)
(* again, a frame is there for as long as the next grab takes.             *)
Fairness ==
  /\ WF_vars(ReaderStep) /\ WF_vars(Looks) /\ WF_vars(Abandons \/ Commits)
  /\ SF_vars(TakeFrame)

FairSpec == Spec /\ Fairness
=============================================================================

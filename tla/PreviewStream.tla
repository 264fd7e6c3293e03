----------------------------- MODULE PreviewStream -----------------------------
(***************************************************************************)
(* The live preview beside the events: PreviewHub (service.py), which      *)
(* keeps one annotated JPEG, the worker that encodes it only for somebody  *)
(* who watches, the wipes that drop it, and the MJPEG streams (api.py,     *)
(* preview_search).  The worker, the stop and the status are EventStream's.*)
(*                                                                         *)
(* Of the hub's counter it matters only who has not seen its latest value. *)
(* The two hubs share nothing but the search, so one behaviour has either  *)
(* news and an event client, or viewers (bound: `audience`).               *)
(***************************************************************************)
EXTENDS EventStream

CONSTANT Viewers  \* streams of preview.mjpg

ASSUME ViewersAssumption == IsFiniteSet(Viewers)

VARIABLES
  audience,  \* "events" or "preview"
  jpeg,      \* PreviewHub._jpeg is not None
  used,      \* PreviewHub._seq > 0
  fresh,     \* the viewers whose seq is behind PreviewHub._seq
  viewers,   \* PreviewHub._subscribers
  encoding,  \* the worker is in _publish_preview, past has_subscribers
  stream     \* where each stream is

previewVars == <<jpeg, used, fresh, viewers, encoding, stream>>
vars == <<streamVars, audience, previewVars>>

TypeOK ==
  /\ StreamTypeOK
  /\ jpeg \in BOOLEAN /\ used \in BOOLEAN /\ encoding \in BOOLEAN
  /\ fresh \subseteq Viewers
  /\ viewers \in Nat
  /\ stream \in [Viewers -> {"off", "poll", "waiting", "frame", "nothing"}]

Init ==
  /\ StreamInit
  /\ audience \in {"events", "preview"}
  /\ jpeg = FALSE /\ used = FALSE /\ fresh = {} /\ viewers = 0 /\ encoding = FALSE
  /\ stream = [v \in Viewers |-> "off"]

-----------------------------------------------------------------------------
(* PreviewHub: publish and clear count up, so both wake every stream.      *)

Put(frame) == jpeg' = frame /\ used' = TRUE /\ fresh' = Viewers

Clear == Put(FALSE) /\ UNCHANGED <<viewers, encoding, stream>>

(* The search's steps, with the wipes that reach the hub: clear_evidence   *)
(* by stop() and by an aborting transition, clear_sensitive_state last.    *)
(* Slip: only stop() and the transitions clear the preview.                *)
FinalizeQuietly == Finalize /\ UNCHANGED previewVars
FinalizeAndClear == Finalize /\ Clear

Search ==
  /\ \/ audience = "events" /\ PublishNews /\ UNCHANGED previewVars
     \/ ~encoding /\ EndSearch /\ UNCHANGED previewVars
     \/ (Announce \/ PublishOutcome) /\ UNCHANGED previewVars
     \/ WipeAtEnd /\ Clear
     \/ FinalizeAndClear
  /\ UNCHANGED audience

Stop ==
  /\ \/ StopWipes /\ Clear
     \/ (MarkStopping \/ SayStopping) /\ UNCHANGED previewVars
  /\ UNCHANGED audience

(* _publish_preview: nobody watching, nothing encoded.                     *)
StartEncoding ==
  /\ worker = "search" /\ ~encoding
  /\ viewers > 0
  /\ encoding' = TRUE
  /\ UNCHANGED <<streamVars, audience, jpeg, used, fresh, viewers, stream>>

(* The frame is published, or could not be encoded.                        *)
EndEncoding ==
  /\ encoding
  /\ encoding' = FALSE
  /\ Put(TRUE) \/ UNCHANGED <<jpeg, used, fresh>>
  /\ UNCHANGED <<streamVars, audience, viewers, stream>>

-----------------------------------------------------------------------------
(* A stream.                                                               *)

Go(v, from, to) == stream[v] = from /\ stream' = [stream EXCEPT ![v] = to]

Subscribe(v) ==
  /\ audience = "preview"
  /\ Go(v, "off", "poll")
  /\ viewers' = viewers + 1
  /\ fresh' = IF used THEN fresh \cup {v} ELSE fresh \ {v}
  /\ UNCHANGED <<streamVars, audience, jpeg, used, encoding>>

(* PreviewHub.after: the latest frame if it is new; None for a wipe.       *)
Take(v, from) ==
  /\ Go(v, from, IF v \in fresh /\ jpeg THEN "frame" ELSE "nothing")
  /\ fresh' = fresh \ {v}

PollFrame(v) ==
  /\ \/ v \in fresh /\ Take(v, "poll")
     \/ v \notin fresh /\ Go(v, "poll", "waiting") /\ UNCHANGED fresh
  /\ UNCHANGED <<streamVars, audience, jpeg, used, viewers, encoding>>

WakeViewer(v) ==
  /\ Take(v, "waiting")
  /\ UNCHANGED <<streamVars, audience, jpeg, used, viewers, encoding>>

YieldFrame(v) ==
  /\ Go(v, "frame", "poll")
  /\ UNCHANGED <<streamVars, audience, jpeg, used, fresh, viewers, encoding>>

(* The generator's finally.  Slip: the return unsubscribes once more.      *)
UnsubscribeTwice == viewers' = IF viewers > 1 THEN viewers - 2 ELSE 0
Unsubscribe == viewers' = IF viewers > 0 THEN viewers - 1 ELSE 0

(* Nothing new: the stream returns if the status is terminal by now.       *)
ReturnOrPoll(v) ==
  /\ IF status = "ended" THEN Go(v, "nothing", "off") /\ Unsubscribe
     ELSE Go(v, "nothing", "poll") /\ UNCHANGED viewers
  /\ UNCHANGED <<streamVars, audience, jpeg, used, fresh, encoding>>

(* The viewer goes away, at whatever await the stream is.                  *)
HangUp(v) ==
  /\ stream[v] # "off"
  /\ stream' = [stream EXCEPT ![v] = "off"]
  /\ Unsubscribe
  /\ UNCHANGED <<streamVars, audience, jpeg, used, fresh, encoding>>

Show(v) == PollFrame(v) \/ WakeViewer(v) \/ YieldFrame(v) \/ ReturnOrPoll(v)

-----------------------------------------------------------------------------
Handling(h) == Handle(h) /\ UNCHANGED <<audience, previewVars>>

Connecting ==
  /\ audience = "events"
  /\ \E h \in Handlers : Connect(h)
  /\ UNCHANGED <<audience, previewVars>>

Leaving == (Drop \/ LearnsTheEnd \/ StopSucceeds) /\ UNCHANGED <<audience, previewVars>>

Next ==
  \/ Search \/ Stop \/ StartEncoding \/ EndEncoding
  \/ \E h \in Handlers : Handling(h)
  \/ Connecting \/ Leaving
  \/ \E v \in Viewers : Subscribe(v) \/ Show(v) \/ HangUp(v)

(* The worker ends what it began to end (module SearchSession shows that   *)
(* it does) and no frame takes forever; stop() goes on; the event loop     *)
(* serves every stream; a client that lost its connection tries again.     *)
(* Nobody has to stop the search, and no viewer to stay or to leave.       *)
(* (Each condition names the variables that all its steps change.)         *)
Fairness ==
  /\ WF_worker(worker # "search" /\ Search) /\ WF_encoding(EndEncoding)
  /\ WF_stopper(stopper # "idle" /\ Stop)
  /\ \A h \in Handlers : WF_handlerVars(Handling(h))
  /\ WF_link(Connecting)
  /\ \A v \in Viewers : WF_stream(Show(v))

Spec == Init /\ [][Next]_vars /\ Fairness
=============================================================================

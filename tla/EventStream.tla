------------------------------ MODULE EventStream ------------------------------
(***************************************************************************)
(* The events of one search on their way to a client: the publishing side  *)
(* of SearchSession, the bounded history of EventHub (service.py), the     *)
(* WebSocket handlers that replay it (api.py, search_events), and a client *)
(* that resumes, reconnects and gives up as the monitor page does          *)
(* (monitor.html), the one client in this repository.                      *)
(*                                                                         *)
(* An event is its number: `log` holds the kinds of all events published,  *)
(* and the hub's deque is the part of it from Oldest on.  A handler is in  *)
(* turn in the hub's lock, waiting there, sending on the event loop, or    *)
(* looking at the status: each is a step, others run in between.           *)
(***************************************************************************)
EXTENDS Naturals, Sequences, FiniteSets

CONSTANTS
  Capacity,    \* of EventHub: 256
  MaxHandlers, \* bound: WebSocket handlers of this client running at once
  MaxNews,     \* bound: events before the search ends
  MaxDrops     \* bound: lost connections

ASSUME StreamAssumption ==
  /\ Capacity \in Nat \ {0} /\ MaxNews \in Nat /\ MaxDrops \in Nat
  /\ MaxHandlers \in Nat \ {0}

Handlers == 1 .. MaxHandlers
Nobody == 0

VARIABLES
  status,     \* session.status: "running", "stopping", or "ended" if terminal
  worker,     \* how far the worker is with ending the search
  stopper,    \* how far a call to stop() is
  log,        \* what was published; _seq is its length
  at,         \* where each handler is
  cursor,     \* each handler's seq
  batch,      \* oldest and newest event of the history it was answered with
  link,       \* the handler the client is connected to, or Nobody
  watching,   \* the client still reconnects
  resume,     \* the client's eventSeq
  story,      \* the events it received, in order
  announced,  \* the events it was told are lost
  missed,     \* those it asked to be spared without either
  drops

searchVars == <<status, worker, stopper, log>>
handlerVars == <<at, cursor, batch>>
clientVars == <<link, watching, resume, story, announced, missed, drops>>
streamVars == <<searchVars, handlerVars, clientVars>>

Seq0 == Len(log)
Idle == <<0, 0>>

StreamTypeOK ==
  /\ status \in {"running", "stopping", "ended"}
  /\ worker \in {"search", "wipe", "settled", "announced", "told", "done"}
  /\ stopper \in {"idle", "mark", "say", "done"}
  /\ at \in [Handlers -> {"off", "poll", "waiting", "gap", "send", "check"}]
  /\ \A h \in Handlers : cursor[h] \in 0 .. Seq0
  /\ batch \in [Handlers -> (0 .. Seq0) \X (0 .. Seq0)]
  /\ link \in Handlers \cup {Nobody}
  /\ link # Nobody => at[link] # "off"
  /\ resume \in 0 .. Seq0
  /\ announced \subseteq 1 .. Seq0 /\ missed \subseteq 1 .. Seq0
  /\ drops \in 0 .. MaxDrops

StreamInit ==
  /\ status = "running" /\ worker = "search" /\ stopper = "idle"
  /\ log = <<>>
  /\ at = [h \in Handlers |-> "off"]
  /\ cursor = [h \in Handlers |-> 0]
  /\ batch = [h \in Handlers |-> Idle]
  /\ link = Nobody /\ watching = TRUE
  /\ resume = 0 /\ story = <<>> /\ announced = {} /\ missed = {} /\ drops = 0

-----------------------------------------------------------------------------
(* EventHub.                                                               *)

Publish(kind) == log' = Append(log, kind)

(* The first event still in the deque, and those newer than `seq`.  Slip:  *)
(* one event alone is not worth an answer.                                 *)
Oldest == IF Seq0 > Capacity THEN Seq0 - Capacity + 1 ELSE 1
NewerByTwo(seq) == {i \in Oldest .. Seq0 : i > seq + 1}
Newer(seq) == {i \in Oldest .. Seq0 : i > seq}

(* Slips: one lost event is no gap; a gap that lost nothing.               *)
GapTooLate(seq) == seq + 2 < Oldest
GapTooEarly(seq) == seq < Oldest
Gap(seq) == seq + 1 < Oldest

-----------------------------------------------------------------------------
(* The search: only what it publishes and when its status is terminal      *)
(* (the rest is module SearchSession).                                     *)

PublishNews ==
  /\ worker = "search"
  /\ Seq0 < MaxNews
  /\ Publish("news")
  /\ UNCHANGED <<status, worker, stopper, handlerVars, clientVars>>

(* A terminal transition: an aborted search wipes its evidence next.       *)
EndSearch ==
  /\ worker = "search"
  /\ status' = "ended"
  /\ worker' \in {"wipe", "settled"}
  /\ UNCHANGED <<stopper, log, handlerVars, clientVars>>

WipeAtEnd ==
  /\ worker = "wipe"
  /\ worker' = "settled"
  /\ UNCHANGED <<status, stopper, log, handlerVars, clientVars>>

(* _publish_terminal_event, after the reader was joined and the manager's  *)
(* slot freed: the status, then the deferred events or the outcome.        *)
Announce ==
  /\ worker = "settled"
  /\ Publish("terminal")
  /\ worker' = "announced"
  /\ UNCHANGED <<status, stopper, handlerVars, clientVars>>

PublishOutcome ==
  /\ worker = "announced"
  /\ Publish("outcome") \/ UNCHANGED log
  /\ worker' = "told"
  /\ UNCHANGED <<status, stopper, handlerVars, clientVars>>

(* clear_sensitive_state, and _finished is set.                            *)
Finalize ==
  /\ worker = "told"
  /\ worker' = "done"
  /\ UNCHANGED <<status, stopper, log, handlerVars, clientVars>>

(* stop() wipes, sets STOPPING under the lock and publishes it after; the  *)
(* worker may have ended the search in the meantime.                       *)
StopWipes ==
  /\ stopper = "idle"
  /\ stopper' = "mark"
  /\ UNCHANGED <<status, worker, log, handlerVars, clientVars>>

MarkStopping ==
  /\ stopper = "mark"
  /\ IF status = "running" THEN status' = "stopping" /\ stopper' = "say"
     ELSE UNCHANGED status /\ stopper' = "done"
  /\ UNCHANGED <<worker, log, handlerVars, clientVars>>

SayStopping ==
  /\ stopper = "say"
  /\ Publish("stopping")
  /\ stopper' = "done"
  /\ UNCHANGED <<status, worker, handlerVars, clientVars>>

-----------------------------------------------------------------------------
(* A WebSocket handler.                                                    *)

Move(h, from, to) == at[h] = from /\ at' = [at EXCEPT ![h] = to]

(* after_with_meta returns a copy of what is newer and whether the cursor  *)
(* fell out of the history.                                                *)
Answer(h, from) ==
  \/ /\ Gap(cursor[h])
     /\ Move(h, from, "gap")
     /\ batch' = [batch EXCEPT ![h] = <<Oldest, Oldest>>]
  \/ /\ ~Gap(cursor[h]) /\ Newer(cursor[h]) # {}
     /\ Move(h, from, "send")
     /\ batch' = [batch EXCEPT ![h] = <<Oldest, Seq0>>]
  \/ /\ ~Gap(cursor[h]) /\ Newer(cursor[h]) = {}
     /\ Move(h, from, "check")
     /\ UNCHANGED batch

Poll(h) ==
  /\ \/ Newer(cursor[h]) # {} /\ Answer(h, "poll")
     \/ Newer(cursor[h]) = {} /\ Move(h, "poll", "waiting") /\ UNCHANGED batch
  /\ UNCHANGED <<searchVars, cursor, clientVars>>

(* An event was published, or a second has passed: either way one answer.  *)
Wake(h) ==
  /\ Answer(h, "waiting")
  /\ UNCHANGED <<searchVars, cursor, clientVars>>

(* socket.onmessage: an event, or the news that some are lost and which is *)
(* the oldest that is kept.  The client resumes behind either.             *)
Receive(seq) ==
  /\ story' = Append(story, seq)
  /\ resume' = IF seq > resume THEN seq ELSE resume

ReceiveGap(lost, oldest) ==
  /\ announced' = announced \cup lost
  /\ resume' = oldest

(* One event of the batch, to a client that may be gone without the        *)
(* handler knowing.  The last one brings the handler back to the hub.      *)
SendEvent(h) ==
  LET seq == IF cursor[h] < batch[h][1] THEN batch[h][1] ELSE cursor[h] + 1
      last == seq = batch[h][2]
  IN /\ Move(h, "send", IF last THEN "poll" ELSE "send")
     /\ cursor' = [cursor EXCEPT ![h] = seq]
     /\ batch' = IF last THEN [batch EXCEPT ![h] = Idle] ELSE batch
     /\ IF link = h THEN Receive(seq) ELSE UNCHANGED <<story, resume>>
     /\ UNCHANGED <<searchVars, link, watching, announced, missed, drops>>

(* replay_gap: the handler goes on from the seq before the oldest event.   *)
SendGap(h) ==
  LET seq == batch[h][1] - 1 IN
  /\ Move(h, "gap", "poll")
  /\ cursor' = [cursor EXCEPT ![h] = seq]
  /\ batch' = [batch EXCEPT ![h] = Idle]
  /\ IF link = h
     THEN ReceiveGap(cursor[h] + 1 .. seq, batch[h][1])
     ELSE UNCHANGED <<announced, resume>>
  /\ UNCHANGED <<searchVars, link, watching, story, missed, drops>>

(* A send finds the client gone.                                           *)
Disconnected(h) ==
  /\ link # h
  /\ Move(h, "send", "off") \/ Move(h, "gap", "off")
  /\ cursor' = [cursor EXCEPT ![h] = 0]
  /\ batch' = [batch EXCEPT ![h] = Idle]
  /\ UNCHANGED <<searchVars, clientVars>>

(* Nothing was new: the handler closes if the status is terminal by now.   *)
CloseOrPoll(h) ==
  /\ IF status = "ended"
     THEN /\ Move(h, "check", "off")
          /\ cursor' = [cursor EXCEPT ![h] = 0]
          /\ link' = IF link = h THEN Nobody ELSE link
     ELSE Move(h, "check", "poll") /\ UNCHANGED <<cursor, link>>
  /\ UNCHANGED <<searchVars, batch, watching, resume, story, announced, missed, drops>>

Handle(h) ==
  \/ Poll(h) \/ Wake(h) \/ SendEvent(h) \/ SendGap(h) \/ Disconnected(h)
  \/ CloseOrPoll(h)

-----------------------------------------------------------------------------
(* The client: connectEvents, onclose, pollStatus and stopSearch.          *)

(* The events the client knows the fate of.                                *)
Known == {story[i] : i \in DOMAIN story} \cup announced

Connect(h) ==
  /\ watching /\ link = Nobody
  /\ \A g \in Handlers : g < h => at[g] # "off"  \* numbered as they are free
  /\ Move(h, "off", "poll")
  /\ link' = h
  /\ cursor' = [cursor EXCEPT ![h] = resume]
  /\ missed' = missed \cup (1 .. resume \ Known)
  /\ UNCHANGED <<searchVars, batch, watching, resume, story, announced, drops>>

(* The connection is lost, or the page closed.  The page does not          *)
(* reconnect after a loss while its own request to stop is under way, even *)
(* if that is refused.                                                     *)
Drop ==
  /\ link # Nobody /\ drops < MaxDrops
  /\ link' = Nobody
  /\ drops' = drops + 1
  /\ watching' \in {watching, FALSE}
  /\ UNCHANGED <<searchVars, handlerVars, resume, story, announced, missed>>

(* A status request answers with a terminal status: it reconnects no more, *)
(* and stays on the connection it has.                                     *)
LearnsTheEnd ==
  /\ watching /\ status = "ended"
  /\ watching' = FALSE
  /\ UNCHANGED <<searchVars, handlerVars, link, resume, story, announced, missed, drops>>

(* Its own request to stop is answered: the search has finished.           *)
StopSucceeds ==
  /\ watching /\ stopper = "done" /\ worker = "done"
  /\ watching' = FALSE
  /\ link' = Nobody
  /\ UNCHANGED <<searchVars, handlerVars, resume, story, announced, missed, drops>>
=============================================================================

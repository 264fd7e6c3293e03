--------------------------- MODULE PreviewStreamProps ---------------------------
(***************************************************************************)
(* What the two streams of a search, EventStream and PreviewStream, are    *)
(* checked for.                                                            *)
(***************************************************************************)
EXTENDS PreviewStream

(* Over any number of connections, however long they were down and however *)
(* much left the history meanwhile, the client gets the events in order,   *)
(* none twice, and is told of each that its handler passes over.  Since it *)
(* resumes a gap at the oldest event kept, as if it had that one already,  *)
(* it may miss one unawares each time its connection is lost, but no more. *)
NothingIsSkipped ==
  /\ \A i, j \in DOMAIN story : i < j => story[i] < story[j]
  /\ link # Nobody => 1 .. cursor[link] \subseteq Known \cup missed
  /\ Cardinality(missed) <= drops

(* A handler may see the terminal status after an answer that was empty    *)
(* too early, and close before the last events are out.  In the end there  *)
(* is nothing the client still has to be told, the late events included,   *)
(* unless it has given up and its connection is gone.                      *)
StoryReachesTheClient ==
  <>[](audience = "events" =>
         \/ 1 .. Seq0 \subseteq Known \cup missed
         \/ ~watching /\ link = Nobody)

(* Every handler and every stream of a search that is over comes to its    *)
(* end, those whose client left unnoticed too: no thread waits forever.    *)
StreamsEnd ==
  /\ \A h \in Handlers : (worker = "done") /\ (at[h] # "off") ~> (at[h] = "off")
  /\ \A v \in Viewers : (worker = "done") /\ (stream[v] # "off") ~> (stream[v] = "off")

(* A frame that was being encoded while stop() wiped is published after    *)
(* the wipe; it does not outlive the search all the same.                  *)
NoFrameOutlivesTheSearch == worker = "done" => ~jpeg

(* The worker encodes exactly for the streams that are open: none is       *)
(* counted after it ended, whichever way, and none is starved.             *)
ViewersAreCounted == viewers = Cardinality({v \in Viewers : stream[v] # "off"})

-----------------------------------------------------------------------------
(* service.py, after_with_meta: a client that replays can reconcile its    *)
(* cursor instead of silently assuming that the stream is complete.  It    *)
(* never asks to be spared an event that it was neither sent nor told of.  *)
StreamIsReconciled == missed = {}
=============================================================================

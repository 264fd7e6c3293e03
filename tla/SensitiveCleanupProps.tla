------------------------- MODULE SensitiveCleanupProps -------------------------
(***************************************************************************)
(* What SensitiveCleanup is checked for.                                   *)
(***************************************************************************)
EXTENDS SensitiveCleanup

Places == {"unborn", "setup", "busy", "exit", "dead", "idle", "wait", "stop", "look", "join",
           "mark", "claim", "drain", "conclude", "defer", "start", "published", "watch",
           "return"}

Frames == {Go(s) : s \in {"wait", "sweep", "recheck", "unlock", "cleanup", "finish"}}
            \cup {Retry(n) : n \in 1..Tries}

TypeOK ==
  /\ at \in [Threads -> Places]
  /\ calls \in [Threads -> Seq(Frames)]
  /\ pass \in [Threads -> [hand : BOOLEAN, kept : BOOLEAN, complete : BOOLEAN]]
  /\ starting \in [Threads -> Watchers \cup {None}]
  /\ {stop, finished, cleared, failed, gone, attached, detached, stopped, drained}
       \subseteq BOOLEAN
  /\ held \subseteq Buffers
  /\ slot \in {"empty", "reader", "pending"}
  /\ watcher \in Watchers \cup {None}
  /\ {lock, stopLock} \subseteq Threads \cup {None}
  /\ refusals \in 0..MaxRefusals

-----------------------------------------------------------------------------
(* The thread's pass has something left to put right: it holds the reader, *)
(* or has met a failure and will say so.                                   *)
Unsettled(a) ==
  at[a] \in {"stop", "look", "join", "mark", "drain", "conclude"}
    /\ (pass[a].hand \/ ~pass[a].complete)

(* The worker never looks at a frame with its gallery, or a part of its    *)
(* state, wiped under it.                                                  *)
WipedIsNeverUsed ==
  at[Worker] \in {"setup", "busy"} => {"gallery", "stores"} \subseteq held /\ ~detached

(* A reader that still captures or holds frames is in one field or in the  *)
(* hands of one pass, whatever failed: it is never lost and never claimed  *)
(* twice.                                                                  *)
ReaderIsNeverForgotten ==
  /\ ~Released => slot # "empty" \/ \E a \in Threads : pass[a].hand
  /\ \A a \in Threads : pass[a].hand =>
       slot = "empty" /\ \A b \in Threads \ {a} : ~pass[b].hand

(* _sensitive_cleared is the truth, but for a pass that is still busy and  *)
(* will correct it.                                                        *)
ClearedIsTrue ==
  cleared => \/ held = {} /\ Released
             \/ \E a \in Threads : Unsettled(a)

(* At most one watcher waits for the worker or retries.                    *)
OneWatcher == \A v, w \in Watchers : Running(v) /\ Running(w) => v = w

(* Nobody wants a lock that is held by someone who wants theirs, unless a  *)
(* watcher thread could not be started.                                    *)
LocksAreOrdered ==
  (\E a, b \in Threads :
     /\ lock = a /\ at[a] = "stop"
     /\ stopLock = b /\ at[b] \in {"look", "mark"} /\ a # b)
  => refusals > 0

-----------------------------------------------------------------------------
Resting ==
  /\ at[Worker] = "dead"
  /\ \A c \in Callers : at[c] = "idle" \/ Back(c)
  /\ \A w \in Watchers : ~Running(w)

(* When the worker is gone and nobody is busy with the cleanup any more,   *)
(* everything is released or the loss is on record; when a watcher could   *)
(* not be started, nothing is promised.                                    *)
SettledOrRecorded ==
  Resting => failed \/ (cleared /\ held = {} /\ Released) \/ refusals > 0
=============================================================================

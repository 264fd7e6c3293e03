---------------------------- MODULE EvidenceStore ----------------------------
(***************************************************************************)
(* The in-memory evidence store of one SearchSession (service.py): JPEGs   *)
(* of a confirmed target, kept until a consumer acknowledges them, their   *)
(* TTL passes, or the search's lifecycle wipes them.                       *)
(*                                                                         *)
(* Every action is one critical section of the session's RLock.  Time is   *)
(* counted in ticks and one clock stands for time.monotonic() and          *)
(* time.time().  The deadline timer is a thread: once its time has come it *)
(* runs and waits for the lock, and cancelling it then has no effect; its  *)
(* generation tells a stale callback from the current one.                 *)
(*                                                                         *)
(* The raw evidence_available bit of a confirmed result is left out: view  *)
(* and _refresh_evidence_availability recompute it from the store.         *)
(***************************************************************************)
EXTENDS Naturals, FiniteSets

CONSTANTS
  Evidence,      \* evidence ids (uuid4), each used for one confirmation
  Ttl,           \* settings.evidence_ttl_seconds
  MaxTime,       \* bound: the clock stops here
  MaxGeneration  \* bound: lifecycle wipes stop at this timer generation

ASSUME TtlAssumption == Ttl \in Nat \ {0}
ASSUME BoundAssumption == MaxTime \in Nat /\ MaxGeneration \in Nat

VARIABLES
  now,         \* the clock
  stop,        \* self._stop is set
  held,        \* keys of self._evidence: the bytes are in memory
  expiresAt,   \* item.expires_at of every id stored so far
  released,    \* keys of self._released_evidence
  discarded,   \* self._discarded_evidence
  results,     \* ids named by self._confirmed_results
  generation,  \* self._evidence_cleanup_generation
  timer,       \* generation of self._evidence_cleanup_timer, 0 for None
  deadline,    \* when that timer is due
  callbacks,   \* generations of timer threads waiting for the lock
  fate         \* history: what became of the bytes of each id

timerVars == <<generation, timer, deadline>>
vars == <<now, stop, held, expiresAt, released, discarded, results,
          timerVars, callbacks, fate>>

Fates == {"new", "held", "claimed", "expired", "wiped", "refused"}

(* Types, and what the two dictionaries are for: an id is never both held   *)
(* and acknowledged, and a timer that exists has a generation handed out.  *)
TypeOK ==
  /\ now \in Nat
  /\ stop \in BOOLEAN
  /\ held \subseteq Evidence
  /\ expiresAt \in [Evidence -> Nat]
  /\ released \subseteq Evidence
  /\ discarded \subseteq Evidence
  /\ results \subseteq Evidence
  /\ held \cap released = {}
  /\ generation \in Nat
  /\ timer \in 0 .. generation
  /\ deadline \in Nat
  /\ callbacks \subseteq 1 .. generation
  /\ fate \in [Evidence -> Fates]

Init ==
  /\ now = 0
  /\ stop = FALSE
  /\ held = {}
  /\ expiresAt = [e \in Evidence |-> 0]
  /\ released = {}
  /\ discarded = {}
  /\ results = {}
  /\ generation = 0
  /\ timer = 0
  /\ deadline = 0
  /\ callbacks = {}
  /\ fate = [e \in Evidence |-> "new"]

-----------------------------------------------------------------------------
(* Helpers.                                                                *)

Due(S) == {e \in S : expiresAt[e] <= now}

Settle(S, f) == [e \in Evidence |-> IF e \in S THEN f ELSE fate[e]]

(* _cleanup_expired_evidence_locked: expired bytes and tombstones go.      *)
DropExpired ==
  /\ held' = held \ Due(held)
  /\ released' = released \ Due(released)
  /\ fate' = Settle(Due(held), "expired")

(* _schedule_evidence_cleanup_locked over the deadlines of `ids`.          *)
Schedule(ids, expires) ==
  /\ generation' = generation + 1
  /\ \/ /\ ids = {}
        /\ timer' = 0
        /\ UNCHANGED deadline
     \/ /\ timer' = generation + 1
        /\ \E e \in ids : /\ \A f \in ids : expires[e] <= expires[f]
                          /\ deadline' = expires[e]

-----------------------------------------------------------------------------
(* What the evidence endpoints answer in the current state.                *)

(* _raise_missing_evidence_locked, for an id that is not in the store.     *)
MissingAnswer(e) ==
  IF e \in discarded THEN "evidence_discarded"
  ELSE IF e \notin results THEN "evidence_not_found"
  ELSE IF Due({e}) # {} THEN "evidence_expired" ELSE "evidence_released"

(* GET .../evidence/{e} and DELETE .../evidence/{e}.                       *)
GetAnswer(e) ==
  IF e \in held \ Due(held) /\ ~stop THEN "ok" ELSE MissingAnswer(e)

DeleteAnswer(e) ==
  IF e \in (held \ Due(held)) \cup (released \ Due(released))
  THEN "no_content" ELSE MissingAnswer(e)

-----------------------------------------------------------------------------
(* The worker's side of a confirmation.                                    *)

(* _store_evidence: keep the encoded frame and crop, start its TTL.  The   *)
(* stop flag is not consulted.                                             *)
StoreEvidence(e) ==
  /\ fate[e] = "new"
  /\ now + Ttl <= MaxTime
  /\ held' = held \cup {e}
  /\ expiresAt' = [expiresAt EXCEPT ![e] = now + Ttl]
  /\ fate' = Settle({e}, "held")
  /\ Schedule(held' \cup released, expiresAt')
  /\ UNCHANGED <<now, stop, released, discarded, results, callbacks>>

(* _handle_decisions appends the confirmed result that names the id and    *)
(* publishes it: consumers know the id from here on.                       *)
RecordResult(e) ==
  /\ fate[e] # "new"
  /\ e \notin results
  /\ results' = results \cup {e}
  /\ UNCHANGED <<now, stop, held, expiresAt, released, discarded, generation,
                 timer, deadline, callbacks, fate>>

-----------------------------------------------------------------------------
(* The consumer's requests, for ids it has learned from a result.          *)

(* get_evidence: after stop is set the bytes are refused, and dropped.     *)
GetEvidence(e) ==
  /\ e \in results
  /\ \/ ~stop /\ DropExpired
     \/ /\ stop
        /\ held' = (held \ Due(held)) \ {e}
        /\ released' = released \ Due(released)
        /\ fate' = [f \in Evidence |-> IF f = e /\ e \in held \ Due(held)
                                       THEN "refused"
                                       ELSE Settle(Due(held), "expired")[f]]
  /\ UNCHANGED <<now, stop, expiresAt, discarded, results, callbacks, timerVars>>

(* A first acknowledgement: the rest of the store is `kept`, a tombstone   *)
(* stays until the item's own deadline, the timer covers `ids`.            *)
Acknowledge(e, kept, ids) ==
  /\ e \in held \ Due(held)
  /\ held' = kept
  /\ released' = (released \ Due(released)) \cup {e}
  /\ fate' = [Settle(Due(held), "expired") EXCEPT ![e] = "claimed"]
  /\ Schedule(ids, expiresAt)

(* A repeated or late one: at most a tombstone is found.                   *)
AcknowledgeAgain(e) ==
  /\ e \notin held \ Due(held)
  /\ DropExpired
  /\ UNCHANGED timerVars

Release(e, kept, ids) ==
  /\ e \in results
  /\ Acknowledge(e, kept, ids) \/ AcknowledgeAgain(e)
  /\ UNCHANGED <<now, stop, expiresAt, discarded, results, callbacks>>

(* Slip: the new tombstone has no timer.                                   *)
ReleaseForgetsTombstone(e) ==
  Release(e, (held \ Due(held)) \ {e}, (held \ Due(held)) \ {e})

(* release_evidence.                                                       *)
ReleaseEvidence(e) ==
  Release(e, (held \ Due(held)) \ {e},
             (held \ Due(held)) \cup (released \ Due(released)) \cup {e})

(* view: reading the search drops what has expired.                        *)
View ==
  /\ DropExpired
  /\ UNCHANGED <<now, stop, expiresAt, discarded, results, callbacks, timerVars>>

(* cleanup_expired_evidence, the manager's janitor path.                   *)
CleanupExpiredEvidence ==
  /\ DropExpired
  /\ IF timer = 0 /\ held' \cup released' # {}
     THEN Schedule(held' \cup released', expiresAt)
     ELSE UNCHANGED timerVars
  /\ UNCHANGED <<now, stop, expiresAt, discarded, results, callbacks>>

-----------------------------------------------------------------------------
(* The lifecycle's side.                                                   *)

(* stop(), first statement: the flag is set outside the lock.              *)
SetStop ==
  /\ ~stop
  /\ stop' = TRUE
  /\ UNCHANGED <<now, held, expiresAt, released, discarded, results,
                 timerVars, callbacks, fate>>

(* The bytes and tombstones go, the timer is cancelled, `gone` are the     *)
(* ids remembered as discarded.                                            *)
Wipe(gone) ==
  /\ generation < MaxGeneration
  /\ discarded' = gone
  /\ held' = {}
  /\ released' = {}
  /\ generation' = generation + 1
  /\ timer' = 0
  /\ fate' = Settle(held, "wiped")
  /\ UNCHANGED <<now, stop, expiresAt, results, deadline, callbacks>>

(* Slips: ids noted after the store was emptied; earlier wipes overwritten. *)
WipeNotedTooLate == Wipe(discarded)
WipeOverwrites == Wipe(held)

(* clear_evidence: stop, a failed, stopped or timed-out transition, a      *)
(* repeated DELETE and shutdown all wipe what is held and remember it.     *)
ClearEvidence == Wipe(discarded \cup held)

-----------------------------------------------------------------------------
(* Time and the deadline timer.                                            *)

Tick ==
  /\ now < MaxTime
  /\ now' = now + 1
  /\ UNCHANGED <<stop, held, expiresAt, released, discarded, results,
                 timerVars, callbacks, fate>>

(* The current timer's delay is over: its thread runs and asks for the     *)
(* lock.  From here on cancel() comes too late.                            *)
TimerFires ==
  /\ timer # 0
  /\ timer \notin callbacks
  /\ deadline <= now
  /\ callbacks' = callbacks \cup {timer}
  /\ UNCHANGED <<now, stop, held, expiresAt, released, discarded, results,
                 timerVars, fate>>

(* A timer thread got the lock; a stale one leaves `t` as the timer.       *)
RunCallback(g, t) ==
  /\ g \in callbacks
  /\ callbacks' = callbacks \ {g}
  /\ \/ /\ g # generation
        /\ timer' = t
        /\ UNCHANGED <<held, released, fate, generation, deadline>>
     \/ /\ g = generation
        /\ DropExpired
        /\ Schedule(held' \cup released', expiresAt)
  /\ UNCHANGED <<now, stop, expiresAt, discarded, results>>

(* Slip: the reference is reset before the generation is compared.         *)
RunResetsTimerFirst(g) == RunCallback(g, 0)

(* _run_evidence_cleanup(g): a stale generation returns at once.           *)
RunEvidenceCleanup(g) == RunCallback(g, timer)

Next ==
  \/ \E e \in Evidence : \/ StoreEvidence(e)
                         \/ RecordResult(e)
                         \/ GetEvidence(e)
                         \/ ReleaseEvidence(e)
  \/ View
  \/ CleanupExpiredEvidence
  \/ SetStop
  \/ ClearEvidence
  \/ Tick
  \/ TimerFires
  \/ \E g \in callbacks : RunEvidenceCleanup(g)

(* The clock runs, a due timer starts its thread, and the thread gets the  *)
(* lock; consumers and the lifecycle need never act.                       *)
Fairness ==
  /\ WF_vars(Tick)
  /\ WF_vars(TimerFires)
  /\ WF_vars(\E g \in callbacks : RunEvidenceCleanup(g))

Spec == Init /\ [][Next]_vars /\ Fairness
=============================================================================

-------------------------- MODULE SourceEpochsProofs --------------------------
(***************************************************************************)
(* Proofs about SourceEpochs, for any queue size, any number of losses and *)
(* any number of persons.                                                  *)
(***************************************************************************)
EXTENDS SourceEpochsProps, TLAPS

(* What TypeOK needs to be kept: the session has counted every loss the    *)
(* reader has counted, but for the one it is about to announce; and the    *)
(* reader only decodes a frame when the queue has room for it.             *)
CountsAgree ==
  /\ readerEpoch = sessionEpoch + (IF reader = "announce" THEN 1 ELSE 0)
  /\ reader = "read" => Len(queue) < QueueSize

(* The frame in hand is of the connection the worker searched last.        *)
InHand == worker # "get" => packet = seen

IInv == TypeOK /\ CountsAgree /\ InHand /\ MemoryIsOfOneConnection

-----------------------------------------------------------------------------
(* What a step of the queue leaves a queue of connections.                 *)
LEMMA Shorter ==
  ASSUME NEW q \in Seq(Epochs), q # <<>>
  PROVE  Head(q) \in Epochs /\ Tail(q) \in Seq(Epochs) /\ Len(Tail(q)) = Len(q) - 1
  OBVIOUS

LEMMA Longer ==
  ASSUME NEW q \in Seq(Epochs), NEW e \in Epochs
  PROVE  Append(q, e) \in Seq(Epochs) /\ Len(Append(q, e)) = Len(q) + 1
  OBVIOUS

LEMMA InitInv == Init => IInv
<1> SUFFICES ASSUME Init PROVE IInv
  OBVIOUS
<1> USE SizesAssumption DEF Init
<1>1. <<>> \in Seq(Epochs) /\ Len(<<>>) = 0
  OBVIOUS
<1>2. 0 \in Epochs /\ 1 \in 1 .. MaxId + 1 /\ Len(<<>>) <= QueueSize
  BY <1>1 DEF Epochs
<1>3. TypeOK
  BY <1>1, <1>2 DEF TypeOK
<1>4. CountsAgree /\ InHand /\ MemoryIsOfOneConnection
  BY <1>1 DEF CountsAgree, InHand, MemoryIsOfOneConnection
<1> QED BY <1>3, <1>4 DEF IInv

(* The reader does not touch what the worker remembers.                    *)
LEMMA ReaderKeepsInv == IInv /\ ReaderStep => IInv'
<1> SUFFICES ASSUME IInv, ReaderStep PROVE IInv'
  OBVIOUS
<1> USE SizesAssumption DEF IInv
<1>0. UNCHANGED <<worker, packet, seen, nextId, tracks, evidence, marks>>
  BY DEF ReaderStep, memory
<1>1. InHand' /\ MemoryIsOfOneConnection'
  BY <1>0 DEF InHand, MemoryIsOfOneConnection
<1>2. /\ worker' \in {"get", "look", "embed"}
      /\ packet' \in Epochs /\ seen' \in Epochs \cup {NotYet}
      /\ nextId' \in 1 .. MaxId + 1
      /\ tracks' \subseteq Persons /\ evidence' \subseteq Persons /\ marks' \subseteq Persons
  BY <1>0 DEF TypeOK
<1> DEFINE ReaderTyped ==
      /\ queue' \in Seq(Epochs) /\ Len(queue') <= QueueSize
      /\ readerEpoch' \in Epochs /\ sessionEpoch' \in Epochs
      /\ lost' \in BOOLEAN
      /\ reader' \in {"open", "top", "grab", "read", "announce", "flush"}
<1>3. Len(queue) \in Nat
  BY DEF TypeOK
<1>4. CASE Announces
  <2>1. UNCHANGED <<queue, readerEpoch, lost>> /\ sessionEpoch' = sessionEpoch + 1
        /\ reader = "announce" /\ reader' = "flush"
    BY <1>4 DEF Announces
  <2>2. sessionEpoch' = readerEpoch
    BY <2>1 DEF TypeOK, CountsAgree, Epochs
  <2>3. ReaderTyped
    BY <2>1, <2>2 DEF TypeOK
  <2>4. CountsAgree'
    BY <2>1, <2>2 DEF CountsAgree, TypeOK, Epochs
  <2> QED BY <1>1, <1>2, <2>3, <2>4 DEF TypeOK
<1>5. CASE Opens \/ FindsClosed \/ Decides
  <2>1. UNCHANGED <<queue, readerEpoch, lost, sessionEpoch>>
    BY <1>5 DEF Opens, FindsClosed, Decides, ReaderStep, Announces
  <2>2. reader' \in {"open", "top", "grab", "read"} /\ reader # "announce"
    BY <1>5 DEF Opens, FindsClosed, Decides
  <2>3. reader' = "read" => Len(queue) < QueueSize
    BY <1>3, <1>5 DEF Opens, FindsClosed, Decides, TypeOK
  <2>4. ReaderTyped
    BY <2>1, <2>2 DEF TypeOK
  <2>5. CountsAgree'
    BY <2>1, <2>2, <2>3 DEF CountsAgree
  <2> QED BY <1>1, <1>2, <2>4, <2>5 DEF TypeOK
<1>6. CASE Evicts \/ Reads \/ Flushes
  <2>1. UNCHANGED <<readerEpoch, sessionEpoch>>
    BY <1>6 DEF Evicts, Reads, Flushes, ReaderStep, Announces
  <2>2. reader' \in {"top", "open", "flush"} /\ reader # "announce" /\ lost' \in BOOLEAN
    BY <1>6 DEF Evicts, Reads, Flushes, TypeOK
  <2>3. queue' \in Seq(Epochs) /\ Len(queue') <= QueueSize
    <3>1. CASE Reads
      BY <1>3, <3>1, Longer DEF Reads, TypeOK, CountsAgree
    <3>2. CASE Evicts \/ Flushes
      <4>1. queue' = queue \/ (queue # <<>> /\ queue' = Tail(queue))
        BY <3>2 DEF Evicts, Flushes
      <4>2. queue \in Seq(Epochs) /\ Len(queue) <= QueueSize
        BY DEF TypeOK
      <4> QED BY <1>3, <4>1, <4>2, Shorter
    <3> QED BY <1>6, <3>1, <3>2
  <2>4. ReaderTyped
    BY <2>1, <2>2, <2>3 DEF TypeOK
  <2>5. CountsAgree'
    BY <2>1, <2>2 DEF CountsAgree
  <2> QED BY <1>1, <1>2, <2>4, <2>5 DEF TypeOK
<1>7. CASE Fails
  <2>1. UNCHANGED <<queue, lost, sessionEpoch>> /\ reader # "announce"
    BY <1>7 DEF Fails, ReaderStep, Announces
  <2>2. \/ reader' = "open" /\ readerEpoch' = readerEpoch
        \/ reader' = "announce" /\ readerEpoch < MaxLosses /\ readerEpoch' = readerEpoch + 1
    BY <1>7 DEF Fails
  <2>3. ReaderTyped
    BY <2>1, <2>2 DEF TypeOK, Epochs
  <2>4. CountsAgree'
    BY <2>1, <2>2 DEF CountsAgree, TypeOK, Epochs
  <2> QED BY <1>1, <1>2, <2>3, <2>4 DEF TypeOK
<1> QED BY <1>4, <1>5, <1>6, <1>7 DEF ReaderStep

-----------------------------------------------------------------------------
(* A frame is taken: either it is of the connection searched last, or      *)
(* everything is forgotten.                                                *)
LEMMA TakeFrameKeepsInv == IInv /\ TakeFrame => IInv'
<1> SUFFICES ASSUME IInv, TakeFrame PROVE IInv'
  OBVIOUS
<1> USE DEF IInv
<1>1. /\ queue' = Tail(queue) /\ queue # <<>>
      /\ packet' = Head(queue) /\ seen' = packet'
      /\ UNCHANGED <<readerEpoch, lost, reader, sessionEpoch>>
      /\ worker' = "look"
  BY DEF TakeFrame, Labelled
<1>2. packet' \in Epochs /\ queue' \in Seq(Epochs) /\ Len(queue') = Len(queue) - 1
  BY <1>1, Shorter DEF TypeOK
<1>3. Len(queue') <= QueueSize /\ (Len(queue) < QueueSize => Len(queue') < QueueSize)
  BY <1>2, SizesAssumption DEF TypeOK
<1>4. CASE packet' = seen
  <2>1. UNCHANGED <<seen, nextId, tracks, evidence, marks>>
    BY <1>1, <1>4 DEF TakeFrame, memory
  <2> QED BY <1>1, <1>2, <1>3, <2>1
          DEF TypeOK, CountsAgree, InHand, MemoryIsOfOneConnection
<1>5. CASE packet' # seen
  <2>1. nextId' = 1 /\ tracks' = {} /\ evidence' = {} /\ marks' = {}
    BY <1>1, <1>5 DEF TakeFrame, ForgetPersons
  <2>2. nextId' \in 1 .. MaxId + 1
    BY <2>1, SizesAssumption
  <2>3. TypeOK'
    BY <1>1, <1>2, <1>3, <2>1, <2>2 DEF TypeOK
  <2>4. CountsAgree' /\ InHand' /\ MemoryIsOfOneConnection'
    BY <1>1, <1>3, <2>1 DEF CountsAgree, InHand, MemoryIsOfOneConnection
  <2> QED BY <2>3, <2>4
<1> QED BY <1>4, <1>5

(* Those the tracker numbers now get the next numbers, under the           *)
(* connection of the frame in hand.                                        *)
LEMMA LooksKeepsInv == IInv /\ Looks => IInv'
<1> SUFFICES ASSUME IInv, Looks PROVE IInv'
  OBVIOUS
<1> USE DEF IInv
<1>1. UNCHANGED <<queue, readerEpoch, lost, reader, sessionEpoch, packet, seen, evidence>>
      /\ worker' = "embed" /\ packet = seen
  BY DEF Looks, readerVars, InHand
<1>2. PICK kept \in SUBSET tracks, n \in 0 .. MaxId + 1 - nextId :
        tracks' = Tracked(kept, n) /\ nextId' = nextId + n
  BY DEF Looks
<1>3. PICK noted \in SUBSET tracks', left \in SUBSET (marks \ tracks') :
        marks' = (marks \ left) \cup noted
  BY DEF Looks
<1>4. nextId \in Nat /\ n \in Nat /\ nextId' \in 1 .. MaxId + 1 /\ nextId <= nextId'
  BY <1>2, SizesAssumption DEF TypeOK
<1>5. \A p \in tracks' : p \in Persons /\ p[2] = seen /\ p[1] < nextId'
  <2> SUFFICES ASSUME NEW p \in tracks'
               PROVE  p \in Persons /\ p[2] = seen /\ p[1] < nextId'
    OBVIOUS
  <2>1. CASE p \in kept
    <3>1. p \in Persons /\ p[2] = seen /\ p[1] < nextId
      BY <1>2, <2>1 DEF MemoryIsOfOneConnection, TypeOK
    <3>2. p[1] \in Nat
      BY <3>1, SizesAssumption DEF Persons
    <3> QED BY <1>4, <3>1, <3>2
  <2>2. CASE p \notin kept
    <3>1. PICK i \in nextId .. nextId + n - 1 : p = <<i, packet>>
      BY <1>2, <2>2 DEF Tracked
    <3>2. i \in 1 .. MaxId /\ i < nextId'
      BY <1>2, <1>4, <3>1, SizesAssumption DEF TypeOK
    <3> QED BY <1>1, <3>1, <3>2 DEF Persons, TypeOK
  <2> QED BY <2>1, <2>2
<1>6. \A p \in marks' \cup evidence' : p \in Persons /\ p[2] = seen /\ p[1] < nextId'
  <2> SUFFICES ASSUME NEW p \in marks' \cup evidence', p \notin tracks'
               PROVE  p \in Persons /\ p[2] = seen /\ p[1] < nextId'
    BY <1>5
  <2>1. p \in marks \cup evidence
    BY <1>1, <1>3
  <2>2. p \in Persons /\ p[2] = seen /\ p[1] < nextId
    BY <2>1 DEF MemoryIsOfOneConnection, TypeOK
  <2>3. p[1] \in Nat
    BY <2>2, SizesAssumption DEF Persons
  <2> QED BY <1>4, <2>2, <2>3
<1>7. TypeOK'
  BY <1>1, <1>4, <1>5, <1>6 DEF TypeOK
<1>8. CountsAgree' /\ InHand' /\ MemoryIsOfOneConnection'
  BY <1>1, <1>5, <1>6 DEF CountsAgree, InHand, MemoryIsOfOneConnection
<1> QED BY <1>7, <1>8

LEMMA CommitsKeepsInv == IInv /\ (Abandons \/ Commits) => IInv'
<1> SUFFICES ASSUME IInv, Abandons \/ Commits PROVE IInv'
  OBVIOUS
<1> USE DEF IInv
<1>1. UNCHANGED <<queue, readerEpoch, lost, reader, sessionEpoch, packet, seen, nextId, tracks>>
      /\ worker' = "get"
  BY DEF Abandons, Commits, readerVars, memory
<1>2. evidence' \cup marks' \subseteq evidence \cup marks \cup tracks
  <2>1. CASE Abandons
    BY <2>1 DEF Abandons, memory
  <2>2. CASE Commits
    <3>1. evidence' \subseteq evidence \cup tracks
      BY <2>2 DEF Commits
    <3>2. marks' \subseteq marks \cup evidence'
      BY <2>2 DEF Commits
    <3> QED BY <3>1, <3>2
  <2> QED BY <2>1, <2>2
<1>3. TypeOK'
  BY <1>1, <1>2 DEF TypeOK
<1>4. CountsAgree' /\ InHand' /\ MemoryIsOfOneConnection'
  BY <1>1, <1>2 DEF CountsAgree, InHand, MemoryIsOfOneConnection
<1> QED BY <1>3, <1>4

LEMMA NextInv == IInv /\ [Next]_vars => IInv'
<1> SUFFICES ASSUME IInv, [Next]_vars PROVE IInv'
  OBVIOUS
<1>1. CASE UNCHANGED vars
  BY <1>1 DEF IInv, TypeOK, CountsAgree, InHand, MemoryIsOfOneConnection, vars, readerVars,
      memory
<1> QED BY <1>1, ReaderKeepsInv, TakeFrameKeepsInv, LooksKeepsInv, CommitsKeepsInv
        DEF Next, WorkerStep

LEMMA InvHolds == Spec => []IInv
BY InitInv, NextInv, PTL DEF Spec

-----------------------------------------------------------------------------
(* The type invariant, for any queue size and any number of losses.        *)
THEOREM TypeCorrect == Spec => []TypeOK
<1>1. IInv => TypeOK
  BY DEF IInv
<1> QED BY <1>1, InvHolds, PTL

(* Whatever is remembered of persons is of one connection: the boundary    *)
(* _reset_temporal_state draws holds between any two frames.               *)
THEOREM NothingCrossesAReconnect == Spec => []MemoryIsOfOneConnection
<1>1. IInv => MemoryIsOfOneConnection
  BY DEF IInv
<1> QED BY <1>1, InvHolds, PTL

(* The reader's count of lost connections, which frames carry, and the     *)
(* session's, against which they are judged, never drift apart.            *)
THEOREM CountsNeverDrift == Spec => []CountsAgree
<1>1. IInv => CountsAgree
  BY DEF IInv
<1> QED BY <1>1, InvHolds, PTL
=============================================================================

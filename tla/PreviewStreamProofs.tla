-------------------------- MODULE PreviewStreamProofs --------------------------
(***************************************************************************)
(* Proofs about EventStream and PreviewStream, for any size of the hub's   *)
(* window, any number of events, handlers, viewers and lost connections.   *)
(***************************************************************************)
EXTENDS PreviewStreamProps, FiniteSetTheorems, SequenceTheorems, TLAPS

Kinds == {"news", "stopping", "terminal", "outcome"}
Places == {"off", "poll", "waiting", "gap", "send", "check"}

(* What a search has said, what handlers work on and what the client knows *)
(* is about events that were published.                                    *)
Published ==
  /\ log \in Seq(Kinds)
  /\ at \in [Handlers -> Places]
  /\ cursor \in [Handlers -> 0 .. Seq0]
  /\ batch \in [Handlers -> (0 .. Seq0) \X (0 .. Seq0)]
  /\ link \in Handlers \cup {Nobody}
  /\ link # Nobody => at[link] # "off"
  /\ resume \in 0 .. Seq0
  /\ story \in Seq(Nat)
  /\ announced \subseteq 1 .. Seq0
  /\ missed \subseteq 1 .. Seq0
  /\ drops \in 0 .. MaxDrops

(* A batch goes on where the handler's cursor is, a gap begins behind it.  *)
Sending ==
  \A h \in Handlers :
    /\ at[h] = "send" => batch[h][1] <= cursor[h] + 1 /\ cursor[h] < batch[h][2]
    /\ at[h] = "gap" => cursor[h] + 1 < batch[h][1]

StreamInv == Published /\ Sending

(* The client is as far as the handler it is connected to, or one ahead of *)
(* it after a gap, which no handler that found nothing new has left open.  *)
Resumes ==
  link # Nobody =>
    /\ resume \in {cursor[link], cursor[link] + 1}
    /\ at[link] \in {"waiting", "check"} => resume = cursor[link]
    /\ 1 .. cursor[link] \subseteq Known \cup missed

(* What it would ask to be spared unawares if it connected now: each loss  *)
(* of a connection has added one at the most.                              *)
Unaware == missed \cup (1 .. resume \ Known)
FewAreMissed ==
  /\ Cardinality(missed) <= drops
  /\ link = Nobody /\ watching => Cardinality(Unaware) <= drops

(* What the client received came in order.                                 *)
Ascending ==
  /\ \A i \in DOMAIN story : story[i] <= resume
  /\ link # Nobody => \A i \in DOMAIN story : story[i] <= cursor[link]
  /\ \A i, j \in DOMAIN story : i < j => story[i] < story[j]

ClientInv == Resumes /\ FewAreMissed /\ Ascending

-----------------------------------------------------------------------------
(* What a step may do to the events and who is told of them.               *)
Speaks ==
  /\ UNCHANGED <<handlerVars, clientVars>>
  /\ \/ UNCHANGED log
     \/ \E kind \in Kinds : log' = Append(log, kind)

StreamStep ==
  \/ Speaks
  \/ \E h \in Handlers : Handle(h) \/ Connect(h)
  \/ Drop
  \/ LearnsTheEnd
  \/ StopSucceeds

LEMMA StepsOfTheStream == [Next]_vars => StreamStep
<1> SUFFICES ASSUME [Next]_vars PROVE StreamStep
  OBVIOUS
<1> USE DEF StreamStep
<1>1. CASE UNCHANGED vars
  BY <1>1 DEF vars, streamVars, searchVars, Speaks
<1>2. CASE Search
  <2>1. CASE PublishNews
    BY <2>1 DEF PublishNews, Publish, Speaks, Kinds
  <2>2. CASE EndSearch
    BY <2>2 DEF EndSearch, Speaks
  <2>3. CASE Announce
    BY <2>3 DEF Announce, Publish, Speaks, Kinds
  <2>4. CASE PublishOutcome
    BY <2>4 DEF PublishOutcome, Publish, Speaks, Kinds
  <2>5. CASE WipeAtEnd
    BY <2>5 DEF WipeAtEnd, Speaks
  <2>6. CASE Finalize
    BY <2>6 DEF Finalize, Speaks
  <2> QED BY <1>2, <2>1, <2>2, <2>3, <2>4, <2>5, <2>6 DEF Search, FinalizeAndClear
<1>3. CASE Stop
  <2>1. CASE StopWipes
    BY <2>1 DEF StopWipes, Speaks
  <2>2. CASE MarkStopping
    BY <2>2 DEF MarkStopping, Speaks
  <2>3. CASE SayStopping
    BY <2>3 DEF SayStopping, Publish, Speaks, Kinds
  <2> QED BY <1>3, <2>1, <2>2, <2>3 DEF Stop
<1>4. CASE StartEncoding \/ EndEncoding \/ \E v \in Viewers : Subscribe(v) \/ Show(v) \/ HangUp(v)
  <2>1. UNCHANGED streamVars
    BY <1>4 DEF StartEncoding, EndEncoding, Subscribe, Show, HangUp, PollFrame, WakeViewer,
                YieldFrame, ReturnOrPoll
  <2> QED BY <2>1 DEF streamVars, searchVars, Speaks
<1>5. CASE (\E h \in Handlers : Handling(h)) \/ Connecting \/ Leaving
  BY <1>5 DEF Handling, Connecting, Leaving
<1> QED BY <1>1, <1>2, <1>3, <1>4, <1>5 DEF Next

LEMMA LogGrows ==
  ASSUME NEW said \in Seq(Kinds), NEW kind \in Kinds
  PROVE  /\ Append(said, kind) \in Seq(Kinds)
         /\ Len(said) \in Nat
         /\ Len(Append(said, kind)) = Len(said) + 1
  OBVIOUS

-----------------------------------------------------------------------------
(* The hub's answers.                                                      *)

(* A gap begins behind the cursor and ends within what was published.      *)
LEMMA GapsAreReal ==
  ASSUME Seq0 \in Nat, NEW c \in 0 .. Seq0, Gap(c)
  PROVE  Oldest \in 0 .. Seq0 /\ c + 1 < Oldest
  BY StreamAssumption DEF Gap, Oldest

(* What is newer begins where the cursor is, or before.                    *)
LEMMA NewsAreNext ==
  ASSUME Seq0 \in Nat, NEW c \in 0 .. Seq0, ~Gap(c), Newer(c) # {}
  PROVE  Oldest \in 0 .. Seq0 /\ Oldest <= c + 1 /\ c < Seq0
  BY StreamAssumption DEF Gap, Oldest, Newer

(* Nothing is newer than the cursor only if it is at the last event.       *)
LEMMA NoNewsAtTheEnd ==
  ASSUME Seq0 \in Nat, NEW c \in 0 .. Seq0, Newer(c) = {}
  PROVE  c = Seq0
<1>1. c < Seq0 => Seq0 \in Oldest .. Seq0 /\ Seq0 > c
  BY StreamAssumption DEF Oldest
<1> QED BY <1>1 DEF Newer

LEMMA AnswersKeepInv ==
  ASSUME StreamInv, NEW h \in Handlers, NEW from \in Places, Answer(h, from),
         UNCHANGED <<log, cursor, clientVars>>
  PROVE  StreamInv'
<1> USE DEF StreamInv, clientVars
<1>0. Seq0 \in Nat /\ Seq0' = Seq0 /\ cursor[h] \in 0 .. Seq0
  BY DEF Published, Seq0
<1>1. /\ at' = [at EXCEPT ![h] = at'[h]] /\ at'[h] \in {"gap", "send", "check"}
      /\ batch' = [batch EXCEPT ![h] = batch'[h]]
      /\ batch'[h] \in (0 .. Seq0) \X (0 .. Seq0)
      /\ at'[h] = "send" => batch'[h][1] <= cursor[h] + 1 /\ cursor[h] < batch'[h][2]
      /\ at'[h] = "gap" => cursor[h] + 1 < batch'[h][1]
  <2>1. CASE Gap(cursor[h])
    <3>1. Oldest \in 0 .. Seq0 /\ cursor[h] + 1 < Oldest
      BY <1>0, <2>1, GapsAreReal
    <3> QED BY <2>1, <3>1 DEF Answer, Move, Published
  <2>2. CASE ~Gap(cursor[h]) /\ Newer(cursor[h]) # {}
    <3>1. Oldest \in 0 .. Seq0 /\ Oldest <= cursor[h] + 1 /\ cursor[h] < Seq0
      BY <1>0, <2>2, NewsAreNext
    <3> QED BY <1>0, <2>2, <3>1 DEF Answer, Move, Published
  <2>3. CASE ~Gap(cursor[h]) /\ Newer(cursor[h]) = {}
    BY <1>0, <2>3 DEF Answer, Move, Published
  <2> QED BY <2>1, <2>2, <2>3
<1>2. Published'
  BY <1>0, <1>1 DEF Published, Places
<1>3. Sending'
  BY <1>0, <1>1 DEF Sending, Published
<1> QED BY <1>2, <1>3

-----------------------------------------------------------------------------
(* Each kind of step keeps what was published and what is being sent.      *)

LEMMA InitStreamInv == Init => StreamInv
<1> SUFFICES ASSUME StreamInit PROVE StreamInv
  BY DEF Init
<1>1. <<>> \in Seq(Kinds) /\ <<>> \in Seq(Nat) /\ Len(<<>>) = 0
  OBVIOUS
<1> QED
  BY <1>1, StreamAssumption DEF StreamInit, StreamInv, Published, Sending, Seq0, Idle, Places

LEMMA SpeakingKeepsInv == StreamInv /\ Speaks => StreamInv'
<1> SUFFICES ASSUME StreamInv, Speaks PROVE StreamInv'
  OBVIOUS
<1> USE DEF StreamInv, Speaks, handlerVars, clientVars
<1>1. log' \in Seq(Kinds) /\ Seq0 \in Nat /\ Seq0' \in Nat /\ Seq0 <= Seq0'
  <2>1. log \in Seq(Kinds) /\ Len(log) \in Nat
    BY DEF Published
  <2>2. CASE log' = log
    BY <2>1, <2>2 DEF Seq0
  <2>3. CASE \E kind \in Kinds : log' = Append(log, kind)
    BY <2>1, <2>3, LogGrows DEF Seq0
  <2> QED BY <2>2, <2>3
<1>2. 0 .. Seq0 \subseteq 0 .. Seq0' /\ 1 .. Seq0 \subseteq 1 .. Seq0'
  BY <1>1
<1>3. Published'
  BY <1>1, <1>2 DEF Published
<1>4. Sending'
  BY DEF Sending
<1> QED BY <1>3, <1>4

LEMMA PollsKeepInv ==
  ASSUME StreamInv, NEW h \in Handlers, Poll(h) \/ Wake(h)
  PROVE  StreamInv'
<1>1. UNCHANGED <<log, cursor, clientVars>>
  BY DEF Poll, Wake, searchVars
<1>2. CASE \E from \in Places : Answer(h, from)
  BY <1>1, <1>2, AnswersKeepInv
<1>3. CASE Move(h, "poll", "waiting") /\ UNCHANGED batch
  <2>1. Published' /\ Sending'
    BY <1>1, <1>3 DEF Move, StreamInv, Published, Sending, Seq0, Places, clientVars
  <2> QED BY <2>1 DEF StreamInv
<1> QED BY <1>2, <1>3 DEF Poll, Wake, Places

LEMMA SendEventKeepsInv ==
  ASSUME StreamInv, NEW h \in Handlers, SendEvent(h)
  PROVE  StreamInv'
<1> USE DEF StreamInv
<1> DEFINE seq == IF cursor[h] < batch[h][1] THEN batch[h][1] ELSE cursor[h] + 1
<1>0. /\ at[h] = "send" /\ UNCHANGED <<log, link, announced, missed, drops>>
      /\ Seq0 \in Nat /\ Seq0' = Seq0
      /\ cursor[h] \in 0 .. Seq0
      /\ batch[h] \in (0 .. Seq0) \X (0 .. Seq0)
      /\ batch[h][1] <= cursor[h] + 1 /\ cursor[h] < batch[h][2]
  BY DEF SendEvent, Move, searchVars, Published, Sending, Seq0
<1>1. seq = cursor[h] + 1 /\ seq \in 0 .. Seq0
  BY <1>0
<1>2. /\ cursor' = [cursor EXCEPT ![h] = seq]
      /\ at' = [at EXCEPT ![h] = at'[h]] /\ at'[h] \in {"send", "poll"}
      /\ batch' = [batch EXCEPT ![h] = batch'[h]]
      /\ batch'[h] \in {batch[h], Idle}
      /\ at'[h] = "send" => batch'[h] = batch[h] /\ seq # batch[h][2]
      /\ \/ story' = Append(story, seq) /\ resume' \in {seq, resume}
         \/ UNCHANGED <<story, resume>>
  BY DEF SendEvent, Receive, Move, Published
<1>3. story' \in Seq(Nat) /\ resume' \in 0 .. Seq0
  <2> HIDE DEF seq
  <2>1. seq \in Nat /\ story \in Seq(Nat)
    BY <1>0, <1>1 DEF Published
  <2>2. Append(story, seq) \in Seq(Nat)
    BY <2>1, AppendProperties
  <2> QED BY <1>1, <1>2, <2>2 DEF Published
<1>4. batch'[h] \in (0 .. Seq0) \X (0 .. Seq0)
  BY <1>0, <1>2 DEF Idle
<1>5. Published'
  BY <1>0, <1>1, <1>2, <1>3, <1>4 DEF Published, Places
<1>6. Sending'
  BY <1>0, <1>1, <1>2 DEF Sending, Published
<1> QED BY <1>5, <1>6

LEMMA SendGapKeepsInv ==
  ASSUME StreamInv, NEW h \in Handlers, SendGap(h)
  PROVE  StreamInv'
<1> USE DEF StreamInv
<1>0. /\ at[h] = "gap" /\ UNCHANGED <<log, link, story, missed, drops>>
      /\ Seq0 \in Nat /\ Seq0' = Seq0
      /\ cursor[h] \in 0 .. Seq0
      /\ batch[h] \in (0 .. Seq0) \X (0 .. Seq0)
      /\ cursor[h] + 1 < batch[h][1]
  BY DEF SendGap, Move, searchVars, Published, Sending, Seq0
<1>1. batch[h][1] - 1 \in 0 .. Seq0
  BY <1>0
<1>2. /\ cursor' = [cursor EXCEPT ![h] = batch[h][1] - 1]
      /\ at' = [at EXCEPT ![h] = "poll"]
      /\ batch' = [batch EXCEPT ![h] = <<0, 0>>]
      /\ announced' \subseteq announced \cup (cursor[h] + 1 .. batch[h][1] - 1)
      /\ resume' \in {resume, batch[h][1]}
  BY DEF SendGap, ReceiveGap, Move, Idle
<1>3. announced' \subseteq 1 .. Seq0 /\ resume' \in 0 .. Seq0
  BY <1>0, <1>1, <1>2 DEF Published
<1>4. Published'
  BY <1>0, <1>1, <1>2, <1>3 DEF Published, Places
<1>5. Sending'
  BY <1>0, <1>2 DEF Sending, Published
<1> QED BY <1>4, <1>5

(* A handler that ends, one that looks again, a client that comes or goes. *)
LEMMA MovesKeepInv ==
  ASSUME StreamInv,
         \/ \E h \in Handlers : Disconnected(h) \/ CloseOrPoll(h) \/ Connect(h)
         \/ Drop \/ LearnsTheEnd \/ StopSucceeds
  PROVE  StreamInv'
<1> USE DEF StreamInv
<1>0. Seq0 \in Nat /\ (UNCHANGED log => Seq0' = Seq0) /\ 0 \in 0 .. Seq0
  <2>1. Seq0 \in Nat /\ (UNCHANGED log => Seq0' = Seq0)
    BY DEF Published, Seq0
  <2> QED BY <2>1
<1>1. CASE \E h \in Handlers : Disconnected(h)
  <2>1. PICK h \in Handlers : Disconnected(h)
    BY <1>1
  <2>4. /\ at' = [at EXCEPT ![h] = "off"] /\ link # h
        /\ cursor' = [cursor EXCEPT ![h] = 0]
        /\ batch' = [batch EXCEPT ![h] = <<0, 0>>]
        /\ UNCHANGED <<log, link, resume, story, announced, missed, drops>>
    BY <2>1 DEF Disconnected, Move, searchVars, clientVars, Idle
  <2>2. Published'
    BY <1>0, <2>4 DEF Published, Places
  <2>3. Sending'
    BY <2>1 DEF Disconnected, Move, Published, Sending
  <2> QED BY <2>2, <2>3
<1>2. CASE \E h \in Handlers : CloseOrPoll(h)
  <2>1. PICK h \in Handlers : CloseOrPoll(h)
    BY <1>2
  <2>4. UNCHANGED <<log, batch, resume, story, announced, missed, drops>>
    BY <2>1 DEF CloseOrPoll, searchVars
  <2>2. Published'
    <3>1. CASE status = "ended"
      <4>1. /\ at' = [at EXCEPT ![h] = "off"]
            /\ cursor' = [cursor EXCEPT ![h] = 0]
            /\ link' = IF link = h THEN Nobody ELSE link
        BY <2>1, <3>1 DEF CloseOrPoll, Move
      <4> QED BY <1>0, <2>4, <4>1 DEF Published, Places
    <3>2. CASE status # "ended"
      <4>1. at' = [at EXCEPT ![h] = "poll"] /\ UNCHANGED <<cursor, link>>
        BY <2>1, <3>2 DEF CloseOrPoll, Move
      <4> QED BY <1>0, <2>4, <4>1 DEF Published, Places
    <3> QED BY <3>1, <3>2
  <2>3. Sending'
    BY <2>1 DEF CloseOrPoll, Move, Published, Sending
  <2> QED BY <2>2, <2>3
<1>3. CASE \E h \in Handlers : Connect(h)
  <2>1. PICK h \in Handlers : Connect(h)
    BY <1>3
  <2>4. /\ at' = [at EXCEPT ![h] = "poll"] /\ cursor' = [cursor EXCEPT ![h] = resume]
        /\ link' = h /\ missed' = missed \cup (1 .. resume \ Known)
        /\ UNCHANGED <<log, batch, resume, story, announced, drops>>
    BY <2>1 DEF Connect, Move, searchVars
  <2>5. 1 .. resume \subseteq 1 .. Seq0
    BY <1>0 DEF Published
  <2>6. missed' \subseteq 1 .. Seq0
    BY <2>4, <2>5 DEF Published
  <2>2. Published'
    BY <1>0, <2>4, <2>6 DEF Published, Places
  <2>3. Sending'
    BY <2>1 DEF Connect, Move, Published, Sending
  <2> QED BY <2>2, <2>3
<1>4. CASE Drop \/ LearnsTheEnd \/ StopSucceeds
  <2>1. /\ UNCHANGED <<log, at, cursor, batch, resume, story, announced, missed>>
        /\ link' \in {link, Nobody}
        /\ \/ drops' = drops
           \/ drops' = drops + 1 /\ drops < MaxDrops
    BY <1>4 DEF Drop, LearnsTheEnd, StopSucceeds, searchVars, handlerVars
  <2>3. drops' \in 0 .. MaxDrops
    BY <2>1, StreamAssumption DEF Published
  <2>2. Published' /\ Sending'
    BY <2>1, <2>3 DEF Published, Sending, Seq0
  <2> QED BY <2>2
<1> QED BY <1>1, <1>2, <1>3, <1>4

LEMMA NextStreamInv == StreamInv /\ [Next]_vars => StreamInv'
<1> SUFFICES ASSUME StreamInv, StreamStep PROVE StreamInv'
  BY StepsOfTheStream
<1>1. CASE \E h \in Handlers : Handle(h)
  BY <1>1, PollsKeepInv, SendEventKeepsInv, SendGapKeepsInv, MovesKeepInv DEF Handle
<1> QED BY <1>1, SpeakingKeepsInv, MovesKeepInv DEF StreamStep

-----------------------------------------------------------------------------
(* What the client knows, and what it misses unawares.                     *)

LEMMA FinitelyMany ==
  ASSUME StreamInv
  PROVE  /\ IsFiniteSet(missed) /\ Cardinality(missed) \in Nat
         /\ IsFiniteSet(Unaware) /\ Cardinality(Unaware) \in Nat
<1>1. Seq0 \in Nat /\ resume \in 0 .. Seq0 /\ missed \subseteq 1 .. Seq0
  BY DEF StreamInv, Published, Seq0
<1>2. IsFiniteSet(1 .. Seq0)
  BY <1>1, FS_Interval
<1>3. 1 .. resume \subseteq 1 .. Seq0
  BY <1>1
<1>4. Unaware \subseteq 1 .. Seq0
  BY <1>1, <1>3 DEF Unaware
<1> QED BY <1>1, <1>2, <1>4, FS_Subset, FS_CardinalityType

LEMMA InitClientInv == Init => ClientInv
<1> SUFFICES ASSUME StreamInit PROVE ClientInv
  BY DEF Init
<1>1. DOMAIN story = {} /\ 1 .. resume = {} /\ missed = {} /\ drops = 0 /\ link = Nobody
  BY DEF StreamInit
<1>2. Unaware = {} /\ Cardinality({}) = 0
  BY <1>1, FS_EmptySet DEF Unaware
<1> QED
  BY <1>1, <1>2 DEF ClientInv, Resumes, FewAreMissed, Ascending

(* A client that is connected has only lost what it already missed.        *)
LEMMA ConnectedOwesNothing ==
  ASSUME FewAreMissed, link' # Nobody \/ ~watching', UNCHANGED <<missed, drops>>
  PROVE  FewAreMissed'
  BY DEF FewAreMissed

(* Where nothing changes that the client knows or has missed.              *)
LEMMA KnowsTheSame ==
  ASSUME ClientInv, UNCHANGED <<link, watching, resume, story, announced, missed, drops>>,
         link # Nobody =>
           /\ cursor'[link] = cursor[link]
           /\ at'[link] \in {"waiting", "check"} => resume = cursor[link]
  PROVE  ClientInv'
<1>1. Known' = Known /\ Unaware' = Unaware
  BY DEF Known, Unaware
<1>2. Resumes'
  BY <1>1 DEF ClientInv, Resumes
<1>3. FewAreMissed' /\ Ascending'
  BY <1>1 DEF ClientInv, FewAreMissed, Ascending
<1> QED BY <1>2, <1>3 DEF ClientInv

(* One event more, the one after the last.                                 *)
LEMMA SendEventTellsNext ==
  ASSUME StreamInv, ClientInv, NEW h \in Handlers, SendEvent(h)
  PROVE  ClientInv'
<1> DEFINE seq == IF cursor[h] < batch[h][1] THEN batch[h][1] ELSE cursor[h] + 1
<1>1. /\ at[h] = "send" /\ UNCHANGED <<link, watching, announced, missed, drops>>
      /\ cursor[h] \in Nat /\ seq = cursor[h] + 1
      /\ cursor' = [cursor EXCEPT ![h] = seq]
      /\ at' = [at EXCEPT ![h] = at'[h]] /\ at'[h] \in {"send", "poll"}
      /\ cursor \in [Handlers -> 0 .. Seq0] /\ resume \in Nat /\ story \in Seq(Nat)
      /\ link \in Handlers \cup {Nobody} /\ at \in [Handlers -> Places]
  <2>1. /\ at[h] = "send" /\ UNCHANGED <<link, watching, announced, missed, drops>>
        /\ cursor' = [cursor EXCEPT ![h] = seq]
        /\ at' = [at EXCEPT ![h] = at'[h]] /\ at'[h] \in {"send", "poll"}
    BY DEF SendEvent, Move, StreamInv, Published
  <2>2. /\ cursor[h] \in Nat /\ batch[h][1] \in Nat
        /\ cursor \in [Handlers -> 0 .. Seq0] /\ resume \in Nat /\ story \in Seq(Nat)
        /\ link \in Handlers \cup {Nobody} /\ at \in [Handlers -> Places]
    BY DEF StreamInv, Published
  <2>3. batch[h][1] <= cursor[h] + 1
    BY <2>1 DEF StreamInv, Sending
  <2> QED BY <2>1, <2>2, <2>3
<1> HIDE DEF seq
<1>2. CASE link = h
  <2>1. story' = Append(story, seq) /\ resume' = seq
    <3>1. story' = Append(story, seq) /\ resume' = IF seq > resume THEN seq ELSE resume
      BY <1>2 DEF SendEvent, Receive, seq
    <3>2. resume <= seq
      BY <1>1, <1>2 DEF ClientInv, Resumes, Handlers, Nobody
    <3> QED BY <1>1, <3>1, <3>2
  <2>2. /\ h # Nobody /\ seq \in Nat
        /\ 1 .. cursor[h] \subseteq Known \cup missed
        /\ \A i \in DOMAIN story : story[i] <= cursor[h]
    BY <1>1, <1>2 DEF ClientInv, Resumes, Ascending, Handlers, Nobody
  <2>3. /\ Len(story) \in Nat /\ DOMAIN story = 1 .. Len(story)
        /\ DOMAIN story' = 1 .. Len(story) + 1
        /\ \A i \in 1 .. Len(story) : story'[i] = story[i]
        /\ story'[Len(story) + 1] = seq
    BY <1>1, <2>1, <2>2, AppendProperties
  <2>4. Known \subseteq Known' /\ seq \in Known'
    <3>1. announced' = announced
      BY <1>1
    <3>2. \A i \in DOMAIN story : i \in DOMAIN story' /\ story'[i] = story[i]
      BY <2>3
    <3>3. Len(story) + 1 \in DOMAIN story' /\ story'[Len(story) + 1] = seq
      BY <2>3
    <3>4. Known \subseteq Known'
      BY <3>1, <3>2 DEF Known
    <3> QED BY <3>3, <3>4 DEF Known
  <2>5. 1 .. seq = 1 .. cursor[h] \cup {seq}
    BY <1>1
  <2>6. Resumes'
    BY <1>1, <1>2, <2>1, <2>2, <2>4, <2>5 DEF Resumes
  <2>7. FewAreMissed'
    BY <1>1, <1>2, <2>2, ConnectedOwesNothing DEF ClientInv
  <2>8. \A i \in DOMAIN story : story[i] \in Nat
    BY <1>1
  <2>9. \A i \in DOMAIN story' : i \in DOMAIN story \/ i = Len(story) + 1
    BY <2>3
  <2>10. \A i \in DOMAIN story' : story'[i] <= seq
    BY <1>1, <2>2, <2>3, <2>8, <2>9
  <2>11. \A i, j \in DOMAIN story' : i < j => story'[i] < story'[j]
    <3> SUFFICES ASSUME NEW i \in DOMAIN story', NEW j \in DOMAIN story', i < j
                 PROVE  story'[i] < story'[j]
      OBVIOUS
    <3>1. i \in DOMAIN story
      BY <2>3
    <3>2. CASE j \in DOMAIN story
      BY <2>3, <3>1, <3>2 DEF ClientInv, Ascending
    <3>3. CASE j = Len(story) + 1
      BY <1>1, <2>2, <2>3, <2>8, <3>1, <3>3
    <3> QED BY <2>9, <3>2, <3>3
  <2> QED BY <1>1, <1>2, <2>1, <2>6, <2>7, <2>10, <2>11 DEF ClientInv, Ascending
<1>3. CASE link # h
  <2>1. UNCHANGED <<story, resume>>
    BY <1>3 DEF SendEvent
  <2>2. link # Nobody =>
          /\ cursor'[link] = cursor[link]
          /\ at'[link] \in {"waiting", "check"} => resume = cursor[link]
    BY <1>1, <1>3 DEF ClientInv, Resumes
  <2> QED BY <1>1, <2>1, <2>2, KnowsTheSame
<1> QED BY <1>2, <1>3

(* What fell out of the window is told, all of it; the client goes on one  *)
(* event further than the handler.                                         *)
LEMMA SendGapTellsAll ==
  ASSUME StreamInv, ClientInv, NEW h \in Handlers, SendGap(h)
  PROVE  ClientInv'
<1>1. /\ at[h] = "gap" /\ UNCHANGED <<link, watching, story, missed, drops>>
      /\ cursor[h] \in Nat /\ batch[h][1] \in Nat
      /\ cursor \in [Handlers -> 0 .. Seq0] /\ resume \in Nat /\ story \in Seq(Nat)
      /\ link \in Handlers \cup {Nobody} /\ at \in [Handlers -> Places]
      /\ cursor' = [cursor EXCEPT ![h] = batch[h][1] - 1]
      /\ at' = [at EXCEPT ![h] = "poll"]
  BY DEF SendGap, Move, StreamInv, Published
<1>2. cursor[h] + 1 < batch[h][1]
  BY <1>1 DEF StreamInv, Sending
<1>3. CASE link = h
  <2>1. /\ announced' = announced \cup (cursor[h] + 1 .. batch[h][1] - 1)
        /\ resume' = batch[h][1]
    BY <1>3 DEF SendGap, ReceiveGap
  <2>2. /\ h # Nobody
        /\ 1 .. cursor[h] \subseteq Known \cup missed
        /\ \A i \in DOMAIN story : story[i] <= cursor[h]
    BY <1>3 DEF ClientInv, Resumes, Ascending, Handlers, Nobody
  <2>3. 1 .. batch[h][1] - 1 = 1 .. cursor[h] \cup (cursor[h] + 1 .. batch[h][1] - 1)
    BY <1>1, <1>2
  <2>4. 1 .. batch[h][1] - 1 \subseteq Known' \cup missed'
    BY <1>1, <2>1, <2>2, <2>3 DEF Known
  <2>5. Resumes'
    BY <1>1, <1>3, <2>1, <2>4 DEF Resumes
  <2>6. FewAreMissed'
    BY <1>1, <1>3, <2>2, ConnectedOwesNothing DEF ClientInv
  <2>7. \A i \in DOMAIN story : story[i] \in Nat
    BY <1>1
  <2>8. Ascending'
    BY <1>1, <1>2, <1>3, <2>1, <2>2, <2>7 DEF ClientInv, Ascending
  <2> QED BY <2>5, <2>6, <2>8 DEF ClientInv
<1>4. CASE link # h
  <2>1. UNCHANGED <<announced, resume>>
    BY <1>4 DEF SendGap
  <2>2. link # Nobody =>
          /\ cursor'[link] = cursor[link]
          /\ at'[link] \in {"waiting", "check"} => resume = cursor[link]
    BY <1>1, <1>4 DEF ClientInv, Resumes
  <2> QED BY <1>1, <2>1, <2>2, KnowsTheSame
<1> QED BY <1>3, <1>4

(* A handler waits or looks at the status only once the client has all.    *)
LEMMA PollsTellNothing ==
  ASSUME StreamInv, ClientInv, NEW h \in Handlers, Poll(h) \/ Wake(h)
  PROVE  ClientInv'
<1>1. UNCHANGED <<cursor, clientVars>>
  BY DEF Poll, Wake
<1>2. /\ Seq0 \in Nat /\ cursor[h] \in 0 .. Seq0 /\ resume \in 0 .. Seq0
      /\ at \in [Handlers -> Places]
  BY DEF StreamInv, Published, Seq0
<1>3. /\ at' = [at EXCEPT ![h] = at'[h]]
      /\ at'[h] \in {"waiting", "check"} => Newer(cursor[h]) = {}
  BY <1>2 DEF Poll, Wake, Answer, Move
<1>4. at'[h] \in {"waiting", "check"} => cursor[h] = Seq0
  BY <1>2, <1>3, NoNewsAtTheEnd
<1>5. link # Nobody => (at'[link] \in {"waiting", "check"} => resume = cursor[link])
  <2>1. CASE link = h
    BY <1>2, <1>4, <2>1 DEF ClientInv, Resumes
  <2>2. CASE link # h
    <3>1. link # Nobody => at'[link] = at[link]
      BY <1>2, <1>3, <2>2 DEF StreamInv, Published
    <3> QED BY <3>1 DEF ClientInv, Resumes
  <2> QED BY <2>1, <2>2
<1> QED BY <1>1, <1>5, KnowsTheSame DEF clientVars

(* A client that comes back goes on where it thinks it was.                *)
LEMMA ConnectingMissesOne ==
  ASSUME StreamInv, ClientInv, NEW h \in Handlers, Connect(h)
  PROVE  ClientInv'
<1>1. /\ link = Nobody /\ watching /\ link' = h /\ h # Nobody
      /\ cursor' = [cursor EXCEPT ![h] = resume]
      /\ at' = [at EXCEPT ![h] = "poll"]
      /\ missed' = Unaware
      /\ UNCHANGED <<watching, resume, story, announced, drops>>
  BY DEF Connect, Move, Unaware, Handlers, Nobody
<1>2. cursor \in [Handlers -> 0 .. Seq0] /\ at \in [Handlers -> Places] /\ resume \in Nat
  BY DEF StreamInv, Published
<1>3. cursor'[h] = resume /\ at'[h] = "poll" /\ Known' = Known
  BY <1>1, <1>2 DEF Known
<1>4. 1 .. resume \subseteq Known \cup Unaware
  BY DEF Unaware
<1>5. Resumes'
  BY <1>1, <1>3, <1>4 DEF Resumes
<1>6. FewAreMissed'
  BY <1>1 DEF ClientInv, FewAreMissed
<1>7. Ascending'
  BY <1>1, <1>3 DEF ClientInv, Ascending
<1> QED BY <1>5, <1>6, <1>7 DEF ClientInv

(* The event that a lost connection leaves out is the one after the gap.   *)
LEMMA DropMissesOne ==
  ASSUME StreamInv, ClientInv, Drop
  PROVE  ClientInv'
<1>1. /\ link # Nobody /\ link' = Nobody /\ drops' = drops + 1
      /\ UNCHANGED <<resume, story, announced, missed>>
  BY DEF Drop
<1>2. cursor[link] \in Nat /\ drops \in Nat /\ resume \in Nat
  BY <1>1, StreamAssumption DEF StreamInv, Published
<1>3. Unaware' = Unaware /\ Unaware \subseteq missed \cup {cursor[link] + 1}
  <2>1. 1 .. resume \subseteq 1 .. cursor[link] \cup {cursor[link] + 1}
    BY <1>1, <1>2 DEF ClientInv, Resumes
  <2>2. 1 .. cursor[link] \subseteq Known \cup missed
    BY <1>1 DEF ClientInv, Resumes
  <2> QED BY <1>1, <2>1, <2>2 DEF Unaware, Known
<1>4. Cardinality(Unaware) <= drops + 1
  <2>1. /\ IsFiniteSet(missed) /\ Cardinality(missed) \in Nat /\ Cardinality(missed) <= drops
        /\ Cardinality(Unaware) \in Nat
    BY FinitelyMany DEF ClientInv, FewAreMissed
  <2>2. PICK next : next = cursor[link] + 1
    OBVIOUS
  <2>3. /\ IsFiniteSet(missed \cup {next})
        /\ \/ Cardinality(missed \cup {next}) = Cardinality(missed)
           \/ Cardinality(missed \cup {next}) = Cardinality(missed) + 1
    BY <2>1, FS_AddElement
  <2>4. Cardinality(Unaware) <= Cardinality(missed \cup {next})
    BY <1>3, <2>2, <2>3, FS_Subset
  <2> QED BY <1>2, <2>1, <2>3, <2>4
<1>5. FewAreMissed'
  <2>1. Cardinality(missed) \in Nat /\ Cardinality(missed) <= drops
    BY FinitelyMany DEF ClientInv, FewAreMissed
  <2> QED BY <1>1, <1>2, <1>3, <1>4, <2>1 DEF FewAreMissed
<1>6. Resumes' /\ Ascending'
  BY <1>1 DEF ClientInv, Resumes, Ascending
<1> QED BY <1>5, <1>6 DEF ClientInv

(* A handler that closes had nothing left for its client.                  *)
LEMMA ClosingTellsNothing ==
  ASSUME StreamInv, ClientInv, NEW h \in Handlers, Disconnected(h) \/ CloseOrPoll(h)
  PROVE  ClientInv'
<1>1. /\ UNCHANGED <<watching, resume, story, announced, missed, drops>>
      /\ cursor \in [Handlers -> 0 .. Seq0] /\ at \in [Handlers -> Places]
      /\ link \in Handlers \cup {Nobody}
  BY DEF Disconnected, CloseOrPoll, clientVars, StreamInv, Published
<1>2. CASE link = h /\ status = "ended"
  <2>1. CloseOrPoll(h) /\ h # Nobody
    BY <1>2 DEF Disconnected, Handlers, Nobody
  <2>2. at[h] = "check" /\ link' = Nobody
    BY <1>2, <2>1 DEF CloseOrPoll, Move
  <2>3. 1 .. resume \subseteq Known \cup missed
    BY <1>2, <2>1, <2>2 DEF ClientInv, Resumes
  <2>4. Unaware' = missed
    BY <1>1, <2>3 DEF Unaware, Known
  <2>5. FewAreMissed'
    BY <1>1, <2>4 DEF ClientInv, FewAreMissed
  <2>6. Resumes' /\ Ascending'
    BY <1>1, <2>2 DEF ClientInv, Resumes, Ascending
  <2> QED BY <2>5, <2>6 DEF ClientInv
<1>3. CASE ~(link = h /\ status = "ended")
  <2>1. /\ UNCHANGED link
        /\ link # Nobody => /\ cursor'[link] = cursor[link]
                            /\ at'[link] \in {at[link], "poll"}
    BY <1>1, <1>3 DEF Disconnected, CloseOrPoll, Move, clientVars
  <2>2. link # Nobody => (at'[link] \in {"waiting", "check"} => resume = cursor[link])
    BY <2>1 DEF ClientInv, Resumes
  <2> QED BY <1>1, <2>1, <2>2, KnowsTheSame
<1> QED BY <1>2, <1>3

(* The search goes on, and a client that gives up.                         *)
LEMMA OthersTellNothing ==
  ASSUME StreamInv, ClientInv, Speaks \/ LearnsTheEnd \/ StopSucceeds
  PROVE  ClientInv'
<1>1. CASE Speaks
  BY <1>1, KnowsTheSame DEF Speaks, handlerVars, clientVars, ClientInv, Resumes
<1>2. CASE LearnsTheEnd \/ StopSucceeds
  <2>1. /\ ~watching' /\ link' \in {link, Nobody}
        /\ UNCHANGED <<at, cursor, resume, story, announced, missed, drops>>
    BY <1>2 DEF LearnsTheEnd, StopSucceeds, handlerVars
  <2>2. FewAreMissed'
    BY <2>1, ConnectedOwesNothing DEF ClientInv
  <2>3. Resumes' /\ Ascending'
    BY <2>1 DEF ClientInv, Resumes, Ascending, Known
  <2> QED BY <2>2, <2>3 DEF ClientInv
<1> QED BY <1>1, <1>2

(* However long a client was away, and however many events were published  *)
(* and dropped meanwhile, it gets nothing twice or out of order, is told   *)
(* of all that its handlers pass over, and misses one event unawares at    *)
(* most for each connection it lost; for any window, number of events and  *)
(* handlers, and for the client this repository has.                       *)
THEOREM NothingIsEverSkipped == Spec => []NothingIsSkipped
<1>1. Init => StreamInv /\ ClientInv
  BY InitStreamInv, InitClientInv
<1>2. StreamInv /\ ClientInv /\ [Next]_vars => StreamInv' /\ ClientInv'
  <2> SUFFICES ASSUME StreamInv, ClientInv, StreamStep, [Next]_vars
               PROVE  StreamInv' /\ ClientInv'
    BY StepsOfTheStream
  <2>1. ClientInv'
    BY SendEventTellsNext, SendGapTellsAll, PollsTellNothing, ConnectingMissesOne, DropMissesOne,
       ClosingTellsNothing, OthersTellNothing DEF StreamStep, Handle
  <2> QED BY <2>1, NextStreamInv
<1>3. StreamInv /\ ClientInv => NothingIsSkipped
  BY DEF ClientInv, Resumes, FewAreMissed, Ascending, NothingIsSkipped
<1> QED BY <1>1, <1>2, <1>3, PTL DEF Spec

-----------------------------------------------------------------------------
(* The preview.                                                            *)

Shots == {"off", "poll", "waiting", "frame", "nothing"}

Watching == {v \in Viewers : stream[v] # "off"}

(* Frames are only encoded before the search ends.                         *)
PreviewInv ==
  /\ jpeg \in BOOLEAN /\ used \in BOOLEAN /\ encoding \in BOOLEAN
  /\ fresh \subseteq Viewers
  /\ stream \in [Viewers -> Shots]
  /\ viewers = Cardinality(Watching)
  /\ encoding => worker = "search"
  /\ worker = "done" => ~jpeg

LEMMA WatchingIsFinite == IsFiniteSet(Watching) /\ Cardinality(Watching) \in Nat
  BY ViewersAssumption, FS_Subset, FS_CardinalityType DEF Watching

LEMMA InitPreviewInv == Init => PreviewInv
<1> SUFFICES ASSUME Init PROVE PreviewInv
  OBVIOUS
<1>1. Watching = {}
  BY DEF Init, Watching
<1> QED BY <1>1, FS_EmptySet DEF Init, StreamInit, PreviewInv, Shots

(* The search goes from one place to the next, and wipes the hub last.     *)
LEMMA SearchKeepsPreviewInv == PreviewInv /\ (Search \/ Stop) => PreviewInv'
<1> SUFFICES ASSUME PreviewInv, Search \/ Stop PROVE PreviewInv'
  OBVIOUS
<1> USE DEF PreviewInv
<1>1. UNCHANGED <<viewers, encoding, stream>> /\ Watching' = Watching
  BY DEF Search, Stop, FinalizeAndClear, Clear, previewVars, Watching
<1>2. \/ UNCHANGED <<jpeg, used, fresh>>
      \/ jpeg' = FALSE /\ used' = TRUE /\ fresh' = Viewers
  BY DEF Search, Stop, FinalizeAndClear, Clear, Put, previewVars
<1>3. encoding => worker' = "search"
  BY DEF Search, Stop, PublishNews, EndSearch, Announce, PublishOutcome, WipeAtEnd,
         FinalizeAndClear, Finalize, StopWipes, MarkStopping, SayStopping
<1>4. worker' = "done" => worker = "done" \/ jpeg' = FALSE
  BY DEF Search, Stop, PublishNews, EndSearch, Announce, PublishOutcome, WipeAtEnd,
         FinalizeAndClear, Finalize, Clear, Put, StopWipes, MarkStopping, SayStopping
<1>5. jpeg' \in BOOLEAN /\ used' \in BOOLEAN /\ fresh' \subseteq Viewers
  BY <1>2
<1>6. worker' = "done" => ~jpeg'
  BY <1>2, <1>4
<1>7. encoding' \in BOOLEAN /\ (encoding' => worker' = "search")
  BY <1>1, <1>3
<1>8. viewers' = Cardinality(Watching') /\ stream' \in [Viewers -> Shots]
  BY <1>1
<1> QED BY <1>5, <1>6, <1>7, <1>8

(* A viewer comes and is counted, or goes and is no longer.                *)
LEMMA ComingCounts ==
  ASSUME PreviewInv, NEW v \in Viewers, NEW to \in Shots \ {"off"},
         stream[v] = "off", stream' = [stream EXCEPT ![v] = to], viewers' = viewers + 1
  PROVE  viewers' = Cardinality(Watching') /\ stream' \in [Viewers -> Shots]
<1>1. Watching' = Watching \cup {v} /\ v \notin Watching
  BY DEF PreviewInv, Watching
<1> QED BY <1>1, WatchingIsFinite, FS_AddElement DEF PreviewInv, Shots

LEMMA GoingCounts ==
  ASSUME PreviewInv, NEW v \in Viewers,
         stream[v] # "off", stream' = [stream EXCEPT ![v] = "off"], Unsubscribe
  PROVE  viewers' = Cardinality(Watching') /\ stream' \in [Viewers -> Shots]
<1>1. Watching' = Watching \ {v} /\ v \in Watching
  BY DEF PreviewInv, Watching
<1>2. Cardinality(Watching') = Cardinality(Watching) - 1 /\ Cardinality(Watching') \in Nat
  BY <1>1, WatchingIsFinite, FS_RemoveElement, FS_CardinalityType
<1>3. viewers = Cardinality(Watching) /\ viewers \in Nat /\ viewers > 0
  BY <1>2, WatchingIsFinite DEF PreviewInv
<1> QED BY <1>2, <1>3 DEF PreviewInv, Unsubscribe, Shots

LEMMA GoingOnCountsTheSame ==
  ASSUME PreviewInv, NEW v \in Viewers, NEW to \in Shots \ {"off"},
         stream[v] # "off", stream' = [stream EXCEPT ![v] = to], UNCHANGED viewers
  PROVE  viewers' = Cardinality(Watching') /\ stream' \in [Viewers -> Shots]
<1>1. Watching' = Watching
  BY DEF PreviewInv, Watching, Shots
<1> QED BY <1>1 DEF PreviewInv, Shots

LEMMA StreamsKeepPreviewInv ==
  ASSUME PreviewInv, NEW v \in Viewers, Subscribe(v) \/ Show(v) \/ HangUp(v)
  PROVE  PreviewInv'
<1>1. UNCHANGED <<worker, jpeg, used, encoding>> /\ fresh' \subseteq Viewers
  <2>1. fresh \subseteq Viewers
    BY DEF PreviewInv
  <2> QED BY <2>1 DEF Subscribe, Show, HangUp, PollFrame, WakeViewer, YieldFrame, ReturnOrPoll,
                      Take, streamVars, searchVars
<1>2. viewers' = Cardinality(Watching') /\ stream' \in [Viewers -> Shots]
  <2>1. CASE Subscribe(v)
    BY <2>1, ComingCounts DEF Subscribe, Go, Shots
  <2>2. CASE PollFrame(v) \/ WakeViewer(v) \/ YieldFrame(v)
    <3>1. /\ UNCHANGED viewers /\ stream[v] # "off"
          /\ \E to \in Shots \ {"off"} : stream' = [stream EXCEPT ![v] = to]
      BY <2>2 DEF PollFrame, WakeViewer, YieldFrame, Take, Go, Shots
    <3> QED BY <3>1, GoingOnCountsTheSame
  <2>3. CASE ReturnOrPoll(v)
    BY <2>3, GoingCounts, GoingOnCountsTheSame DEF ReturnOrPoll, Go, Shots
  <2>4. CASE HangUp(v)
    BY <2>4, GoingCounts DEF HangUp
  <2> QED BY <2>1, <2>2, <2>3, <2>4 DEF Show
<1> QED BY <1>1, <1>2 DEF PreviewInv

LEMMA NextPreviewInv == PreviewInv /\ [Next]_vars => PreviewInv'
<1> SUFFICES ASSUME PreviewInv, [Next]_vars PROVE PreviewInv'
  OBVIOUS
<1>1. CASE \/ UNCHANGED vars \/ Connecting \/ Leaving
           \/ \E h \in Handlers : Handling(h)
  <2>1. UNCHANGED <<worker, previewVars>>
    BY <1>1 DEF vars, streamVars, searchVars, Handling, Connecting, Leaving, Handle, Poll, Wake,
                SendEvent, SendGap, Disconnected, CloseOrPoll, Connect, Drop, LearnsTheEnd,
                StopSucceeds
  <2> QED BY <2>1 DEF PreviewInv, previewVars, Watching
<1>2. CASE StartEncoding \/ EndEncoding
  <2>1. UNCHANGED <<worker, viewers, stream>>
    BY <1>2 DEF StartEncoding, EndEncoding, streamVars, searchVars
  <2>2. /\ worker = "search" \/ ~encoding
        /\ encoding' \in BOOLEAN
        /\ encoding' => worker = "search"
        /\ worker = "done" => UNCHANGED jpeg
        /\ jpeg' \in BOOLEAN /\ used' \in BOOLEAN /\ fresh' \subseteq Viewers
    BY <1>2 DEF StartEncoding, EndEncoding, Put, PreviewInv
  <2> QED BY <2>1, <2>2 DEF PreviewInv, Watching
<1> QED BY <1>1, <1>2, SearchKeepsPreviewInv, StreamsKeepPreviewInv DEF Next

(* A frame that was being encoded while a stop wiped is published after    *)
(* the wipe, but dropped before the search is finished; for any viewers.   *)
THEOREM NoFrameStays == Spec => []NoFrameOutlivesTheSearch
<1>1. PreviewInv => NoFrameOutlivesTheSearch
  BY DEF PreviewInv, NoFrameOutlivesTheSearch
<1> QED BY <1>1, InitPreviewInv, NextPreviewInv, PTL DEF Spec

(* The worker encodes exactly while somebody watches: a stream is counted  *)
(* out once, whether it returns or its viewer goes; for any viewers.       *)
THEOREM ViewersCounted == Spec => []ViewersAreCounted
<1>1. PreviewInv => ViewersAreCounted
  BY DEF PreviewInv, ViewersAreCounted, Watching
<1> QED BY <1>1, InitPreviewInv, NextPreviewInv, PTL DEF Spec

-----------------------------------------------------------------------------
SearchTyped ==
  /\ status \in {"running", "stopping", "ended"}
  /\ worker \in {"search", "wipe", "settled", "announced", "told", "done"}
  /\ stopper \in {"idle", "mark", "say", "done"}

LEMMA NextSearchTyped == SearchTyped /\ [Next]_vars => SearchTyped'
<1> SUFFICES ASSUME SearchTyped, [Next]_vars PROVE SearchTyped'
  OBVIOUS
<1>1. CASE Search \/ Stop
  BY <1>1 DEF SearchTyped, Search, Stop, PublishNews, EndSearch, Announce, PublishOutcome,
              WipeAtEnd, FinalizeAndClear, Finalize, StopWipes, MarkStopping, SayStopping
<1>2. CASE ~(Search \/ Stop)
  <2>1. UNCHANGED <<status, worker, stopper>>
    BY <1>2 DEF Next, vars, streamVars, searchVars, Handling, Connecting, Leaving, Handle, Poll,
                Wake, SendEvent, SendGap, Disconnected, CloseOrPoll, Connect, Drop, LearnsTheEnd,
                StopSucceeds, StartEncoding, EndEncoding, Subscribe, Show, HangUp, PollFrame, WakeViewer,
                YieldFrame, ReturnOrPoll
  <2> QED BY <2>1 DEF SearchTyped
<1> QED BY <1>1, <1>2

(* Cursors, batches and gaps are about events that were published, and a   *)
(* connected client has a handler, for any values of the constants.        *)
THEOREM TypeCorrect == Spec => []TypeOK
<1>1. Init => SearchTyped /\ StreamInv /\ PreviewInv
  BY InitStreamInv, InitPreviewInv DEF Init, StreamInit, SearchTyped
<1>2. SearchTyped /\ StreamInv /\ PreviewInv => TypeOK
  <2> SUFFICES ASSUME SearchTyped, StreamInv, PreviewInv PROVE TypeOK
    OBVIOUS
  <2>1. StreamTypeOK
    BY DEF SearchTyped, StreamInv, Published, StreamTypeOK, Places
  <2> QED BY <2>1, WatchingIsFinite DEF TypeOK, PreviewInv, Shots
<1> QED BY <1>1, <1>2, NextSearchTyped, NextStreamInv, NextPreviewInv, PTL DEF Spec
=============================================================================

----------------------------- MODULE FaceEmbedding -----------------------------
(***************************************************************************)
(* How the faces of one frame get their embeddings (service.py,            *)
(* _limit_matchable_faces and _embed_faces_microbatched): the frame's      *)
(* budget, the micro-batches, the splits after an out-of-memory error, the *)
(* provider's answer (backends.py, embed_faces, or another backend of the  *)
(* protocol), and the reconciliation that gives each row to a face.        *)
(*                                                                         *)
(* A face is its place in the list that is embedded.  Which faces the      *)
(* budget keeps is an order on their data and left out.  Of an embedding   *)
(* it matters whose crop it was made from, of a box which other boxes it   *)
(* cannot be told from: boxes are numbers, and alike at distance 1, so     *)
(* that being alike is not transitive, as with np.allclose.                *)
(***************************************************************************)
EXTENDS Integers, FiniteSets, Sequences

CONSTANTS
  Limit,       \* settings.max_faces_per_frame
  Batches,     \* possible values of settings.arcface_micro_batch_size
  MaxSplits,   \* retries of a chunk: 4
  MaxDetected, \* bound: faces in the frame
  Boxes        \* bound: where a face can be

ASSUME LimitsAssumption ==
  /\ Limit \in Nat \ {0} /\ Batches \subseteq Nat \ {0}
  /\ MaxSplits \in Nat /\ MaxDetected \in Nat /\ Boxes \subseteq Int

VARIABLES
  backend,   \* "insightface", or "foreign": any other that is plugged in
  batch,     \* settings.arcface_micro_batch_size
  detected,  \* how many matchable faces the frame has
  box,       \* where each is
  stop,      \* self._stop is set
  phase,     \* what the worker does
  count,     \* how many faces are embedded
  pending,   \* the chunks that are still to be embedded
  chunk,     \* the chunk in hand
  rows,      \* the provider's answer for it
  next,      \* the row looked at
  unused,    \* the faces of the chunk no row was given to
  vector,    \* whose crop each face's embedding was made from, or Nobody
  accepted,  \* the faces returned with an embedding
  missed     \* metrics.embedding_output_failures

frame == <<backend, batch, detected, box>>
pairing == <<rows, next, unused, vector>>
vars == <<frame, stop, phase, count, pending, chunk, pairing, accepted, missed>>

Nobody == 0
Faces == 1 .. Limit
Least(a, b) == IF a < b THEN a ELSE b

Chunks == [lo : Nat, hi : Nat, depth : Nat]
NoChunk == [lo |-> 1, hi |-> 0, depth |-> 0]
In(c) == c.lo .. c.hi
Size(c) == c.hi - c.lo + 1

(* A row: the observation it is a copy of, or the very object, and the     *)
(* crop its vector was made from; or something that is no observation.     *)
Row(f, crop, same) == [face |-> f, crop |-> crop, same |-> same]
BadRow == Row(Nobody, Nobody, FALSE)

TypeOK ==
  /\ backend \in {"insightface", "foreign"}
  /\ batch \in Batches /\ detected \in 0 .. MaxDetected
  /\ box \in [Faces -> Boxes]
  /\ stop \in BOOLEAN
  /\ phase \in {"limit", "embed", "pair", "done", "raised"}
  /\ count \in 0 .. Limit
  /\ pending \subseteq Chunks
  /\ chunk \in Chunks
  /\ rows \in Seq([face : Faces \cup {Nobody}, crop : Faces \cup {Nobody}, same : BOOLEAN])
  /\ next \in Nat
  /\ unused \subseteq Faces
  /\ vector \in [Faces -> Faces \cup {Nobody}]
  /\ accepted \subseteq Faces
  /\ missed \in Int

Init ==
  /\ backend \in {"insightface", "foreign"}
  /\ batch \in Batches /\ detected \in 0 .. MaxDetected
  /\ box \in [Faces -> Boxes]
  /\ stop = FALSE /\ phase = "limit" /\ count = 0
  /\ pending = {} /\ chunk = NoChunk
  /\ rows = <<>> /\ next = 1 /\ unused = {}
  /\ vector = [f \in Faces |-> Nobody]
  /\ accepted = {} /\ missed = 0

-----------------------------------------------------------------------------
(* The budget, and the micro-batches in which the faces are embedded.      *)

Kept == Least(Limit, detected)

Offsets == {i \in 1 .. Kept : \E k \in 0 .. Kept : i = 1 + k * batch}

LimitFaces ==
  /\ phase = "limit"
  /\ count' = Kept
  /\ pending' = {[lo |-> i, hi |-> Least(i + batch - 1, Kept), depth |-> 0] : i \in Offsets}
  /\ phase' = "embed"
  /\ UNCHANGED <<frame, stop, chunk, pairing, accepted, missed>>

StopRequested ==
  /\ ~stop
  /\ stop' = TRUE
  /\ UNCHANGED <<frame, phase, count, pending, chunk, pairing, accepted, missed>>

(* The chunks are taken in the order of the faces, halves of one before    *)
(* the next.                                                               *)
IsNext(c) == c \in pending /\ \A d \in pending : c.lo <= d.lo

(* A stop leaves the rest of the frame without embeddings.                 *)
SkipChunk(c) ==
  /\ phase = "embed" /\ IsNext(c)
  /\ stop
  /\ pending' = pending \ {c}
  /\ UNCHANGED <<frame, stop, phase, count, chunk, pairing, accepted, missed>>

(* The model is unavailable, or an error nobody expects: the search fails. *)
EmbeddingRaises(c) ==
  /\ phase = "embed" /\ IsNext(c)
  /\ ~stop
  /\ phase' = "raised"
  /\ UNCHANGED <<frame, stop, count, pending, chunk, pairing, accepted, missed>>

(* A passing failure, no answer or one that is no list: a chunk is missed. *)
EmbeddingFails(c) ==
  /\ phase = "embed" /\ IsNext(c)
  /\ ~stop
  /\ pending' = pending \ {c}
  /\ missed' = missed + Size(c)
  /\ UNCHANGED <<frame, stop, phase, count, chunk, pairing, accepted>>

(* Out of memory: both halves are tried.  Slip: one face falls in between. *)
HalvesApart(c) ==
  LET mid == c.lo + Size(c) \div 2
  IN {[lo |-> c.lo, hi |-> mid - 1, depth |-> c.depth + 1],
      [lo |-> mid + 1, hi |-> c.hi, depth |-> c.depth + 1]}
Halves(c) ==
  LET mid == c.lo + Size(c) \div 2
  IN {[lo |-> c.lo, hi |-> mid - 1, depth |-> c.depth + 1],
      [lo |-> mid, hi |-> c.hi, depth |-> c.depth + 1]}

OutOfMemory(c) ==
  /\ phase = "embed" /\ IsNext(c)
  /\ ~stop
  /\ IF Size(c) > 1 /\ c.depth < MaxSplits
     THEN pending' = (pending \ {c}) \cup Halves(c) /\ UNCHANGED missed
     ELSE pending' = pending \ {c} /\ missed' = missed + Size(c)
  /\ UNCHANGED <<frame, stop, phase, count, chunk, pairing, accepted>>

-----------------------------------------------------------------------------
(* The answers.                                                            *)

(* The faces of `c` whose crops could be cut, in order: all, or fewer.     *)
Croppable(c) ==
  {[i \in 1 .. Size(c) |-> c.lo + i - 1]} \cup
  {s \in UNION {[1 .. n -> In(c)] : n \in 0 .. Size(c) - 1} :
     \A i, j \in DOMAIN s : i < j => s[i] < s[j]}

(* InsightFaceBackend.embed_faces on the crops of `s`, when the recogniser *)
(* leaves out feature `lost` (0: none): the number of rows is checked, and *)
(* with a wrong one nobody gets a feature.  Slip: they are paired by zip.  *)
ZippedRows(s, lost) ==
  IF lost = 0 THEN [i \in DOMAIN s |-> Row(s[i], s[i], FALSE)]
  ELSE [i \in 1 .. Len(s) - 1 |-> Row(s[i], IF i < lost THEN s[i] ELSE s[i + 1], FALSE)]
CheckedRows(s, lost) ==
  IF lost = 0 THEN [i \in DOMAIN s |-> Row(s[i], s[i], FALSE)] ELSE <<>>

(* Any other backend: rows of any faces in any order, copies or the very   *)
(* objects, some twice, some not at all, some unusable; bound: one row     *)
(* too many.                                                               *)
ForeignRows(c) ==
  UNION {[1 .. n -> {Row(f, f, same) : f \in In(c), same \in BOOLEAN} \cup {BadRow}] :
           n \in 0 .. Size(c) + 1}

Answer(c) ==
  /\ phase = "embed" /\ IsNext(c)
  /\ ~stop
  /\ \/ /\ backend = "insightface"
        /\ \E s \in Croppable(c) : \E lost \in 0 .. Len(s) : rows' = CheckedRows(s, lost)
     \/ /\ backend = "foreign"
        /\ rows' \in ForeignRows(c)
  /\ chunk' = c
  /\ pending' = pending \ {c}
  /\ next' = 1
  /\ unused' = In(c)
  /\ phase' = "pair"
  /\ UNCHANGED <<frame, stop, count, vector, accepted, missed>>

-----------------------------------------------------------------------------
(* The reconciliation.                                                     *)

Alike(f, g) == box[f] - box[g] \in -1 .. 1

(* Every row is usable and lies where the face in its place does.          *)
Positional ==
  /\ Len(rows) = Size(chunk)
  /\ \A i \in DOMAIN rows :
       rows[i].face # Nobody /\ Alike(chunk.lo + i - 1, rows[i].face)

Candidates(row) == {f \in unused : row.face # Nobody /\ Alike(f, row.face)}

(* The face a row is given to: the object itself, the only one in its      *)
(* place, or the one at its position; or none.  Slip: with several in its  *)
(* place, the first.                                                       *)
GuessedFor(row) ==
  IF row.same /\ row.face \in unused THEN {row.face}
  ELSE {f \in Candidates(row) : \A g \in Candidates(row) : f <= g}
MeantFor(row) ==
  IF row.same /\ row.face \in unused THEN {row.face}
  ELSE IF \A f, g \in Candidates(row) : f = g THEN Candidates(row)
  ELSE {f \in Candidates(row) : Positional /\ f = chunk.lo + next - 1}

Pair ==
  /\ phase = "pair" /\ next <= Len(rows)
  /\ \/ MeantFor(rows[next]) = {} /\ UNCHANGED <<unused, vector>>
     \/ \E f \in MeantFor(rows[next]) :
          /\ unused' = unused \ {f}
          /\ vector' = [vector EXCEPT ![f] = rows[next].crop]
  /\ next' = next + 1
  /\ UNCHANGED <<frame, stop, phase, count, pending, chunk, rows, accepted, missed>>

(* The faces that got a row go on, the others are missed.  A face takes    *)
(* its vector in place: FaceObservation is mutable, so neither the copy    *)
(* the code falls back to nor a failure of that copy can come about.       *)
Accept ==
  /\ phase = "pair" /\ next > Len(rows)
  /\ accepted' = accepted \cup (In(chunk) \ unused)
  /\ missed' = missed + Cardinality(unused)
  /\ phase' = "embed"
  /\ UNCHANGED <<frame, stop, count, pending, chunk, pairing>>

Return ==
  /\ phase = "embed" /\ pending = {}
  /\ phase' = "done"
  /\ UNCHANGED <<frame, stop, count, pending, chunk, pairing, accepted, missed>>

Next ==
  \/ LimitFaces \/ StopRequested
  \/ \E c \in pending :
       SkipChunk(c) \/ EmbeddingRaises(c) \/ EmbeddingFails(c) \/ OutOfMemory(c) \/ Answer(c)
  \/ Pair \/ Accept \/ Return

Spec == Init /\ [][Next]_vars
=============================================================================

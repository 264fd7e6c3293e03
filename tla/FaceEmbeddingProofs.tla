--------------------------- MODULE FaceEmbeddingProofs --------------------------
(***************************************************************************)
(* OwnVector, MissesAreCounted, the type invariant and the order of the    *)
(* faces hold for any number of faces, any boxes, any micro-batch size and *)
(* any number of retries.                                                  *)
(***************************************************************************)
EXTENDS FaceEmbeddingProps, FiniteSetTheorems, TLAPS

(* What the proofs know of the variables' values.                          *)
RowSet == [face : Faces \cup {Nobody}, crop : Faces \cup {Nobody}, same : BOOLEAN]

FramesOK ==
  /\ backend \in {"insightface", "foreign"}
  /\ batch \in Nat \ {0} /\ detected \in Nat
  /\ box \in [Faces -> Boxes]
  /\ vector \in [Faces -> Faces \cup {Nobody}]

(* The chunks lie within the faces; those not yet embedded are not empty.  *)
ChunksInRange ==
  /\ \A c \in pending : c \in Chunks /\ 1 <= c.lo /\ c.lo <= c.hi /\ c.hi <= Limit
  /\ chunk \in Chunks /\ 1 <= chunk.lo /\ chunk.hi <= Limit
  /\ unused \subseteq In(chunk)

(* What an answer can be.                                                  *)
RowsOfChunk ==
  /\ rows \in Seq(RowSet)
  /\ next \in Nat \ {0}
  /\ \A i \in DOMAIN rows :
       rows[i].face \in In(chunk) \cup {Nobody} /\ rows[i].crop = rows[i].face

(* Nothing in the answer misleads the reconciliation.                      *)
InPlace == \A i \in DOMAIN rows : rows[i].face = chunk.lo + i - 1

Straight == ~Repeats /\ (Positional => InPlace)

InsightFaceIsStraight == backend = "insightface" => Straight

(* Of a straight answer, every face that was given a row was given its     *)
(* own, and that row lies behind.                                          *)
GivenOwnRow ==
  Straight =>
    \A f \in In(chunk) \ unused :
      vector[f] = f /\ \E i \in 1 .. next - 1 : i \in DOMAIN rows /\ rows[i].face = f

(* The first half of OwnVector, which outlasts the chunk.                  *)
OthersAreAlike ==
  \A f \in Faces :
    vector[f] \notin {Nobody, f} => backend = "foreign" /\ Alike(f, vector[f])

IInv ==
  /\ FramesOK /\ ChunksInRange /\ RowsOfChunk /\ InsightFaceIsStraight
  /\ GivenOwnRow /\ OthersAreAlike

-----------------------------------------------------------------------------
(* The crops of a chunk are in the order of its faces, none twice; if they *)
(* are all there, each is in its place.                                    *)
LEMMA CropsInOrder ==
  ASSUME NEW c \in Chunks, c.lo <= c.hi, NEW s \in Croppable(c)
  PROVE  /\ s \in Seq(In(c))
         /\ \A i, j \in DOMAIN s : i # j => s[i] # s[j]
         /\ Len(s) = Size(c) => \A i \in DOMAIN s : s[i] = c.lo + i - 1
<1> DEFINE all == [i \in 1 .. Size(c) |-> c.lo + i - 1]
<1>1. c.lo \in Nat /\ c.hi \in Nat /\ Size(c) \in Nat
  BY DEF Chunks, Size
<1>2. CASE s = all
  <2>1. \A i \in 1 .. Size(c) : s[i] \in In(c) /\ s[i] = c.lo + i - 1
    BY <1>1, <1>2 DEF In, Size
  <2>2. DOMAIN s = 1 .. Size(c) /\ s \in [1 .. Size(c) -> In(c)]
    BY <1>2, <2>1
  <2>3. s \in Seq(In(c))
    BY <1>1, <2>2
  <2> QED BY <1>1, <2>1, <2>2, <2>3
<1>3. ASSUME NEW n \in 0 .. Size(c) - 1, s \in [1 .. n -> In(c)],
             \A i, j \in DOMAIN s : i < j => s[i] < s[j]
      PROVE  /\ s \in Seq(In(c))
             /\ \A i, j \in DOMAIN s : i # j => s[i] # s[j]
             /\ Len(s) = Size(c) => \A i \in DOMAIN s : s[i] = c.lo + i - 1
  <2>1. n \in Nat /\ n < Size(c)
    BY <1>1
  <2>2. s \in Seq(In(c)) /\ DOMAIN s = 1 .. n /\ Len(s) = n
    BY <1>3, <2>1
  <2>3. \A i, j \in 1 .. n : i # j => s[i] # s[j]
    <3>1. \A i \in 1 .. n : s[i] \in Int
      BY <1>1, <1>3 DEF In
    <3> QED BY <1>3, <2>1, <2>2, <3>1
  <2> QED BY <1>1, <2>1, <2>2, <2>3
<1> QED
  BY <1>2, <1>3 DEF Croppable

(* What InsightFaceBackend answers is straight, whichever crops fail and   *)
(* whatever the recogniser leaves out: the check of the number of rows.    *)
LEMMA CheckedRowsAreStraight ==
  ASSUME NEW c \in Chunks, 1 <= c.lo, c.lo <= c.hi, c.hi <= Limit,
         NEW s \in Croppable(c), NEW lost \in 0 .. Len(s),
         NEW r, r = CheckedRows(s, lost)
  PROVE  /\ r \in Seq(RowSet)
         /\ \A i \in DOMAIN r : r[i].face \in In(c) /\ r[i].crop = r[i].face
         /\ \A i, j \in DOMAIN r : i # j => r[i].face # r[j].face
         /\ Len(r) = Size(c) => \A i \in DOMAIN r : r[i].face = c.lo + i - 1
<1>1. In(c) \subseteq Faces
  BY LimitsAssumption DEF In, Faces, Chunks
<1>2. /\ s \in Seq(In(c))
      /\ \A i, j \in DOMAIN s : i # j => s[i] # s[j]
      /\ Len(s) = Size(c) => \A i \in DOMAIN s : s[i] = c.lo + i - 1
  BY CropsInOrder
<1>3. CASE lost = 0
  <2>1. r = [i \in DOMAIN s |-> Row(s[i], s[i], FALSE)]
    BY <1>3 DEF CheckedRows
  <2>2. DOMAIN s = 1 .. Len(s) /\ Len(s) \in Nat /\ \A i \in DOMAIN s : s[i] \in In(c)
    BY <1>2
  <2>3. \A i \in DOMAIN s : r[i] = Row(s[i], s[i], FALSE) /\ r[i] \in RowSet
                            /\ r[i].face = s[i] /\ r[i].crop = s[i]
    BY <1>1, <2>1, <2>2 DEF Row, RowSet
  <2>4. r \in [1 .. Len(s) -> RowSet]
    BY <2>1, <2>2, <2>3
  <2>5. r \in Seq(RowSet) /\ DOMAIN r = DOMAIN s /\ Len(r) = Len(s)
    BY <2>2, <2>4
  <2>6. \A i \in DOMAIN r : r[i].face \in In(c) /\ r[i].crop = r[i].face
    BY <2>2, <2>3, <2>5
  <2>7. \A i, j \in DOMAIN r : i # j => r[i].face # r[j].face
    <3>1. SUFFICES ASSUME NEW i \in DOMAIN r, NEW j \in DOMAIN r, i # j
                   PROVE  r[i].face # r[j].face
      OBVIOUS
    <3>2. r[i].face = s[i] /\ r[j].face = s[j] /\ i \in DOMAIN s /\ j \in DOMAIN s
      BY <2>3, <2>5, <3>1
    <3>3. s[i] # s[j]
      BY <1>2, <3>1, <3>2
    <3> QED BY <3>2, <3>3
  <2>8. Len(r) = Size(c) => \A i \in DOMAIN r : r[i].face = c.lo + i - 1
    <3>1. SUFFICES ASSUME Len(r) = Size(c), NEW i \in DOMAIN r
                   PROVE  r[i].face = c.lo + i - 1
      OBVIOUS
    <3>2. r[i].face = s[i] /\ Len(s) = Size(c) /\ i \in DOMAIN s
      BY <2>3, <2>5, <3>1
    <3>3. s[i] = c.lo + i - 1
      BY <1>2, <3>2
    <3> QED BY <3>2, <3>3
  <2> QED BY <2>5, <2>6, <2>7, <2>8
<1>4. CASE lost # 0
  <2>1. r = <<>>
    BY <1>4 DEF CheckedRows
  <2> QED BY <2>1
<1> QED BY <1>3, <1>4

-----------------------------------------------------------------------------
(* OwnVector follows: an answer that is not straight has a face twice or   *)
(* has them all, out of place.                                             *)
LEMMA IInvImpliesOwnVector == IInv => OwnVector
  BY DEF IInv, OthersAreAlike, GivenOwnRow, Straight, OwnVector

LEMMA InitInv == Init => IInv
<1> SUFFICES ASSUME Init PROVE IInv
  OBVIOUS
<1> USE DEF Init
<1>1. FramesOK
  BY LimitsAssumption DEF FramesOK, Nobody
<1>2. ChunksInRange
  BY LimitsAssumption DEF ChunksInRange, Chunks, NoChunk, In
<1>3. RowsOfChunk /\ Straight
  BY DEF RowsOfChunk, Straight, Repeats, InPlace
<1>4. GivenOwnRow /\ OthersAreAlike
  BY DEF GivenOwnRow, OthersAreAlike, NoChunk, In, Nobody
<1> QED BY <1>1, <1>2, <1>3, <1>4 DEF IInv, InsightFaceIsStraight

(* The budget and the micro-batches stay within the faces.                 *)
LEMMA LimitFacesInv == IInv /\ LimitFaces => IInv'
<1> SUFFICES ASSUME IInv, LimitFaces PROVE IInv'
  OBVIOUS
<1> USE DEF IInv, LimitFaces, frame, pairing
<1>1. Kept \in Nat /\ Kept <= Limit
  BY LimitsAssumption DEF FramesOK, Kept, Least
<1>2. ASSUME NEW i \in Offsets
      PROVE  LET c == [lo |-> i, hi |-> Least(i + batch - 1, Kept), depth |-> 0]
             IN c \in Chunks /\ 1 <= c.lo /\ c.lo <= c.hi /\ c.hi <= Limit
  BY <1>1, LimitsAssumption DEF Offsets, FramesOK, Least, Chunks
<1>3. ChunksInRange'
  BY <1>2 DEF ChunksInRange, In
<1>4. FramesOK' /\ RowsOfChunk' /\ InsightFaceIsStraight'
  BY DEF FramesOK, RowsOfChunk, InsightFaceIsStraight, Straight, Repeats, Positional,
         InPlace, Alike, Size, In
<1>5. GivenOwnRow' /\ OthersAreAlike'
  BY DEF GivenOwnRow, Straight, Repeats, Positional, InPlace, Alike, Size, In, OthersAreAlike
<1> QED BY <1>3, <1>4, <1>5

(* The steps that touch neither the chunk in hand nor a vector.            *)
LEMMA FrameInv ==
  ASSUME IInv, UNCHANGED <<frame, chunk, pairing>>,
         \A c \in pending' : c \in Chunks /\ 1 <= c.lo /\ c.lo <= c.hi /\ c.hi <= Limit
  PROVE  IInv'
<1> USE DEF IInv, frame, pairing
<1>1. ChunksInRange'
  BY DEF ChunksInRange, In
<1>2. FramesOK' /\ RowsOfChunk' /\ InsightFaceIsStraight'
  BY DEF FramesOK, RowsOfChunk, InsightFaceIsStraight, Straight, Repeats, Positional,
         InPlace, Alike, Size, In
<1>3. GivenOwnRow' /\ OthersAreAlike'
  BY DEF GivenOwnRow, Straight, Repeats, Positional, InPlace, Alike, Size, In, OthersAreAlike
<1> QED BY <1>1, <1>2, <1>3

(* A chunk of two faces and more has two halves, one after the other.      *)
LEMMA HalvesSplit ==
  ASSUME NEW c \in Chunks, Size(c) > 1, NEW d \in Halves(c)
  PROVE  /\ d \in Chunks /\ c.lo <= d.lo /\ d.lo <= d.hi /\ d.hi <= c.hi
         /\ \A e \in Halves(c) : e # d => d.hi < e.lo \/ e.hi < d.lo
<1>1. c.lo \in Nat /\ c.hi \in Nat /\ c.depth \in Nat /\ c.hi - c.lo > 0
  BY DEF Chunks, Size
<1>2. PICK half \in Nat : half = Size(c) \div 2 /\ 1 <= half /\ half <= c.hi - c.lo
  BY <1>1 DEF Size
<1>3. ASSUME NEW e \in Halves(c)
      PROVE  \/ e = [lo |-> c.lo, hi |-> (c.lo + half) - 1, depth |-> c.depth + 1]
             \/ e = [lo |-> c.lo + half, hi |-> c.hi, depth |-> c.depth + 1]
  BY <1>1, <1>2, <1>3 DEF Halves
<1>4. ASSUME NEW e \in Halves(c)
      PROVE  /\ e \in Chunks
             /\ \/ e.lo = c.lo /\ e.hi = c.lo + half - 1
                \/ e.lo = c.lo + half /\ e.hi = c.hi
             /\ e.depth = c.depth + 1
  BY <1>1, <1>2, <1>3, <1>4 DEF Chunks
<1>5. ASSUME NEW e \in Halves(c), e # d
      PROVE  e.lo # d.lo
  BY <1>1, <1>2, <1>3, <1>5
<1> QED BY <1>1, <1>2, <1>4, <1>5

LEMMA OutOfMemoryInv == \A c \in pending : IInv /\ OutOfMemory(c) => IInv'
<1> SUFFICES ASSUME NEW c \in pending, IInv, OutOfMemory(c) PROVE IInv'
  OBVIOUS
<1>1. \A d \in pending : d \in Chunks /\ 1 <= d.lo /\ d.lo <= d.hi /\ d.hi <= Limit
  BY DEF IInv, ChunksInRange
<1>2. ASSUME NEW d \in pending', d \notin pending
      PROVE  d \in Chunks /\ 1 <= d.lo /\ d.lo <= d.hi /\ d.hi <= Limit
  <2>1. d \in Halves(c) /\ Size(c) > 1
    BY <1>2 DEF OutOfMemory
  <2>2. d \in Chunks /\ c.lo <= d.lo /\ d.lo <= d.hi /\ d.hi <= c.hi
    BY <1>1, <2>1, HalvesSplit
  <2> QED BY <1>1, <2>2, LimitsAssumption DEF Chunks
<1> QED
  BY <1>1, <1>2, FrameInv DEF OutOfMemory

(* An answer is taken: nobody of the chunk has a row yet.                  *)
LEMMA AnswerInv == \A c \in pending : IInv /\ Answer(c) => IInv'
<1> SUFFICES ASSUME NEW c \in pending, IInv, Answer(c) PROVE IInv'
  OBVIOUS
<1> USE DEF IInv, Answer, frame
<1>1. c \in Chunks /\ 1 <= c.lo /\ c.lo <= c.hi /\ c.hi <= Limit
  BY DEF ChunksInRange
<1>2. FramesOK' /\ ChunksInRange'
  BY <1>1 DEF FramesOK, ChunksInRange
<1>3. GivenOwnRow' /\ OthersAreAlike'
  BY DEF GivenOwnRow, OthersAreAlike, Alike
<1>4. CASE backend = "insightface"
  <2>1. PICK s \in Croppable(c) : \E lost \in 0 .. Len(s) : rows' = CheckedRows(s, lost)
    BY <1>4
  <2>2. PICK lost \in 0 .. Len(s) : rows' = CheckedRows(s, lost)
    BY <2>1
  <2>3. /\ rows' \in Seq(RowSet)
        /\ \A i \in DOMAIN rows' : rows'[i].face \in In(c) /\ rows'[i].crop = rows'[i].face
        /\ \A i, j \in DOMAIN rows' : i # j => rows'[i].face # rows'[j].face
        /\ Len(rows') = Size(c) => \A i \in DOMAIN rows' : rows'[i].face = c.lo + i - 1
    BY <1>1, <2>2, CheckedRowsAreStraight
  <2>4. RowsOfChunk' /\ Straight'
    BY <2>3 DEF RowsOfChunk, Straight, Repeats, Positional, InPlace, In, Size
  <2> QED BY <1>2, <1>3, <2>4 DEF InsightFaceIsStraight
<1>5. CASE backend = "foreign"
  <2>1. PICK n \in 0 .. Size(c) + 1 :
          rows' \in [1 .. n -> {Row(f, f, same) : f \in In(c), same \in BOOLEAN} \cup {BadRow}]
    BY <1>5 DEF ForeignRows
  <2>2. n \in Nat
    BY <1>1 DEF Size, Chunks
  <2>3. In(c) \subseteq Faces
    BY <1>1, LimitsAssumption DEF In, Faces, Chunks
  <2>4. \A i \in 1 .. n : /\ rows'[i] \in RowSet
                          /\ rows'[i].face \in In(c) \cup {Nobody}
                          /\ rows'[i].crop = rows'[i].face
    <3>1. TAKE i \in 1 .. n
    <3>2. CASE rows'[i] = BadRow
      BY <3>2 DEF Row, BadRow, RowSet
    <3>3. ASSUME NEW f \in In(c), NEW same \in BOOLEAN, rows'[i] = Row(f, f, same)
          PROVE  /\ rows'[i] \in RowSet
                 /\ rows'[i].face \in In(c) \cup {Nobody}
                 /\ rows'[i].crop = rows'[i].face
      BY <2>3, <3>3 DEF Row, RowSet
    <3> QED BY <2>1, <3>2, <3>3
  <2>5. rows' \in Seq(RowSet) /\ DOMAIN rows' = 1 .. n
    BY <2>1, <2>2, <2>4
  <2>6. RowsOfChunk'
    BY <2>4, <2>5 DEF RowsOfChunk, In
  <2> QED BY <1>2, <1>3, <1>5, <2>6 DEF InsightFaceIsStraight
<1> QED BY <1>4, <1>5

(* A row of a straight answer goes to its own face, or to nobody: its face *)
(* is still unused, or it would be in the answer twice, and so it is one   *)
(* of the candidates.                                                      *)
LEMMA MeantForItsFace ==
  ASSUME IInv, Straight, next <= Len(rows), NEW f \in MeantFor(rows[next])
  PROVE  f = rows[next].face
<1> DEFINE row == rows[next]
<1>1. next \in DOMAIN rows /\ row \in RowSet /\ row.face \in In(chunk) \cup {Nobody}
  BY DEF IInv, RowsOfChunk
<1>2. CASE row.same /\ row.face \in unused
  BY <1>2 DEF MeantFor
<1>3. CASE ~(row.same /\ row.face \in unused)
  <2>1. f \in Candidates(row)
    BY <1>3 DEF MeantFor
  <2>2. row.face \in In(chunk)
    BY <1>1, <2>1 DEF Candidates
  <2>3. row.face \in unused
    <3>1. ASSUME row.face \notin unused PROVE FALSE
      <4>1. PICK i \in 1 .. next - 1 : i \in DOMAIN rows /\ rows[i].face = row.face
        BY <2>2, <3>1 DEF IInv, GivenOwnRow
      <4>2. i # next
        BY <4>1 DEF IInv, RowsOfChunk
      <4>3. row.face # Nobody
        BY <2>1 DEF Candidates
      <4> QED BY <1>1, <4>1, <4>2, <4>3 DEF Straight, Repeats
    <3> QED BY <3>1
  <2>4. row.face \in Faces
    BY <2>2, LimitsAssumption DEF IInv, ChunksInRange, In, Faces, Chunks
  <2>5. Alike(row.face, row.face)
    <3>1. box[row.face] \in Int
      BY <2>4, LimitsAssumption DEF IInv, FramesOK
    <3>2. \A x \in Int : x - x \in -1 .. 1
      OBVIOUS
    <3> QED BY <3>1, <3>2 DEF Alike
  <2>6. row.face \in Candidates(row)
    BY <2>1, <2>3, <2>5 DEF Candidates
  <2>7. CASE \A g, h \in Candidates(row) : g = h
    BY <2>1, <2>6, <2>7
  <2>8. CASE ~\A g, h \in Candidates(row) : g = h
    <3>1. Positional /\ f = chunk.lo + next - 1
      BY <1>3, <2>8 DEF MeantFor
    <3> QED BY <1>1, <3>1 DEF Straight, InPlace
  <2> QED BY <2>7, <2>8
<1> QED BY <1>2, <1>3

LEMMA PairInv == IInv /\ Pair => IInv'
<1> SUFFICES ASSUME IInv, Pair PROVE IInv'
  OBVIOUS
<1> USE DEF IInv, Pair, frame
<1>1. /\ chunk \in Chunks /\ unused \subseteq Faces /\ unused \subseteq In(chunk)
      /\ next \in DOMAIN rows /\ rows[next] \in RowSet
      /\ rows[next].crop = rows[next].face
  BY LimitsAssumption DEF ChunksInRange, RowsOfChunk, In, Faces, Chunks
<1>2. RowsOfChunk'
  BY DEF RowsOfChunk, In
<1>3. Straight' = Straight /\ InsightFaceIsStraight'
  BY DEF InsightFaceIsStraight, Straight, Repeats, Positional, InPlace, Alike, Size
<1>4. CASE UNCHANGED <<unused, vector>>
  <2>1. FramesOK' /\ ChunksInRange' /\ OthersAreAlike'
    BY <1>4 DEF FramesOK, ChunksInRange, In, OthersAreAlike, Alike
  <2>2. GivenOwnRow'
    BY <1>3, <1>4 DEF GivenOwnRow, RowsOfChunk, In
  <2> QED BY <1>2, <1>3, <2>1, <2>2
<1>5. ASSUME NEW f \in MeantFor(rows[next]), unused' = unused \ {f},
             vector' = [vector EXCEPT ![f] = rows[next].crop]
      PROVE  IInv'
  <2>1. f \in unused /\ f \in Faces
    BY <1>1, <1>5 DEF MeantFor, Candidates
  <2>2. rows[next].face \in Faces \cup {Nobody}
    BY <1>1 DEF RowSet
  <2>3. FramesOK' /\ ChunksInRange'
    BY <1>1, <1>5, <2>1, <2>2 DEF FramesOK, ChunksInRange, In
  <2>4. vector'[f] = rows[next].face /\ \A g \in Faces \ {f} : vector'[g] = vector[g]
    BY <1>1, <1>5, <2>1 DEF FramesOK
  <2>5. Straight => rows[next].face = f
    BY <1>5, MeantForItsFace
  <2>6. rows[next].face = f \/ Alike(f, rows[next].face)
    BY <1>5 DEF MeantFor, Candidates
  <2>7. OthersAreAlike'
    <3>1. ASSUME rows[next].face # f PROVE backend # "insightface"
      BY <2>5, <3>1 DEF InsightFaceIsStraight
    <3>2. ASSUME NEW g \in Faces, vector'[g] \notin {Nobody, g}
          PROVE  backend = "foreign" /\ Alike(g, vector'[g])
      <4>1. CASE g = f
        <5>1. rows[next].face # f
          BY <2>4, <3>2, <4>1
        <5>2. backend = "foreign"
          BY <3>1, <5>1 DEF FramesOK
        <5> QED BY <2>4, <2>6, <4>1, <5>1, <5>2
      <4>2. CASE g # f
        BY <2>4, <3>2, <4>2 DEF OthersAreAlike
      <4> QED BY <4>1, <4>2
    <3> QED BY <3>2 DEF OthersAreAlike, Alike
  <2>8. GivenOwnRow'
    <3>1. SUFFICES ASSUME Straight, NEW g \in In(chunk) \ unused'
                   PROVE  /\ vector'[g] = g
                          /\ \E i \in 1 .. next' - 1 : i \in DOMAIN rows /\ rows[i].face = g
      BY <1>3 DEF GivenOwnRow, In
    <3>2. next' - 1 = next /\ next \in 1 .. next
      BY DEF RowsOfChunk
    <3>3. CASE g = f
      BY <1>1, <2>4, <2>5, <3>1, <3>2, <3>3
    <3>4. CASE g # f
      <4>1. g \in In(chunk) \ unused
        BY <1>5, <3>1, <3>4
      <4>2. g \in Faces
        BY <4>1, LimitsAssumption DEF ChunksInRange, In, Faces, Chunks
      <4>3. vector[g] = g /\ \E i \in 1 .. next - 1 : i \in DOMAIN rows /\ rows[i].face = g
        BY <3>1, <4>1 DEF GivenOwnRow
      <4>4. 1 .. next - 1 \subseteq 1 .. next
        BY DEF RowsOfChunk
      <4> QED BY <2>4, <3>2, <3>4, <4>2, <4>3, <4>4
    <3> QED BY <3>3, <3>4
  <2> QED BY <1>2, <1>3, <2>3, <2>7, <2>8
<1> QED BY <1>4, <1>5

-----------------------------------------------------------------------------
LEMMA NextInv == IInv /\ [Next]_vars => IInv'
<1> SUFFICES ASSUME IInv, [Next]_vars PROVE IInv'
  OBVIOUS
<1> DEFINE InRange(c) == c \in Chunks /\ 1 <= c.lo /\ c.lo <= c.hi /\ c.hi <= Limit
<1>0. \A c \in pending : InRange(c)
  BY DEF IInv, ChunksInRange
<1>1. CASE LimitFaces
  BY <1>1, LimitFacesInv
<1>2. CASE StopRequested
  BY <1>0, <1>2, FrameInv DEF StopRequested, frame, pairing
<1>3. CASE \E c \in pending : SkipChunk(c)
  BY <1>0, <1>3, FrameInv DEF SkipChunk, frame, pairing
<1>4. CASE \E c \in pending : EmbeddingRaises(c)
  BY <1>0, <1>4, FrameInv DEF EmbeddingRaises, frame, pairing
<1>5. CASE \E c \in pending : EmbeddingFails(c)
  BY <1>0, <1>5, FrameInv DEF EmbeddingFails, frame, pairing
<1>6. CASE \E c \in pending : OutOfMemory(c)
  BY <1>6, OutOfMemoryInv
<1>7. CASE \E c \in pending : Answer(c)
  BY <1>7, AnswerInv
<1>8. CASE Pair
  BY <1>8, PairInv
<1>9. CASE Accept
  BY <1>0, <1>9, FrameInv DEF Accept, frame, pairing
<1>10. CASE Return
  BY <1>0, <1>10, FrameInv DEF Return, frame, pairing
<1>11. CASE UNCHANGED vars
  BY <1>0, <1>11, FrameInv DEF vars, frame, pairing
<1> QED
  BY <1>1, <1>2, <1>3, <1>4, <1>5, <1>6, <1>7, <1>8, <1>9, <1>10, <1>11 DEF Next

(* No face is ranked by the embedding of another, for any number of faces, *)
(* any boxes and any splits, except where an answer of another backend has *)
(* a face twice or all of them out of order.                               *)
THEOREM OwnVectorHolds == Spec => []OwnVector
<1>1. Init => IInv
  BY InitInv
<1>2. IInv /\ [Next]_vars => IInv'
  BY NextInv
<1>3. IInv => OwnVector
  BY IInvImpliesOwnVector
<1> QED BY <1>1, <1>2, <1>3, PTL DEF Spec

-----------------------------------------------------------------------------
LEMMA TypeInit == Init => TypeOK
<1> SUFFICES ASSUME Init PROVE TypeOK
  OBVIOUS
<1> USE DEF Init
<1>1. NoChunk \in Chunks
  BY DEF NoChunk, Chunks
<1>2. vector \in [Faces -> Faces \cup {Nobody}]
  OBVIOUS
<1>3. 0 \in 0 .. Limit
  BY LimitsAssumption
<1>4. rows \in Seq([face : Faces \cup {Nobody}, crop : Faces \cup {Nobody}, same : BOOLEAN])
  OBVIOUS
<1>5. /\ pending \subseteq Chunks /\ chunk \in Chunks
      /\ next \in Nat /\ unused \subseteq Faces /\ accepted \subseteq Faces /\ missed \in Int
  BY <1>1
<1>6. /\ backend \in {"insightface", "foreign"}
      /\ batch \in Batches /\ detected \in 0 .. MaxDetected /\ box \in [Faces -> Boxes]
      /\ stop \in BOOLEAN /\ phase \in {"limit", "embed", "pair", "done", "raised"}
  OBVIOUS
<1> QED BY <1>2, <1>3, <1>4, <1>5, <1>6 DEF TypeOK

(* What TypeOK says beyond IInv is kept by every step.                     *)
LEMMA TypeNext == TypeOK /\ IInv /\ [Next]_vars => TypeOK'
<1> SUFFICES ASSUME TypeOK, IInv, [Next]_vars PROVE TypeOK'
  OBVIOUS
<1>1. IInv'
  BY NextInv
<1>2. /\ vector' \in [Faces -> Faces \cup {Nobody}] /\ next' \in Nat
      /\ rows' \in Seq([face : Faces \cup {Nobody}, crop : Faces \cup {Nobody}, same : BOOLEAN])
      /\ chunk' \in Chunks /\ pending' \subseteq Chunks
  BY <1>1 DEF IInv, FramesOK, RowsOfChunk, RowSet, ChunksInRange
<1>3. unused' \subseteq Faces
  BY <1>1, LimitsAssumption DEF IInv, ChunksInRange, In, Faces, Chunks
<1>4. UNCHANGED frame
  BY DEF Next, LimitFaces, StopRequested, SkipChunk, EmbeddingRaises, EmbeddingFails,
         OutOfMemory, Answer, Pair, Accept, Return, vars
<1>5. stop' \in BOOLEAN /\ phase' \in {"limit", "embed", "pair", "done", "raised"}
  BY DEF TypeOK, Next, LimitFaces, StopRequested, SkipChunk, EmbeddingRaises, EmbeddingFails,
         OutOfMemory, Answer, Pair, Accept, Return, vars
<1>6. count' \in 0 .. Limit
  <2>1. Kept \in 0 .. Limit
    BY LimitsAssumption DEF Kept, Least, TypeOK
  <2> QED BY <2>1 DEF TypeOK, Next, LimitFaces, StopRequested, SkipChunk, EmbeddingRaises,
               EmbeddingFails, OutOfMemory, Answer, Pair, Accept, Return, vars
<1>7. accepted' \subseteq Faces
  <2>1. In(chunk) \subseteq Faces
    BY LimitsAssumption DEF IInv, ChunksInRange, In, Faces, Chunks
  <2> QED BY <2>1 DEF TypeOK, Next, LimitFaces, StopRequested, SkipChunk, EmbeddingRaises,
               EmbeddingFails, OutOfMemory, Answer, Pair, Accept, Return, vars
<1>8. missed' \in Int
  <2>1. \A c \in pending : Size(c) \in Int
    BY DEF TypeOK, Size, Chunks
  <2>2. Cardinality(unused) \in Int
    <3>1. IsFiniteSet(Faces)
      BY FS_Interval, LimitsAssumption DEF Faces
    <3>2. IsFiniteSet(unused)
      BY <3>1, FS_Subset DEF TypeOK
    <3> QED BY <3>2, FS_CardinalityType
  <2> QED BY <2>1, <2>2 DEF TypeOK, Next, LimitFaces, StopRequested, SkipChunk,
               EmbeddingRaises, EmbeddingFails, OutOfMemory, Answer, Pair, Accept, Return, vars
<1> QED BY <1>2, <1>3, <1>4, <1>5, <1>6, <1>7, <1>8 DEF TypeOK, frame

(* Every reachable state is well typed.                                    *)
THEOREM TypeCorrect == Spec => []TypeOK
<1>1. Init => IInv /\ TypeOK
  BY InitInv, TypeInit
<1>2. IInv /\ TypeOK /\ [Next]_vars => IInv' /\ TypeOK'
  BY NextInv, TypeNext
<1> QED BY <1>1, <1>2, PTL DEF Spec

-----------------------------------------------------------------------------
(* The budget restores the order of the faces "so downstream association   *)
(* and event payloads remain deterministic" (service.py 1890): batches,    *)
(* retries and halves never return a face after one that followed it.      *)
OrderIsKept ==
  [][\A f \in accepted, g \in accepted' \ accepted : f < g]_vars

(* The chunks that wait lie apart, and behind every face that was returned *)
(* and the chunk in hand.                                                  *)
Apart(c, d) == c.hi < d.lo \/ d.hi < c.lo

ChunksInOrder ==
  /\ phase = "limit" => accepted = {} /\ pending = {}
  /\ accepted \subseteq Int
  /\ \A c, d \in pending : c # d => Apart(c, d)
  /\ \A c \in pending : \A f \in accepted : f < c.lo
  /\ phase = "pair" =>
       /\ \A f \in accepted : f < chunk.lo
       /\ \A c \in pending : chunk.hi < c.lo

OrderInv == FramesOK /\ ChunksInRange /\ ChunksInOrder

LEMMA OrderInitInv == Init => ChunksInOrder
  BY DEF Init, ChunksInOrder

(* Two micro-batches lie apart: they begin a batch's size apart.           *)
LEMMA OffsetsApart ==
  ASSUME NEW b \in Nat \ {0}, NEW k \in Nat, NEW m \in Nat, k < m
  PROVE  1 + k * b + b - 1 < 1 + m * b
<1>1. PICK d \in Nat : m = k + 1 + d
  <2>1. m - k - 1 \in Nat /\ m = k + 1 + (m - k - 1)
    OBVIOUS
  <2> QED BY <2>1
<1>2. m * b = k * b + b + d * b
  BY <1>1
<1>3. k * b \in Nat /\ d * b \in Nat /\ m * b \in Nat
  OBVIOUS
<1> QED BY <1>2, <1>3

LEMMA LimitFacesOrder == OrderInv /\ LimitFaces => ChunksInOrder'
<1> SUFFICES ASSUME OrderInv, LimitFaces PROVE ChunksInOrder'
  OBVIOUS
<1> USE DEF LimitFaces
<1>1. Kept \in Nat /\ batch \in Nat \ {0}
  BY LimitsAssumption DEF OrderInv, FramesOK, Kept, Least
<1>2. ASSUME NEW i \in Offsets, NEW j \in Offsets, i < j
      PROVE  Least(i + batch - 1, Kept) < j
  <2>1. PICK k \in 0 .. Kept : i = 1 + k * batch
    BY DEF Offsets
  <2>2. PICK m \in 0 .. Kept : j = 1 + m * batch
    BY DEF Offsets
  <2>3. k \in Nat /\ m \in Nat /\ k * batch \in Nat /\ m * batch \in Nat
    BY <1>1
  <2>4. k < m
    <3>1. CASE m <= k
      <4>1. CASE m = k
        BY <1>2, <2>1, <2>2, <2>3, <4>1
      <4>2. CASE m < k
        BY <1>1, <1>2, <2>1, <2>2, <2>3, <4>2, OffsetsApart
      <4> QED BY <2>3, <3>1, <4>1, <4>2
    <3> QED BY <2>3, <3>1
  <2>5. i + batch - 1 < j
    BY <1>1, <2>1, <2>2, <2>3, <2>4, OffsetsApart
  <2>6. i \in Nat /\ j \in Nat
    BY <2>1, <2>2, <2>3
  <2> QED BY <1>1, <2>5, <2>6 DEF Least
<1> DEFINE Batch(i) == [lo |-> i, hi |-> Least(i + batch - 1, Kept), depth |-> 0]
<1>3. ASSUME NEW i \in Offsets, NEW j \in Offsets, Batch(i) # Batch(j)
      PROVE  Apart(Batch(i), Batch(j))
  <2>1. i \in Nat /\ j \in Nat
    BY <1>1 DEF Offsets
  <2>2. i # j
    BY <1>3
  <2> QED BY <1>2, <2>1, <2>2 DEF Apart
<1>4. accepted' = {} /\ phase' = "embed"
  BY DEF OrderInv, ChunksInOrder
<1>5. pending' = {Batch(i) : i \in Offsets}
  OBVIOUS
<1> HIDE DEF Batch
<1>6. \A c, d \in pending' : c # d => Apart(c, d)
  BY <1>3, <1>5
<1> QED BY <1>4, <1>6 DEF ChunksInOrder, Apart

(* The chunk that is taken lies before all others.                         *)
LEMMA NextIsFirst ==
  ASSUME OrderInv, NEW c \in pending, IsNext(c), NEW d \in pending, d # c
  PROVE  c.hi < d.lo
<1>1. c \in Chunks /\ d \in Chunks /\ c.lo <= c.hi /\ d.lo <= d.hi
  BY DEF OrderInv, ChunksInRange
<1>2. c.lo <= d.lo /\ Apart(c, d)
  BY DEF IsNext, OrderInv, ChunksInOrder
<1> QED BY <1>1, <1>2 DEF Apart, Chunks

LEMMA OutOfMemoryOrder ==
  \A c \in pending : OrderInv /\ OutOfMemory(c) => ChunksInOrder'
<1> SUFFICES ASSUME NEW c \in pending, OrderInv, OutOfMemory(c) PROVE ChunksInOrder'
  OBVIOUS
<1> USE DEF OrderInv
<1>1. IsNext(c) /\ phase = "embed" /\ phase' = phase /\ UNCHANGED <<accepted, chunk>>
  BY DEF OutOfMemory
<1>2. \A d \in pending : d \in Chunks /\ d.lo <= d.hi
  BY DEF ChunksInRange
<1>3. \A d \in pending : d # c => c.hi < d.lo
  BY <1>1, NextIsFirst
<1>4. CASE Size(c) > 1 /\ c.depth < MaxSplits
  <2>1. pending' = (pending \ {c}) \cup Halves(c)
    BY <1>4 DEF OutOfMemory
  <2>2. ASSUME NEW d \in Halves(c)
        PROVE  /\ d \in Chunks /\ c.lo <= d.lo /\ d.hi <= c.hi
               /\ \A e \in Halves(c) : e # d => Apart(d, e)
    BY <1>2, <1>4, <2>2, HalvesSplit DEF Apart
  <2>3. ASSUME NEW d \in pending', NEW e \in pending', d # e
        PROVE  Apart(d, e)
    <3>1. CASE d \in Halves(c) /\ e \in Halves(c)
      BY <2>2, <2>3, <3>1
    <3>2. CASE d \in Halves(c) /\ e \notin Halves(c)
      BY <1>2, <1>3, <2>1, <2>2, <3>2 DEF Apart, Chunks
    <3>3. CASE d \notin Halves(c) /\ e \in Halves(c)
      BY <1>2, <1>3, <2>1, <2>2, <3>3 DEF Apart, Chunks
    <3>4. CASE d \notin Halves(c) /\ e \notin Halves(c)
      BY <2>1, <2>3, <3>4 DEF ChunksInOrder
    <3> QED BY <3>1, <3>2, <3>3, <3>4
  <2>4. ASSUME NEW d \in pending', NEW f \in accepted
        PROVE  f < d.lo
    <3>1. f < c.lo /\ f \in Int /\ c \in Chunks
      BY <1>2 DEF ChunksInOrder
    <3>2. CASE d \in Halves(c)
      BY <2>2, <3>1, <3>2 DEF Chunks
    <3>3. CASE d \notin Halves(c)
      BY <2>1, <3>3 DEF ChunksInOrder
    <3> QED BY <3>2, <3>3
  <2> QED BY <1>1, <2>3, <2>4 DEF ChunksInOrder, Apart
<1>5. CASE ~(Size(c) > 1 /\ c.depth < MaxSplits)
  BY <1>1, <1>5 DEF OutOfMemory, ChunksInOrder, Apart
<1> QED BY <1>4, <1>5

LEMMA AnswerOrder ==
  \A c \in pending : OrderInv /\ Answer(c) => ChunksInOrder'
<1> SUFFICES ASSUME NEW c \in pending, OrderInv, Answer(c) PROVE ChunksInOrder'
  OBVIOUS
<1>1. \A d \in pending : d # c => c.hi < d.lo
  BY NextIsFirst DEF Answer
<1> QED BY <1>1 DEF OrderInv, Answer, ChunksInOrder, Apart

(* The faces that are returned are of the chunk in hand.                   *)
LEMMA AcceptOrder == OrderInv /\ Accept => ChunksInOrder'
<1> SUFFICES ASSUME OrderInv, Accept PROVE ChunksInOrder'
  OBVIOUS
<1>1. chunk \in Chunks /\ \A c \in pending : c \in Chunks
  BY DEF OrderInv, ChunksInRange
<1>2. ASSUME NEW c \in pending, NEW f \in In(chunk) PROVE f < c.lo
  BY <1>1 DEF OrderInv, ChunksInOrder, Accept, In, Chunks
<1>3. In(chunk) \subseteq Int
  BY <1>1 DEF In, Chunks
<1> QED BY <1>2, <1>3 DEF OrderInv, Accept, ChunksInOrder, Apart

LEMMA OrderNextInv == OrderInv /\ [Next]_vars => ChunksInOrder'
<1> SUFFICES ASSUME OrderInv, [Next]_vars PROVE ChunksInOrder'
  OBVIOUS
<1>1. CASE LimitFaces
  BY <1>1, LimitFacesOrder
<1>2. CASE StopRequested \/ Return \/ UNCHANGED vars
  BY <1>2 DEF StopRequested, Return, vars, frame, pairing, OrderInv, ChunksInOrder, Apart
<1>3. CASE \E c \in pending : SkipChunk(c) \/ EmbeddingRaises(c) \/ EmbeddingFails(c)
  BY <1>3 DEF SkipChunk, EmbeddingRaises, EmbeddingFails, OrderInv, ChunksInOrder, Apart
<1>4. CASE \E c \in pending : OutOfMemory(c)
  BY <1>4, OutOfMemoryOrder
<1>5. CASE \E c \in pending : Answer(c)
  BY <1>5, AnswerOrder
<1>6. CASE Pair
  BY <1>6 DEF Pair, OrderInv, ChunksInOrder, Apart
<1>7. CASE Accept
  BY <1>7, AcceptOrder
<1> QED BY <1>1, <1>2, <1>3, <1>4, <1>5, <1>6, <1>7 DEF Next

(* No step returns a face after one that comes later in the frame.         *)
LEMMA StepsKeepOrder ==
  OrderInv /\ [Next]_vars => [\A f \in accepted, g \in accepted' \ accepted : f < g]_vars
<1> SUFFICES ASSUME OrderInv, Next,
                    NEW f \in accepted, NEW g \in accepted' \ accepted
             PROVE  f < g
  OBVIOUS
<1>1. Accept
  BY DEF Next, LimitFaces, StopRequested, SkipChunk, EmbeddingRaises, EmbeddingFails,
         OutOfMemory, Answer, Pair, Return
<1>2. g \in In(chunk) /\ f < chunk.lo /\ f \in Int /\ chunk \in Chunks
  BY <1>1 DEF Accept, OrderInv, ChunksInOrder, ChunksInRange
<1> QED BY <1>2 DEF In, Chunks

(* Retries and halves keep the order of the faces, for any number of       *)
(* faces, any micro-batch size and any depth of splits.                    *)
THEOREM OrderIsKeptHolds == Spec => OrderIsKept
<1>1. Init => IInv /\ ChunksInOrder
  BY InitInv, OrderInitInv
<1>2. IInv /\ ChunksInOrder => OrderInv
  BY DEF IInv, OrderInv
<1>3. IInv /\ ChunksInOrder /\ [Next]_vars => IInv' /\ ChunksInOrder'
  BY <1>2, NextInv, OrderNextInv
<1>4. IInv /\ ChunksInOrder /\ [Next]_vars
        => [\A f \in accepted, g \in accepted' \ accepted : f < g]_vars
  BY <1>2, StepsKeepOrder
<1> QED BY <1>1, <1>3, <1>4, PTL DEF Spec, OrderIsKept

-----------------------------------------------------------------------------
(* Where the faces of the frame are: waiting, in hand, returned or missed. *)
Waiting == UNION {In(c) : c \in pending}
InHand == IF phase = "pair" THEN In(chunk) ELSE {}
Missed == (1 .. count) \ (accepted \cup Waiting \cup InHand)

CountInv ==
  /\ count \in Nat
  /\ accepted \cup Waiting \cup InHand \subseteq 1 .. count
  /\ phase = "limit" => count = 0
  /\ phase = "done" => pending = {}
  /\ ~stop => missed = Cardinality(Missed)

CountedInv == OrderInv /\ CountInv

LEMMA MissedIsFinite ==
  ASSUME CountInv
  PROVE  IsFiniteSet(Missed) /\ Cardinality(Missed) \in Nat
<1>1. IsFiniteSet(1 .. count)
  BY FS_Interval DEF CountInv
<1> QED BY <1>1, FS_Subset, FS_CardinalityType DEF Missed

(* Faces that are missed in one step are added to the count.               *)
LEMMA MissesAdd ==
  ASSUME NEW S, IsFiniteSet(S), NEW T, IsFiniteSet(T), S \cap T = {}
  PROVE  Cardinality(S \cup T) = Cardinality(S) + Cardinality(T)
<1>1. Cardinality({}) = 0
  BY FS_EmptySet
<1> QED BY <1>1, FS_Union, FS_CardinalityType

LEMMA ChunksHaveTheirSize ==
  ASSUME NEW c \in Chunks, c.lo <= c.hi
  PROVE  IsFiniteSet(In(c)) /\ Cardinality(In(c)) = Size(c)
  BY FS_Interval DEF Chunks, In, Size

LEMMA InitCountInv == Init => CountInv
<1> SUFFICES ASSUME Init PROVE CountInv
  OBVIOUS
<1>1. Missed = {} /\ Waiting = {} /\ InHand = {}
  BY DEF Init, Missed, Waiting, InHand
<1> QED BY <1>1, FS_EmptySet DEF Init, CountInv

(* The micro-batches cover the faces that were kept.                       *)
LEMMA LimitFacesCounts == CountedInv /\ LimitFaces => CountInv'
<1> SUFFICES ASSUME CountedInv, LimitFaces PROVE CountInv'
  OBVIOUS
<1> USE DEF LimitFaces
<1>1. Kept \in Nat /\ batch \in Nat \ {0}
  BY LimitsAssumption DEF CountedInv, OrderInv, FramesOK, Kept, Least
<1>2. count' = Kept /\ phase' = "embed" /\ UNCHANGED <<accepted, missed, stop>>
  OBVIOUS
<1>3. accepted = {} /\ Missed = {}
  <2>1. 1 .. count = {}
    BY DEF CountedInv, CountInv
  <2> QED BY <2>1 DEF CountedInv, CountInv, Missed
<1> DEFINE Batch(i) == [lo |-> i, hi |-> Least(i + batch - 1, Kept), depth |-> 0]
<1>4. pending' = {Batch(i) : i \in Offsets}
  OBVIOUS
<1>5. ASSUME NEW i \in Offsets PROVE In(Batch(i)) \subseteq 1 .. Kept
  <2>1. i \in Nat \ {0}
    BY <1>1 DEF Offsets
  <2> QED BY <1>1, <2>1 DEF In, Least
<1>6. ASSUME NEW f \in 1 .. Kept PROVE \E i \in Offsets : f \in In(Batch(i))
  <2>1. PICK k \in Nat : k * batch <= f - 1 /\ f - 1 < k * batch + batch
    <3> DEFINE k == (f - 1) \div batch
    <3>1. k \in Nat /\ k * batch <= f - 1 /\ f - 1 < k * batch + batch
      BY <1>1
    <3> QED BY <3>1
  <2>2. k <= k * batch
    BY <1>1, <2>1
  <2>3. k \in 0 .. Kept /\ 1 + k * batch \in 1 .. Kept
    BY <1>1, <2>1, <2>2
  <2>4. 1 + k * batch \in Offsets
    BY <2>3 DEF Offsets
  <2>5. f \in In(Batch(1 + k * batch))
    BY <1>1, <2>1, <2>3 DEF In, Least
  <2> QED BY <2>4, <2>5
<1> HIDE DEF Batch
<1>7. Waiting' = 1 .. Kept
  BY <1>4, <1>5, <1>6 DEF Waiting
<1>8. Missed' = {} /\ InHand' = {}
  BY <1>2, <1>3, <1>7 DEF Missed, InHand
<1> QED BY <1>1, <1>2, <1>3, <1>7, <1>8 DEF CountedInv, CountInv

(* A chunk that is left out waits no more, and was nowhere else.           *)
LEMMA LeavingOut ==
  ASSUME CountedInv, NEW c \in pending, phase = "embed", IsNext(c)
  PROVE  /\ c \in Chunks /\ c.lo <= c.hi
         /\ In(c) \subseteq Waiting
         /\ UNION {In(d) : d \in pending \ {c}} = Waiting \ In(c)
         /\ In(c) \cap accepted = {} /\ In(c) \cap Missed = {}
<1>1. /\ \A d \in pending : d \in Chunks /\ d.lo <= d.hi
      /\ \A f \in accepted : f < c.lo /\ f \in Int
  BY DEF CountedInv, OrderInv, ChunksInRange, ChunksInOrder
<1>2. \A d \in pending : d # c => In(d) \cap In(c) = {}
  <2>1. \A d \in pending : d # c => c.hi < d.lo
    BY NextIsFirst DEF CountedInv
  <2> QED BY <1>1, <2>1 DEF In, Chunks
<1>3. In(c) \cap accepted = {}
  BY <1>1 DEF In, Chunks
<1> QED BY <1>1, <1>2, <1>3 DEF Waiting, Missed

LEMMA FailuresCount ==
  ASSUME CountedInv, NEW c \in pending, phase = "embed", IsNext(c), ~stop,
         pending' = pending \ {c}, missed' = missed + Size(c),
         UNCHANGED <<phase, count, stop, accepted>>
  PROVE  CountInv'
<1>1. /\ c \in Chunks /\ c.lo <= c.hi /\ In(c) \subseteq Waiting
      /\ UNION {In(d) : d \in pending \ {c}} = Waiting \ In(c)
      /\ In(c) \cap accepted = {} /\ In(c) \cap Missed = {}
  BY LeavingOut
<1>2. Waiting' = Waiting \ In(c) /\ InHand' = {} /\ InHand = {}
  BY <1>1 DEF Waiting, InHand
<1>3. Missed' = Missed \cup In(c)
  BY <1>1, <1>2 DEF Missed, CountedInv, CountInv
<1>4. Cardinality(Missed') = Cardinality(Missed) + Size(c)
  BY <1>1, <1>3, MissesAdd, MissedIsFinite, ChunksHaveTheirSize DEF CountedInv
<1> QED BY <1>1, <1>2, <1>4 DEF CountedInv, CountInv

LEMMA OutOfMemoryCounts ==
  ASSUME CountedInv, NEW c \in pending, OutOfMemory(c)
  PROVE  CountInv'
<1> USE DEF OutOfMemory
<1>1. CASE Size(c) > 1 /\ c.depth < MaxSplits
  <2>1. /\ pending' = (pending \ {c}) \cup Halves(c)
        /\ UNCHANGED <<phase, count, stop, accepted, missed>>
    BY <1>1
  <2>2. /\ c \in Chunks /\ In(c) \subseteq Waiting
        /\ UNION {In(d) : d \in pending \ {c}} = Waiting \ In(c)
    BY LeavingOut
  <2>3. UNION {In(d) : d \in Halves(c)} = In(c)
    <3>1. PICK half \in Nat : half = Size(c) \div 2 /\ 1 <= half /\ half <= c.hi - c.lo
      BY <1>1, <2>2 DEF Size, Chunks
    <3>2. UNION {In(d) : d \in Halves(c)} = (c.lo .. (c.lo + half) - 1) \cup (c.lo + half .. c.hi)
      BY <3>1 DEF Halves, In
    <3> QED BY <2>2, <3>1, <3>2 DEF In, Chunks
  <2>4. Waiting' = Waiting /\ InHand' = {} /\ InHand = {}
    BY <2>1, <2>2, <2>3 DEF Waiting, InHand
  <2>5. Missed' = Missed
    BY <2>1, <2>4 DEF Missed
  <2> QED BY <2>1, <2>4, <2>5 DEF CountedInv, CountInv
<1>2. CASE ~(Size(c) > 1 /\ c.depth < MaxSplits)
  BY <1>2, FailuresCount
<1> QED BY <1>1, <1>2

LEMMA AnswersCount ==
  ASSUME CountedInv, NEW c \in pending, Answer(c)
  PROVE  CountInv'
<1>1. /\ In(c) \subseteq Waiting
      /\ UNION {In(d) : d \in pending \ {c}} = Waiting \ In(c)
  BY LeavingOut DEF Answer
<1>2. Waiting' = Waiting \ In(c) /\ InHand' = In(c) /\ InHand = {}
  BY <1>1 DEF Answer, Waiting, InHand
<1>3. Missed' = Missed
  BY <1>1, <1>2 DEF Answer, Missed
<1> QED BY <1>1, <1>2, <1>3 DEF CountedInv, CountInv, Answer

LEMMA AcceptCounts == CountedInv /\ Accept => CountInv'
<1> SUFFICES ASSUME CountedInv, Accept PROVE CountInv'
  OBVIOUS
<1> USE DEF Accept
<1>1. /\ InHand = In(chunk) /\ InHand' = {} /\ Waiting' = Waiting
      /\ unused \subseteq In(chunk)
  BY DEF InHand, Waiting, CountedInv, OrderInv, ChunksInRange
<1>2. In(chunk) \cap accepted = {} /\ In(chunk) \cap Waiting = {}
  <2>1. /\ chunk \in Chunks /\ \A c \in pending : c \in Chunks /\ chunk.hi < c.lo
        /\ \A f \in accepted : f < chunk.lo /\ f \in Int
    BY DEF CountedInv, OrderInv, ChunksInRange, ChunksInOrder
  <2>2. \A c \in pending : In(chunk) \cap In(c) = {}
    BY <2>1 DEF In, Chunks
  <2>3. In(chunk) \cap accepted = {}
    BY <2>1 DEF In, Chunks
  <2> QED BY <2>2, <2>3 DEF Waiting
<1>3. Missed' = Missed \cup unused /\ Missed \cap unused = {}
  BY <1>1, <1>2 DEF Missed, CountedInv, CountInv
<1>4. IsFiniteSet(unused)
  <2>1. unused \subseteq 1 .. count /\ count \in Nat
    BY <1>1 DEF CountedInv, CountInv
  <2>2. IsFiniteSet(1 .. count)
    BY <2>1, FS_Interval
  <2> QED BY <2>1, <2>2, FS_Subset
<1>5. Cardinality(Missed') = Cardinality(Missed) + Cardinality(unused)
  BY <1>3, <1>4, MissesAdd, MissedIsFinite DEF CountedInv
<1> QED BY <1>1, <1>5 DEF CountedInv, CountInv

LEMMA NextCountInv == CountedInv /\ [Next]_vars => CountInv'
<1> SUFFICES ASSUME CountedInv, [Next]_vars PROVE CountInv'
  OBVIOUS
<1>1. CASE Pair \/ StopRequested \/ UNCHANGED vars
  <2>1. UNCHANGED <<phase, count, pending, chunk, accepted, missed>> /\ (stop => stop')
    BY <1>1 DEF Pair, StopRequested, vars, frame, pairing
  <2>2. UNCHANGED <<Waiting, InHand, Missed>>
    BY <2>1 DEF Waiting, InHand, Missed
  <2> QED BY <2>1, <2>2 DEF CountedInv, CountInv
<1>2. CASE Return \/ \E c \in pending : EmbeddingRaises(c)
  <2>1. /\ UNCHANGED <<count, pending, stop, accepted, missed>>
        /\ phase = "embed" /\ phase' \in {"done", "raised"}
        /\ phase' = "done" => pending = {}
    BY <1>2 DEF Return, EmbeddingRaises
  <2>2. UNCHANGED <<Waiting, InHand, Missed>>
    BY <2>1 DEF Waiting, InHand, Missed
  <2> QED BY <2>1, <2>2 DEF CountedInv, CountInv
<1>3. CASE \E c \in pending : SkipChunk(c)
  <2>1. /\ UNCHANGED <<phase, count, stop, accepted>> /\ stop
        /\ phase = "embed" /\ pending' \subseteq pending
    BY <1>3 DEF SkipChunk
  <2>2. Waiting' \subseteq Waiting /\ InHand' = InHand
    BY <2>1 DEF Waiting, InHand
  <2> QED BY <2>1, <2>2 DEF CountedInv, CountInv
<1>4. CASE \E c \in pending : EmbeddingFails(c)
  BY <1>4, FailuresCount DEF EmbeddingFails
<1> QED BY <1>1, <1>2, <1>3, <1>4, LimitFacesCounts, OutOfMemoryCounts, AnswersCount,
           AcceptCounts DEF Next

(* Whatever fails, splits or is dropped in the reconciliation: each face   *)
(* of the frame is returned or counted as missed, for any number of faces, *)
(* any micro-batch size and any number of retries.                         *)
THEOREM MissesAreCountedOnce == Spec => []MissesAreCounted
<1>1. Init => IInv /\ ChunksInOrder /\ CountInv
  BY InitInv, OrderInitInv, InitCountInv
<1>2. IInv /\ ChunksInOrder /\ CountInv /\ [Next]_vars => IInv' /\ ChunksInOrder' /\ CountInv'
  BY NextInv, OrderNextInv, NextCountInv DEF IInv, OrderInv, CountedInv
<1>3. CountInv => MissesAreCounted
  <2> SUFFICES ASSUME CountInv, phase = "done", ~stop
               PROVE  missed + Cardinality(accepted) = count
    BY DEF MissesAreCounted
  <2>1. Missed = (1 .. count) \ accepted /\ accepted \subseteq 1 .. count
    BY DEF CountInv, Missed, Waiting, InHand
  <2>2. IsFiniteSet(1 .. count) /\ Cardinality(1 .. count) = count /\ count \in Nat
    BY FS_Interval DEF CountInv
  <2>3. IsFiniteSet(accepted) /\ Cardinality(accepted) \in Nat
    BY <2>1, <2>2, FS_Subset, FS_CardinalityType
  <2>4. Missed \cup accepted = 1 .. count /\ Missed \cap accepted = {}
    BY <2>1
  <2>5. count = Cardinality(Missed) + Cardinality(accepted)
    BY <2>2, <2>3, <2>4, MissesAdd, MissedIsFinite
  <2>6. missed = Cardinality(Missed)
    BY DEF CountInv
  <2> QED BY <2>5, <2>6
<1> QED BY <1>1, <1>2, <1>3, PTL DEF Spec
=============================================================================

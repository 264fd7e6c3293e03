--------------------------- MODULE FaceEmbeddingProps ---------------------------
(***************************************************************************)
(* What FaceEmbedding is checked for.                                      *)
(***************************************************************************)
EXTENDS FaceEmbedding

(* A face of the answer is in it twice.                                    *)
Repeats ==
  \E i, j \in DOMAIN rows :
    i # j /\ rows[i].face = rows[j].face /\ rows[i].face # Nobody

(* No face is ranked by another person's embedding, whatever crops fail,   *)
(* whatever the recogniser leaves out and wherever the faces stand.  Only  *)
(* another backend can mislead the session, only between faces whose boxes *)
(* cannot be told apart, and only if its answer has a face twice, or has   *)
(* all faces but in another order: what is merely ambiguous is dropped.    *)
OwnVector ==
  /\ \A f \in Faces :
       vector[f] \notin {Nobody, f} => backend = "foreign" /\ Alike(f, vector[f])
  /\ \A f \in In(chunk) \ unused :
       vector[f] # f => Repeats \/ Positional

(* The status payload tells the misses: over batches, splits and failures  *)
(* every face of the frame is embedded or counted, once, unless the search *)
(* was stopped or failed.                                                  *)
MissesAreCounted ==
  phase = "done" /\ ~stop => missed + Cardinality(accepted) = count
=============================================================================

------------------------ MODULE TrackConfirmationProofs ------------------------
(***************************************************************************)
(* Proofs about TrackConfirmation: the type invariant, what the record of  *)
(* a track satisfies between two frames, and from it every property of     *)
(* TrackConfirmationProps.  A frame is followed stage by stage, in the     *)
(* order process_with_stats runs them; a lemma per stage says which of the *)
(* record's parts it keeps and which it establishes.                       *)
(***************************************************************************)
EXTENDS TrackConfirmationProps, SequenceTheorems, FiniteSetTheorems, WellFoundedInduction, TLAPS

-----------------------------------------------------------------------------
(* Least and greatest elements.                                            *)

(* A non-empty set of natural numbers has a least one, and Min is it.      *)
LEMMA MinIsLeast ==
  ASSUME NEW S \in SUBSET Nat, S # {}
  PROVE  Min(S) \in S /\ \A x \in S : Min(S) <= x
<1>1. PICK m \in S : \A x \in S : ~(<<x, m>> \in OpToRel(<, Nat))
  BY WFMin, NatLessThanWellFounded
<1>2. \A x \in S : ~(x < m)
  BY <1>1 DEF OpToRel
<1>3. \A x \in S : m <= x
  BY <1>2
<1> QED BY <1>3 DEF Min

(* A non-empty finite set of integers has a greatest one, and Max is it:   *)
(* the element that the fewest reach.                                      *)
LEMMA MaxIsGreatest ==
  ASSUME NEW S \in SUBSET Int, S # {}, IsFiniteSet(S)
  PROVE  Max(S) \in S /\ \A x \in S : x <= Max(S)
<1> DEFINE Above(x) == {y \in S : y >= x}
           counts == {Cardinality(Above(x)) : x \in S}
<1>1. \A x \in S : IsFiniteSet(Above(x)) /\ Cardinality(Above(x)) \in Nat
  BY FS_Subset, FS_CardinalityType
<1>2. counts \in SUBSET Nat /\ counts # {}
  BY <1>1
<1>3. Min(counts) \in counts /\ \A c \in counts : Min(counts) <= c
  <2> HIDE DEF counts
  <2> QED BY <1>2, MinIsLeast
<1>4. PICK m \in S : \A x \in S : Cardinality(Above(m)) <= Cardinality(Above(x))
  BY <1>3
<1>5. ASSUME NEW x \in S, ~(x <= m)
      PROVE  FALSE
  <2>1. m < x /\ \A y \in S : y \in Int
    BY <1>5
  <2>2. m >= m /\ ~(m >= x) /\ \A y \in S : y >= x => y >= m
    BY <2>1
  <2>3. Above(x) \in SUBSET Above(m)
    BY <2>2
  <2>4. m \in Above(m) /\ m \notin Above(x)
    BY <2>2
  <2>5. Cardinality(Above(x)) < Cardinality(Above(m))
    <3> HIDE DEF Above
    <3>1. IsFiniteSet(Above(m)) /\ Above(x) \in SUBSET Above(m)
      BY <2>3, <1>1
    <3>2. Above(x) # Above(m)
      BY <2>4
    <3> QED BY <3>1, <3>2, <1>1, FS_Subset
  <2> QED BY <2>5, <1>4, <1>1, <1>5
<1> HIDE DEF Above
<1>6. \A x \in S : m >= x
  BY <1>5
<1> QED BY <1>6 DEF Max

-----------------------------------------------------------------------------
(* Suffixes of sequences.                                                  *)

Suffix(w, v) ==
  \E k \in Nat : Len(v) = Len(w) + k /\ \A i \in 1 .. Len(w) : w[i] = v[i + k]

SpacedBy(v, d) ==
  \A i, j \in 1 .. Len(v) : i < j => v[j].at - v[i].at >= (j - i) * d

LEMMA SubSeqIsSuffix ==
  ASSUME NEW S, NEW v \in Seq(S), NEW k \in 1 .. Len(v)
  PROVE  /\ SubSeq(v, k, Len(v)) \in Seq(S)
         /\ Suffix(SubSeq(v, k, Len(v)), v)
         /\ \A i \in 1 .. Len(SubSeq(v, k, Len(v))) : SubSeq(v, k, Len(v))[i] = v[k + i - 1]
         /\ Len(SubSeq(v, k, Len(v))) = Len(v) - k + 1
<1>1. Len(v) \in Nat /\ \A i \in k .. Len(v) : v[i] \in S
  BY LenProperties, ElementOfSeq
<1> DEFINE w == SubSeq(v, k, Len(v))
<1>2. w \in Seq(S) /\ Len(w) = Len(v) - k + 1 /\ \A i \in 1 .. Len(v) - k + 1 : w[i] = v[k + i - 1]
  BY <1>1, SubSeqProperties
<1> HIDE DEF w
<1>3. Suffix(w, v)
  <2>1. k - 1 \in Nat /\ Len(v) = Len(w) + (k - 1)
    BY <1>1, <1>2
  <2>2. \A i \in 1 .. Len(w) : w[i] = v[i + (k - 1)]
    <3> TAKE i \in 1 .. Len(w)
    <3>1. k + i - 1 = i + (k - 1)
      BY <1>1, <1>2
    <3> QED BY <1>1, <1>2, <3>1
  <2> QED BY <2>1, <2>2 DEF Suffix
<1> QED BY <1>2, <1>3 DEF w

(* A suffix is spaced as the sequence it comes from.                       *)
LEMMA SuffixSpaced ==
  ASSUME NEW v \in Seq(Samples), NEW w \in Seq(Samples), Suffix(w, v), NEW d \in Nat, SpacedBy(v, d)
  PROVE  SpacedBy(w, d)
<1>1. PICK k \in Nat : Len(v) = Len(w) + k /\ \A i \in 1 .. Len(w) : w[i] = v[i + k]
  BY DEF Suffix
<1>2. Len(v) \in Nat /\ Len(w) \in Nat
  BY LenProperties
<1> SUFFICES ASSUME NEW i \in 1 .. Len(w), NEW j \in 1 .. Len(w), i < j
             PROVE  w[j].at - w[i].at >= (j - i) * d
  BY DEF SpacedBy
<1>3. i + k \in 1 .. Len(v) /\ j + k \in 1 .. Len(v) /\ i + k < j + k /\ (j + k) - (i + k) = j - i
  BY <1>1, <1>2
<1>4. v[j + k].at - v[i + k].at >= ((j + k) - (i + k)) * d
  BY <1>3 DEF SpacedBy
<1> QED BY <1>1, <1>3, <1>4

(* What holds of every sample of a sequence holds of those of a suffix.    *)
LEMMA SuffixElements ==
  ASSUME NEW v \in Seq(Samples), NEW w \in Seq(Samples), Suffix(w, v), NEW i \in 1 .. Len(w)
  PROVE  \E j \in 1 .. Len(v) : w[i] = v[j]
<1>1. PICK k \in Nat : Len(v) = Len(w) + k /\ \A m \in 1 .. Len(w) : w[m] = v[m + k]
  BY DEF Suffix
<1>2. Len(v) \in Nat /\ Len(w) \in Nat
  BY LenProperties
<1> QED BY <1>1, <1>2

LEMMA AppendSpaced ==
  ASSUME NEW v \in Seq(Samples), NEW x \in Samples, NEW d \in Nat, SpacedBy(v, d),
         Len(v) > 0 => x.at - v[Len(v)].at >= d
  PROVE  SpacedBy(Append(v, x), d)
<1> DEFINE n == Len(v)
           w == Append(v, x)
<1>1. n \in Nat /\ \A i \in 1 .. n : v[i] \in Samples
  BY LenProperties, ElementOfSeq
<1>2. Len(w) = n + 1 /\ w[n + 1] = x /\ \A i \in 1 .. n : w[i] = v[i]
  BY AppendProperties
<1>3. \A i \in 1 .. n : v[i].at \in Int
  BY <1>1 DEF Samples
<1>4. x.at \in Int
  BY DEF Samples
<1> HIDE DEF n, w
<1> SUFFICES ASSUME NEW i \in 1 .. n + 1, NEW j \in 1 .. n + 1, i < j
             PROVE  w[j].at - w[i].at >= (j - i) * d
  BY <1>2 DEF SpacedBy, w, n
<1>5. CASE j <= n
  <2>1. w[j] = v[j] /\ w[i] = v[i] /\ i \in 1 .. n /\ j \in 1 .. n
    BY <1>1, <1>2, <1>5
  <2> QED BY <2>1 DEF SpacedBy, n
<1>6. CASE j = n + 1 /\ i = n
  <2>1. (j - i) * d = d /\ n > 0
    BY <1>1, <1>6
  <2>2. x.at - v[n].at >= d
    BY <2>1 DEF n
  <2> QED BY <1>2, <1>1, <1>6, <2>1, <2>2
<1>7. CASE j = n + 1 /\ i < n
  <2>1. v[n].at - v[i].at >= (n - i) * d
    BY <1>1, <1>7 DEF SpacedBy, n
  <2>2. x.at - v[n].at >= d
    BY <1>1, <1>7 DEF n
  <2>3. (j - i) * d = (n - i) * d + d
    BY <1>1, <1>7
  <2>4. (n - i) * d \in Int
    BY <1>1
  <2>5. v[n].at \in Int /\ v[i].at \in Int /\ w[j].at = x.at /\ w[i].at = v[i].at
    BY <1>1, <1>2, <1>3, <1>7
  <2> QED BY <2>1, <2>2, <2>3, <2>4, <2>5, <1>4
<1> QED BY <1>1, <1>5, <1>6, <1>7

-----------------------------------------------------------------------------
(* The operators that look at a window.                                    *)

(* Expiry keeps the newest samples; of a window in the order of time, only *)
(* those that still lie in it.                                             *)
LEMMA InWindowKeeps ==
  ASSUME NEW s \in Records, s.policy \in Policies, NEW t \in Nat
  PROVE  /\ InWindow(s, t) \in Seq(Samples)
         /\ Suffix(InWindow(s, t), s.evidence)
         /\ SpacedBy(s.evidence, 1) =>
              \A i \in 1 .. Len(InWindow(s, t)) : t - InWindow(s, t)[i].at <= s.policy.window
         /\ (\A i \in 1 .. Len(s.evidence) : t - s.evidence[i].at > s.policy.window) =>
              InWindow(s, t) = <<>>
<1> DEFINE v == s.evidence
           inside == {i \in DOMAIN v : t - v[i].at <= s.policy.window}
           first == Min(inside)
           w == InWindow(s, t)
<1>1. v \in Seq(Samples)
  BY DEF Records
<1>2. Len(v) \in Nat /\ DOMAIN v = 1 .. Len(v) /\ \A i \in 1 .. Len(v) : v[i] \in Samples
  BY <1>1, LenProperties, ElementOfSeq
<1>3. s.policy.window \in Int /\ \A i \in 1 .. Len(v) : v[i].at \in Nat
  BY <1>2, SettingsAssumption DEF PolicyOK, Samples
<1>4. w = IF inside = {} THEN <<>> ELSE SubSeq(v, first, Len(v))
  BY DEF InWindow
<1>5. inside \in SUBSET (1 .. Len(v)) /\ inside \in SUBSET Nat
  BY <1>2
<1>6. CASE inside = {}
  <2>1. w = <<>>
    BY <1>4, <1>6
  <2>2. <<>> \in Seq(Samples) /\ Len(<<>>) = 0
    BY EmptySeq
  <2>3. Suffix(<<>>, v)
    BY <1>2, <2>2 DEF Suffix
  <2> HIDE DEF w
  <2> QED BY <2>1, <2>2, <2>3 DEF w
<1>7. CASE inside # {}
  <2>1. first \in inside /\ \A i \in inside : first <= i
    <3> HIDE DEF inside
    <3> QED BY <1>5, <1>7, MinIsLeast
  <2>2. first \in 1 .. Len(v) /\ t - v[first].at <= s.policy.window
    BY <2>1, <1>2
  <2>3. w = SubSeq(v, first, Len(v))
    BY <1>4, <1>7
  <2> HIDE DEF first, w, inside
  <2>4. /\ w \in Seq(Samples) /\ Suffix(w, v) /\ Len(w) = Len(v) - first + 1
        /\ \A i \in 1 .. Len(w) : w[i] = v[first + i - 1]
    BY <1>1, <2>2, <2>3, SubSeqIsSuffix
  <2>5. ASSUME SpacedBy(v, 1), NEW i \in 1 .. Len(w)
        PROVE  t - w[i].at <= s.policy.window
    <3> DEFINE k == first + i - 1
    <3>1. k \in 1 .. Len(v) /\ k - first >= 0 /\ w[i] = v[k]
      BY <2>2, <2>4, <1>2
    <3> HIDE DEF k
    <3>2. v[k].at \in Nat /\ v[first].at \in Nat /\ (k - first) * 1 = k - first
      BY <3>1, <2>2, <1>2, <1>3
    <3>3. first < k => v[k].at - v[first].at >= (k - first) * 1
      BY <3>1, <2>2, <2>5 DEF SpacedBy
    <3>4. v[first].at <= v[k].at
      BY <3>1, <3>2, <3>3, <2>2, <1>2
    <3> QED BY <3>1, <3>2, <3>4, <2>2, <1>3
  <2>6. ~(\A i \in 1 .. Len(v) : t - v[i].at > s.policy.window)
    BY <2>2, <1>3
  <2> QED BY <2>4, <2>5, <2>6 DEF w
<1> QED BY <1>6, <1>7

(* A collect-all window keeps its newest quorum, any other all it has.     *)
LEMMA TrimmedKeeps ==
  ASSUME NEW v \in Seq(Samples), NEW p \in Policies, Len(v) > 0
  PROVE  /\ Trimmed(v, p) \in Seq(Samples)
         /\ Suffix(Trimmed(v, p), v)
         /\ Len(Trimmed(v, p)) > 0
         /\ p.collectAll => Len(Trimmed(v, p)) <= p.required
<1>1. Len(v) \in Nat /\ p.required \in Nat /\ p.required > 0 /\ p.collectAll \in BOOLEAN
  BY LenProperties, SettingsAssumption DEF PolicyOK
<1>2. CASE p.collectAll /\ Len(v) > p.required
  <2> DEFINE k == Len(v) - p.required + 1
  <2>1. k \in 1 .. Len(v) /\ Len(v) - k + 1 = p.required
    BY <1>1, <1>2
  <2>2. Trimmed(v, p) = SubSeq(v, k, Len(v))
    BY <1>2 DEF Trimmed
  <2> HIDE DEF k
  <2>3. SubSeq(v, k, Len(v)) \in Seq(Samples) /\ Suffix(SubSeq(v, k, Len(v)), v)
        /\ Len(SubSeq(v, k, Len(v))) = p.required
    BY <2>1, SubSeqIsSuffix
  <2> QED BY <2>2, <2>3, <1>1
<1>3. CASE ~(p.collectAll /\ Len(v) > p.required)
  <2>1. Trimmed(v, p) = v
    BY <1>3 DEF Trimmed
  <2>2. Suffix(v, v)
    BY <1>1 DEF Suffix
  <2> QED BY <2>1, <2>2, <1>1, <1>3
<1> QED BY <1>2, <1>3

(* The similarities in falling order are similarities of the window.       *)
LEMMA DescendingOrders ==
  ASSUME NEW scores \in Seq(Nat)
  PROVE  /\ Descending(scores) \in Seq(Nat)
         /\ Len(Descending(scores)) = Len(scores)
         /\ \A k \in 1 .. Len(scores) : Descending(scores)[k] \in Range(scores)
         /\ \A j, k \in 1 .. Len(scores) : j <= k => Descending(scores)[j] >= Descending(scores)[k]
<1> DEFINE n == Len(scores)
           Reach(v) == {i \in DOMAIN scores : scores[i] >= v}
           ReachedBy(k) == {v \in Range(scores) : Cardinality(Reach(v)) >= k}
           best == Descending(scores)
<1>1. n \in Nat /\ DOMAIN scores = 1 .. n /\ \A i \in 1 .. n : scores[i] \in Nat
  BY LenProperties, ElementOfSeq
<1>2. IsFiniteSet(1 .. n) /\ Cardinality(1 .. n) = n
  BY <1>1, FS_Interval
<1>3. Range(scores) \in SUBSET Nat /\ Range(scores) = {scores[i] : i \in 1 .. n}
  BY <1>1 DEF Range
<1>4. IsFiniteSet(Range(scores))
  <2>1. scores \in Surjection(1 .. n, Range(scores))
    BY <1>1, <1>3 DEF Surjection
  <2> QED BY <2>1, <1>2, FS_Surjection
<1>5. ASSUME NEW k \in 1 .. n
      PROVE  /\ Max(ReachedBy(k)) \in ReachedBy(k)
             /\ \A v \in ReachedBy(k) : v <= Max(ReachedBy(k))
  <2>1. Range(scores) # {}
    BY <1>1, <1>3, <1>5
  <2>2. Min(Range(scores)) \in Range(scores) /\ \A v \in Range(scores) : Min(Range(scores)) <= v
    BY <1>3, <2>1, MinIsLeast
  <2>3. \A i \in 1 .. n : scores[i] \in Range(scores)
    BY <1>3
  <2>4. Reach(Min(Range(scores))) = 1 .. n
    BY <1>1, <1>3, <2>2, <2>3
  <2>5. Min(Range(scores)) \in ReachedBy(k)
    <3> HIDE DEF Reach, n
    <3> QED BY <2>2, <2>4, <1>1, <1>2, <1>5
  <2>6. ReachedBy(k) \in SUBSET Int /\ ReachedBy(k) # {} /\ ReachedBy(k) \in SUBSET Range(scores)
    <3>1. ReachedBy(k) \in SUBSET Range(scores)
      OBVIOUS
    <3> HIDE DEF ReachedBy
    <3> QED BY <1>3, <2>5, <3>1
  <2> HIDE DEF ReachedBy
  <2>7. IsFiniteSet(ReachedBy(k))
    BY <1>4, <2>6, FS_Subset
  <2> QED BY <2>6, <2>7, MaxIsGreatest
<1>6. best = [k \in 1 .. n |-> Max(ReachedBy(k))]
  BY <1>1 DEF Descending
<1>7. \A k \in 1 .. n : best[k] = Max(ReachedBy(k)) /\ best[k] \in Range(scores) /\ best[k] \in Nat
  BY <1>3, <1>5, <1>6
<1>8. best \in Seq(Nat) /\ Len(best) = n
  <2> HIDE DEF best, ReachedBy
  <2>1. best \in [1 .. n -> Nat]
    BY <1>6, <1>7
  <2> QED BY <1>1, <2>1, SeqDef, LenProperties
<1>9. ASSUME NEW j \in 1 .. n, NEW k \in 1 .. n, j <= k
      PROVE  best[j] >= best[k]
  <2>1. \A v \in Range(scores) : Cardinality(Reach(v)) \in Nat
    <3> TAKE v \in Range(scores)
    <3>1. Reach(v) \in SUBSET (1 .. n)
      BY <1>1
    <3> HIDE DEF Reach
    <3> QED BY <3>1, <1>2, FS_Subset, FS_CardinalityType
  <2>2. ReachedBy(k) \subseteq ReachedBy(j)
    <3> HIDE DEF Reach
    <3> QED BY <2>1, <1>1, <1>9
  <2>3. best[k] \in ReachedBy(j) /\ best[j] = Max(ReachedBy(j))
    BY <1>5, <1>7, <2>2
  <2> HIDE DEF best, ReachedBy
  <2>4. best[k] <= best[j]
    BY <2>3, <1>5
  <2> QED BY <2>4, <1>7
<1> QED BY <1>7, <1>8, <1>9

LEMMA StatisticTyped ==
  ASSUME NEW v \in Seq(Samples)
  PROVE  WindowStatistic(v) \in Int
<1> DEFINE best == Descending(ScoresOf(v))
           n == Len(best)
<1>1. Len(v) \in Nat /\ DOMAIN v = 1 .. Len(v) /\ \A i \in 1 .. Len(v) : v[i] \in Samples
  BY LenProperties, ElementOfSeq
<1>2. ScoresOf(v) \in Seq(Nat)
  <2>1. ScoresOf(v) \in [1 .. Len(v) -> Nat]
    BY <1>1, SettingsAssumption DEF ScoresOf, Samples
  <2> QED BY <1>1, <2>1, SeqDef
<1>3. best \in Seq(Nat)
  BY <1>2, DescendingOrders
<1> HIDE DEF best
<1>4. n \in Nat /\ \A i \in 1 .. n : best[i] \in Nat
  BY <1>3, LenProperties, ElementOfSeq
<1>5. StatisticOf(best) \in Int
  <2>1. CASE best = <<>>
    BY <2>1 DEF StatisticOf, NoSimilarity, Sixth
  <2>2. CASE best # <<>>
    <3>1. n \in Nat \ {0}
      BY <1>3, <2>2, EmptySeq
    <3>2. CASE Statistic = "median"
      <4> DEFINE half == (n + 1) \div 2
      <4>1. half \in 1 .. n /\ n + 1 - half \in 1 .. n
        BY <3>1
      <4>2. best[half] \in Int /\ best[n + 1 - half] \in Int
        BY <4>1, <1>4
      <4>3. StatisticOf(best) = (Sixth \div 2) * (best[half] + best[n + 1 - half])
        BY <2>2, <3>2 DEF StatisticOf, MedianOf
      <4> QED BY <4>2, <4>3 DEF Sixth
    <3>3. CASE Statistic # "median"
      <4> DEFINE count == IF n < TopK THEN n ELSE TopK
                 total == best[1] + (IF count > 1 THEN best[2] ELSE 0) + (IF count > 2 THEN best[3] ELSE 0)
      <4>1. count \in 1 .. 3 /\ count <= n
        <5>1. TopK \in {1, 2, 3}
          BY SettingsAssumption
        <5> HIDE DEF n
        <5> QED BY <3>1, <5>1
      <4>2. best[1] \in Int /\ (count > 1 => best[2] \in Int) /\ (count > 2 => best[3] \in Int)
        BY <4>1, <3>1, <1>4
      <4>3. total \in Int
        BY <4>2
      <4>4. StatisticOf(best) = (Sixth \div count) * total
        BY <2>2, <3>3 DEF StatisticOf, TopMeanOf
      <4> HIDE DEF count, total
      <4>5. Sixth \div count \in Int
        BY <4>1 DEF Sixth
      <4> QED BY <4>3, <4>4, <4>5
    <3> QED BY <3>2, <3>3
  <2> QED BY <2>1, <2>2
<1> QED BY <1>5 DEF WindowStatistic, best

LEMMA QualifyingTyped ==
  ASSUME NEW v \in Seq(Samples), NEW p
  PROVE  Qualifying(v, p) \in Nat
<1> DEFINE those == {i \in DOMAIN v : v[i].score >= p.threshold}
<1>1. Len(v) \in Nat /\ those \in SUBSET (1 .. Len(v))
  BY LenProperties
<1> HIDE DEF those
<1>2. IsFiniteSet(1 .. Len(v))
  BY <1>1, FS_Interval
<1>3. IsFiniteSet(those)
  BY <1>1, <1>2, FS_Subset
<1> QED BY <1>3, FS_CardinalityType DEF Qualifying, those

-----------------------------------------------------------------------------
(* The gates and the order of attempts.                                    *)

LEMMA FirstFailingIs ==
  ASSUME NEW a \in BOOLEAN, NEW b \in BOOLEAN, NEW c \in BOOLEAN, NEW d \in BOOLEAN
  PROVE  FirstFailing(<<a, b, c, d>>) =
           IF a THEN GateOrder[1] ELSE IF b THEN GateOrder[2]
           ELSE IF c THEN GateOrder[3] ELSE IF d THEN GateOrder[4] ELSE Passed
<1> DEFINE fails == <<a, b, c, d>>
           failing(i) == fails[i] /\ \A j \in 1 .. i - 1 : ~fails[j]
           first == CHOOSE i \in 1 .. 4 : failing(i)
<1>1. DOMAIN fails = 1 .. 4 /\ (fails[1] <=> a) /\ (fails[2] <=> b) /\ (fails[3] <=> c) /\ (fails[4] <=> d)
  OBVIOUS
<1>2. FirstFailing(fails) = IF \E i \in 1 .. 4 : fails[i] THEN GateOrder[first] ELSE Passed
  BY <1>1 DEF FirstFailing
<1>3. 1 .. 4 = {1, 2, 3, 4} /\ 1 .. 1 - 1 = {} /\ 1 .. 2 - 1 = {1}
      /\ 1 .. 3 - 1 = {1, 2} /\ 1 .. 4 - 1 = {1, 2, 3}
  OBVIOUS
<1>4. /\ failing(1) <=> a
      /\ failing(2) <=> (~a /\ b)
      /\ failing(3) <=> (~a /\ ~b /\ c)
      /\ failing(4) <=> (~a /\ ~b /\ ~c /\ d)
  <2> HIDE DEF fails
  <2> QED BY <1>1, <1>3
<1>5. (\E i \in 1 .. 4 : fails[i]) <=> (a \/ b \/ c \/ d)
  <2> HIDE DEF fails, failing, first
  <2> QED BY <1>1, <1>3
<1>6. /\ a => first = 1
      /\ ~a /\ b => first = 2
      /\ ~a /\ ~b /\ c => first = 3
      /\ ~a /\ ~b /\ ~c /\ d => first = 4
  <2> HIDE DEF failing
  <2> QED BY <1>3, <1>4
<1> HIDE DEF first, failing
<1> QED BY <1>2, <1>5, <1>6

LEMMA GatesAre ==
  /\ GateOrder[1] = "insufficient_samples" /\ GateOrder[2] = "window_statistic_low"
  /\ GateOrder[3] = "votes_low" /\ GateOrder[4] = "aggregate_low" /\ Passed = "passed"
  /\ DOMAIN GateOrder = 1 .. 4 /\ Len(GateOrder) = 4
  /\ \A i \in 1 .. 4 : GateOrder[i] \in Gates
  /\ \A g \in Gates : g = Passed \/ \E i \in 1 .. 4 : g = GateOrder[i]
  /\ Passed \in Gates
BY DEF GateOrder, Passed, Gates, Range

(* The first gate fails exactly when the quorum is short.                  *)
LEMMA GateOfTells ==
  ASSUME NEW v \in Seq(Samples), NEW p \in Policies, NEW blends \in BOOLEAN
  PROVE  /\ GateOf(v, p, blends) \in Gates
         /\ Len(v) >= p.required => GateOf(v, p, blends) # GateOrder[1]
         /\ GateOf(v, p, blends) = Passed => Len(v) >= p.required
<1>1. Len(v) \in Nat /\ p.required \in Nat /\ p.aggregate \in BOOLEAN
  BY LenProperties, SettingsAssumption DEF PolicyOK
<1> DEFINE a == Len(v) < p.required
           b == WindowStatistic(v) < Sixth * p.threshold
           c == Qualifying(v, p) < p.votes
           d == p.aggregate /\ ~blends
<1>2. a \in BOOLEAN /\ b \in BOOLEAN /\ c \in BOOLEAN /\ d \in BOOLEAN
  OBVIOUS
<1>3. GateOf(v, p, blends) = FirstFailing(<<a, b, c, d>>)
  BY DEF GateOf
<1>4. a <=> Len(v) < p.required
  OBVIOUS
<1> HIDE DEF a, b, c, d
<1>5. GateOf(v, p, blends) = IF a THEN GateOrder[1] ELSE IF b THEN GateOrder[2]
           ELSE IF c THEN GateOrder[3] ELSE IF d THEN GateOrder[4] ELSE Passed
  BY <1>2, <1>3, FirstFailingIs
<1>6. GateOf(v, p, blends) \in Gates
  BY <1>5, GatesAre
<1>7. GateOf(v, p, blends) = Passed => ~a
  BY <1>5, GatesAre
<1>8. ~a => GateOf(v, p, blends) # GateOrder[1]
  BY <1>5, GatesAre
<1> QED BY <1>1, <1>4, <1>6, <1>7, <1>8

LEMMA OrdinalTells ==
  ASSUME NEW a \in Attempts
  PROVE  /\ Ordinal(a) \in 1 .. 5
         /\ Ordinal(a) > 1 <=> a.gate # GateOrder[1]
<1>1. a.gate \in Gates
  BY DEF Attempts
<1>2. CASE a.gate = Passed
  <2>1. Ordinal(a) = 5 /\ a.gate # GateOrder[1]
    BY <1>2, GatesAre DEF Ordinal
  <2> QED BY <2>1
<1>3. ASSUME NEW i \in 1 .. 4, a.gate = GateOrder[i]
      PROVE  Ordinal(a) = i /\ (a.gate # GateOrder[1] <=> i > 1)
  <2>1. \A j \in 1 .. 4 : GateOrder[j] = a.gate <=> j = i
    BY <1>3, GatesAre
  <2>2. a.gate # Passed
    BY <1>3, GatesAre
  <2> QED BY <2>1, <2>2, GatesAre DEF Ordinal
<1>4. CASE \E i \in 1 .. 4 : a.gate = GateOrder[i]
  BY <1>3, <1>4
<1> QED BY <1>1, <1>2, <1>4, GatesAre

(* The order of attempts is that of rank(): irreflexive and asymmetric.    *)
LEMMA RanksAboveIsAnOrder ==
  ASSUME NEW a \in Attempts, NEW b \in Attempts
  PROVE  /\ ~RanksAbove(a, a)
         /\ RanksAbove(a, b) => ~RanksAbove(b, a)
         /\ ~RanksAbove(a, b) => Ordinal(b) >= Ordinal(a)
         /\ RanksAbove(a, b) => Ordinal(a) >= Ordinal(b)
<1>1. /\ Ordinal(a) \in Nat /\ Ordinal(b) \in Nat
      /\ a.qualifying \in Nat /\ b.qualifying \in Nat /\ a.similarity \in Int /\ b.similarity \in Int
  BY OrdinalTells DEF Attempts
<1> QED BY <1>1 DEF RanksAbove

LEMMA EvaluateTyped ==
  ASSUME NEW s \in Records, s.policy \in Policies, NEW blends \in BOOLEAN
  PROVE  /\ Evaluate(s, blends) \in Attempts
         /\ Evaluate(s, blends).banked = Len(s.evidence)
         /\ Evaluate(s, blends).gate = GateOf(s.evidence, s.policy, blends)
<1>1. s.evidence \in Seq(Samples)
  BY DEF Records
<1>2. Len(s.evidence) \in Nat /\ s.policy.threshold \in Nat
  BY <1>1, LenProperties, SettingsAssumption DEF PolicyOK
<1>3. /\ GateOf(s.evidence, s.policy, blends) \in Gates
      /\ Qualifying(s.evidence, s.policy) \in Nat
      /\ WindowStatistic(s.evidence) \in Int
  BY <1>1, GateOfTells, QualifyingTyped, StatisticTyped
<1> QED BY <1>2, <1>3 DEF Evaluate, Attempts

-----------------------------------------------------------------------------
(* What the record of a track satisfies.                                   *)

\* Its timestamps lie in the past, in the order their events happened.
Clocked(s, t) ==
  /\ s.lastTrackSeen <= t /\ s.lastFaceSeen <= t /\ s.lastEvidenceAt <= t
  /\ s.firstEvidenceAt # NoTime => s.firstEvidenceAt <= s.lastEvidenceAt
  /\ \A i \in 1 .. Len(s.evidence) : s.evidence[i].at <= s.lastTrackSeen

\* It is a lead, a hit or neither, and a lead or hit has recorded its outcome.
OneVerdict(s) ==
  /\ ~(s.confirmed /\ s.shadowConfirmed)
  /\ Settled(s) => s.outcomeEmitted /\ s.policy # None

\* Samples in the window were banked between the first and the last one.
Banked(s) ==
  \A i \in 1 .. Len(s.evidence) :
    /\ s.policy # None /\ s.firstEvidenceAt # NoTime
    /\ s.firstEvidenceAt <= s.evidence[i].at /\ s.evidence[i].at <= s.lastEvidenceAt

\* No two samples are of the same instant.
OnePerInstant(s) == SpacedBy(s.evidence, 1)

\* The window of a track not formally confirmed is its policy's.
PureWindow(s) ==
  s.policy # None /\ ~s.confirmed =>
    /\ \A i \in 1 .. Len(s.evidence) : s.evidence[i].under = s.policy
    /\ SpacedBy(s.evidence, s.policy.interval)
    /\ s.policy.collectAll => Len(s.evidence) <= s.policy.required

\* The closest attempt was made of samples banked one instant after the other.
AttemptTookTime(s) ==
  s.bestAttempt # None =>
    s.firstEvidenceAt # NoTime /\ s.bestAttempt.banked - 1 <= s.lastEvidenceAt - s.firstEvidenceAt

\* A track that banked a sample was judged on it, or its outcome is recorded.
Explained(s) ==
  s.firstEvidenceAt # NoTime =>
    s.policy # None /\ (s.bestAttempt # None \/ s.outcomeEmitted)

\* A track with its quorum at hand has had an attempt that was not short of samples.
QuorumShown(s) ==
  s.policy # None /\ ~Settled(s) /\ Len(s.evidence) >= s.policy.required =>
    s.bestAttempt # None /\ Ordinal(s.bestAttempt) > 1

\* The parts that hold at every stage of a frame at time t.
Steady(s, t) ==
  /\ s \in Records
  /\ Clocked(s, t) /\ OneVerdict(s) /\ Banked(s) /\ OnePerInstant(s)
  /\ PureWindow(s) /\ AttemptTookTime(s)

\* At the end of a frame the samples left lie in the window ...
Fresh(s, t) ==
  s.policy # None => \A i \in 1 .. Len(s.evidence) : t - s.evidence[i].at <= s.policy.window

\* ... and a track that is gone is kept no longer than its evidence or the grace period.
Kept(s, t) == t - s.lastTrackSeen <= FlushDelay

Sound(s, t) == Steady(s, t) /\ Explained(s) /\ QuorumShown(s) /\ Fresh(s, t) /\ Kept(s, t)

\* What is open on a track according to its record.
Open(s) ==
  IF s = None THEN "none"
  ELSE IF s.confirmed THEN "formal" ELSE IF s.shadowConfirmed THEN "shadow" ELSE "none"

TracksAreSound ==
  /\ TypeOK
  /\ \A id \in Tracks : states[id] # None => Sound(states[id], now)
  /\ \A id \in Tracks : live[id] = Open(states[id])
  /\ flushed => \A id \in Tracks : states[id] = None

Before(s, t) == \A i \in 1 .. Len(s.evidence) : s.evidence[i].at < t

-----------------------------------------------------------------------------
(* The stages of a frame.                                                  *)

LEMMA EvidenceTyped ==
  ASSUME NEW s \in Records
  PROVE  /\ s.evidence \in Seq(Samples) /\ Len(s.evidence) \in Nat
         /\ DOMAIN s.evidence = 1 .. Len(s.evidence)
         /\ \A i \in 1 .. Len(s.evidence) :
              s.evidence[i] \in Samples /\ s.evidence[i].at \in Nat
<1>1. s.evidence \in Seq(Samples)
  BY DEF Records
<1>2. \A i \in 1 .. Len(s.evidence) : s.evidence[i] \in Samples
  BY <1>1, ElementOfSeq
<1> QED BY <1>1, <1>2, LenProperties DEF Samples

LEMMA PoliciesTyped ==
  ASSUME NEW p \in Policies
  PROVE  /\ p.required \in Nat \ {0} /\ p.window \in Nat /\ p.interval \in Nat /\ p.threshold \in Nat
         /\ p.collectAll \in BOOLEAN /\ p.shadowEligible \in BOOLEAN /\ p # None
BY SettingsAssumption, NoneAssumption DEF PolicyOK

(* Dropping samples at the old end keeps what holds of a record.           *)
LEMMA SuffixSteady ==
  ASSUME NEW t \in Nat, NEW s, Steady(s, t), NEW w \in Seq(Samples), Suffix(w, s.evidence)
  PROVE  /\ Steady([s EXCEPT !.evidence = w], t)
         /\ Explained(s) => Explained([s EXCEPT !.evidence = w])
         /\ QuorumShown(s) => QuorumShown([s EXCEPT !.evidence = w])
         /\ Before(s, t) => Before([s EXCEPT !.evidence = w], t)
<1> DEFINE u == [s EXCEPT !.evidence = w]
           v == s.evidence
<1>1. s \in Records
  BY DEF Steady
<1>2. /\ u \in Records /\ u.evidence = w /\ u.confirmed = s.confirmed
      /\ u.shadowConfirmed = s.shadowConfirmed /\ u.lastTrackSeen = s.lastTrackSeen
      /\ u.lastFaceSeen = s.lastFaceSeen /\ u.policy = s.policy
      /\ u.firstEvidenceAt = s.firstEvidenceAt /\ u.lastEvidenceAt = s.lastEvidenceAt
      /\ u.bestAttempt = s.bestAttempt /\ u.outcomeEmitted = s.outcomeEmitted
  BY <1>1 DEF Records
<1>3. v \in Seq(Samples) /\ Len(v) \in Nat /\ Len(w) \in Nat
  BY <1>1, EvidenceTyped, LenProperties
<1>4. \A i \in 1 .. Len(w) : \E j \in 1 .. Len(v) : w[i] = v[j]
  BY <1>3, SuffixElements
<1>5. Len(w) <= Len(v)
  BY <1>3 DEF Suffix
<1> HIDE DEF u, v
<1>6. Clocked(u, t)
  BY <1>2, <1>4 DEF Steady, Clocked, v
<1>7. OneVerdict(u)
  BY <1>2 DEF Steady, OneVerdict, Settled
<1>8. Banked(u)
  BY <1>2, <1>4 DEF Steady, Banked, v
<1>9. OnePerInstant(u)
  BY <1>2, <1>3, SuffixSpaced DEF Steady, OnePerInstant, v
<1>10. PureWindow(u)
  <2> SUFFICES ASSUME u.policy # None, ~u.confirmed
               PROVE  /\ \A i \in 1 .. Len(w) : w[i].under = u.policy
                      /\ SpacedBy(w, u.policy.interval)
                      /\ u.policy.collectAll => Len(w) <= u.policy.required
    BY <1>2 DEF PureWindow
  <2>1. s.policy \in Policies
    BY <1>1, <1>2 DEF Records
  <2>2. s.policy.interval \in Nat /\ s.policy.required \in Nat
    BY <2>1, PoliciesTyped
  <2>3. /\ \A i \in 1 .. Len(v) : v[i].under = s.policy
        /\ SpacedBy(v, s.policy.interval)
        /\ s.policy.collectAll => Len(v) <= s.policy.required
    BY <1>2 DEF Steady, PureWindow, v
  <2>4. SpacedBy(w, s.policy.interval)
    BY <2>2, <2>3, <1>3, SuffixSpaced DEF v
  <2> QED BY <1>2, <1>3, <1>4, <1>5, <2>2, <2>3, <2>4
<1>11. AttemptTookTime(u)
  BY <1>2 DEF Steady, AttemptTookTime
<1>12. Steady(u, t)
  BY <1>2, <1>6, <1>7, <1>8, <1>9, <1>10, <1>11 DEF Steady
<1>13. Explained(s) => Explained(u)
  BY <1>2 DEF Explained
<1>14. QuorumShown(s) => QuorumShown(u)
  <2> SUFFICES ASSUME QuorumShown(s), u.policy # None, ~Settled(u), Len(w) >= u.policy.required
               PROVE  u.bestAttempt # None /\ Ordinal(u.bestAttempt) > 1
    BY <1>2 DEF QuorumShown
  <2>1. s.policy \in Policies
    BY <1>1, <1>2 DEF Records
  <2>2. Len(v) >= s.policy.required
    BY <1>2, <1>3, <1>5, <2>1, PoliciesTyped
  <2> QED BY <1>2, <2>2 DEF QuorumShown, Settled, v
<1>15. Before(s, t) => Before(u, t)
  BY <1>2, <1>4 DEF Before, v
<1> QED BY <1>12, <1>13, <1>14, <1>15 DEF u

(* A new sample keeps them too, wherever it goes.                          *)
LEMMA BankKeeps ==
  ASSUME NEW t \in Nat, NEW s, Steady(s, t), Before(s, t), s.lastTrackSeen = t,
         NEW face \in Faces, s.policy = face.policy
  PROVE  LET u == Bank(s, face, t)
         IN /\ Steady(u, t) /\ u.firstEvidenceAt # NoTime /\ u.lastTrackSeen = t
            /\ u.policy = s.policy /\ u.confirmed = s.confirmed
            /\ u.shadowConfirmed = s.shadowConfirmed
            /\ u.bestAttempt = s.bestAttempt /\ u.outcomeEmitted = s.outcomeEmitted
<1> DEFINE seen == [s EXCEPT !.lastFaceSeen = IF face.score >= s.policy.threshold THEN t ELSE @]
           kept == InWindow(s, t)
           base == [seen EXCEPT !.evidence = kept]
           x == [at |-> t, score |-> face.score, under |-> s.policy]
           u == Bank(s, face, t)
<1>1. s \in Records /\ s.policy \in Policies /\ face.score \in Scores
  BY DEF Steady, Faces
<1>2. /\ seen \in Records /\ seen.evidence = s.evidence /\ seen.confirmed = s.confirmed
      /\ seen.shadowConfirmed = s.shadowConfirmed /\ seen.lastTrackSeen = s.lastTrackSeen
      /\ seen.lastFaceSeen \in {s.lastFaceSeen, t} /\ seen.policy = s.policy
      /\ seen.firstEvidenceAt = s.firstEvidenceAt /\ seen.lastEvidenceAt = s.lastEvidenceAt
      /\ seen.bestAttempt = s.bestAttempt /\ seen.outcomeEmitted = s.outcomeEmitted
  BY <1>1 DEF Records
<1> HIDE DEF seen
<1>3. Steady(seen, t) /\ Before(seen, t)
  <2>1. Clocked(seen, t)
    BY <1>2 DEF Steady, Clocked
  <2>2. OneVerdict(seen) /\ Banked(seen) /\ OnePerInstant(seen) /\ PureWindow(seen) /\ AttemptTookTime(seen)
    BY <1>2 DEF Steady, OneVerdict, Settled, Banked, OnePerInstant, PureWindow, AttemptTookTime
  <2> QED BY <1>2, <2>1, <2>2 DEF Steady, Before
<1>4. kept \in Seq(Samples) /\ Suffix(kept, seen.evidence)
  BY <1>1, <1>2, InWindowKeeps
<1> HIDE DEF kept
<1>5. Steady(base, t) /\ Before(base, t)
  BY <1>3, <1>4, SuffixSteady
<1>6. /\ base \in Records /\ base.evidence = kept /\ base.confirmed = s.confirmed
      /\ base.shadowConfirmed = s.shadowConfirmed /\ base.lastTrackSeen = t
      /\ base.policy = s.policy
      /\ base.firstEvidenceAt = s.firstEvidenceAt /\ base.lastEvidenceAt = s.lastEvidenceAt
      /\ base.bestAttempt = s.bestAttempt /\ base.outcomeEmitted = s.outcomeEmitted
  BY <1>2, <1>4 DEF Records
<1>7. u = BankInto(seen, kept, face, t)
  BY DEF Bank, seen, kept
<1> HIDE DEF base, u
<1>8. CASE ~Separated(kept, s.policy, t)
  <2>1. u = base
    BY <1>2, <1>7, <1>8 DEF BankInto, base
  <2>2. kept # <<>>
    BY <1>8 DEF Separated
  <2>3. Len(kept) \in Nat \ {0}
    BY <1>4, <2>2, EmptySeq
  <2>4. base.firstEvidenceAt # NoTime
    <3>1. Banked(base) /\ 1 \in 1 .. Len(base.evidence)
      BY <1>5, <1>6, <2>3 DEF Steady
    <3> QED BY <3>1 DEF Banked
  <2> QED BY <1>5, <1>6, <2>1, <2>4 DEF u
<1>9. CASE Separated(kept, s.policy, t)
  <2> DEFINE v == Append(kept, x)
             w == Trimmed(v, s.policy)
             n == Len(kept)
  <2>1. x \in Samples /\ x.at = t /\ x.under = s.policy
    BY <1>1 DEF Samples
  <2> HIDE DEF x
  <2>2. n \in Nat /\ v \in Seq(Samples) /\ Len(v) = n + 1 /\ v[n + 1] = x /\ \A i \in 1 .. n : v[i] = kept[i]
    BY <1>4, <2>1, LenProperties, AppendProperties
  <2>3. u = [seen EXCEPT !.evidence = w,
                         !.firstEvidenceAt = IF @ = NoTime THEN t ELSE @,
                         !.lastEvidenceAt = t]
    BY <1>2, <1>7, <1>9 DEF BankInto, x
  <2> HIDE DEF v
  <2>4. w \in Seq(Samples) /\ Suffix(w, v) /\ (s.policy.collectAll => Len(w) <= s.policy.required)
    BY <1>1, <2>2, TrimmedKeeps
  <2> HIDE DEF w
  <2>5. /\ u \in Records /\ u.evidence = w /\ u.confirmed = s.confirmed
        /\ u.shadowConfirmed = s.shadowConfirmed /\ u.lastTrackSeen = t
        /\ u.lastFaceSeen = seen.lastFaceSeen /\ u.policy = s.policy
        /\ u.firstEvidenceAt = (IF s.firstEvidenceAt = NoTime THEN t ELSE s.firstEvidenceAt)
        /\ u.lastEvidenceAt = t
        /\ u.bestAttempt = s.bestAttempt /\ u.outcomeEmitted = s.outcomeEmitted
    BY <1>2, <2>3, <2>4 DEF Records
  <2>6. \A i \in 1 .. Len(w) : w[i] = x \/ \E j \in 1 .. n : w[i] = kept[j]
    <3> TAKE i \in 1 .. Len(w)
    <3>1. PICK j \in 1 .. Len(v) : w[i] = v[j]
      BY <2>2, <2>4, SuffixElements
    <3>2. CASE j = n + 1
      BY <3>1, <3>2, <2>2
    <3>3. CASE j # n + 1
      BY <3>1, <3>3, <2>2
    <3> QED BY <3>2, <3>3
  <2>7. \A j \in 1 .. n : kept[j] \in Samples /\ kept[j].at \in Nat /\ kept[j].at < t
    <3>1. \A j \in 1 .. n : kept[j] \in Samples
      BY <1>4, ElementOfSeq
    <3>2. \A j \in 1 .. n : kept[j].at < t
      BY <1>5, <1>6 DEF Before
    <3> QED BY <3>1, <3>2 DEF Samples
  <2>8. /\ s.firstEvidenceAt \in Nat \cup {NoTime} /\ s.lastEvidenceAt \in Nat
        /\ s.lastEvidenceAt <= t /\ seen.lastFaceSeen <= t
        /\ (s.firstEvidenceAt # NoTime => s.firstEvidenceAt <= s.lastEvidenceAt)
    BY <1>1, <1>2, <1>3 DEF Steady, Clocked, Records
  <2>9. u.firstEvidenceAt \in Nat /\ u.firstEvidenceAt <= t /\ u.firstEvidenceAt # NoTime
    BY <2>5, <2>8 DEF NoTime
  <2>10. Clocked(u, t)
    BY <2>1, <2>5, <2>6, <2>7, <2>8, <2>9 DEF Clocked
  <2>11. OneVerdict(u)
    BY <2>5 DEF Steady, OneVerdict, Settled
  <2>12. Banked(u)
    <3>1. \A j \in 1 .. n : s.firstEvidenceAt # NoTime /\ s.firstEvidenceAt <= kept[j].at
      BY <1>5, <1>6 DEF Steady, Banked
    <3>2. s.policy # None
      BY <1>1, PoliciesTyped
    <3>3. \A i \in 1 .. Len(w) : u.firstEvidenceAt <= w[i].at /\ w[i].at <= t
      BY <2>1, <2>5, <2>6, <2>7, <2>9, <3>1
    <3> QED BY <2>5, <2>9, <3>2, <3>3 DEF Banked
  <2>13. OnePerInstant(u)
    <3>1. SpacedBy(kept, 1)
      BY <1>5, <1>6 DEF Steady, OnePerInstant
    <3>2. n > 0 => x.at - kept[n].at >= 1
      BY <2>1, <2>2, <2>7
    <3>3. SpacedBy(v, 1)
      BY <1>4, <2>1, <3>1, <3>2, AppendSpaced DEF v
    <3> QED BY <2>2, <2>4, <2>5, <3>3, SuffixSpaced DEF OnePerInstant
  <2>14. PureWindow(u)
    <3> SUFFICES ASSUME ~s.confirmed
                 PROVE  /\ \A i \in 1 .. Len(w) : w[i].under = s.policy
                        /\ SpacedBy(w, s.policy.interval)
                        /\ s.policy.collectAll => Len(w) <= s.policy.required
      BY <2>5 DEF PureWindow
    <3>1. s.policy # None /\ s.policy.interval \in Nat
      BY <1>1, PoliciesTyped
    <3>2. /\ \A j \in 1 .. n : kept[j].under = s.policy
          /\ SpacedBy(kept, s.policy.interval)
      BY <1>5, <1>6, <3>1 DEF Steady, PureWindow
    <3>3. n > 0 => x.at - kept[n].at >= s.policy.interval
      BY <1>9, <2>1, <2>2, EmptySeq DEF Separated
    <3>4. SpacedBy(v, s.policy.interval)
      BY <1>4, <2>1, <3>1, <3>2, <3>3, AppendSpaced DEF v
    <3>5. SpacedBy(w, s.policy.interval)
      BY <2>2, <2>4, <3>1, <3>4, SuffixSpaced
    <3> QED BY <2>1, <2>4, <2>6, <3>2, <3>5
  <2>15. AttemptTookTime(u)
    <3> SUFFICES ASSUME s.bestAttempt # None
                 PROVE  s.bestAttempt.banked - 1 <= t - u.firstEvidenceAt
      BY <2>5, <2>9 DEF AttemptTookTime
    <3>1. s.firstEvidenceAt # NoTime /\ s.bestAttempt.banked - 1 <= s.lastEvidenceAt - s.firstEvidenceAt
      BY DEF Steady, AttemptTookTime
    <3>2. s.bestAttempt.banked \in Nat
      BY <1>1 DEF Records, Attempts
    <3> QED BY <2>5, <2>8, <3>1, <3>2
  <2> QED BY <2>5, <2>9, <2>10, <2>11, <2>12, <2>13, <2>14, <2>15 DEF Steady, u
<1> QED BY <1>8, <1>9

-----------------------------------------------------------------------------
(* What a receiver of the decisions makes of them.                         *)

Telling(news) == {i \in DOMAIN news : news[i].state # "candidate"}

LEMMA LastTelling ==
  ASSUME NEW news \in Seq(Decisions), NEW open
  PROVE  /\ Telling(news) = {} => HeardAll(open, news) = open
         /\ \A m \in 1 .. Len(news) :
              /\ news[m].state # "candidate"
              /\ \A i \in 1 .. Len(news) : i > m => news[i].state = "candidate"
              => HeardAll(open, news) = Heard(news[m])
         /\ Telling(news) # {} =>
              \E m \in 1 .. Len(news) :
                /\ news[m].state # "candidate"
                /\ \A i \in 1 .. Len(news) : i > m => news[i].state = "candidate"
<1>1. Len(news) \in Nat /\ DOMAIN news = 1 .. Len(news)
  BY LenProperties
<1>2. Telling(news) \in SUBSET (1 .. Len(news)) /\ Telling(news) \in SUBSET Int
      /\ \A i \in 1 .. Len(news) : i \in Telling(news) <=> news[i].state # "candidate"
  BY <1>1 DEF Telling
<1>3. IsFiniteSet(Telling(news))
  <2>1. IsFiniteSet(1 .. Len(news))
    BY <1>1, FS_Interval
  <2> QED BY <1>2, <2>1, FS_Subset
<1>4. HeardAll(open, news) = IF Telling(news) = {} THEN open ELSE Heard(news[Max(Telling(news))])
  BY DEF HeardAll, Telling
<1>5. Telling(news) # {} =>
        Max(Telling(news)) \in Telling(news) /\ \A i \in Telling(news) : i <= Max(Telling(news))
  BY <1>2, <1>3, MaxIsGreatest
<1>6. ASSUME NEW m \in 1 .. Len(news), news[m].state # "candidate",
             \A i \in 1 .. Len(news) : i > m => news[i].state = "candidate"
      PROVE  HeardAll(open, news) = Heard(news[m])
  <2>1. m \in Telling(news)
    BY <1>2, <1>6
  <2>2. Max(Telling(news)) \in 1 .. Len(news) /\ m <= Max(Telling(news))
    BY <1>2, <1>5, <2>1
  <2>3. ~(Max(Telling(news)) > m)
    BY <1>2, <1>5, <1>6, <2>1
  <2>4. Max(Telling(news)) = m
    BY <1>1, <2>2, <2>3
  <2> QED BY <1>4, <2>1, <2>4
<1>7. ASSUME Telling(news) # {}
      PROVE  \E m \in 1 .. Len(news) :
               /\ news[m].state # "candidate"
               /\ \A i \in 1 .. Len(news) : i > m => news[i].state = "candidate"
  <2> DEFINE m == Max(Telling(news))
  <2>1. m \in 1 .. Len(news) /\ news[m].state # "candidate" /\ \A i \in Telling(news) : i <= m
    BY <1>2, <1>5, <1>7
  <2> HIDE DEF m
  <2>2. \A i \in 1 .. Len(news) : i > m => news[i].state = "candidate"
    BY <1>2, <2>1, <1>1
  <2> QED BY <2>1, <2>2
<1> QED BY <1>4, <1>6, <1>7

LEMMA HeardThen ==
  ASSUME NEW a \in Seq(Decisions), NEW b \in Seq(Decisions), NEW open
  PROVE  HeardAll(open, a \o b) = HeardAll(HeardAll(open, a), b)
<1> DEFINE c == a \o b
           m == Len(a)
           n == Len(b)
<1>1. /\ m \in Nat /\ n \in Nat /\ c \in Seq(Decisions) /\ Len(c) = m + n
      /\ \A i \in 1 .. m + n : c[i] = IF i <= m THEN a[i] ELSE b[i - m]
      /\ DOMAIN a = 1 .. m /\ DOMAIN b = 1 .. n /\ DOMAIN c = 1 .. m + n
  BY LenProperties, ConcatProperties
<1> HIDE DEF c, m, n
<1>2. /\ \A i \in 1 .. m : c[i] = a[i]
      /\ \A i \in 1 .. n : c[m + i] = b[i] /\ m + i \in 1 .. m + n
      /\ \A i \in 1 .. m + n : i > m => i - m \in 1 .. n /\ c[i] = b[i - m]
  <2>1. \A i \in 1 .. m : c[i] = a[i]
    BY <1>1
  <2>2. ASSUME NEW i \in 1 .. n
        PROVE  c[m + i] = b[i] /\ m + i \in 1 .. m + n
    <3>1. m + i \in 1 .. m + n /\ ~(m + i <= m) /\ (m + i) - m = i
      BY <1>1
    <3> QED BY <1>1, <3>1
  <2>3. \A i \in 1 .. m + n : i > m => i - m \in 1 .. n /\ c[i] = b[i - m]
    BY <1>1
  <2> QED BY <2>1, <2>2, <2>3
<1>3. CASE Telling(b) # {}
  <2>1. PICK k \in 1 .. n : /\ b[k].state # "candidate"
                            /\ \A i \in 1 .. n : i > k => b[i].state = "candidate"
    BY <1>3, LastTelling DEF n
  <2>2. \A i \in 1 .. m + n : i > m + k => c[i].state = "candidate"
    <3> TAKE i \in 1 .. m + n
    <3> HAVE i > m + k
    <3>1. i > m /\ i - m > k
      BY <1>1
    <3> QED BY <1>2, <2>1, <3>1
  <2>3. m + k \in 1 .. m + n /\ c[m + k] = b[k]
    BY <1>2
  <2>4. HeardAll(open, c) = Heard(b[k])
    <3> DEFINE q == m + k
    <3>1. /\ q \in 1 .. Len(c) /\ c[q] = b[k] /\ c[q].state # "candidate"
          /\ \A i \in 1 .. Len(c) : i > q => c[i].state = "candidate"
      BY <1>1, <2>1, <2>2, <2>3
    <3> HIDE DEF q
    <3> QED BY <1>1, <3>1, LastTelling
  <2>5. HeardAll(HeardAll(open, a), b) = Heard(b[k])
    BY <2>1, LastTelling DEF n
  <2> QED BY <2>4, <2>5 DEF c
<1>4. CASE Telling(b) = {} /\ Telling(a) # {}
  <2>1. PICK k \in 1 .. m : /\ a[k].state # "candidate"
                            /\ \A i \in 1 .. m : i > k => a[i].state = "candidate"
    BY <1>4, LastTelling DEF m
  <2>2. \A i \in 1 .. n : b[i].state = "candidate"
    BY <1>1, <1>4 DEF Telling
  <2>3. \A i \in 1 .. m + n : i > k => c[i].state = "candidate"
    BY <1>1, <1>2, <2>1, <2>2
  <2>4. k \in 1 .. m + n /\ c[k] = a[k]
    BY <1>1, <1>2
  <2>5. HeardAll(open, c) = Heard(a[k])
    BY <1>1, <2>1, <2>3, <2>4, LastTelling
  <2>6. HeardAll(open, a) = Heard(a[k])
    BY <2>1, LastTelling DEF m
  <2>7. HeardAll(HeardAll(open, a), b) = HeardAll(open, a)
    BY <1>4, LastTelling
  <2> QED BY <2>5, <2>6, <2>7 DEF c
<1>5. CASE Telling(b) = {} /\ Telling(a) = {}
  <2>1. Telling(c) = {}
    <3>1. \A i \in 1 .. m : a[i].state = "candidate"
      BY <1>1, <1>5 DEF Telling
    <3>2. \A i \in 1 .. n : b[i].state = "candidate"
      BY <1>1, <1>5 DEF Telling
    <3>3. ASSUME NEW i \in 1 .. m + n
          PROVE  c[i].state = "candidate"
      <4>1. CASE i <= m
        BY <1>1, <1>2, <3>1, <4>1
      <4>2. CASE i > m
        BY <1>2, <3>2, <4>2
      <4> QED BY <1>1, <4>1, <4>2
    <3> QED BY <1>1, <3>3 DEF Telling
  <2> QED BY <1>1, <1>5, <2>1, LastTelling DEF c
<1> QED BY <1>3, <1>4, <1>5

LEMMA HeardFew ==
  ASSUME NEW open
  PROVE  /\ <<>> \in Seq(Decisions) /\ HeardAll(open, <<>>) = open
         /\ \A d \in Decisions :
              /\ <<d>> \in Seq(Decisions)
              /\ HeardAll(open, <<d>>) = IF d.state = "candidate" THEN open ELSE Heard(d)
<1>1. <<>> \in Seq(Decisions) /\ Telling(<<>>) = {}
  BY EmptySeq DEF Telling
<1>2. ASSUME NEW d \in Decisions
      PROVE  /\ <<d>> \in Seq(Decisions)
             /\ HeardAll(open, <<d>>) = IF d.state = "candidate" THEN open ELSE Heard(d)
  <2> DEFINE news == <<d>>
  <2>1. news \in Seq(Decisions) /\ Len(news) = 1 /\ DOMAIN news = 1 .. 1 /\ news[1] = d
    OBVIOUS
  <2> HIDE DEF news
  <2>2. CASE d.state = "candidate"
    <3>1. Telling(news) = {}
      BY <2>1, <2>2 DEF Telling
    <3> QED BY <2>1, <2>2, <3>1, LastTelling DEF news
  <2>3. CASE d.state # "candidate"
    <3>1. HeardAll(open, news) = Heard(news[1])
      BY <2>1, <2>3, LastTelling
    <3> QED BY <2>1, <2>3, <3>1 DEF news
  <2> QED BY <2>2, <2>3
<1> QED BY <1>1, <1>2, LastTelling

-----------------------------------------------------------------------------
(* The observation of a face, stage by stage.                              *)

LEMMA ShadowIsBoolean ==
  ASSUME NEW p \in Policies \cup {None}
  PROVE  IsShadow(p) \in BOOLEAN
BY PoliciesTyped, SettingsAssumption DEF IsShadow

LEMMA DecisionTyped ==
  ASSUME NEW s \in Records, NEW what \in {"candidate", "confirmed", "lost"}
  PROVE  /\ Decision(what, s) \in Decisions
         /\ Decision(what, s).state = what /\ Decision(what, s).shadow = IsShadow(s.policy)
<1>1. IsShadow(s.policy) \in BOOLEAN
  BY ShadowIsBoolean DEF Records
<1> QED BY <1>1 DEF Decision, Decisions

LEMMA SwitchKeeps ==
  ASSUME NEW t \in Nat, NEW s, Steady(s, t), Before(s, t), Explained(s), QuorumShown(s),
         s.lastTrackSeen = t, NEW p \in Policies
  PROVE  LET u == SwitchPolicy(s, p)
         IN /\ Steady(u, t) /\ Before(u, t) /\ Explained(u) /\ QuorumShown(u)
            /\ u.lastTrackSeen = t /\ u.policy = p /\ u.confirmed = s.confirmed
            /\ u.shadowConfirmed = (s.shadowConfirmed /\ ~Demotes(s, p))
            /\ u.bestAttempt = s.bestAttempt /\ u.outcomeEmitted = s.outcomeEmitted
<1> DEFINE u == SwitchPolicy(s, p)
           demoted == Demotes(s, p)
           wipes == demoted \/ ~(s.policy \in {None, p} \/ s.confirmed)
<1>1. s \in Records
  BY DEF Steady
<1>2. Len(<<>>) = 0 /\ <<>> \in Seq(Samples)
  BY EmptySeq
<1>3. /\ s.confirmed \in BOOLEAN /\ s.shadowConfirmed \in BOOLEAN /\ s.policy \in Policies \cup {None}
      /\ ~(s.confirmed /\ s.shadowConfirmed) /\ p # None /\ p.required \in Nat \ {0}
      /\ demoted \in BOOLEAN /\ (demoted => s.shadowConfirmed)
  BY <1>1, PoliciesTyped DEF Records, Steady, OneVerdict, Demotes
<1>4. /\ u \in Records /\ u.policy = p /\ u.confirmed = s.confirmed
      /\ u.shadowConfirmed = (s.shadowConfirmed /\ ~demoted)
      /\ u.evidence = (IF wipes THEN <<>> ELSE s.evidence)
      /\ u.lastTrackSeen = s.lastTrackSeen /\ u.lastFaceSeen = s.lastFaceSeen
      /\ u.firstEvidenceAt = s.firstEvidenceAt /\ u.lastEvidenceAt = s.lastEvidenceAt
      /\ u.bestAttempt = s.bestAttempt /\ u.outcomeEmitted = s.outcomeEmitted
  <2>1. Never \in Int
    BY SettingsAssumption DEF Never
  <2>2. CASE demoted
    <3>1. u = [s EXCEPT !.evidence = <<>>, !.lastCandidateEmit = Never, !.policy = p,
                        !.shadowConfirmed = FALSE]
      BY <1>1, <2>2 DEF SwitchPolicy, Wiped, Records
    <3> QED BY <1>1, <1>2, <1>3, <2>1, <2>2, <3>1 DEF Records
  <2>3. CASE ~demoted /\ wipes
    <3>1. u = [s EXCEPT !.evidence = <<>>, !.lastCandidateEmit = Never, !.policy = p]
      BY <2>3 DEF SwitchPolicy, Wiped
    <3> QED BY <1>1, <1>2, <1>3, <2>1, <2>3, <3>1 DEF Records
  <2>4. CASE ~wipes
    <3>1. u = [s EXCEPT !.policy = p]
      BY <2>4 DEF SwitchPolicy
    <3> QED BY <1>1, <1>3, <2>4, <3>1 DEF Records
  <2> QED BY <2>2, <2>3, <2>4
<1>5. \/ Len(u.evidence) = 0
      \/ u.evidence = s.evidence /\ (s.policy = p \/ s.confirmed)
  <2>1. CASE wipes
    BY <1>2, <1>4, <2>1
  <2>2. CASE ~wipes /\ s.policy = None
    <3>1. Len(s.evidence) \in Nat /\ \A i \in 1 .. Len(s.evidence) : FALSE
      BY <1>1, <2>2, EvidenceTyped DEF Steady, Banked
    <3>2. Len(s.evidence) = 0
      BY <3>1
    <3> QED BY <1>4, <2>2, <3>2
  <2>3. CASE ~wipes /\ s.policy # None
    BY <1>4, <2>3
  <2> QED BY <2>1, <2>2, <2>3
<1> HIDE DEF u, wipes, demoted
<1>6. Clocked(u, t) /\ Before(u, t)
  BY <1>4, <1>5 DEF Steady, Clocked, Before
<1>7. OneVerdict(u)
  BY <1>3, <1>4 DEF Steady, OneVerdict, Settled
<1>8. Banked(u)
  BY <1>3, <1>4, <1>5 DEF Steady, Banked
<1>9. OnePerInstant(u)
  BY <1>5 DEF Steady, OnePerInstant, SpacedBy
<1>10. PureWindow(u)
  <2>1. CASE Len(u.evidence) = 0
    BY <1>3, <1>4, <2>1 DEF PureWindow, SpacedBy
  <2>2. CASE u.evidence = s.evidence /\ s.policy = p
    BY <1>4, <2>2 DEF Steady, PureWindow
  <2>3. CASE s.confirmed
    BY <1>4, <2>3 DEF PureWindow
  <2> QED BY <1>5, <2>1, <2>2, <2>3
<1>11. AttemptTookTime(u) /\ Explained(u)
  BY <1>3, <1>4 DEF Steady, AttemptTookTime, Explained
<1>12. QuorumShown(u)
  <2>1. CASE Len(u.evidence) = 0
    BY <1>3, <1>4, <2>1 DEF QuorumShown
  <2>2. CASE u.evidence = s.evidence /\ s.policy = p
    <3>1. CASE demoted
      <4>1. Len(u.evidence) = 0
        BY <1>2, <1>4, <3>1 DEF wipes
      <4> QED BY <4>1, <2>1
    <3>2. CASE ~demoted
      BY <1>4, <2>2, <3>2 DEF QuorumShown, Settled
    <3> QED BY <3>1, <3>2
  <2>3. CASE s.confirmed
    BY <1>4, <2>3 DEF QuorumShown, Settled
  <2> QED BY <1>5, <2>1, <2>2, <2>3
<1> QED BY <1>4, <1>6, <1>7, <1>8, <1>9, <1>10, <1>11, <1>12 DEF Steady, u, demoted

(* Candidate news only note when they were sent.                           *)
LEMMA CandidateKeeps ==
  ASSUME NEW t \in Nat, NEW s, Steady(s, t), s.policy \in Policies
  PROVE  LET c == Candidate(s, t)  u == c.state
         IN /\ Steady(u, t) /\ u.evidence = s.evidence /\ u.policy = s.policy
            /\ u.lastTrackSeen = s.lastTrackSeen /\ u.firstEvidenceAt = s.firstEvidenceAt
            /\ u.confirmed = s.confirmed /\ u.shadowConfirmed = s.shadowConfirmed
            /\ u.bestAttempt = s.bestAttempt /\ u.outcomeEmitted = s.outcomeEmitted
            /\ c.decisions \in Seq(Decisions) /\ c.outcomes = <<>>
            /\ \A open : HeardAll(open, c.decisions) = open
<1> DEFINE c == Candidate(s, t)
           sent == [s EXCEPT !.lastCandidateEmit = t]
<1>1. s \in Records
  BY DEF Steady
<1>2. CASE c = Quiet(s)
  BY <1>2, HeardFew DEF Quiet, Stage
<1>3. CASE c = Stage(sent, <<Decision("candidate", s)>>, <<>>)
  <2>1. /\ sent \in Records /\ sent.evidence = s.evidence /\ sent.confirmed = s.confirmed
        /\ sent.shadowConfirmed = s.shadowConfirmed /\ sent.lastTrackSeen = s.lastTrackSeen
        /\ sent.lastFaceSeen = s.lastFaceSeen /\ sent.policy = s.policy
        /\ sent.firstEvidenceAt = s.firstEvidenceAt /\ sent.lastEvidenceAt = s.lastEvidenceAt
        /\ sent.bestAttempt = s.bestAttempt /\ sent.outcomeEmitted = s.outcomeEmitted
    BY <1>1 DEF Records
  <2>2. c.state = sent /\ c.decisions = <<Decision("candidate", s)>> /\ c.outcomes = <<>>
    BY <1>3 DEF Stage
  <2> HIDE DEF sent, c
  <2>3. Steady(sent, t)
    BY <2>1 DEF Steady, Clocked, OneVerdict, Settled, Banked, OnePerInstant, PureWindow, AttemptTookTime
  <2>4. c.decisions \in Seq(Decisions) /\ \A open : HeardAll(open, c.decisions) = open
    BY <1>1, <2>2, DecisionTyped, HeardFew
  <2> QED BY <2>1, <2>2, <2>3, <2>4 DEF c
<1>4. c = Quiet(s) \/ c = Stage(sent, <<Decision("candidate", s)>>, <<>>)
  BY DEF Candidate
<1> QED BY <1>2, <1>3, <1>4

LEMMA BestOf ==
  ASSUME NEW s \in Records, NEW a \in Attempts
  PROVE  /\ Best(s, a) \in {a, s.bestAttempt} /\ Best(s, a) \in Attempts
         /\ Ordinal(Best(s, a)) >= Ordinal(a)
         /\ s.bestAttempt # None => ~RanksAbove(s.bestAttempt, Best(s, a))
<1>1. Ordinal(a) \in Nat /\ ~RanksAbove(a, a)
  BY OrdinalTells, RanksAboveIsAnOrder
<1>2. CASE s.bestAttempt = None
  BY <1>1, <1>2 DEF Best
<1>3. CASE s.bestAttempt # None
  <2>1. s.bestAttempt \in Attempts
    BY <1>3 DEF Records
  <2> QED BY <1>1, <1>3, <2>1, RanksAboveIsAnOrder DEF Best
<1> QED BY <1>2, <1>3

\* What a frame records of a track that stays: nothing, or a hit that took its time.
HitOf(o) ==
  /\ o \in Outcomes /\ Earned(o)
  /\ o.took >= (o.policy.required - 1) * o.policy.interval

HitOrNothing(emitted, r) ==
  \/ r.outcomes = <<>> /\ r.state.outcomeEmitted = emitted
  \/ r.state.outcomeEmitted /\ \E o : HitOf(o) /\ r.outcomes = <<o>>

LEMMA ScaledUp ==
  ASSUME NEW a \in Nat, NEW b \in Nat, NEW d \in Nat, a <= b
  PROVE  a * d <= b * d
<1> DEFINE k == b - a
<1>1. k \in Nat /\ b = a + k
  OBVIOUS
<1> HIDE DEF k
<1>2. b * d = a * d + k * d /\ k * d \in Nat /\ a * d \in Nat
  BY <1>1
<1> QED BY <1>2

(* The window's first and last sample lie as far apart as its samples ask. *)
LEMMA WindowSpans ==
  ASSUME NEW t \in Nat, NEW s, Steady(s, t), Len(s.evidence) > 0
  PROVE  /\ s.firstEvidenceAt \in Nat
         /\ Len(s.evidence) - 1 <= s.lastEvidenceAt - s.firstEvidenceAt
         /\ s.policy \in Policies
         /\ ~s.confirmed =>
              (Len(s.evidence) - 1) * s.policy.interval <= s.lastEvidenceAt - s.firstEvidenceAt
<1> DEFINE v == s.evidence
           n == Len(v)
           from == v[1].at
           until == v[n].at
<1>1. s \in Records
  BY DEF Steady
<1>2. n \in Nat /\ n > 0 /\ 1 \in 1 .. n /\ n \in 1 .. n /\ from \in Nat /\ until \in Nat
  BY <1>1, EvidenceTyped
<1>3. /\ s.policy # None /\ s.firstEvidenceAt # NoTime
      /\ s.firstEvidenceAt <= from /\ until <= s.lastEvidenceAt
  BY <1>2 DEF Steady, Banked
<1>4. /\ s.firstEvidenceAt \in Nat /\ s.lastEvidenceAt \in Nat /\ s.policy \in Policies
  BY <1>1, <1>3 DEF Records
<1> HIDE DEF from, until
<1>5. ASSUME NEW d \in Nat, SpacedBy(v, d)
      PROVE  (n - 1) * d <= s.lastEvidenceAt - s.firstEvidenceAt
  <2>1. CASE n = 1
    <3>1. (n - 1) * d = 0 /\ from = until
      BY <2>1, <1>5 DEF from, until
    <3> QED BY <3>1, <1>2, <1>3, <1>4
  <2>2. CASE n > 1
    <3>1. until - from >= (n - 1) * d
      BY <2>2, <1>2, <1>5 DEF SpacedBy, from, until
    <3>2. (n - 1) * d \in Int
      BY <1>2, <1>5
    <3> QED BY <3>1, <3>2, <1>2, <1>3, <1>4
  <2>3. n = 1 \/ n > 1
    <3> HIDE DEF n
    <3> QED BY <1>2
  <2> QED BY <2>1, <2>2, <2>3
<1>6. n - 1 <= s.lastEvidenceAt - s.firstEvidenceAt
  <2>1. SpacedBy(v, 1)
    BY DEF Steady, OnePerInstant
  <2>2. (n - 1) * 1 = n - 1
    BY <1>2
  <2> QED BY <2>1, <2>2, <1>5
<1>7. ~s.confirmed => (n - 1) * s.policy.interval <= s.lastEvidenceAt - s.firstEvidenceAt
  BY <1>3, <1>4, <1>5, PoliciesTyped DEF Steady, PureWindow
<1> QED BY <1>4, <1>6, <1>7

(* The verdict on a track that just banked or looked at its evidence.      *)
LEMMA VerdictKeeps ==
  ASSUME NEW t \in Nat, NEW s, Steady(s, t), s.policy \in Policies, ~Settled(s),
         s.firstEvidenceAt # NoTime, NEW blends \in BOOLEAN
  PROVE  LET r == Verdict(s, Evaluate(s, blends), t)  u == r.state
         IN /\ Steady(u, t) /\ Explained(u) /\ QuorumShown(u)
            /\ u.evidence = s.evidence /\ u.policy = s.policy /\ u.lastTrackSeen = s.lastTrackSeen
            /\ r.decisions \in Seq(Decisions) /\ HeardAll("none", r.decisions) = Open(u)
            /\ s.bestAttempt # None => u.bestAttempt # None /\ ~RanksAbove(s.bestAttempt, u.bestAttempt)
            /\ HitOrNothing(s.outcomeEmitted, r)
<1> DEFINE a == Evaluate(s, blends)
           r == Verdict(s, a, t)
           u == r.state
           passed == a.gate = Passed
           shadow == IsShadow(s.policy)
           took == IF s.firstEvidenceAt = NoTime THEN 0 ELSE t - s.firstEvidenceAt
           best == Best(s, a)
<1>1. s \in Records
  BY DEF Steady
<1>2. a \in Attempts /\ a.banked = Len(s.evidence) /\ a.gate = GateOf(s.evidence, s.policy, blends)
  BY <1>1, EvaluateTyped
<1> HIDE DEF a
<1>3. best \in {a, s.bestAttempt} /\ best \in Attempts /\ Ordinal(best) >= Ordinal(a)
      /\ (s.bestAttempt # None => ~RanksAbove(s.bestAttempt, best))
  BY <1>1, <1>2, BestOf
<1>4. shadow \in BOOLEAN /\ passed \in BOOLEAN /\ best # None
  BY <1>3, ShadowIsBoolean, NoneAssumption
<1>5. /\ s.firstEvidenceAt \in Nat /\ s.lastEvidenceAt \in Nat /\ s.outcomeEmitted \in BOOLEAN
      /\ s.firstEvidenceAt <= s.lastEvidenceAt /\ s.lastEvidenceAt <= t
      /\ Len(s.evidence) \in Nat /\ s.policy # None /\ s.policy.required \in Nat \ {0}
      /\ s.policy.interval \in Nat
  BY <1>1, EvidenceTyped, PoliciesTyped DEF Records, Steady, Clocked
<1>6. r = Stage([s EXCEPT !.bestAttempt = best, !.confirmed = passed /\ ~shadow,
                          !.shadowConfirmed = passed /\ shadow, !.outcomeEmitted = @ \/ passed],
                IF passed THEN <<Decision("confirmed", s)>> ELSE <<>>,
                IF passed THEN <<Outcome(s, a, TRUE, shadow, took)>> ELSE <<>>)
  BY DEF Verdict
<1> HIDE DEF best, shadow, passed, took, r
<1>7. /\ u = [s EXCEPT !.bestAttempt = best, !.confirmed = passed /\ ~shadow,
                       !.shadowConfirmed = passed /\ shadow, !.outcomeEmitted = @ \/ passed]
      /\ r.decisions = IF passed THEN <<Decision("confirmed", s)>> ELSE <<>>
      /\ r.outcomes = IF passed THEN <<Outcome(s, a, TRUE, shadow, took)>> ELSE <<>>
  BY <1>6 DEF Stage
<1> HIDE DEF u
<1>8. /\ u \in Records /\ u.evidence = s.evidence /\ u.policy = s.policy
      /\ u.lastTrackSeen = s.lastTrackSeen /\ u.lastFaceSeen = s.lastFaceSeen
      /\ u.firstEvidenceAt = s.firstEvidenceAt /\ u.lastEvidenceAt = s.lastEvidenceAt
      /\ u.bestAttempt = best
  BY <1>1, <1>3, <1>4, <1>5, <1>7 DEF Records
<1>9. /\ u.confirmed = (passed /\ ~shadow) /\ u.shadowConfirmed = (passed /\ shadow)
      /\ u.outcomeEmitted = (s.outcomeEmitted \/ passed)
  BY <1>1, <1>7 DEF Records
<1>10. Clocked(u, t) /\ Banked(u) /\ OnePerInstant(u)
  BY <1>8 DEF Steady, Clocked, Banked, OnePerInstant
<1>11. OneVerdict(u)
  BY <1>4, <1>5, <1>8, <1>9 DEF OneVerdict, Settled
<1>12. PureWindow(u)
  <2>1. ~s.confirmed
    BY DEF Settled
  <2> QED BY <1>8, <2>1 DEF Steady, PureWindow
<1>13. AttemptTookTime(u)
  <2>1. best = a => best.banked - 1 <= s.lastEvidenceAt - s.firstEvidenceAt
    BY <1>2, <1>5, WindowSpans
  <2>2. best = s.bestAttempt => best.banked - 1 <= s.lastEvidenceAt - s.firstEvidenceAt
    BY <1>4 DEF Steady, AttemptTookTime
  <2> QED BY <1>3, <1>5, <1>8, <2>1, <2>2 DEF AttemptTookTime
<1>14. Explained(u)
  BY <1>4, <1>5, <1>8 DEF Explained
<1>15. QuorumShown(u)
  <2> SUFFICES ASSUME Len(s.evidence) >= s.policy.required
               PROVE  Ordinal(best) > 1
    BY <1>4, <1>8 DEF QuorumShown
  <2>1. a.gate # GateOrder[1]
    BY <1>1, <1>2, GateOfTells, EvidenceTyped
  <2>2. Ordinal(a) \in Nat /\ Ordinal(best) \in Nat /\ Ordinal(a) > 1
    BY <1>2, <1>3, <2>1, OrdinalTells
  <2> QED BY <1>3, <2>2
<1>16. r.decisions \in Seq(Decisions) /\ HeardAll("none", r.decisions) = Open(u)
  <2> DEFINE d == Decision("confirmed", s)
  <2>1. d \in Decisions /\ d.state = "confirmed" /\ d.shadow = shadow
    BY <1>1, DecisionTyped DEF shadow
  <2> HIDE DEF d
  <2>2. u # None
    BY <1>8, NoneAssumption
  <2>3. CASE passed
    <3>1. r.decisions = <<d>>
      BY <1>7, <2>3 DEF d
    <3>2. HeardAll("none", <<d>>) = Heard(d) /\ <<d>> \in Seq(Decisions)
      BY <2>1, HeardFew
    <3>3. Heard(d) = IF shadow THEN "shadow" ELSE "formal"
      BY <2>1 DEF Heard
    <3>4. Open(u) = IF shadow THEN "shadow" ELSE "formal"
      BY <1>4, <1>9, <2>2, <2>3 DEF Open
    <3> QED BY <3>1, <3>2, <3>3, <3>4
  <2>4. CASE ~passed
    BY <1>7, <1>9, <2>2, <2>4, HeardFew DEF Open
  <2> QED BY <2>3, <2>4
<1>17. HitOrNothing(s.outcomeEmitted, r)
  <2>1. CASE passed
    <3> DEFINE o == Outcome(s, a, TRUE, shadow, took)
    <3>1. Len(s.evidence) >= s.policy.required
      BY <1>1, <1>2, <2>1, GateOfTells, EvidenceTyped DEF passed
    <3>2. (Len(s.evidence) - 1) * s.policy.interval <= s.lastEvidenceAt - s.firstEvidenceAt
      <4>1. ~s.confirmed
        BY DEF Settled
      <4> QED BY <1>5, <3>1, <4>1, WindowSpans
    <3>3. (s.policy.required - 1) * s.policy.interval <= (Len(s.evidence) - 1) * s.policy.interval
      BY <1>5, <3>1, ScaledUp
    <3>4. took = t - s.firstEvidenceAt
      BY DEF took
    <3>5. /\ (s.policy.required - 1) * s.policy.interval \in Int
          /\ (Len(s.evidence) - 1) * s.policy.interval \in Int
      BY <1>5
    <3>6. took \in Int /\ took >= (s.policy.required - 1) * s.policy.interval
      BY <1>5, <3>2, <3>3, <3>4, <3>5
    <3>7. /\ o.confirmed = TRUE /\ o.gate = Passed /\ o.policy = s.policy /\ o.took = took
          /\ o \in Outcomes
      BY <1>2, <1>4, <2>1, <3>6, GatesAre DEF Outcome, Outcomes, passed
    <3> HIDE DEF o
    <3>8. HitOf(o)
      BY <3>6, <3>7 DEF HitOf, Earned
    <3> QED BY <1>7, <1>9, <2>1, <3>8 DEF HitOrNothing, o, u
  <2>2. CASE ~passed
    BY <1>5, <1>7, <1>9, <2>2 DEF HitOrNothing, u
  <2> QED BY <2>1, <2>2
<1>18. Steady(u, t)
  BY <1>8, <1>10, <1>11, <1>12, <1>13 DEF Steady
<1>19. u.bestAttempt # None /\ (s.bestAttempt # None => ~RanksAbove(s.bestAttempt, u.bestAttempt))
  BY <1>3, <1>4, <1>8
<1> QED BY <1>8, <1>14, <1>15, <1>16, <1>17, <1>18, <1>19 DEF u, r, a

\* What a stage makes of a record s at time t.
FollowsFrom(r, s, t) ==
  /\ Steady(r.state, t) /\ Explained(r.state) /\ QuorumShown(r.state)
  /\ r.state.lastTrackSeen = s.lastTrackSeen
  /\ r.decisions \in Seq(Decisions) /\ HeardAll(Open(s), r.decisions) = Open(r.state)
  /\ s.bestAttempt # None =>
       r.state.bestAttempt # None /\ ~RanksAbove(s.bestAttempt, r.state.bestAttempt)
  /\ HitOrNothing(s.outcomeEmitted, r)

LEMMA HitsTyped ==
  ASSUME NEW emitted, NEW r, HitOrNothing(emitted, r)
  PROVE  r.outcomes \in Seq(Outcomes)
<1>1. CASE r.outcomes = <<>>
  BY <1>1, EmptySeq
<1>2. ASSUME NEW o, HitOf(o), r.outcomes = <<o>>
      PROVE  r.outcomes \in Seq(Outcomes)
  BY <1>2 DEF HitOf
<1> QED BY <1>1, <1>2 DEF HitOrNothing

LEMMA QuietFollows ==
  ASSUME NEW t \in Nat, NEW s, Steady(s, t), Explained(s), QuorumShown(s)
  PROVE  FollowsFrom(Quiet(s), s, t)
<1>1. s.bestAttempt # None => ~RanksAbove(s.bestAttempt, s.bestAttempt)
  BY RanksAboveIsAnOrder DEF Steady, Records
<1>2. Quiet(s).state = s /\ Quiet(s).decisions = <<>> /\ Quiet(s).outcomes = <<>>
  BY DEF Quiet, Stage
<1> QED BY <1>1, <1>2, HeardFew DEF FollowsFrom, HitOrNothing

LEMMA SameFlagsSameOpen ==
  ASSUME NEW s \in Records, NEW u \in Records,
         u.confirmed = s.confirmed, u.shadowConfirmed = s.shadowConfirmed
  PROVE  Open(u) = Open(s)
BY NoneAssumption DEF Open

LEMMA ObserveUnderFollows ==
  ASSUME NEW t \in Nat, NEW s, Steady(s, t), Before(s, t), Explained(s), QuorumShown(s),
         s.lastTrackSeen = t, NEW face \in Faces, s.policy = face.policy, NEW blends \in BOOLEAN
  PROVE  FollowsFrom(ObserveUnder(s, face, t, blends), s, t)
<1> DEFINE b == Bank(s, face, t)
           c == Candidate(b, t)
           k == c.state
           r == Verdict(k, Evaluate(k, blends), t)
           result == ObserveUnder(s, face, t, blends)
<1>1. s \in Records /\ s.policy \in Policies /\ s.policy # None
  BY PoliciesTyped DEF Steady, Faces
<1>2. CASE ~Accepts(face.policy, face)
  BY <1>2, QuietFollows DEF ObserveUnder
<1>3. CASE Accepts(face.policy, face)
  <2>1. result = Judge(b, t, blends)
    BY <1>3 DEF ObserveUnder
  <2>2. /\ Steady(b, t) /\ b.firstEvidenceAt # NoTime /\ b.lastTrackSeen = t
        /\ b.policy = s.policy /\ b.confirmed = s.confirmed
        /\ b.shadowConfirmed = s.shadowConfirmed
        /\ b.bestAttempt = s.bestAttempt /\ b.outcomeEmitted = s.outcomeEmitted
    BY BankKeeps
  <2> HIDE DEF b
  <2>3. b \in Records /\ Open(b) = Open(s)
    BY <1>1, <2>2, SameFlagsSameOpen DEF Steady
  <2>4. CASE Settled(b)
    <3>1. Explained(b) /\ QuorumShown(b)
      BY <2>2, <2>4 DEF Steady, OneVerdict, Explained, QuorumShown
    <3>2. FollowsFrom(Quiet(b), b, t)
      BY <2>2, <3>1, QuietFollows
    <3>3. FollowsFrom(Quiet(b), s, t)
      BY <2>2, <2>3, <3>2 DEF FollowsFrom
    <3> QED BY <2>1, <2>4, <3>3 DEF Judge
  <2>5. CASE ~Settled(b)
    <3>1. /\ Steady(k, t) /\ k.evidence = b.evidence /\ k.policy = b.policy
          /\ k.lastTrackSeen = b.lastTrackSeen /\ k.firstEvidenceAt = b.firstEvidenceAt
          /\ k.confirmed = b.confirmed /\ k.shadowConfirmed = b.shadowConfirmed
          /\ k.bestAttempt = b.bestAttempt /\ k.outcomeEmitted = b.outcomeEmitted
          /\ c.decisions \in Seq(Decisions) /\ c.outcomes = <<>>
          /\ HeardAll("none", c.decisions) = "none"
      BY <1>1, <2>2, CandidateKeeps
    <3>2. result = Then(c, r)
      BY <2>1, <2>5 DEF Judge, Judged
    <3> HIDE DEF c
    <3>3. k.policy \in Policies /\ ~Settled(k) /\ k.firstEvidenceAt # NoTime
      BY <1>1, <2>2, <2>5, <3>1 DEF Settled
    <3>4. /\ Steady(r.state, t) /\ Explained(r.state) /\ QuorumShown(r.state)
          /\ r.state.lastTrackSeen = k.lastTrackSeen
          /\ r.decisions \in Seq(Decisions) /\ HeardAll("none", r.decisions) = Open(r.state)
          /\ k.bestAttempt # None =>
               r.state.bestAttempt # None /\ ~RanksAbove(k.bestAttempt, r.state.bestAttempt)
          /\ HitOrNothing(k.outcomeEmitted, r)
      BY <3>1, <3>3, VerdictKeeps
    <3> HIDE DEF k, r, result
    <3>5. /\ result.state = r.state /\ result.decisions = c.decisions \o r.decisions
          /\ result.outcomes = c.outcomes \o r.outcomes
      BY <3>2 DEF Then, Stage
    <3>6. result.outcomes = r.outcomes
      <4>1. r.outcomes \in Seq(Outcomes)
        BY <3>4, HitsTyped
      <4> QED BY <3>1, <3>5, <4>1, ConcatEmptySeq
    <3>7. Open(s) = "none"
      BY <2>3, <2>5, NoneAssumption DEF Settled, Open
    <3>8. result.decisions \in Seq(Decisions) /\ HeardAll(Open(s), result.decisions) = Open(r.state)
      BY <3>1, <3>4, <3>5, <3>7, HeardThen, ConcatProperties
    <3>9. HitOrNothing(s.outcomeEmitted, result)
      BY <2>2, <3>1, <3>4, <3>5, <3>6 DEF HitOrNothing
    <3> QED BY <2>2, <3>1, <3>4, <3>5, <3>8, <3>9 DEF FollowsFrom, result
  <2> QED BY <2>4, <2>5
<1> QED BY <1>2, <1>3

LEMMA ObserveFollows ==
  ASSUME NEW t \in Nat, NEW s, Steady(s, t), Before(s, t), Explained(s), QuorumShown(s),
         s.lastTrackSeen = t, NEW face \in Faces, NEW blends \in BOOLEAN
  PROVE  FollowsFrom(Observe(s, face, t, blends), s, t)
<1> DEFINE p == face.policy
           u == SwitchPolicy(s, p)
           lost == IF Demotes(s, p) THEN <<Decision("lost", s)>> ELSE <<>>
           r == ObserveUnder(u, face, t, blends)
           result == Observe(s, face, t, blends)
<1>1. s \in Records /\ p \in Policies
  BY DEF Steady, Faces
<1>2. /\ Steady(u, t) /\ Before(u, t) /\ Explained(u) /\ QuorumShown(u)
      /\ u.lastTrackSeen = t /\ u.policy = p /\ u.confirmed = s.confirmed
      /\ u.shadowConfirmed = (s.shadowConfirmed /\ ~Demotes(s, p))
      /\ u.bestAttempt = s.bestAttempt /\ u.outcomeEmitted = s.outcomeEmitted
  BY <1>1, SwitchKeeps
<1> HIDE DEF u
<1>3. FollowsFrom(r, u, t)
  BY <1>2, ObserveUnderFollows
<1> HIDE DEF r
<1>4. /\ result.state = r.state /\ result.decisions = lost \o r.decisions
      /\ result.outcomes = <<>> \o r.outcomes
  BY DEF Observe, Then, Stage, u, r
<1>5. result.outcomes = r.outcomes
  <2>1. r.outcomes \in Seq(Outcomes)
    BY <1>3, HitsTyped DEF FollowsFrom
  <2> QED BY <1>4, <2>1, ConcatEmptySeq
<1>6. lost \in Seq(Decisions) /\ HeardAll(Open(s), lost) = Open(u)
  <2>1. u \in Records /\ u # None /\ s # None
    BY <1>1, <1>2, NoneAssumption DEF Steady
  <2>2. CASE Demotes(s, p)
    <3> DEFINE d == Decision("lost", s)
    <3>1. d \in Decisions /\ d.state = "lost"
      BY <1>1, DecisionTyped
    <3> HIDE DEF d
    <3>2. lost = <<d>> /\ <<d>> \in Seq(Decisions) /\ HeardAll(Open(s), <<d>>) = Heard(d)
      BY <2>2, <3>1, HeardFew DEF d
    <3>3. Heard(d) = "none"
      BY <3>1 DEF Heard
    <3>4. ~s.confirmed
      BY <2>2 DEF Demotes, Steady, OneVerdict
    <3>5. Open(u) = "none"
      BY <1>2, <2>1, <2>2, <3>4 DEF Open
    <3> QED BY <3>2, <3>3, <3>5
  <2>3. CASE ~Demotes(s, p)
    <3>1. u.shadowConfirmed <=> s.shadowConfirmed
      BY <1>2, <2>3
    <3>2. Open(u) = Open(s)
      BY <1>2, <2>1, <3>1 DEF Open
    <3> QED BY <2>3, <3>2, HeardFew
  <2> QED BY <2>2, <2>3
<1> HIDE DEF lost, result
<1>7. result.decisions \in Seq(Decisions) /\ HeardAll(Open(s), result.decisions) = Open(r.state)
  BY <1>3, <1>4, <1>6, HeardThen, ConcatProperties DEF FollowsFrom
<1>8. HitOrNothing(s.outcomeEmitted, result)
  BY <1>2, <1>3, <1>4, <1>5 DEF FollowsFrom, HitOrNothing
<1> QED BY <1>2, <1>3, <1>4, <1>7, <1>8 DEF FollowsFrom, result

-----------------------------------------------------------------------------
(* The end of a frame.                                                     *)

(* The closing frame's delay is the longest of the grace period and the    *)
(* windows.                                                                *)
LEMMA FlushDelayIsLongest ==
  /\ FlushDelay \in Nat /\ Grace <= FlushDelay
  /\ \A p \in Policies : p.window <= FlushDelay
<1> DEFINE windows == {p.window : p \in Policies}
           spans == {Grace} \cup windows
<1>1. Grace \in Nat /\ \A p \in Policies : p.window \in Nat
  BY SettingsAssumption, PoliciesTyped
<1>2. IsFiniteSet(windows)
  <2> DEFINE f == [p \in Policies |-> p.window]
  <2>1. f \in Surjection(Policies, windows)
    BY DEF Surjection
  <2> HIDE DEF f, windows
  <2> QED BY <2>1, FS_Surjection, SettingsAssumption
<1>3. spans \in SUBSET Int /\ spans # {} /\ spans \in SUBSET Nat
  BY <1>1
<1>4. IsFiniteSet(spans)
  <2> HIDE DEF windows
  <2> QED BY <1>2, FS_Singleton, FS_Union
<1>5. Max(spans) \in spans /\ \A x \in spans : x <= Max(spans)
  <2> HIDE DEF spans
  <2> QED BY <1>3, <1>4, MaxIsGreatest
<1> QED BY <1>3, <1>5 DEF FlushDelay

LEMMA ExpireKeeps ==
  ASSUME NEW t \in Nat, NEW s, Steady(s, t), Explained(s), QuorumShown(s)
  PROVE  LET u == Expire(s, t)
         IN /\ Steady(u, t) /\ Explained(u) /\ QuorumShown(u) /\ Fresh(u, t)
            /\ u.confirmed = s.confirmed /\ u.shadowConfirmed = s.shadowConfirmed
            /\ u.lastTrackSeen = s.lastTrackSeen /\ u.policy = s.policy
            /\ u.firstEvidenceAt = s.firstEvidenceAt /\ u.bestAttempt = s.bestAttempt
            /\ u.outcomeEmitted = s.outcomeEmitted
            /\ t - s.lastTrackSeen > FlushDelay => u.evidence = <<>>
<1> DEFINE u == Expire(s, t)
           w == InWindow(s, t)
<1>1. s \in Records /\ s.policy \in Policies \cup {None}
  BY DEF Steady, Records
<1>2. CASE s.policy = None
  <2>1. u = s
    BY <1>2 DEF Expire
  <2>2. s.evidence = <<>>
    <3>1. s.evidence \in Seq(Samples) /\ Len(s.evidence) \in Nat /\ ~(1 \in 1 .. Len(s.evidence))
      BY <1>1, <1>2, EvidenceTyped DEF Steady, Banked
    <3>2. Len(s.evidence) = 0
      BY <3>1
    <3> QED BY <3>1, <3>2, EmptySeq
  <2> QED BY <1>2, <2>1, <2>2 DEF Fresh
<1>3. CASE s.policy # None
  <2>1. u = [s EXCEPT !.evidence = w] /\ s.policy \in Policies
    BY <1>1, <1>3 DEF Expire
  <2>2. /\ w \in Seq(Samples) /\ Suffix(w, s.evidence)
        /\ SpacedBy(s.evidence, 1) => \A i \in 1 .. Len(w) : t - w[i].at <= s.policy.window
        /\ (\A i \in 1 .. Len(s.evidence) : t - s.evidence[i].at > s.policy.window) => w = <<>>
    BY <1>1, <2>1, InWindowKeeps
  <2> HIDE DEF w, u
  <2>3. Steady(u, t) /\ Explained(u) /\ QuorumShown(u)
    BY <2>1, <2>2, SuffixSteady
  <2>4. /\ u.evidence = w /\ u.confirmed = s.confirmed /\ u.shadowConfirmed = s.shadowConfirmed
        /\ u.lastTrackSeen = s.lastTrackSeen /\ u.policy = s.policy
        /\ u.firstEvidenceAt = s.firstEvidenceAt /\ u.bestAttempt = s.bestAttempt
        /\ u.outcomeEmitted = s.outcomeEmitted
    BY <1>1, <2>1 DEF Records
  <2>5. Fresh(u, t)
    BY <2>2, <2>4 DEF Fresh, Steady, OnePerInstant
  <2>6. ASSUME t - s.lastTrackSeen > FlushDelay
        PROVE  w = <<>>
    <3>1. s.policy.window \in Nat /\ s.policy.window <= FlushDelay /\ FlushDelay \in Nat
      BY <2>1, PoliciesTyped, FlushDelayIsLongest
    <3>2. s.lastTrackSeen \in Nat
      BY <1>1 DEF Records
    <3>3. \A i \in 1 .. Len(s.evidence) : s.evidence[i].at \in Nat /\ s.evidence[i].at <= s.lastTrackSeen
      BY <1>1, EvidenceTyped DEF Steady, Clocked
    <3>4. \A i \in 1 .. Len(s.evidence) : t - s.evidence[i].at > s.policy.window
      BY <2>6, <3>1, <3>2, <3>3
    <3> QED BY <2>2, <3>4
  <2> QED BY <2>3, <2>4, <2>5, <2>6 DEF u
<1> QED BY <1>2, <1>3

\* What is said of a track that leaves unconfirmed.
ExcuseOf(o) ==
  /\ o \in Outcomes /\ ~Earned(o)
  /\ o.confirmed => /\ o.gate = GateOrder[1] /\ o.shadow
                    /\ o.took >= DepartureMinSamples - 1

LEMMA DepartureEnds ==
  ASSUME NEW t \in Nat, NEW s, Steady(s, t), Explained(s), ~Settled(s)
  PROVE  LET r == Departure(s)
         IN /\ r.state = None
            /\ r.decisions \in Seq(Decisions) /\ HeardAll("none", r.decisions) = "none"
            /\ IF s.firstEvidenceAt # NoTime /\ ~s.outcomeEmitted
               THEN \E o : ExcuseOf(o) /\ r.outcomes = <<o>>
               ELSE r.outcomes = <<>>
<1> DEFINE r == Departure(s)
           a == s.bestAttempt
           excuse == Outcome(s, a, FALSE, FALSE, NoTime)
           dwell == s.lastEvidenceAt - s.firstEvidenceAt
           late == Outcome(s, a, TRUE, TRUE, dwell)
<1>1. s \in Records
  BY DEF Steady
<1>2. CASE ~HasPostMortem(s)
  <2>1. r.state = None /\ r.decisions = <<>> /\ r.outcomes = <<>>
    BY <1>2 DEF Departure, Quiet, Stage
  <2>2. ~(s.firstEvidenceAt # NoTime /\ ~s.outcomeEmitted)
    BY <1>2 DEF HasPostMortem, Explained
  <2> QED BY <2>1, <2>2, HeardFew
<1>3. CASE HasPostMortem(s)
  <2>1. /\ a \in Attempts /\ s.policy \in Policies /\ s.firstEvidenceAt # NoTime /\ ~s.outcomeEmitted
        /\ a # None /\ s.lastEvidenceAt \in Nat /\ s.firstEvidenceAt \in Nat
    BY <1>1, <1>3 DEF HasPostMortem, Explained, Records
  <2>2. a.gate \in Gates /\ a.banked \in Nat
    BY <2>1 DEF Attempts
  <2>3. CASE ~Adjudicated(a)
    <3>1. r.state = None /\ r.decisions = <<>> /\ r.outcomes = <<excuse>>
      BY <1>3, <2>3 DEF Departure, Stage
    <3>2. /\ excuse \in Outcomes /\ excuse.confirmed = FALSE
      BY <2>1, <2>2 DEF Outcome, Outcomes, NoTime
    <3> HIDE DEF excuse, r
    <3>3. ExcuseOf(excuse)
      BY <3>2 DEF ExcuseOf, Earned
    <3> QED BY <2>1, <3>1, <3>3, HeardFew DEF r
  <2>4. CASE Adjudicated(a)
    <3> DEFINE opens == ShadowNews("confirmed")
               closes == ShadowNews("lost")
    <3>1. r.state = None /\ r.decisions = <<opens, closes>> /\ r.outcomes = <<late>>
      BY <1>3, <2>4 DEF Departure, Stage
    <3>2. a.gate = GateOrder[1] /\ a.banked >= DepartureMinSamples /\ DepartureMinSamples \in Nat
      BY <2>4, SettingsAssumption DEF Adjudicated
    <3>3. a.banked - 1 <= dwell
      BY <2>1 DEF Steady, AttemptTookTime
    <3>4. dwell \in Int /\ dwell >= DepartureMinSamples - 1
      BY <2>1, <2>2, <3>2, <3>3
    <3>5. /\ late \in Outcomes /\ late.gate = GateOrder[1] /\ late.shadow = TRUE /\ late.took = dwell
      BY <2>1, <2>2, <3>2, <3>4 DEF Outcome, Outcomes
    <3> HIDE DEF late, r
    <3>6. ExcuseOf(late)
      BY <3>2, <3>4, <3>5, GatesAre DEF ExcuseOf, Earned
    <3>7. opens \in Decisions /\ closes \in Decisions /\ closes.state = "lost"
      BY DEF ShadowNews, Decisions
    <3> HIDE DEF opens, closes
    <3>8. /\ <<opens, closes>> \in Seq(Decisions) /\ Len(<<opens, closes>>) = 2
          /\ <<opens, closes>>[2] = closes
      BY <3>7
    <3>9. HeardAll("none", <<opens, closes>>) = Heard(closes)
      <4> DEFINE news == <<opens, closes>>
      <4> HIDE DEF news
      <4>1. /\ news \in Seq(Decisions) /\ 2 \in 1 .. Len(news) /\ news[2].state # "candidate"
            /\ \A i \in 1 .. Len(news) : i > 2 => news[i].state = "candidate"
        BY <3>7, <3>8 DEF news
      <4>2. HeardAll("none", news) = Heard(news[2])
        BY <4>1, LastTelling
      <4> QED BY <4>2, <3>8 DEF news
    <3>10. Heard(closes) = "none"
      BY <3>7 DEF Heard
    <3> QED BY <2>1, <3>1, <3>6, <3>8, <3>9, <3>10 DEF r
  <2> QED BY <2>3, <2>4
<1> QED BY <1>2, <1>3

(* Who is forgotten, and what is said of him.                              *)
LEMMA SweepEnds ==
  ASSUME NEW t \in Nat, NEW s, Steady(s, t), Explained(s), QuorumShown(s), Fresh(s, t),
         NEW present \in BOOLEAN, present => s.lastTrackSeen = t
  PROVE  LET r == Sweep(s, present, t)
         IN /\ r.state = None \/ (r.state = s /\ Kept(s, t) /\ r.outcomes = <<>>)
            /\ r.decisions \in Seq(Decisions) /\ HeardAll(Open(s), r.decisions) = Open(r.state)
            /\ r.state = None =>
                 IF Settled(s) THEN r.outcomes = <<>>
                 ELSE /\ ~present
                      /\ IF s.firstEvidenceAt # NoTime /\ ~s.outcomeEmitted
                         THEN \E o : ExcuseOf(o) /\ r.outcomes = <<o>>
                         ELSE r.outcomes = <<>>
            /\ ~present /\ t - s.lastTrackSeen > FlushDelay /\ s.evidence = <<>> => r.state = None
<1> DEFINE r == Sweep(s, present, t)
           gone == Stage(None, <<Decision("lost", s)>>, <<>>)
<1>1. /\ s \in Records /\ s # None /\ s.lastTrackSeen \in Nat /\ s.lastTrackSeen <= t
      /\ s.policy \in Policies \cup {None}
  BY NoneAssumption DEF Steady, Clocked, Records
<1>2. /\ Quiet(s).state = s /\ Quiet(s).decisions = <<>> /\ Quiet(s).outcomes = <<>>
      /\ gone.state = None /\ gone.decisions = <<Decision("lost", s)>> /\ gone.outcomes = <<>>
  BY DEF Quiet, Stage
<1>3. gone.decisions \in Seq(Decisions) /\ \A open : HeardAll(open, gone.decisions) = "none"
  <2>1. Decision("lost", s) \in Decisions /\ Decision("lost", s).state = "lost"
    BY <1>1, DecisionTyped
  <2> QED BY <1>2, <2>1, HeardFew DEF Heard
<1>4. Grace \in Nat /\ FlushDelay \in Nat /\ Grace <= FlushDelay
  BY FlushDelayIsLongest, SettingsAssumption
<1>5. ~Missing(s, present, t) => Kept(s, t)
  <2>1. CASE present
    BY <1>1, <1>4, <2>1 DEF Kept
  <2>2. CASE ~present
    BY <1>1, <1>4, <2>2 DEF Kept, Missing
  <2> QED BY <2>1, <2>2
<1>6. Open(None) = "none" /\ (~Settled(s) => Open(s) = "none")
  BY <1>1 DEF Open, Settled
<1>7. ~present /\ t - s.lastTrackSeen > FlushDelay => Missing(s, present, t)
  BY <1>1, <1>4 DEF Missing
<1> HIDE DEF gone
<1>8. CASE Settled(s) /\ (Missing(s, present, t) \/ Unseen(s, t))
  <2>1. r = gone
    BY <1>8 DEF Sweep, gone
  <2> HIDE DEF r
  <2> QED BY <1>2, <1>3, <1>6, <1>8, <2>1 DEF r
<1>9. CASE Settled(s) /\ ~(Missing(s, present, t) \/ Unseen(s, t))
  <2>1. r = Quiet(s)
    BY <1>9 DEF Sweep
  <2> HIDE DEF r
  <2> QED BY <1>1, <1>2, <1>5, <1>7, <1>9, <2>1, HeardFew DEF r
<1>10. CASE ~Settled(s) /\ s.evidence = <<>> /\ Missing(s, present, t)
  <2>1. r = Departure(s) /\ ~present
    BY <1>10 DEF Sweep, Missing
  <2> HIDE DEF r
  <2> QED BY <1>6, <1>10, <2>1, DepartureEnds DEF r
<1>11. CASE ~Settled(s) /\ ~(s.evidence = <<>> /\ Missing(s, present, t))
  <2>1. r = Quiet(s)
    BY <1>11 DEF Sweep
  <2>2. s.evidence # <<>> => Kept(s, t)
    <3> SUFFICES ASSUME s.evidence # <<>>
                 PROVE  Kept(s, t)
      OBVIOUS
    <3>1. 1 \in 1 .. Len(s.evidence) /\ s.evidence[1].at \in Nat
      <4>1. s.evidence \in Seq(Samples)
        BY <1>1, EvidenceTyped
      <4>2. Len(s.evidence) \in Nat \ {0}
        BY <4>1, EmptySeq
      <4> QED BY <1>1, <4>2, EvidenceTyped
    <3>2. s.policy # None /\ s.evidence[1].at <= s.lastTrackSeen
      BY <3>1 DEF Steady, Banked, Clocked
    <3>3. t - s.evidence[1].at <= s.policy.window
      BY <3>1, <3>2 DEF Fresh
    <3>4. s.policy.window \in Nat /\ s.policy.window <= FlushDelay
      BY <1>1, <3>2, PoliciesTyped, FlushDelayIsLongest
    <3> QED BY <1>1, <1>4, <3>1, <3>2, <3>3, <3>4 DEF Kept
  <2>3. Kept(s, t)
    BY <1>5, <1>11, <2>2
  <2> HIDE DEF r
  <2> QED BY <1>1, <1>2, <1>7, <1>11, <2>1, <2>3, HeardFew DEF r
<1> QED BY <1>8, <1>9, <1>10, <1>11

\* What a frame does to the record s of a track, at time t.
FrameOutcome(o) ==
  o.confirmed =>
    \/ o.gate = Passed /\ o.took >= (o.policy.required - 1) * o.policy.interval
    \/ o.gate = GateOrder[1] /\ o.shadow /\ o.took >= DepartureMinSamples - 1

Accounted(s, said) ==
  Cardinality({i \in DOMAIN said : ~Earned(said[i])}) =
    IF /\ s.firstEvidenceAt # NoTime
       /\ ~(s.outcomeEmitted \/ \E o \in Range(said) : Earned(o))
    THEN 1 ELSE 0

FrameSound(r, s, t) ==
  /\ r.state # None => Sound(r.state, t)
  /\ r.decisions \in Seq(Decisions) /\ HeardAll(Open(s), r.decisions) = Open(r.state)
  /\ r.outcomes \in Seq(Outcomes) /\ \A i \in DOMAIN r.outcomes : FrameOutcome(r.outcomes[i])
  /\ s # None /\ r.state = None => Accounted(s, r.outcomes)
  /\ s # None /\ r.state # None /\ s.bestAttempt # None =>
       r.state.bestAttempt # None /\ ~RanksAbove(s.bestAttempt, r.state.bestAttempt)

LEMMA AccountedFor ==
  ASSUME NEW s \in Records
  PROVE  /\ s.firstEvidenceAt = NoTime \/ s.outcomeEmitted => Accounted(s, <<>>)
         /\ \A o : Earned(o) => Accounted(s, <<o>>)
         /\ \A o : ~Earned(o) /\ s.firstEvidenceAt # NoTime /\ ~s.outcomeEmitted => Accounted(s, <<o>>)
<1>1. DOMAIN <<>> = {}
  OBVIOUS
<1>2. s.firstEvidenceAt = NoTime \/ s.outcomeEmitted => Accounted(s, <<>>)
  <2>1. {i \in DOMAIN <<>> : ~Earned(<<>>[i])} = {}
    BY <1>1
  <2> QED BY <2>1, FS_EmptySet DEF Accounted
<1>3. ASSUME NEW o
      PROVE  /\ Earned(o) => Accounted(s, <<o>>)
             /\ ~Earned(o) /\ s.firstEvidenceAt # NoTime /\ ~s.outcomeEmitted => Accounted(s, <<o>>)
  <2> DEFINE said == <<o>>
             unearned == {i \in DOMAIN said : ~Earned(said[i])}
  <2>1. DOMAIN said = {1} /\ said[1] = o
    OBVIOUS
  <2> HIDE DEF said
  <2>2. Range(said) = {o}
    BY <2>1 DEF Range
  <2>3. unearned = IF Earned(o) THEN {} ELSE {1}
    BY <2>1
  <2> HIDE DEF unearned
  <2>4. Cardinality(unearned) = IF Earned(o) THEN 0 ELSE 1
    BY <2>3, FS_EmptySet, FS_Singleton
  <2>5. /\ Earned(o) => Accounted(s, said)
        /\ ~Earned(o) /\ s.firstEvidenceAt # NoTime /\ ~s.outcomeEmitted => Accounted(s, said)
    BY <2>2, <2>4 DEF Accounted, unearned
  <2> QED BY <2>5 DEF said
<1> QED BY <1>2, <1>3

(* A frame seen through to its end.                                        *)
LEMMA ThenSweepSound ==
  ASSUME NEW t \in Nat, NEW s \in Records, NEW seen, FollowsFrom(seen, s, t),
         NEW present \in BOOLEAN, present => s.lastTrackSeen = t, ~present => seen = Quiet(s)
  PROVE  /\ FrameSound(ThenSweep(seen, present, t), s, t)
         /\ ~present /\ t - s.lastTrackSeen > FlushDelay => ThenSweep(seen, present, t).state = None
<1> DEFINE m == seen.state
           e == Expire(m, t)
           w == Sweep(e, present, t)
           r == ThenSweep(seen, present, t)
<1>1. /\ Steady(m, t) /\ Explained(m) /\ QuorumShown(m)
      /\ m.lastTrackSeen = s.lastTrackSeen
      /\ seen.decisions \in Seq(Decisions) /\ HeardAll(Open(s), seen.decisions) = Open(m)
      /\ s.bestAttempt # None => m.bestAttempt # None /\ ~RanksAbove(s.bestAttempt, m.bestAttempt)
      /\ HitOrNothing(s.outcomeEmitted, seen)
  BY DEF FollowsFrom
<1>2. /\ Steady(e, t) /\ Explained(e) /\ QuorumShown(e) /\ Fresh(e, t)
      /\ e.confirmed = m.confirmed /\ e.shadowConfirmed = m.shadowConfirmed
      /\ e.lastTrackSeen = m.lastTrackSeen /\ e.firstEvidenceAt = m.firstEvidenceAt
      /\ e.bestAttempt = m.bestAttempt /\ e.outcomeEmitted = m.outcomeEmitted
      /\ t - m.lastTrackSeen > FlushDelay => e.evidence = <<>>
  BY <1>1, ExpireKeeps
<1>3. e \in Records /\ m \in Records /\ e # None
  BY <1>1, <1>2, NoneAssumption DEF Steady
<1> HIDE DEF e
<1>4. Open(e) = Open(m)
  BY <1>2, <1>3, SameFlagsSameOpen
<1>5. /\ w.state = None \/ (w.state = e /\ Kept(e, t) /\ w.outcomes = <<>>)
      /\ w.decisions \in Seq(Decisions) /\ HeardAll(Open(e), w.decisions) = Open(w.state)
      /\ w.state = None =>
           IF Settled(e) THEN w.outcomes = <<>>
           ELSE /\ ~present
                /\ IF e.firstEvidenceAt # NoTime /\ ~e.outcomeEmitted
                   THEN \E o : ExcuseOf(o) /\ w.outcomes = <<o>>
                   ELSE w.outcomes = <<>>
      /\ ~present /\ t - e.lastTrackSeen > FlushDelay /\ e.evidence = <<>> => w.state = None
  <2>1. present => e.lastTrackSeen = t
    BY <1>1, <1>2
  <2> QED BY <1>2, <2>1, SweepEnds
<1> HIDE DEF w
<1>6. /\ r.state = w.state /\ r.decisions = seen.decisions \o w.decisions
      /\ r.outcomes = seen.outcomes \o w.outcomes
  BY DEF ThenSweep, Then, Stage, w, e
<1> HIDE DEF r
<1>7. r.decisions \in Seq(Decisions) /\ HeardAll(Open(s), r.decisions) = Open(r.state)
  BY <1>1, <1>4, <1>5, <1>6, HeardThen, ConcatProperties
<1>8. r.state # None => Sound(r.state, t)
  BY <1>2, <1>5, <1>6 DEF Sound
<1>9. s.bestAttempt # None /\ r.state # None =>
        r.state.bestAttempt # None /\ ~RanksAbove(s.bestAttempt, r.state.bestAttempt)
  BY <1>1, <1>2, <1>5, <1>6
<1>10. seen.outcomes \in Seq(Outcomes)
  BY <1>1, HitsTyped
<1>11. \A o : HitOf(o) => /\ o \in Outcomes /\ FrameOutcome(o) /\ Earned(o)
  BY DEF HitOf, FrameOutcome, Earned
<1>12. \A o : ExcuseOf(o) => /\ o \in Outcomes /\ FrameOutcome(o) /\ ~Earned(o)
  BY DEF ExcuseOf, FrameOutcome
<1>13. \A o \in Outcomes : FrameOutcome(o) =>
         <<o>> \in Seq(Outcomes) /\ \A i \in DOMAIN <<o>> : FrameOutcome(<<o>>[i])
  OBVIOUS
<1>14. <<>> \in Seq(Outcomes) /\ \A i \in DOMAIN <<>> : FrameOutcome(<<>>[i])
  BY EmptySeq
<1>15. ASSUME w.outcomes = <<>> /\ (w.state = None => Settled(e))
       PROVE  FrameSound(r, s, t)
  <2>1. r.outcomes = seen.outcomes
    BY <1>6, <1>10, <1>15, ConcatEmptySeq
  <2>2. CASE seen.outcomes = <<>> /\ m.outcomeEmitted = s.outcomeEmitted
    <3>1. w.state = None => s.outcomeEmitted
      BY <1>2, <1>15, <2>2 DEF Steady, OneVerdict
    <3>2. w.state = None => Accounted(s, r.outcomes)
      BY <2>1, <2>2, <3>1, AccountedFor
    <3>3. r.outcomes \in Seq(Outcomes) /\ \A i \in DOMAIN r.outcomes : FrameOutcome(r.outcomes[i])
      BY <1>14, <2>1, <2>2
    <3> QED BY <1>6, <1>7, <1>8, <1>9, <3>2, <3>3 DEF FrameSound
  <2>3. ASSUME NEW o, HitOf(o), seen.outcomes = <<o>>
        PROVE  FrameSound(r, s, t)
    <3>1. Accounted(s, r.outcomes)
      BY <1>11, <2>1, <2>3, AccountedFor
    <3>2. r.outcomes \in Seq(Outcomes) /\ \A i \in DOMAIN r.outcomes : FrameOutcome(r.outcomes[i])
      BY <1>11, <1>13, <2>1, <2>3
    <3> QED BY <1>6, <1>7, <1>8, <1>9, <3>1, <3>2 DEF FrameSound
  <2> QED BY <1>1, <2>2, <2>3 DEF HitOrNothing
<1>16. ASSUME w.state = None /\ ~Settled(e)
       PROVE  FrameSound(r, s, t)
  <2>1. m = s /\ seen.outcomes = <<>>
    BY <1>5, <1>16 DEF Quiet, Stage
  <2>2. CASE e.firstEvidenceAt # NoTime /\ ~e.outcomeEmitted
    <3>1. PICK o : ExcuseOf(o) /\ w.outcomes = <<o>>
      BY <1>5, <1>16, <2>2
    <3>2. r.outcomes = <<o>>
      BY <1>6, <1>12, <1>13, <2>1, <3>1, ConcatEmptySeq
    <3>3. s.firstEvidenceAt # NoTime /\ ~s.outcomeEmitted
      BY <1>2, <2>1, <2>2
    <3>4. Accounted(s, r.outcomes)
      BY <1>12, <3>1, <3>2, <3>3, AccountedFor
    <3>5. r.outcomes \in Seq(Outcomes) /\ \A i \in DOMAIN r.outcomes : FrameOutcome(r.outcomes[i])
      BY <1>12, <1>13, <3>1, <3>2
    <3> QED BY <1>7, <1>8, <1>9, <3>4, <3>5 DEF FrameSound
  <2>3. CASE ~(e.firstEvidenceAt # NoTime /\ ~e.outcomeEmitted)
    <3>1. r.outcomes = <<>>
      BY <1>5, <1>6, <1>14, <1>16, <2>1, <2>3, ConcatEmptySeq
    <3>2. s.firstEvidenceAt = NoTime \/ s.outcomeEmitted
      BY <1>2, <2>1, <2>3
    <3>3. Accounted(s, r.outcomes)
      BY <3>1, <3>2, AccountedFor
    <3>4. r.outcomes \in Seq(Outcomes) /\ \A i \in DOMAIN r.outcomes : FrameOutcome(r.outcomes[i])
      BY <1>14, <3>1
    <3> QED BY <1>7, <1>8, <1>9, <3>3, <3>4 DEF FrameSound
  <2> QED BY <2>2, <2>3
<1>17. FrameSound(r, s, t)
  BY <1>3, <1>5, <1>15, <1>16
<1>18. ~present /\ t - s.lastTrackSeen > FlushDelay => r.state = None
  BY <1>1, <1>2, <1>5, <1>6
<1> QED BY <1>17, <1>18 DEF r

(* A record that was sound before is steady at a later frame.              *)
LEMMA LaterSteady ==
  ASSUME NEW before \in Nat, NEW t \in Nat, before < t, NEW s, Sound(s, before)
  PROVE  Steady(s, t) /\ Before(s, t) /\ Explained(s) /\ QuorumShown(s)
<1>1. s \in Records /\ s.lastTrackSeen \in Nat /\ s.lastFaceSeen \in Nat /\ s.lastEvidenceAt \in Nat
  BY DEF Sound, Steady, Records
<1>2. \A i \in 1 .. Len(s.evidence) : s.evidence[i].at \in Nat
  BY <1>1, EvidenceTyped
<1>3. Clocked(s, before)
  BY DEF Sound, Steady
<1>4. Clocked(s, t)
  BY <1>1, <1>3 DEF Clocked
<1>5. Before(s, t)
  BY <1>1, <1>2, <1>3 DEF Clocked, Before
<1> QED BY <1>4, <1>5 DEF Sound, Steady

(* A track in the frame is noted first.                                    *)
LEMMA HereSteady ==
  ASSUME NEW before \in Nat, NEW t \in Nat, before < t, NEW s, s = None \/ Sound(s, before)
  PROVE  LET here == [(IF s = None THEN FreshState ELSE s) EXCEPT !.lastTrackSeen = t]
         IN /\ Steady(here, t) /\ Before(here, t) /\ Explained(here) /\ QuorumShown(here)
            /\ here.lastTrackSeen = t /\ Open(here) = Open(s)
            /\ s # None => /\ here.firstEvidenceAt = s.firstEvidenceAt
                           /\ here.bestAttempt = s.bestAttempt
                           /\ here.outcomeEmitted = s.outcomeEmitted
<1> DEFINE here == [(IF s = None THEN FreshState ELSE s) EXCEPT !.lastTrackSeen = t]
<1>1. CASE s = None
  <2>1. here = [FreshState EXCEPT !.lastTrackSeen = t]
    BY <1>1
  <2>2. <<>> \in Seq(Samples) /\ Len(<<>>) = 0 /\ Never \in Int
    BY EmptySeq, SettingsAssumption DEF Never
  <2> HIDE DEF here
  <2>3. /\ here \in Records /\ here.evidence = <<>> /\ here.confirmed = FALSE
        /\ here.shadowConfirmed = FALSE /\ here.lastTrackSeen = t /\ here.lastFaceSeen = 0
        /\ here.policy = None /\ here.firstEvidenceAt = NoTime /\ here.lastEvidenceAt = 0
        /\ here.bestAttempt = None /\ here.outcomeEmitted = FALSE
    BY <2>1, <2>2 DEF FreshState, Records
  <2>4. Clocked(here, t) /\ Banked(here) /\ OnePerInstant(here) /\ Before(here, t)
    BY <2>2, <2>3 DEF Clocked, Banked, OnePerInstant, SpacedBy, Before
  <2>5. OneVerdict(here) /\ PureWindow(here) /\ AttemptTookTime(here) /\ Explained(here) /\ QuorumShown(here)
    BY <2>3 DEF OneVerdict, Settled, PureWindow, AttemptTookTime, Explained, QuorumShown
  <2>6. Open(here) = Open(s)
    BY <1>1, <2>3, NoneAssumption DEF Open
  <2> QED BY <1>1, <2>3, <2>4, <2>5, <2>6 DEF Steady, here
<1>2. CASE s # None
  <2>1. Steady(s, t) /\ Before(s, t) /\ Explained(s) /\ QuorumShown(s)
    BY <1>2, LaterSteady
  <2>2. s \in Records
    BY <2>1 DEF Steady
  <2>3. /\ here \in Records /\ here.evidence = s.evidence /\ here.confirmed = s.confirmed
        /\ here.shadowConfirmed = s.shadowConfirmed /\ here.lastTrackSeen = t
        /\ here.lastFaceSeen = s.lastFaceSeen /\ here.policy = s.policy
        /\ here.firstEvidenceAt = s.firstEvidenceAt /\ here.lastEvidenceAt = s.lastEvidenceAt
        /\ here.bestAttempt = s.bestAttempt /\ here.outcomeEmitted = s.outcomeEmitted
    BY <1>2, <2>2 DEF Records
  <2> HIDE DEF here
  <2>4. \A i \in 1 .. Len(s.evidence) : s.evidence[i].at \in Nat /\ s.evidence[i].at < t
    BY <2>1, <2>2, EvidenceTyped DEF Before
  <2>5. Clocked(here, t)
    BY <2>1, <2>3, <2>4 DEF Steady, Clocked
  <2>6. /\ OneVerdict(here) /\ Banked(here) /\ OnePerInstant(here) /\ PureWindow(here)
        /\ AttemptTookTime(here) /\ Explained(here) /\ QuorumShown(here) /\ Before(here, t)
    BY <2>1, <2>3 DEF Steady, OneVerdict, Settled, Banked, OnePerInstant, PureWindow,
                      AttemptTookTime, Explained, QuorumShown, Before
  <2>7. Open(here) = Open(s)
    BY <2>2, <2>3, SameFlagsSameOpen
  <2> QED BY <2>3, <2>5, <2>6, <2>7 DEF Steady, here
<1> QED BY <1>1, <1>2

(* What one frame does to one track.                                       *)
LEMMA TrackFrameSound ==
  ASSUME NEW before \in Nat, NEW t \in Nat, before < t, NEW s, s = None \/ Sound(s, before),
         NEW present \in BOOLEAN, NEW face \in Faces \cup {None}, NEW blends \in BOOLEAN
  PROVE  /\ FrameSound(TrackFrame(s, present, face, t, blends), s, t)
         /\ ~present /\ t - before > FlushDelay => TrackFrame(s, present, face, t, blends).state = None
<1> DEFINE r == TrackFrame(s, present, face, t, blends)
           here == [(IF s = None THEN FreshState ELSE s) EXCEPT !.lastTrackSeen = t]
<1>1. /\ Steady(here, t) /\ Before(here, t) /\ Explained(here) /\ QuorumShown(here)
      /\ here.lastTrackSeen = t /\ Open(here) = Open(s)
      /\ s # None => /\ here.firstEvidenceAt = s.firstEvidenceAt
                     /\ here.bestAttempt = s.bestAttempt
                     /\ here.outcomeEmitted = s.outcomeEmitted
  BY HereSteady
<1>2. CASE s = None /\ ~present
  <2>1. r.state = None /\ r.decisions = <<>> /\ r.outcomes = <<>>
    BY <1>2 DEF TrackFrame, Quiet, Stage
  <2>2. <<>> \in Seq(Outcomes) /\ DOMAIN <<>> = {}
    BY EmptySeq
  <2> HIDE DEF r
  <2> QED BY <1>2, <2>1, <2>2, HeardFew DEF FrameSound, Open, r
<1>3. CASE present
  <2>1. PICK seen : r = ThenSweep(seen, present, t) /\ FollowsFrom(seen, here, t)
    <3>1. CASE face # None
      <4>1. r = ThenSweep(Observe(here, face, t, blends), present, t)
        BY <1>3, <3>1 DEF TrackFrame
      <4> HIDE DEF here, r
      <4>2. FollowsFrom(Observe(here, face, t, blends), here, t)
        BY <1>1, <3>1, ObserveFollows
      <4> QED BY <4>1, <4>2
    <3>2. CASE face = None
      <4>1. r = ThenSweep(Quiet(here), present, t)
        BY <1>3, <3>2 DEF TrackFrame
      <4> HIDE DEF here, r
      <4>2. FollowsFrom(Quiet(here), here, t)
        BY <1>1, QuietFollows
      <4> QED BY <4>1, <4>2
    <3> QED BY <3>1, <3>2
  <2> HIDE DEF here, r
  <2>2. here \in Records /\ here # None
    BY <1>1, NoneAssumption DEF Steady
  <2>3. FrameSound(r, here, t)
    BY <1>1, <1>3, <2>1, <2>2, ThenSweepSound
  <2>4. FrameSound(r, s, t)
    BY <1>1, <2>2, <2>3 DEF FrameSound, Accounted
  <2> QED BY <1>3, <2>4 DEF r
<1>4. CASE s # None /\ ~present
  <2>1. r = ThenSweep(Quiet(s), present, t)
    BY <1>4 DEF TrackFrame
  <2>2. Steady(s, t) /\ Explained(s) /\ QuorumShown(s)
    BY <1>4, LaterSteady
  <2> HIDE DEF r
  <2>3. s \in Records /\ s.lastTrackSeen \in Nat /\ s.lastTrackSeen <= before
    BY <1>4 DEF Sound, Steady, Clocked, Records
  <2>4. FollowsFrom(Quiet(s), s, t)
    BY <2>2, QuietFollows
  <2>5. /\ FrameSound(r, s, t)
        /\ ~present /\ t - s.lastTrackSeen > FlushDelay => r.state = None
    BY <1>4, <2>1, <2>3, <2>4, ThenSweepSound
  <2> QED BY <2>3, <2>5, FlushDelayIsLongest DEF r
<1> QED BY <1>2, <1>3, <1>4

-----------------------------------------------------------------------------
(* The invariant.                                                          *)

\* What a frame at time t does to all tracks.
FramedAt(t) ==
  /\ now' = t
  /\ \E result :
       /\ states' = [id \in Tracks |-> result[id].state]
       /\ decisions' = [id \in Tracks |-> result[id].decisions]
       /\ outcomes' = [id \in Tracks |-> result[id].outcomes]
       /\ live' = [id \in Tracks |-> HeardAll(live[id], result[id].decisions)]
       /\ \A id \in Tracks : FrameSound(result[id], states[id], t)

LEMMA FrameFrames ==
  ASSUME TracksAreSound, NEW t \in Nat, now < t, NEW present \in SUBSET Tracks,
         NEW faces \in [Tracks -> Faces \cup {None}], NEW blends \in BOOLEAN,
         Frame(t, present, faces, blends)
  PROVE  /\ FramedAt(t)
         /\ present = {} /\ t - now > FlushDelay => \A id \in Tracks : states'[id] = None
<1> DEFINE result == [id \in Tracks |-> TrackFrame(states[id], id \in present, faces[id], t, blends)]
<1>1. now \in Nat /\ \A id \in Tracks : states[id] = None \/ Sound(states[id], now)
  BY DEF TracksAreSound, TypeOK
<1>2. ASSUME NEW id \in Tracks
      PROVE  /\ FrameSound(result[id], states[id], t)
             /\ id \notin present /\ t - now > FlushDelay => result[id].state = None
  <2> DEFINE here == id \in present
  <2>1. here \in BOOLEAN /\ faces[id] \in Faces \cup {None}
    OBVIOUS
  <2>2. result[id] = TrackFrame(states[id], here, faces[id], t, blends)
    OBVIOUS
  <2>3. here <=> id \in present
    OBVIOUS
  <2> HIDE DEF here, result
  <2> QED BY <1>1, <2>1, <2>2, <2>3, TrackFrameSound
<1>3. /\ now' = t
      /\ states' = [id \in Tracks |-> result[id].state]
      /\ decisions' = [id \in Tracks |-> result[id].decisions]
      /\ outcomes' = [id \in Tracks |-> result[id].outcomes]
      /\ live' = [id \in Tracks |-> HeardAll(live[id], result[id].decisions)]
  BY DEF Frame
<1> HIDE DEF result
<1> QED BY <1>2, <1>3 DEF FramedAt

LEMMA FramedKeepsSound ==
  ASSUME TracksAreSound, NEW t \in Nat, FramedAt(t)
  PROVE  /\ now' \in Nat /\ states' \in [Tracks -> Records \cup {None}]
         /\ decisions' \in [Tracks -> Seq(Decisions)] /\ outcomes' \in [Tracks -> Seq(Outcomes)]
         /\ live' \in [Tracks -> {"none", "shadow", "formal"}]
         /\ \A id \in Tracks : states'[id] # None => Sound(states'[id], now')
         /\ \A id \in Tracks : live'[id] = Open(states'[id])
<1>1. PICK result :
        /\ states' = [id \in Tracks |-> result[id].state]
        /\ decisions' = [id \in Tracks |-> result[id].decisions]
        /\ outcomes' = [id \in Tracks |-> result[id].outcomes]
        /\ live' = [id \in Tracks |-> HeardAll(live[id], result[id].decisions)]
        /\ \A id \in Tracks : FrameSound(result[id], states[id], t)
  BY DEF FramedAt
<1>2. now' = t
  BY DEF FramedAt
<1>3. \A id \in Tracks : live[id] = Open(states[id])
  BY DEF TracksAreSound
<1>4. ASSUME NEW id \in Tracks
      PROVE  /\ result[id].state # None => Sound(result[id].state, t) /\ result[id].state \in Records
             /\ result[id].decisions \in Seq(Decisions) /\ result[id].outcomes \in Seq(Outcomes)
             /\ HeardAll(live[id], result[id].decisions) = Open(result[id].state)
  BY <1>1, <1>3 DEF FrameSound, Sound, Steady
<1>5. \A s : Open(s) \in {"none", "shadow", "formal"}
  BY DEF Open
<1>6. \A id \in Tracks : live'[id] = Open(states'[id]) /\ states'[id] = result[id].state
  BY <1>1, <1>4
<1>7. live' \in [Tracks -> {"none", "shadow", "formal"}]
  BY <1>1, <1>4, <1>5
<1>8. states' \in [Tracks -> Records \cup {None}]
  BY <1>1, <1>4
<1>9. decisions' \in [Tracks -> Seq(Decisions)] /\ outcomes' \in [Tracks -> Seq(Outcomes)]
  BY <1>1, <1>4
<1> QED BY <1>2, <1>4, <1>6, <1>7, <1>8, <1>9

\* The steps of the specification, as the properties tell them apart.
Forgets ==
  /\ now' = now /\ flushed' = flushed /\ ~flushed
  /\ states' = [id \in Tracks |-> None] /\ decisions' = [id \in Tracks |-> <<>>]
  /\ outcomes' = [id \in Tracks |-> <<>>] /\ live' = [id \in Tracks |-> "none"]

LEMMA StepIs ==
  ASSUME TracksAreSound, Next
  PROVE  \/ \E t \in Nat : /\ now < t /\ FramedAt(t)
                           /\ flushed' => \A id \in Tracks : states'[id] = None
                           /\ flushed' \in BOOLEAN
         \/ Forgets
<1>1. now \in Nat
  BY DEF TracksAreSound, TypeOK
<1>2. CASE Process
  <2>1. PICK gap \in Gaps, present \in SUBSET Tracks, blends \in BOOLEAN,
             faces \in [Tracks -> Faces \cup {None}] : Frame(now + gap, present, faces, blends)
    BY <1>2 DEF Process
  <2>2. gap \in Nat /\ gap # 0
    BY FramesAssumption
  <2>3. PICK t : t = now + gap
    OBVIOUS
  <2>4. t \in Nat /\ now < t /\ Frame(t, present, faces, blends)
    BY <1>1, <2>1, <2>2, <2>3
  <2>5. FramedAt(t)
    BY <2>4, FrameFrames
  <2>6. flushed' = FALSE
    BY <1>2 DEF Process
  <2> QED BY <2>4, <2>5, <2>6
<1>3. CASE Flush
  <2> DEFINE nobody == [id \in Tracks |-> None]
  <2>1. Frame(now + FlushDelay + 1, {}, nobody, FALSE)
    BY <1>3 DEF Flush
  <2>2. nobody \in [Tracks -> Faces \cup {None}]
    OBVIOUS
  <2> HIDE DEF nobody
  <2>3. PICK t : t = now + FlushDelay + 1
    OBVIOUS
  <2>4. FlushDelay \in Nat
    BY FlushDelayIsLongest
  <2>5. t \in Nat /\ now < t /\ t - now > FlushDelay
    BY <1>1, <2>3, <2>4
  <2>6. Frame(t, {}, nobody, FALSE)
    BY <2>1, <2>3
  <2>7. FramedAt(t) /\ \A id \in Tracks : states'[id] = None
    <3>1. {} \in SUBSET Tracks /\ FALSE \in BOOLEAN
      OBVIOUS
    <3> QED BY <2>2, <2>5, <2>6, <3>1, FrameFrames
  <2>8. flushed' = TRUE
    BY <1>3 DEF Flush
  <2> QED BY <2>5, <2>7, <2>8
<1>4. CASE Reset
  BY <1>4 DEF Reset, Forgets
<1> QED BY <1>2, <1>3, <1>4 DEF Next

LEMMA InitSound == Init => TracksAreSound
<1> SUFFICES ASSUME Init PROVE TracksAreSound
  OBVIOUS
<1>1. <<>> \in Seq(Decisions) /\ <<>> \in Seq(Outcomes)
  BY EmptySeq
<1>2. TypeOK
  BY <1>1 DEF Init, TypeOK
<1>3. \A id \in Tracks : states[id] = None /\ live[id] = Open(states[id])
  BY DEF Init, Open
<1> QED BY <1>2, <1>3 DEF Init, TracksAreSound

LEMMA StepKeepsSound == TracksAreSound /\ [Next]_vars => TracksAreSound'
<1> SUFFICES ASSUME TracksAreSound, [Next]_vars PROVE TracksAreSound'
  OBVIOUS
<1>1. CASE UNCHANGED vars
  BY <1>1 DEF vars, TracksAreSound, TypeOK
<1>2. ASSUME NEW t \in Nat, FramedAt(t), flushed' => \A id \in Tracks : states'[id] = None,
             flushed' \in BOOLEAN
      PROVE  TracksAreSound'
  BY <1>2, FramedKeepsSound DEF TracksAreSound, TypeOK
<1>3. CASE Forgets
  <2>1. <<>> \in Seq(Decisions) /\ <<>> \in Seq(Outcomes)
    BY EmptySeq
  <2>2. TypeOK'
    BY <1>3, <2>1 DEF Forgets, TypeOK, TracksAreSound
  <2>3. \A id \in Tracks : states'[id] = None /\ live'[id] = Open(states'[id])
    BY <1>3 DEF Forgets, Open
  <2>4. ~flushed'
    BY <1>3 DEF Forgets
  <2> QED BY <2>2, <2>3, <2>4 DEF TracksAreSound
<1> QED BY <1>1, <1>2, <1>3, StepIs

(* The inductive invariant: every record's clocks are in order, its window *)
(* is pure and explained by its closest attempt, and what was heard of a   *)
(* track is what its record says.                                          *)
THEOREM RecordsStaySound == Spec => []TracksAreSound
BY InitSound, StepKeepsSound, PTL DEF Spec

(* The variables keep their types: a track has at most one record, of the  *)
(* shape _TrackState has.                                                  *)
THEOREM TypeCorrect == Spec => []TypeOK
<1>1. TracksAreSound => TypeOK
  BY DEF TracksAreSound
<1> QED BY <1>1, RecordsStaySound, PTL

(* One window never mixes samples taken under different policies, keeps    *)
(* them an interval apart and within the window, and a collect-all window  *)
(* never outgrows its quorum.                                              *)
THEOREM WindowsStayPure == Spec => []WindowsArePure
<1>1. ASSUME TracksAreSound, NEW id \in Tracks,
             states[id] # None, states[id].policy # None, ~states[id].confirmed
      PROVE  LET s == states[id]
             IN /\ \A i \in DOMAIN s.evidence : s.evidence[i].under = s.policy
                /\ \A i, j \in DOMAIN s.evidence : i < j =>
                     s.evidence[j].at - s.evidence[i].at \in s.policy.interval .. s.policy.window
                /\ s.policy.collectAll => Len(s.evidence) <= s.policy.required
  <2> DEFINE s == states[id]
             v == s.evidence
             n == Len(v)
  <2>1. /\ now \in Nat /\ s \in Records /\ s.policy \in Policies
        /\ PureWindow(s) /\ Clocked(s, now) /\ Fresh(s, now)
    <3>1. Sound(s, now) /\ now \in Nat
      BY <1>1 DEF TracksAreSound, TypeOK
    <3>2. s \in Records
      BY <3>1 DEF Sound, Steady
    <3>3. s.policy \in Policies
      BY <1>1, <3>2 DEF Records
    <3> QED BY <3>1, <3>2, <3>3 DEF Sound, Steady
  <2>2. n \in Nat /\ DOMAIN v = 1 .. n /\ \A i \in 1 .. n : v[i].at \in Nat
    BY <2>1, EvidenceTyped
  <2>3. s.policy.interval \in Nat /\ s.policy.window \in Nat
    BY <2>1, PoliciesTyped
  <2>4. s.lastTrackSeen \in Nat
    BY <2>1 DEF Records
  <2>5. /\ \A i \in 1 .. n : v[i].under = s.policy
        /\ SpacedBy(v, s.policy.interval)
        /\ s.policy.collectAll => n <= s.policy.required
    BY <1>1, <2>1 DEF PureWindow
  <2>6. ASSUME NEW i \in 1 .. n, NEW j \in 1 .. n, i < j
        PROVE  v[j].at - v[i].at \in s.policy.interval .. s.policy.window
    <3> DEFINE d == s.policy.interval
               from == v[i].at
               until == v[j].at
    <3>1. until - from >= (j - i) * d
      BY <2>5, <2>6 DEF SpacedBy
    <3>2. until <= now /\ now - from <= s.policy.window
      <4>1. until <= s.lastTrackSeen /\ s.lastTrackSeen <= now
        BY <2>1 DEF Clocked
      <4>2. now - from <= s.policy.window
        BY <1>1, <2>1 DEF Fresh
      <4>3. until \in Nat
        BY <2>2
      <4> HIDE DEF until, from
      <4> QED BY <2>1, <2>4, <4>1, <4>2, <4>3
    <3>3. from \in Nat /\ until \in Nat
      BY <2>2
    <3> HIDE DEF n
    <3>4. j - i \in Nat /\ 1 <= j - i
      BY <2>2, <2>6
    <3>5. 1 * d <= (j - i) * d
      <4> HIDE DEF d
      <4> QED BY <2>3, <3>4, ScaledUp DEF d
    <3>6. 1 * d = d /\ (j - i) * d \in Nat
      BY <2>3, <3>4
    <3> DEFINE wide == (j - i) * d
               span == s.policy.window
    <3>7. /\ d \in Nat /\ wide \in Nat /\ d <= wide /\ span \in Nat /\ now \in Nat
          /\ until - from >= wide /\ until <= now /\ now - from <= span
      BY <2>1, <2>3, <3>1, <3>2, <3>5, <3>6
    <3> HIDE DEF d, from, until, wide, span
    <3>8. d <= until - from /\ until - from <= span
      BY <3>3, <3>7
    <3> QED BY <2>3, <3>3, <3>8 DEF d, from, until, span
  <2> QED BY <2>2, <2>5, <2>6
<1>2. TracksAreSound => WindowsArePure
  BY <1>1 DEF WindowsArePure
<1> QED BY <1>2, RecordsStaySound, PTL

(* Someone who only heard the decisions holds exactly the leads and hits   *)
(* the records hold.                                                       *)
THEOREM HearingIsEnough == Spec => []HeardMatchesState
<1>1. TracksAreSound => HeardMatchesState
  BY DEF TracksAreSound, HeardMatchesState, Open
<1> QED BY <1>1, RecordsStaySound, PTL

(* No record outlives its track by more than the longest window or the     *)
(* grace period, and the closing frame leaves none.                        *)
THEOREM RecordsAreLetGo == Spec => []NothingLingers
<1>1. TracksAreSound => NothingLingers
  BY DEF TracksAreSound, NothingLingers, Sound, Kept
<1> QED BY <1>1, RecordsStaySound, PTL

(* A confirmation was earned over time.                                    *)
THEOREM HitsTookTime == Spec => HitsTakeTime
<1> DEFINE Slow == \A id \in Tracks : \A i \in DOMAIN outcomes'[id] :
       LET o == outcomes'[id][i]
       IN o.confirmed =>
            \/ o.gate = Passed /\ o.took >= (o.policy.required - 1) * o.policy.interval
            \/ o.gate = GateOrder[1] /\ o.shadow /\ o.took >= (DepartureMinSamples - 1)
<1>1. ASSUME TracksAreSound, Next
      PROVE  Slow
  <2>1. ASSUME NEW t \in Nat, FramedAt(t)
        PROVE  Slow
    BY <2>1 DEF FramedAt, FrameSound, FrameOutcome
  <2>2. CASE Forgets
    <3>1. DOMAIN <<>> = {}
      OBVIOUS
    <3> QED BY <2>2, <3>1 DEF Forgets
  <2> QED BY <1>1, <2>1, <2>2, StepIs
<1>2. TracksAreSound /\ [Next]_vars => [Slow]_vars
  BY <1>1
<1> QED BY <1>2, RecordsStaySound, PTL DEF Spec, HitsTakeTime

(* A track that banked evidence and leaves gives exactly one account of    *)
(* itself.                                                                 *)
THEOREM DeparturesAreAccountedFor == Spec => DepartureSaysWhyOnce
<1> DEFINE Once == \A id \in Tracks :
       /\ states[id] # None /\ states'[id] = None /\ now' # now
       => LET hadOutcome == states[id].outcomeEmitted \/ \E o \in Range(outcomes'[id]) : Earned(o)
              banked == states[id].firstEvidenceAt # NoTime
              postMortems == {i \in DOMAIN outcomes'[id] : ~Earned(outcomes'[id][i])}
          IN Cardinality(postMortems) = IF banked /\ ~hadOutcome THEN 1 ELSE 0
<1>1. ASSUME TracksAreSound, Next
      PROVE  Once
  <2>1. ASSUME NEW t \in Nat, FramedAt(t), NEW id \in Tracks, states[id] # None, states'[id] = None
        PROVE  Accounted(states[id], outcomes'[id])
    BY <2>1 DEF FramedAt, FrameSound
  <2>2. ASSUME NEW t \in Nat, FramedAt(t)
        PROVE  Once
    BY <2>1, <2>2 DEF Accounted
  <2>3. CASE Forgets
    BY <2>3 DEF Forgets
  <2> QED BY <1>1, <2>2, <2>3, StepIs
<1>2. TracksAreSound /\ [Next]_vars => [Once]_vars
  BY <1>1
<1> QED BY <1>2, RecordsStaySound, PTL DEF Spec, DepartureSaysWhyOnce

(* The attempt a post-mortem reports only ever improves, and a track with  *)
(* its quorum is not excused as short of samples.                          *)
THEOREM ClosestAttemptIsKept == Spec => ClosestAttemptStands
<1> DEFINE Stands == \A id \in Tracks : states[id] # None /\ states'[id] # None =>
       LET s == states[id] u == states'[id]
       IN /\ s.bestAttempt # None =>
               u.bestAttempt # None /\ ~RanksAbove(s.bestAttempt, u.bestAttempt)
          /\ u.policy # None /\ ~Settled(u) =>
               (Len(u.evidence) >= u.policy.required => Ordinal(u.bestAttempt) > 1)
<1>1. ASSUME TracksAreSound, TracksAreSound', Next
      PROVE  Stands
  <2>1. ASSUME NEW t \in Nat, FramedAt(t), NEW id \in Tracks, states[id] # None, states'[id] # None
        PROVE  /\ states[id].bestAttempt # None =>
                    /\ states'[id].bestAttempt # None
                    /\ ~RanksAbove(states[id].bestAttempt, states'[id].bestAttempt)
               /\ QuorumShown(states'[id])
    BY <2>1 DEF FramedAt, FrameSound, Sound
  <2>2. ASSUME NEW t \in Nat, FramedAt(t)
        PROVE  Stands
    BY <2>1, <2>2 DEF QuorumShown
  <2>3. CASE Forgets
    BY <2>3 DEF Forgets
  <2> QED BY <1>1, <2>2, <2>3, StepIs
<1>2. TracksAreSound /\ TracksAreSound' /\ [Next]_vars => [Stands]_vars
  BY <1>1
<1> QED BY <1>2, RecordsStaySound, PTL DEF Spec, ClosestAttemptStands

=============================================================================

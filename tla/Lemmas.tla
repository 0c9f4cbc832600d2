------------------------------- MODULE Lemmas -------------------------------
(***************************************************************************)
(* Facts that the proofs share: least numbers; induction over numbers and  *)
(* sequences, stated for a set instead of a predicate; sequences that are  *)
(* concatenated, extended and cut; what sequences of spans cover; where    *)
(* the parts of a flattened sequence lie, and those of a row of cells with *)
(* separators between them.                                                *)
(***************************************************************************)
EXTENDS Spans, SequencesExt, SequenceTheorems, WellFoundedInduction, TLAPS

(* Every set of numbers has a least one.                                   *)
LEMMA LeastExists ==
  ASSUME NEW T, T \subseteq Nat, T # {}
  PROVE  \E i \in T : \A j \in T : i <= j
  <1> DEFINE R == OpToRel(<, Nat)
  <1>1. IsWellFoundedOn(R, Nat)
    BY NatLessThanWellFounded
  <1>2. \A x, y \in Nat : x < y => <<x, y>> \in R
    BY DEF OpToRel
  <1> HIDE DEF R
  <1>3. PICK i \in T : \A j \in T : ~ (<<j, i>> \in R)
    BY <1>1, WFMin
  <1>4. \A j \in T : ~ (j < i)
    BY <1>2, <1>3
  <1>5. QED
    BY <1>4

(* The greatest element of a bounded set of numbers.                       *)
LEMMA GreatestExists ==
  ASSUME NEW n \in Nat, NEW T, T \subseteq 1 .. n, T # {}
  PROVE  \E k \in T : \A j \in T : j <= k
  <1> DEFINE U == {n - j : j \in T}
  <1>1. U \subseteq Nat
    <2>1. \A j \in 1 .. n : n - j \in Nat
      OBVIOUS
    <2>2. QED
      BY <2>1
  <1>2. U # {}
    OBVIOUS
  <1>3. PICK u \in U : \A v \in U : u <= v
    BY <1>1, <1>2, LeastExists
  <1>4. PICK k \in T : u = n - k
    BY <1>3
  <1>5. ASSUME NEW j \in T PROVE j <= k
    <2>1. n - j \in U
      OBVIOUS
    <2>2. n - k <= n - j
      BY <1>3, <1>4, <2>1
    <2>3. j \in Int /\ k \in Int /\ n \in Int
      OBVIOUS
    <2>4. QED
      BY ONLY <2>2, <2>3
  <1>6. QED
    BY <1>4, <1>5

(* A set of numbers with 0 that is closed under successors has them all.   *)
LEMMA Induction ==
  ASSUME NEW T, 0 \in T, \A n \in Nat : n \in T => n + 1 \in T
  PROVE  Nat \subseteq T
  <1> SUFFICES ASSUME Nat \ T # {} PROVE FALSE
    OBVIOUS
  <1>1. PICK i \in Nat \ T : \A j \in Nat \ T : i <= j
    BY LeastExists
  <1>2. i # 0 /\ i - 1 \in Nat
    BY <1>1
  <1>3. i - 1 \in T
    BY <1>1, <1>2
  <1>4. QED
    BY <1>1, <1>2, <1>3

-----------------------------------------------------------------------------

(* The empty sequence covers nothing, one span covers itself.              *)
LEMMA ChainEmpty == \A i, j \in Int : Chain(<<>>, i, j) <=> j = i - 1
  BY DEF Chain

LEMMA ChainOne ==
  ASSUME NEW i \in Int, NEW j \in Int, i <= j
  PROVE  <<Span(i, j)>> \in Seq(Batch) /\ Chain(<<Span(i, j)>>, i, j)
  BY DEF Chain, Span, Batch

(* Only the empty sequence has length 0.                                   *)
LEMMA LengthZero ==
  ASSUME NEW s \in Seq(Batch)
  PROVE  /\ Len(s) \in Nat
         /\ s = <<>> => Len(s) = 0
         /\ s # <<>> => Len(s) >= 1
  BY EmptySeq

(* The bounds of the spans of a sequence are integers.                     *)
LEMMA SpanBounds ==
  ASSUME NEW s \in Seq(Batch), NEW k \in 1 .. Len(s)
  PROVE  s[k].first \in Int /\ s[k].last \in Int
  <1>1. s[k] \in Batch
    BY ElementOfSeq
  <1>2. QED
    BY <1>1 DEF Batch

(* A chain that covers i .. j has i <= j + 1, and its spans lie in i .. j. *)
LEMMA ChainRange ==
  ASSUME NEW s \in Seq(Batch), NEW i \in Int, NEW j \in Int, Chain(s, i, j)
  PROVE  /\ i <= j + 1
         /\ (s = <<>>) <=> (j = i - 1)
         /\ \A k \in 1 .. Len(s) : i <= s[k].first /\ s[k].last <= j
  <1>1. CASE s = <<>>
    <2>1. Len(s) = 0 /\ j = i - 1
      BY <1>1 DEF Chain
    <2>2. QED
      BY <1>1, <2>1
  <1>2. CASE s # <<>>
    <2>1. Len(s) \in Nat /\ Len(s) >= 1
      BY <1>2, EmptySeq
    <2>2. s[1].first = i /\ s[Len(s)].last = j
      BY <1>2 DEF Chain
    <2>3. \A k \in 1 .. Len(s) : i <= s[k].first /\ s[k].last <= j
      <3> SUFFICES ASSUME NEW k \in 1 .. Len(s)
                   PROVE  i <= s[k].first /\ s[k].last <= j
        OBVIOUS
      <3>1. /\ s[k].first \in Int /\ s[k].last \in Int
            /\ s[1].last \in Int /\ s[Len(s)].first \in Int
        BY <2>1, SpanBounds
      <3>2. /\ s[k].first <= s[k].last /\ s[1].first <= s[1].last
            /\ s[Len(s)].first <= s[Len(s)].last
            /\ 1 < k => s[1].last < s[k].first
            /\ k < Len(s) => s[k].last < s[Len(s)].first
        BY <2>1 DEF Chain
      <3>3. QED
        BY <2>1, <2>2, <3>1, <3>2
    <2>4. s[1].first <= s[1].last /\ i <= s[1].first /\ s[1].last <= j
          /\ s[1].last \in Int
      BY <2>1, <2>3, SpanBounds DEF Chain
    <2>5. QED
      BY <1>2, <2>2, <2>3, <2>4
  <1>3. QED
    BY <1>1, <1>2

(* Adjacent chains make one chain.                                         *)
LEMMA ChainConcat ==
  ASSUME NEW s \in Seq(Batch), NEW t \in Seq(Batch),
         NEW i \in Int, NEW m \in Int, NEW j \in Int,
         Chain(s, i, m), Chain(t, m + 1, j)
  PROVE  s \o t \in Seq(Batch) /\ Chain(s \o t, i, j)
  <1>1. CASE s = <<>>
    <2>1. s \o t = t /\ m = i - 1
      BY <1>1, ConcatEmptySeq DEF Chain
    <2>2. QED
      BY <2>1
  <1>2. CASE t = <<>>
    <2>1. s \o t = s /\ j = m
      BY <1>2, ConcatEmptySeq DEF Chain
    <2>2. QED
      BY <2>1
  <1>3. CASE s # <<>> /\ t # <<>>
    <2> DEFINE u == s \o t
    <2>1. /\ Len(s) \in Nat /\ Len(s) >= 1
          /\ Len(t) \in Nat /\ Len(t) >= 1
      BY <1>3, EmptySeq
    <2>2. /\ u \in Seq(Batch) /\ Len(u) = Len(s) + Len(t)
          /\ \A k \in 1 .. Len(s) : u[k] = s[k]
          /\ \A k \in Len(s) + 1 .. Len(u) : u[k] = t[k - Len(s)]
      BY <2>1, ConcatProperties
    <2>3. /\ \A k \in 1 .. Len(s) : /\ s[k].first \in Int /\ s[k].last \in Int
                                    /\ s[k].first <= s[k].last /\ s[k].last <= m
          /\ \A k \in 1 .. Len(t) : /\ t[k].first \in Int /\ t[k].last \in Int
                                    /\ t[k].first <= t[k].last /\ m + 1 <= t[k].first
      <3>1. /\ \A k \in 1 .. Len(s) : s[k].first \in Int /\ s[k].last \in Int
            /\ \A k \in 1 .. Len(t) : t[k].first \in Int /\ t[k].last \in Int
        BY SpanBounds
      <3>2. /\ \A k \in 1 .. Len(s) : s[k].last <= m
            /\ \A k \in 1 .. Len(t) : m + 1 <= t[k].first
        BY ChainRange
      <3>3. QED
        BY <3>1, <3>2 DEF Chain
    <2>4. /\ s[1].first = i /\ s[Len(s)].last = m
          /\ t[1].first = m + 1 /\ t[Len(t)].last = j
      BY <1>3 DEF Chain
    <2>5. \A k \in 1 .. Len(u) : u[k].first <= u[k].last
      <3> SUFFICES ASSUME NEW k \in 1 .. Len(u)
                   PROVE  u[k].first <= u[k].last
        OBVIOUS
      <3>1. CASE k <= Len(s)
        <4>1. k \in 1 .. Len(s) /\ u[k] = s[k]
          BY <3>1, <2>1, <2>2
        <4>2. QED
          BY <4>1, <2>3
      <3>2. CASE k > Len(s)
        <4>1. k - Len(s) \in 1 .. Len(t) /\ u[k] = t[k - Len(s)]
          BY <3>2, <2>1, <2>2
        <4>2. QED
          BY <4>1, <2>3
      <3>3. QED
        BY <3>1, <3>2, <2>1, <2>2
    <2>6. \A k \in 1 .. Len(u) - 1 : u[k + 1].first = u[k].last + 1
      <3> SUFFICES ASSUME NEW k \in 1 .. Len(u) - 1
                   PROVE  u[k + 1].first = u[k].last + 1
        OBVIOUS
      <3>1. CASE k < Len(s)
        BY <3>1, <2>1, <2>2 DEF Chain
      <3>2. CASE k = Len(s)
        BY <3>2, <2>1, <2>2, <2>4
      <3>3. CASE k > Len(s)
        <4>1. k - Len(s) \in 1 .. Len(t) - 1 /\ u[k] = t[k - Len(s)]
              /\ u[k + 1] = t[(k - Len(s)) + 1]
          BY <3>3, <2>1, <2>2
        <4>2. QED
          BY <4>1 DEF Chain
      <3>4. QED
        BY <3>1, <3>2, <3>3, <2>1, <2>2
    <2>7. \A k, l \in 1 .. Len(u) : k < l => u[k].last < u[l].first
      <3> SUFFICES ASSUME NEW k \in 1 .. Len(u), NEW l \in 1 .. Len(u), k < l
                   PROVE  u[k].last < u[l].first
        OBVIOUS
      <3>1. CASE l <= Len(s)
        BY <3>1, <2>1, <2>2 DEF Chain
      <3>2. CASE k <= Len(s) /\ l > Len(s)
        BY SMTT(40), <3>2, <2>1, <2>2, <2>3
      <3>3. CASE k > Len(s)
        <4>1. /\ k - Len(s) \in 1 .. Len(t) /\ l - Len(s) \in 1 .. Len(t)
              /\ k - Len(s) < l - Len(s)
              /\ u[k] = t[k - Len(s)] /\ u[l] = t[l - Len(s)]
          BY <3>3, <2>1, <2>2
        <4>2. QED
          BY <4>1 DEF Chain
      <3>4. QED
        BY SMTT(40), <3>1, <3>2, <3>3, <2>1, <2>2
    <2>8. u # <<>> /\ u[1].first = i /\ u[Len(u)].last = j
      BY <2>1, <2>2, <2>4
    <2>9. QED
      BY <2>2, <2>5, <2>6, <2>7, <2>8 DEF Chain
  <1>4. QED
    BY <1>1, <1>2, <1>3

(* Consecutive spans of a chain are a chain.                               *)
LEMMA ChainPart ==
  ASSUME NEW s \in Seq(Batch), NEW i \in Int, NEW j \in Int, Chain(s, i, j),
         NEW b \in Seq(Batch), NEW n \in Nat, Len(b) >= 1, n + Len(b) <= Len(s),
         \A k \in 1 .. Len(b) : b[k] = s[n + k]
  PROVE  Chain(b, s[n + 1].first, s[n + Len(b)].last)
  <1>1. Len(b) \in Nat /\ Len(s) \in Nat /\ b # <<>>
    BY LengthZero
  <1>2. \A k \in 1 .. Len(b) : n + k \in 1 .. Len(s)
    BY <1>1
  <1>3. \A k \in 1 .. Len(b) : b[k].first <= b[k].last
    BY <1>2 DEF Chain
  <1>4. \A k \in 1 .. Len(b) - 1 : b[k + 1].first = b[k].last + 1
    <2> SUFFICES ASSUME NEW k \in 1 .. Len(b) - 1
                 PROVE  b[k + 1].first = b[k].last + 1
      OBVIOUS
    <2>1. n + k \in 1 .. Len(s) - 1 /\ b[k] = s[n + k] /\ b[k + 1] = s[(n + k) + 1]
      BY <1>1
    <2>2. QED
      BY <2>1 DEF Chain
  <1>5. \A k, l \in 1 .. Len(b) : k < l => b[k].last < b[l].first
    <2> SUFFICES ASSUME NEW k \in 1 .. Len(b), NEW l \in 1 .. Len(b), k < l
                 PROVE  b[k].last < b[l].first
      OBVIOUS
    <2>1. /\ n + k \in 1 .. Len(s) /\ n + l \in 1 .. Len(s) /\ n + k < n + l
          /\ b[k] = s[n + k] /\ b[l] = s[n + l]
      BY <1>1, <1>2
    <2>2. QED
      BY <2>1 DEF Chain
  <1>6. b[1] = s[n + 1] /\ b[Len(b)] = s[n + Len(b)]
    BY <1>1
  <1>7. QED
    BY <1>1, <1>3, <1>4, <1>5, <1>6 DEF Chain

(* A chain of at least two spans is cut between two neighbours.            *)
LEMMA ChainCut ==
  ASSUME NEW s \in Seq(Batch), NEW i \in Int, NEW j \in Int, Chain(s, i, j),
         NEW a \in Seq(Batch), Len(a) >= 1,
         \A k \in 1 .. Len(a) : a[k] = s[k],
         NEW b \in Seq(Batch), Len(b) >= 1,
         \A k \in 1 .. Len(b) : b[k] = s[Len(a) + k],
         Len(s) = Len(a) + Len(b)
  PROVE  \E m \in i .. j : Chain(a, i, m) /\ Chain(b, m + 1, j)
  <1> DEFINE n == Len(a)
  <1>1. Len(s) \in Nat /\ n \in Nat /\ Len(b) \in Nat /\ n < Len(s)
    BY LengthZero
  <1>2. /\ s # <<>> /\ n \in 1 .. Len(s) /\ n + 1 \in 1 .. Len(s)
        /\ n \in 1 .. Len(s) - 1
        /\ Len(s) \in 1 .. Len(s) /\ 1 \in 1 .. Len(s)
    BY <1>1, LengthZero
  <1>3. /\ s[1].first = i /\ s[Len(s)].last = j
        /\ s[n + 1].first = s[n].last + 1
        /\ s[n].first <= s[n].last
    BY <1>2 DEF Chain
  <1>4. i <= s[n].first /\ s[n].last <= j
    BY <1>2, ChainRange
  <1>5. s[n].first \in Int /\ s[n].last \in Int
    BY <1>2, SpanBounds
  <1>6. Chain(a, i, s[n].last)
    <2>1. Chain(a, s[0 + 1].first, s[0 + Len(a)].last)
      <3>1. /\ 0 \in Nat /\ Len(a) >= 1 /\ 0 + Len(a) <= Len(s)
            /\ \A k \in 1 .. Len(a) : a[k] = s[0 + k]
        BY <1>1
      <3>2. QED
        BY <3>1, ChainPart
    <2>2. 0 + 1 = 1 /\ 0 + Len(a) = n
      BY <1>1
    <2>3. QED
      BY <1>3, <2>1, <2>2
  <1>7. Chain(b, s[n].last + 1, j)
    <2>1. n \in Nat /\ Len(b) >= 1 /\ n + Len(b) = Len(s) /\ n + Len(b) <= Len(s)
      BY <1>1
    <2>2. Chain(b, s[n + 1].first, s[n + Len(b)].last)
      BY <2>1, ChainPart
    <2>3. QED
      BY <1>3, <2>1, <2>2
  <1>8. s[n].last \in i .. j
    BY <1>3, <1>4, <1>5
  <1>9. QED
    BY <1>6, <1>7, <1>8

(* A chain is cut anywhere into two adjacent chains.                       *)
LEMMA ChainSplit ==
  ASSUME NEW s \in Seq(Batch), NEW i \in Int, NEW j \in Int, Chain(s, i, j),
         NEW n \in 0 .. Len(s)
  PROVE  /\ SubSeq(s, 1, n) \in Seq(Batch) /\ SubSeq(s, n + 1, Len(s)) \in Seq(Batch)
         /\ \E m \in i - 1 .. j : /\ Chain(SubSeq(s, 1, n), i, m)
                                 /\ Chain(SubSeq(s, n + 1, Len(s)), m + 1, j)
  <1> DEFINE a == SubSeq(s, 1, n)
             b == SubSeq(s, n + 1, Len(s))
  <1>1. Len(s) \in Nat /\ \A k \in 1 .. Len(s) : s[k] \in Batch
    BY ElementOfSeq
  <1>2. /\ a \in Seq(Batch) /\ Len(a) = n
        /\ \A k \in 1 .. n : a[k] = s[k]
    <2>1. 1 \in Int /\ n \in Int /\ \A k \in 1 .. n : s[k] \in Batch
      BY <1>1
    <2>2. /\ a \in Seq(Batch) /\ Len(a) = IF 1 <= n THEN n - 1 + 1 ELSE 0
          /\ \A k \in 1 .. n - 1 + 1 : a[k] = s[1 + k - 1]
      BY <2>1, SubSeqProperties
    <2>3. QED
      BY <1>1, <2>2
  <1>3. /\ b \in Seq(Batch) /\ Len(b) = Len(s) - n
        /\ \A k \in 1 .. Len(b) : b[k] = s[n + k]
    <2>1. n + 1 \in Int /\ Len(s) \in Int /\ \A k \in n + 1 .. Len(s) : s[k] \in Batch
      BY <1>1
    <2>2. /\ b \in Seq(Batch) /\ Len(b) = IF n + 1 <= Len(s) THEN Len(s) - (n + 1) + 1 ELSE 0
          /\ \A k \in 1 .. Len(s) - (n + 1) + 1 : b[k] = s[(n + 1) + k - 1]
      BY <2>1, SubSeqProperties
    <2>3. QED
      BY SMTT(40), <1>1, <2>2
  <1>4. n = 0 => a = <<>> /\ b = s
    BY <1>2, SubSeqFull, LengthZero
  <1>5. n = Len(s) => a = s /\ b = <<>>
    BY <1>1, <1>3, SubSeqFull, LengthZero
  <1>6. i <= j + 1
    BY ChainRange
  <1> HIDE DEF a, b
  <1>7. CASE n = 0
    <2>1. Chain(a, i, i - 1) /\ Chain(b, (i - 1) + 1, j) /\ i - 1 \in i - 1 .. j
      BY <1>4, <1>6, <1>7, ChainEmpty
    <2>2. QED
      BY <1>2, <1>3, <2>1 DEF a, b
  <1>8. CASE n = Len(s)
    <2>1. Chain(a, i, j) /\ Chain(b, j + 1, j) /\ j \in i - 1 .. j
      BY <1>5, <1>6, <1>8, ChainEmpty
    <2>2. QED
      BY <1>2, <1>3, <2>1 DEF a, b
  <1>9. CASE n > 0 /\ n < Len(s)
    <2>1. n \in 1 .. Len(s) - 1
      BY <1>1, <1>9
    <2>2. \E m \in i .. j : Chain(a, i, m) /\ Chain(b, m + 1, j)
      <3>1. /\ Len(a) >= 1 /\ Len(b) >= 1 /\ Len(s) = Len(a) + Len(b)
            /\ \A k \in 1 .. Len(a) : a[k] = s[k]
            /\ \A k \in 1 .. Len(b) : b[k] = s[Len(a) + k]
        BY <1>1, <1>2, <1>3, <2>1
      <3>2. QED
        BY <1>2, <1>3, <3>1, ChainCut
    <2> PICK m \in i .. j : Chain(a, i, m) /\ Chain(b, m + 1, j)
      BY <2>2
    <2>3. m \in i - 1 .. j
      OBVIOUS
    <2>4. QED
      BY <1>2, <1>3, <2>3 DEF a, b
  <1>10. QED
    BY <1>1, <1>7, <1>8, <1>9

(* The first span of a chain, and what is left behind it.                  *)
LEMMA ChainHead ==
  ASSUME NEW s \in Seq(Batch), NEW i \in Int, NEW j \in Int, Chain(s, i, j),
         s # <<>>
  PROVE  /\ <<Head(s)>> \in Seq(Batch) /\ Tail(s) \in Seq(Batch)
         /\ Len(Tail(s)) = Len(s) - 1
         /\ \E m \in i .. j : Chain(<<Head(s)>>, i, m) /\ Chain(Tail(s), m + 1, j)
  <1> DEFINE a == <<Head(s)>>
             b == Tail(s)
  <1>1. Len(s) \in Nat /\ Len(s) >= 1 /\ s[1] \in Batch
    <2>1. Len(s) \in Nat /\ Len(s) >= 1 /\ 1 \in 1 .. Len(s)
      BY LengthZero
    <2>2. QED
      BY <2>1, ElementOfSeq
  <1>2. /\ b \in Seq(Batch) /\ Len(b) = Len(s) - 1
        /\ \A k \in 1 .. Len(b) : b[k] = s[1 + k]
    BY <1>1, HeadTailProperties
  <1>3. a \in Seq(Batch) /\ Len(a) = 1 /\ a[1] = s[1]
    BY <1>1
  <1> HIDE DEF a, b
  <1>4. CASE Len(s) = 1
    <2>1. b = <<>>
      BY <1>2, <1>4, LengthZero
    <2>2. Chain(a, s[0 + 1].first, s[0 + Len(a)].last)
      <3>1. 0 \in Nat /\ Len(a) >= 1 /\ 0 + Len(a) <= Len(s)
            /\ \A k \in 1 .. Len(a) : a[k] = s[0 + k]
        BY <1>3, <1>4
      <3>2. QED
        BY <1>3, <3>1, ChainPart
    <2>3. 0 + 1 = 1 /\ 0 + Len(a) = Len(s) /\ s # <<>>
      BY <1>3, <1>4
    <2>4. s[1].first = i /\ s[Len(s)].last = j
      BY DEF Chain
    <2>5. Chain(a, i, j)
      BY <2>2, <2>3, <2>4
    <2>6. i <= j
      BY <1>1, <1>4, ChainRange
    <2>7. Chain(b, j + 1, j) /\ j \in i .. j
      BY <2>1, <2>6, ChainEmpty
    <2>8. QED
      BY <1>2, <1>3, <2>5, <2>7 DEF a, b
  <1>5. CASE Len(s) # 1
    <2>1. /\ Len(a) >= 1 /\ Len(b) >= 1 /\ Len(s) = Len(a) + Len(b)
          /\ \A k \in 1 .. Len(a) : a[k] = s[k]
          /\ \A k \in 1 .. Len(b) : b[k] = s[Len(a) + k]
      BY <1>1, <1>2, <1>3, <1>5
    <2>2. \E m \in i .. j : Chain(a, i, m) /\ Chain(b, m + 1, j)
      BY <1>2, <1>3, <2>1, ChainCut
    <2>3. QED
      BY <1>2, <1>3, <2>2 DEF a, b
  <1>6. QED
    BY <1>4, <1>5

(* A sequence covers one range from a given start.                         *)
LEMMA ChainUnique ==
  ASSUME NEW s \in Seq(Batch), NEW i \in Int, NEW j \in Int, NEW k \in Int,
         Chain(s, i, j), Chain(s, i, k)
  PROVE  j = k
  BY DEF Chain

(* The range a chain covers is no longer than its spans together.          *)
LEMMA ChainLength ==
  ASSUME NEW s \in Seq(Batch), NEW i \in Int, NEW j \in Int, Chain(s, i, j),
         NEW size \in Nat, \A k \in 1 .. Len(s) : s[k].last - s[k].first < size
  PROVE  j - i + 1 <= Len(s) * size
  <1> DEFINE T == {n \in Nat : n \in 1 .. Len(s) => s[n].last - i + 1 <= n * size}
  <1>1. Len(s) \in Nat
    BY LengthZero
  <1>2. 0 \in T
    OBVIOUS
  <1>3. ASSUME NEW n \in Nat, n \in T
        PROVE  n + 1 \in T
    <2> SUFFICES ASSUME n + 1 \in 1 .. Len(s)
                 PROVE  s[n + 1].last - i + 1 <= (n + 1) * size
      OBVIOUS
    <2>1. /\ s[n + 1].first \in Int /\ s[n + 1].last \in Int
          /\ s[n + 1].last - s[n + 1].first < size
      BY SpanBounds
    <2>2. (n + 1) * size = n * size + size /\ n * size \in Nat
      OBVIOUS
    <2>3. CASE n = 0
      <3>1. s # <<>> /\ s[1].first = i
        BY <1>1, <2>3, LengthZero DEF Chain
      <3>2. s[1].last - i + 1 <= size /\ (0 + 1) * size = size
        BY <2>1, <2>3, <3>1
      <3>3. QED
        BY <2>3, <3>2
    <2>4. CASE n # 0
      <3>1. n \in 1 .. Len(s) - 1 /\ n \in 1 .. Len(s)
        BY <1>1, <2>4
      <3>2. s[n + 1].first = s[n].last + 1
        BY <3>1 DEF Chain
      <3>3. s[n].last \in Int /\ s[n].last - i + 1 <= n * size
        BY <1>3, <3>1, SpanBounds
      <3> DEFINE a == s[n].last
                 b == s[n + 1].last
                 p == n * size
      <3>4. a \in Int /\ b \in Int /\ p \in Nat /\ a - i + 1 <= p /\ b - (a + 1) < size
        BY <2>1, <2>2, <3>2, <3>3
      <3>5. (n + 1) * size = p + size
        BY <2>2
      <3> HIDE DEF a, b, p
      <3>6. b - i + 1 <= p + size
        BY ONLY <3>4, i \in Int, size \in Nat
      <3>7. QED
        BY <3>5, <3>6 DEF b
    <2>5. QED
      BY <2>3, <2>4
  <1> HIDE DEF T
  <1>4. Nat \subseteq T
    BY <1>2, <1>3, Induction
  <1>5. CASE s = <<>>
    <2>1. j = i - 1 /\ Len(s) = 0
      BY <1>5, LengthZero DEF Chain
    <2>2. 0 * size = 0
      OBVIOUS
    <2>3. QED
      BY <2>1, <2>2
  <1>6. CASE s # <<>>
    <2>1. Len(s) \in 1 .. Len(s) /\ s[Len(s)].last = j
      BY <1>1, <1>6, LengthZero DEF Chain
    <2>2. QED
      BY <1>1, <1>4, <2>1 DEF T
  <1>7. QED
    BY <1>5, <1>6

-----------------------------------------------------------------------------
(* FlattenSeq, defined with a recursive function: it exists, is unique,    *)
(* and grows with the sequence.                                            *)
IsFlattening(f, s, n) ==
    f = [i \in 1 .. n |-> IF i = 1 THEN s[i] ELSE f[i - 1] \o s[i]]

LEMMA FlatteningExists ==
  ASSUME NEW s, NEW n \in Nat
  PROVE  \E f : IsFlattening(f, s, n)
  <1> DEFINE T == {m \in Nat : \E f : IsFlattening(f, s, m)}
  <1>1. 0 \in T
    <2>1. IsFlattening([i \in 1 .. 0 |-> 0], s, 0)
      BY DEF IsFlattening
    <2> QED BY <2>1
  <1>2. ASSUME NEW m \in Nat, m \in T PROVE m + 1 \in T
    <2>1. PICK f : IsFlattening(f, s, m)
      BY <1>2
    <2> DEFINE g == [i \in 1 .. m + 1 |-> IF i = m + 1
                         THEN IF i = 1 THEN s[i] ELSE f[i - 1] \o s[i] ELSE f[i]]
    <2>2. ASSUME NEW i \in 1 .. m + 1 PROVE g[i] = IF i = 1 THEN s[i] ELSE g[i - 1] \o s[i]
      <3>1. CASE i = m + 1
        BY <3>1
      <3>2. CASE i # m + 1
        <4>1. i \in 1 .. m /\ g[i] = f[i]
          BY <3>2
        <4>2. f[i] = IF i = 1 THEN s[i] ELSE f[i - 1] \o s[i]
          BY <2>1, <4>1 DEF IsFlattening
        <4>3. i # 1 => g[i - 1] = f[i - 1]
          BY <4>1
        <4> QED BY <4>1, <4>2, <4>3
      <3> QED BY <3>1, <3>2
    <2>3. DOMAIN g = 1 .. m + 1 /\ g = [i \in 1 .. m + 1 |-> g[i]]
      OBVIOUS
    <2> HIDE DEF g
    <2>4. IsFlattening(g, s, m + 1)
      BY <2>2, <2>3 DEF IsFlattening
    <2> QED BY <2>4
  <1> HIDE DEF T
  <1>3. Nat \subseteq T
    BY <1>1, <1>2, Induction
  <1> QED BY <1>3 DEF T

LEMMA FlatteningAt ==
  ASSUME NEW f, NEW s, NEW n \in Nat, IsFlattening(f, s, n), NEW i \in 1 .. n
  PROVE  f[i] = IF i = 1 THEN s[i] ELSE f[i - 1] \o s[i]
  <1> DEFINE h == [j \in 1 .. n |-> IF j = 1 THEN s[j] ELSE f[j - 1] \o s[j]]
  <1>1. h[i] = IF i = 1 THEN s[i] ELSE f[i - 1] \o s[i]
    OBVIOUS
  <1>2. f = h
    BY DEF IsFlattening
  <1> HIDE DEF h
  <1> QED BY <1>1, <1>2

Agree(s, t, n) == \A i \in 1 .. n : s[i] = t[i]

LEMMA FlatteningUnique ==
  ASSUME NEW s, NEW t, NEW m \in Nat, NEW n \in Nat, NEW f, NEW g,
         IsFlattening(f, s, m), IsFlattening(g, t, n), m <= n,
         Agree(s, t, m)
  PROVE  Agree(f, g, m)
  <1> USE DEF Agree
  <1> DEFINE T == {i \in Nat : i \in 1 .. m => f[i] = g[i]}
  <1>1. 0 \in T
    OBVIOUS
  <1>2. ASSUME NEW i \in Nat, i \in T PROVE i + 1 \in T
    <2> SUFFICES ASSUME i + 1 \in 1 .. m PROVE f[i + 1] = g[i + 1]
      OBVIOUS
    <2>0. i + 1 \in 1 .. n /\ (i + 1) - 1 = i
      OBVIOUS
    <2>1. f[i + 1] = IF i + 1 = 1 THEN s[i + 1] ELSE f[i] \o s[i + 1]
      BY <2>0, FlatteningAt
    <2>2. g[i + 1] = IF i + 1 = 1 THEN t[i + 1] ELSE g[i] \o t[i + 1]
      BY <2>0, FlatteningAt
    <2>3. i + 1 # 1 => f[i] = g[i]
      BY <1>2
    <2> QED BY <2>1, <2>2, <2>3
  <1> HIDE DEF T
  <1>3. Nat \subseteq T
    BY <1>1, <1>2, Induction
  <1> QED BY <1>3 DEF T

LEMMA FlattenIs ==
  ASSUME NEW s, Len(s) \in Nat \ {0}
  PROVE  \E f : IsFlattening(f, s, Len(s)) /\ FlattenSeq(s) = f[Len(s)]
  <1> DEFINE h == CHOOSE f : IsFlattening(f, s, Len(s))
  <1>1. IsFlattening(h, s, Len(s))
    BY FlatteningExists
  <1>2. FlattenSeq(s) = h[Len(s)]
    BY DEF FlattenSeq, IsFlattening
  <1> QED BY <1>1, <1>2

LEMMA FlattenEmpty == FlattenSeq(<<>>) = <<>>
  BY DEF FlattenSeq

LEMMA FlattenType ==
  ASSUME NEW S, NEW s \in Seq(Seq(S))
  PROVE  FlattenSeq(s) \in Seq(S)
  <1>1. CASE s = <<>>
    BY <1>1, FlattenEmpty, EmptySeq
  <1>2. CASE s # <<>>
    <2>1. Len(s) \in Nat \ {0}
      BY <1>2, EmptySeq
    <2>2. PICK f : IsFlattening(f, s, Len(s)) /\ FlattenSeq(s) = f[Len(s)]
      BY <2>1, FlattenIs
    <2> DEFINE T == {i \in Nat : i \in 1 .. Len(s) => f[i] \in Seq(S)}
    <2>3. 0 \in T
      OBVIOUS
    <2>4. ASSUME NEW i \in Nat, i \in T PROVE i + 1 \in T
      <3> SUFFICES ASSUME i + 1 \in 1 .. Len(s) PROVE f[i + 1] \in Seq(S)
        OBVIOUS
      <3>1. f[i + 1] = IF i + 1 = 1 THEN s[i + 1] ELSE f[i] \o s[i + 1]
        <4>1. (i + 1) - 1 = i
          OBVIOUS
        <4> QED BY <2>2, <4>1, FlatteningAt
      <3>2. i + 1 # 1 => f[i] \in Seq(S)
        BY <2>1, <2>4
      <3>3. s[i + 1] \in Seq(S)
        BY ElementOfSeq
      <3> QED BY <3>1, <3>2, <3>3, ConcatProperties
    <2> HIDE DEF T
    <2>5. Nat \subseteq T
      BY <2>3, <2>4, Induction
    <2> QED BY <2>1, <2>2, <2>5 DEF T
  <1> QED BY <1>1, <1>2

LEMMA FlatteningGrows ==
  ASSUME NEW S, NEW s \in Seq(Seq(S)), NEW t \in Seq(Seq(S)), NEW x \in Seq(S),
         NEW n \in Nat, NEW k \in Nat, k = n + 1,
         Len(s) = n, Len(t) = k, t[k] = x, \A i \in 1 .. n : s[i] = t[i]
  PROVE  FlattenSeq(t) = FlattenSeq(s) \o x
  <1>1. PICK g : IsFlattening(g, t, k) /\ FlattenSeq(t) = g[k]
    BY FlattenIs
  <1>2. g[k] = IF k = 1 THEN x ELSE g[n] \o x
    <2>1. k \in 1 .. k /\ k - 1 = n
      OBVIOUS
    <2>2. g[k] = IF k = 1 THEN t[k] ELSE g[k - 1] \o t[k]
      BY <1>1, <2>1, FlatteningAt
    <2> QED BY <2>1, <2>2
  <1>3. CASE n = 0
    <2>1. s = <<>> /\ <<>> \o x = x
      BY <1>3, EmptySeq, ConcatEmptySeq
    <2> QED BY <1>1, <1>2, <1>3, <2>1, FlattenEmpty
  <1>4. CASE n # 0
    <2>1. PICK f : IsFlattening(f, s, n) /\ FlattenSeq(s) = f[n]
      BY <1>4, FlattenIs
    <2>2. Agree(f, g, n)
      <3>1. n <= k /\ Agree(s, t, n)
        BY DEF Agree
      <3> QED BY <1>1, <2>1, <3>1, FlatteningUnique
    <2>3. f[n] = g[n] /\ k # 1
      BY <1>4, <2>2 DEF Agree
    <2> QED BY <1>1, <1>2, <2>1, <2>3
  <1> QED BY <1>3, <1>4

LEMMA FlattenAppend ==
  ASSUME NEW S, NEW s \in Seq(Seq(S)), NEW x \in Seq(S)
  PROVE  FlattenSeq(Append(s, x)) = FlattenSeq(s) \o x
  <1> DEFINE t == Append(s, x)
  <1>1. /\ Len(s) \in Nat /\ Len(t) = Len(s) + 1 /\ t \in Seq(Seq(S))
        /\ \A i \in 1 .. Len(s) : s[i] = t[i]
        /\ t[Len(s) + 1] = x
    BY LenProperties, AppendProperties
  <1> HIDE DEF t
  <1>2. PICK n \in Nat, k \in Nat : k = n + 1 /\ Len(s) = n /\ Len(t) = k
    BY <1>1
  <1>3. t[k] = x /\ \A i \in 1 .. n : s[i] = t[i]
    BY <1>1, <1>2
  <1>4. FlattenSeq(t) = FlattenSeq(s) \o x
    BY SMTT(40), <1>1, <1>2, <1>3, FlatteningGrows
  <1> QED BY <1>4 DEF t

-----------------------------------------------------------------------------
(* Induction over sequences, for a set of them.                            *)
LEMMA SeqInduction ==
  ASSUME NEW S, NEW T, <<>> \in T,
         \A s \in Seq(S) : \A x \in S : s \in T => Append(s, x) \in T
  PROVE  Seq(S) \subseteq T
  <1> DEFINE M == {n \in Nat : \A s \in Seq(S) : Len(s) = n => s \in T}
  <1>1. 0 \in M
    BY EmptySeq
  <1>2. ASSUME NEW n \in Nat, n \in M PROVE n + 1 \in M
    <2> SUFFICES ASSUME NEW s \in Seq(S), Len(s) = n + 1 PROVE s \in T
      OBVIOUS
    <2>1. s # <<>>
      BY EmptySeq
    <2>2. PICK t \in Seq(S), x \in S : s = Append(t, x)
      BY <2>1, SequenceEmptyOrAppend
    <2>3. Len(s) = Len(t) + 1 /\ Len(t) \in Nat
      BY <2>2, AppendProperties, LenProperties
    <2>4. t \in T
      BY <1>2, <2>3
    <2>5. QED
      BY <2>2, <2>4
  <1> HIDE DEF M
  <1>3. Nat \subseteq M
    BY <1>1, <1>2, Induction
  <1>4. ASSUME NEW s \in Seq(S) PROVE s \in T
    <2>1. Len(s) \in M
      BY <1>3, LenProperties
    <2>2. QED
      BY <2>1 DEF M
  <1>5. QED
    BY <1>4

(* The sequence of one element, and what Append does to a concatenation.   *)
LEMMA Single ==
  ASSUME NEW S, NEW x \in S
  PROVE  <<x>> \in Seq(S) /\ Len(<<x>>) = 1 /\ <<x>>[1] = x /\ Append(<<>>, x) = <<x>>
  OBVIOUS

LEMMA Pair ==
  ASSUME NEW S, NEW x \in S, NEW y \in S
  PROVE  /\ <<x, y>> \in Seq(S) /\ Len(<<x, y>>) = 2
         /\ Append(<<x>>, y) = <<x, y>> /\ <<x>> \o <<y>> = <<x, y>>
  <1>1. <<x>> \in Seq(S) /\ Len(<<x>>) = 1
    BY Single
  <1>2. /\ Append(<<x>>, y) \in Seq(S) /\ Len(Append(<<x>>, y)) = 2
        /\ Append(<<x>>, y)[1] = x /\ Append(<<x>>, y)[2] = y
    BY <1>1, AppendProperties
  <1>3. /\ <<x, y>> \in Seq(S) /\ Len(<<x, y>>) = 2
        /\ <<x, y>>[1] = x /\ <<x, y>>[2] = y
    OBVIOUS
  <1> DEFINE s == Append(<<x>>, y)
             t == <<x, y>>
  <1> HIDE DEF s, t
  <1>4. \A k \in 1 .. Len(s) : s[k] = t[k]
    BY <1>2, <1>3 DEF s, t
  <1>5. s = t
    BY <1>2, <1>3, <1>4, SeqEqual DEF s, t
  <1>6. Append(<<x>>, y) = <<x>> \o <<y>>
    BY <1>1, AppendIsConcat
  <1>7. QED
    BY <1>3, <1>5, <1>6 DEF s, t

LEMMA ConcatAppend ==
  ASSUME NEW S, NEW s \in Seq(S), NEW t \in Seq(S), NEW x \in S
  PROVE  s \o Append(t, x) = Append(s \o t, x)
  <1>1. <<x>> \in Seq(S)
    OBVIOUS
  <1>2. Append(t, x) = t \o <<x>> /\ s \o t \in Seq(S)
    BY AppendIsConcat, ConcatProperties
  <1>3. Append(s \o t, x) = (s \o t) \o <<x>>
    BY <1>2, AppendIsConcat
  <1>4. QED
    BY <1>1, <1>2, <1>3, ConcatAssociative

LEMMA FrontAndLast ==
  ASSUME NEW S, NEW s \in Seq(S), NEW x \in S
  PROVE  Front(Append(s, x)) = s /\ Last(Append(s, x)) = x
  <1> DEFINE t == Append(s, x)
  <1>1. /\ t \in Seq(S) /\ Len(t) = Len(s) + 1 /\ Len(s) \in Nat
        /\ \A k \in 1 .. Len(s) : t[k] = s[k]
        /\ t[Len(s) + 1] = x
    BY AppendProperties, LenProperties
  <1> HIDE DEF t
  <1>2. Last(t) = x
    BY <1>1 DEF Last
  <1>3. /\ SubSeq(t, 1, Len(s)) \in Seq(S)
        /\ Len(SubSeq(t, 1, Len(s))) = Len(s)
        /\ \A k \in 1 .. Len(s) : SubSeq(t, 1, Len(s))[k] = t[k]
    <2>1. \A k \in 1 .. Len(s) : t[k] \in S
      BY <1>1, ElementOfSeq
    <2>2. /\ SubSeq(t, 1, Len(s)) \in Seq(S)
          /\ Len(SubSeq(t, 1, Len(s))) = IF 1 <= Len(s) THEN Len(s) - 1 + 1 ELSE 0
          /\ \A k \in 1 .. Len(s) - 1 + 1 : SubSeq(t, 1, Len(s))[k] = t[1 + k - 1]
      BY <1>1, <2>1, SubSeqProperties
    <2>3. QED
      BY <1>1, <2>2
  <1>4. SubSeq(t, 1, Len(s)) = s
    BY <1>1, <1>3, SeqEqual
  <1>5. Front(t) = s
    BY <1>1, <1>4 DEF Front
  <1>6. QED
    BY <1>2, <1>5 DEF t

LEMMA FlattenTwo ==
  ASSUME NEW S, NEW x \in Seq(S), NEW y \in Seq(S)
  PROVE  FlattenSeq(<<x, y>>) = x \o y /\ FlattenSeq(<<x>>) = x
  <1> DEFINE Q == Seq(S)
  <1> HIDE DEF Q
  <1>1. x \in Q /\ y \in Q
    BY DEF Q
  <1>2. <<>> \in Seq(Q) /\ <<x>> \in Seq(Q) /\ Append(<<>>, x) = <<x>>
    BY <1>1, Single, EmptySeq
  <1>3. Append(<<x>>, y) = <<x, y>>
    BY <1>1, Pair
  <1>4. FlattenSeq(<<x>>) = x
    <2>1. FlattenSeq(Append(<<>>, x)) = FlattenSeq(<<>>) \o x
      BY <1>2, FlattenAppend DEF Q
    <2>2. <<>> \o x = x
      BY ConcatEmptySeq
    <2>3. QED
      BY <1>2, <2>1, <2>2, FlattenEmpty
  <1>5. FlattenSeq(Append(<<x>>, y)) = FlattenSeq(<<x>>) \o y
    BY <1>2, FlattenAppend DEF Q
  <1>6. QED
    BY <1>3, <1>4, <1>5

(* A function on 1 .. n is a sequence of length n.                         *)
LEMMA FunctionIsSeq ==
  ASSUME NEW Q, NEW n \in Nat, NEW f \in [1 .. n -> Q]
  PROVE  f \in Seq(Q) /\ Len(f) = n
  <1>1. f \in Seq(Q)
    BY SeqDef
  <1>2. DOMAIN f = 1 .. n /\ DOMAIN f = 1 .. Len(f) /\ Len(f) \in Nat
    BY <1>1, LenProperties
  <1>3. \A m, k \in Nat : 1 .. m = 1 .. k => m = k
    <2> SUFFICES ASSUME NEW m \in Nat, NEW k \in Nat, 1 .. m = 1 .. k PROVE m = k
      OBVIOUS
    <2>1. m # 0 => m \in 1 .. k
      OBVIOUS
    <2>2. k # 0 => k \in 1 .. m
      OBVIOUS
    <2>3. QED
      BY <2>1, <2>2
  <1>4. QED
    BY <1>1, <1>2, <1>3

(* Equal concatenations with an equal part.                                *)
LEMMA CancelRight ==
  ASSUME NEW S, NEW s \in Seq(S), NEW t \in Seq(S), NEW v \in Seq(S), s \o v = t \o v
  PROVE  s = t
  BY ONLY s \o v = t \o v, s \in Seq(S), t \in Seq(S), v \in Seq(S), ConcatSimplifications, Zenon

LEMMA CancelLeft ==
  ASSUME NEW S, NEW s \in Seq(S), NEW t \in Seq(S), NEW v \in Seq(S), s \o t = s \o v
  PROVE  t = v
  BY ONLY s \o t = s \o v, s \in Seq(S), t \in Seq(S), v \in Seq(S), ConcatSimplifications, Zenon

(* A concatenation, position by position.                                  *)
LEMMA ConcatAt ==
  ASSUME NEW S, NEW s \in Seq(S), NEW t \in Seq(S)
  PROVE  /\ s \o t \in Seq(S) /\ Len(s \o t) = Len(s) + Len(t)
         /\ Len(s) \in Nat /\ Len(t) \in Nat
         /\ \A k \in 1 .. Len(s) : (s \o t)[k] = s[k]
         /\ \A k \in 1 .. Len(t) : (s \o t)[Len(s) + k] = t[k]
  <1>1. Len(s) \in Nat /\ Len(t) \in Nat
    BY LenProperties
  <1>2. /\ s \o t \in Seq(S) /\ Len(s \o t) = Len(s) + Len(t)
        /\ \A k \in 1 .. Len(s) + Len(t) :
               (s \o t)[k] = IF k <= Len(s) THEN s[k] ELSE t[k - Len(s)]
    BY ConcatProperties
  <1>3. \A k \in 1 .. Len(s) : (s \o t)[k] = s[k]
    BY <1>1, <1>2
  <1>4. ASSUME NEW k \in 1 .. Len(t) PROVE (s \o t)[Len(s) + k] = t[k]
    <2>1. /\ Len(s) + k \in 1 .. Len(s) + Len(t) /\ ~ (Len(s) + k <= Len(s))
          /\ (Len(s) + k) - Len(s) = k
      BY <1>1
    <2>2. QED
      BY <1>2, <2>1
  <1>5. QED
    BY <1>1, <1>2, <1>3, <1>4

(* Parts one after the other, with a separator before all but the first.   *)
Lead(n, separator) == IF n = 1 THEN <<>> ELSE separator

Separated(parts, separator) == [n \in DOMAIN parts |-> Lead(n, separator) \o parts[n]]

LEMMA LeadType ==
  ASSUME NEW S, NEW separator \in Seq(S), NEW n, NEW x \in Seq(S)
  PROVE  Lead(n, separator) \in Seq(S) /\ Lead(n, separator) \o x \in Seq(S)
  <1>1. Lead(n, separator) \in Seq(S)
    BY EmptySeq DEF Lead
  <1>2. QED
    BY <1>1, ConcatProperties

LEMMA SeparatedType ==
  ASSUME NEW S, NEW Q, Q = Seq(S), NEW separator \in Q, NEW parts \in Seq(Q)
  PROVE  /\ Separated(parts, separator) \in Seq(Q)
         /\ Len(Separated(parts, separator)) = Len(parts)
         /\ \A n \in 1 .. Len(parts) : Separated(parts, separator)[n] =
                Lead(n, separator) \o parts[n]
  <1>1. \A n \in 1 .. Len(parts) : Lead(n, separator) \o parts[n] \in Q
    <2>1. \A n \in 1 .. Len(parts) : parts[n] \in Q
      BY ONLY parts \in Seq(Q), ElementOfSeq
    <2>2. QED
      BY <2>1, LeadType
  <1>2. DOMAIN parts = 1 .. Len(parts) /\ Len(parts) \in Nat
    BY LenProperties
  <1>3. Separated(parts, separator) \in [1 .. Len(parts) -> Q]
    BY <1>1, <1>2 DEF Separated
  <1>4. Separated(parts, separator) \in Seq(Q) /\ Len(Separated(parts, separator)) = Len(parts)
    BY ONLY <1>2, <1>3, FunctionIsSeq
  <1>5. QED
    BY <1>2, <1>4 DEF Separated

SeparatesLast(parts, x, separator) ==
    Separated(Append(parts, x), separator) =
        Append(Separated(parts, separator), Lead(Len(parts) + 1, separator) \o x)

LEMMA SeparatedAppend ==
  ASSUME NEW S, NEW Q, Q = Seq(S), NEW separator \in Q, NEW parts \in Seq(Q), NEW x \in Q
  PROVE  SeparatesLast(parts, x, separator)
  <1> DEFINE n == Len(parts)
             more == Append(parts, x)
             y == Lead(n + 1, separator) \o x
             s == Separated(parts, separator)
             t == Separated(more, separator)
             u == Append(s, y)
  <1>1. /\ more \in Seq(Q) /\ Len(more) = n + 1 /\ n \in Nat
        /\ \A k \in 1 .. n : more[k] = parts[k]
        /\ more[n + 1] = x
    BY ONLY parts \in Seq(Q), x \in Q, AppendProperties, LenProperties
  <1>2. /\ t \in Seq(Q) /\ Len(t) = n + 1
        /\ \A k \in 1 .. n + 1 : t[k] = Lead(k, separator) \o more[k]
    <2> HIDE DEF more, n
    <2>0. more \in Seq(Q)
      BY <1>1
    <2>1. /\ t \in Seq(Q) /\ Len(t) = Len(more)
          /\ \A k \in 1 .. Len(more) : t[k] = Lead(k, separator) \o more[k]
      BY ONLY <2>0, separator \in Q, Q = Seq(S), SeparatedType
    <2> HIDE DEF t
    <2>2. QED
      BY ONLY <1>1, <2>1
  <1>3. /\ s \in Seq(Q) /\ Len(s) = n
        /\ \A k \in 1 .. n : s[k] = Lead(k, separator) \o parts[k]
    BY SeparatedType
  <1>4. y \in Q
    BY LeadType
  <1> HIDE DEF n, more, y, s, t
  <1>5. t[n + 1] = y
    <2>1. n + 1 \in 1 .. n + 1
      BY <1>1
    <2>2. QED
      BY <1>1, <1>2, <2>1 DEF y
  <1>6. ASSUME NEW k \in 1 .. n PROVE t[k] = s[k]
    <2>1. k \in 1 .. n + 1
      BY <1>1
    <2>2. t[k] = Lead(k, separator) \o more[k] /\ more[k] = parts[k]
      BY ONLY <1>1, <1>2, <2>1, k \in 1 .. n
    <2>3. s[k] = Lead(k, separator) \o parts[k]
      BY ONLY <1>3, k \in 1 .. n
    <2>4. QED
      BY ONLY <2>2, <2>3
  <1>7. /\ u \in Seq(Q) /\ Len(u) = n + 1
        /\ \A k \in 1 .. n : u[k] = s[k]
        /\ u[n + 1] = y
    BY ONLY <1>1, <1>3, <1>4, AppendProperties
  <1> HIDE DEF u
  <1>8. ASSUME NEW k \in 1 .. n + 1 PROVE t[k] = u[k]
    <2>1. n \in Nat /\ (k \in 1 .. n \/ k = n + 1)
      BY <1>1
    <2>2. QED
      BY ONLY <1>5, <1>6, <1>7, <2>1
  <1>9. t = u
    BY ONLY <1>1, <1>2, <1>7, <1>8, SeqEqual
  <1>10. QED
    BY <1>9 DEF t, u, s, y, more, n, SeparatesLast

-----------------------------------------------------------------------------
(* Where the parts of FlattenSeq(s) are: part n ends at Offset(s, n).      *)
FirstParts(s, n) == FlattenSeq(SubSeq(s, 1, n))

Offset(s, n) == Len(FirstParts(s, n))

LEMMA FirstPartsNext ==
  ASSUME NEW S, NEW Q, Q = Seq(S), NEW s \in Seq(Q), NEW n \in 1 .. Len(s)
  PROVE  /\ FirstParts(s, n - 1) \in Seq(S) /\ s[n] \in Seq(S)
         /\ FirstParts(s, n) = FirstParts(s, n - 1) \o s[n]
  <1> DEFINE p == SubSeq(s, 1, n - 1)
             q == SubSeq(s, 1, n)
             t == Append(p, s[n])
  <1>1. Len(s) \in Nat /\ n - 1 \in Nat /\ s[n] \in Q
    BY LenProperties, ElementOfSeq
  <1>2. /\ p \in Seq(Q) /\ Len(p) = n - 1
        /\ \A k \in 1 .. n - 1 : p[k] = s[k]
    <2>1. \A k \in 1 .. n - 1 : s[k] \in Q
      BY <1>1, ElementOfSeq
    <2>2. /\ p \in Seq(Q)
          /\ Len(p) = IF 1 <= n - 1 THEN (n - 1) - 1 + 1 ELSE 0
          /\ \A k \in 1 .. (n - 1) - 1 + 1 : p[k] = s[1 + k - 1]
      BY <1>1, <2>1, SubSeqProperties
    <2>3. QED
      BY <1>1, <2>2
  <1>3. /\ q \in Seq(Q) /\ Len(q) = n
        /\ \A k \in 1 .. n : q[k] = s[k]
    <2>1. \A k \in 1 .. n : s[k] \in Q
      BY <1>1, ElementOfSeq
    <2>2. /\ q \in Seq(Q)
          /\ Len(q) = IF 1 <= n THEN n - 1 + 1 ELSE 0
          /\ \A k \in 1 .. n - 1 + 1 : q[k] = s[1 + k - 1]
      BY <1>1, <2>1, SubSeqProperties
    <2>3. QED
      BY <1>1, <2>2
  <1> HIDE DEF p, q
  <1>4. /\ t \in Seq(Q) /\ Len(t) = n
        /\ \A k \in 1 .. n - 1 : t[k] = p[k]
        /\ t[n] = s[n]
    <2>1. /\ t \in Seq(Q) /\ Len(t) = Len(p) + 1
          /\ \A k \in 1 .. Len(p) : t[k] = p[k]
          /\ t[Len(p) + 1] = s[n]
      BY ONLY <1>1, <1>2, AppendProperties
    <2>2. QED
      BY <1>1, <1>2, <2>1
  <1> HIDE DEF t
  <1>5. ASSUME NEW k \in 1 .. n PROVE q[k] = t[k]
    <2>1. k \in 1 .. n - 1 \/ k = n
      BY <1>1
    <2>2. q[k] = s[k]
      BY <1>3
    <2>3. QED
      BY ONLY <1>2, <1>4, <2>1, <2>2
  <1>6. q = t
    BY <1>3, <1>4, <1>5, SeqEqual
  <1>7. FlattenSeq(t) = FlattenSeq(p) \o s[n]
    BY <1>1, <1>2, FlattenAppend DEF t
  <1>8. FlattenSeq(p) \in Seq(S)
    BY <1>2, FlattenType
  <1>9. QED
    BY <1>1, <1>6, <1>7, <1>8 DEF FirstParts, p, q

(* What is laid out in a text: its parts, each behind the one before it.   *)
LaidOut(text, s) ==
    /\ Offset(s, 0) = 0 /\ Offset(s, Len(s)) = Len(text)
    /\ \A n \in 0 .. Len(s) : Offset(s, n) \in 0 .. Len(text)
    /\ \A n \in 1 .. Len(s) :
           /\ Offset(s, n) = Offset(s, n - 1) + Len(s[n])
           /\ \A k \in 1 .. Len(s[n]) : text[Offset(s, n - 1) + k] = s[n][k]

LEMMA FlattenLaysOut ==
  ASSUME NEW S, NEW Q, Q = Seq(S), NEW s \in Seq(Q)
  PROVE  LaidOut(FlattenSeq(s), s)
  <1> DEFINE Within(m, n) ==
                 /\ Offset(s, m) <= Offset(s, n)
                 /\ \A k \in 1 .. Offset(s, m) : FirstParts(s, n)[k] = FirstParts(s, m)[k]
             text == FlattenSeq(s)
  <1>1. Len(s) \in Nat
    BY LenProperties
  <1>2. FirstParts(s, 0) = <<>> /\ FirstParts(s, Len(s)) = text
    <2>1. SubSeq(s, 1, 0) = <<>> /\ SubSeq(s, 1, Len(s)) = s
      BY SubSeqFull, SubSeqEmpty
    <2>2. QED
      BY <2>1, FlattenEmpty DEF FirstParts
  <1>3. \A n \in 0 .. Len(s) : FirstParts(s, n) \in Seq(S) /\ Offset(s, n) \in Nat
    <2> SUFFICES ASSUME NEW n \in 0 .. Len(s) PROVE FirstParts(s, n) \in Seq(S)
      BY LenProperties DEF Offset
    <2>1. CASE n = 0
      BY <1>2, <2>1, EmptySeq
    <2>2. CASE n # 0
      <3>1. n \in 1 .. Len(s)
        BY <1>1, <2>2
      <3>2. FirstParts(s, n - 1) \in Seq(S) /\ s[n] \in Seq(S) /\ FirstParts(s, n) = FirstParts(s, n - 1) \o s[n]
        BY <3>1, FirstPartsNext
      <3>3. QED
        BY ONLY <3>2, ConcatProperties
    <2>3. QED
      BY <2>1, <2>2
  <1>4. ASSUME NEW n \in 1 .. Len(s)
        PROVE  /\ Offset(s, n) = Offset(s, n - 1) + Len(s[n])
               /\ \A k \in 1 .. Offset(s, n - 1) : FirstParts(s, n)[k] = FirstParts(s, n - 1)[k]
               /\ \A k \in 1 .. Len(s[n]) : FirstParts(s, n)[Offset(s, n - 1) + k] = s[n][k]
               /\ Len(s[n]) \in Nat
    <2>1. FirstParts(s, n - 1) \in Seq(S) /\ s[n] \in Seq(S)
      BY FirstPartsNext
    <2>2. FirstParts(s, n) = FirstParts(s, n - 1) \o s[n]
      BY FirstPartsNext
    <2> DEFINE a == FirstParts(s, n - 1)
               b == s[n]
    <2> HIDE DEF a, b
    <2>3. /\ Len(a \o b) = Len(a) + Len(b) /\ Len(b) \in Nat
          /\ \A k \in 1 .. Len(a) : (a \o b)[k] = a[k]
          /\ \A k \in 1 .. Len(b) : (a \o b)[Len(a) + k] = b[k]
      <3>1. a \in Seq(S) /\ b \in Seq(S)
        BY <2>1 DEF a, b
      <3>2. QED
        BY ONLY <3>1, ConcatAt
    <2>4. QED
      BY <2>2, <2>3 DEF Offset, a, b
  <1>5. ASSUME NEW m \in 0 .. Len(s)
        PROVE  \A n \in m .. Len(s) : Within(m, n)
    <2> DEFINE T == {d \in Nat : m + d \in m .. Len(s) => Within(m, m + d)}
    <2>1. 0 \in T
      BY <1>3
    <2>2. ASSUME NEW d \in Nat, d \in T PROVE d + 1 \in T
      <3> SUFFICES ASSUME m + (d + 1) \in m .. Len(s) PROVE Within(m, m + (d + 1))
        OBVIOUS
      <3> DEFINE n == m + (d + 1)
      <3>1. /\ n \in 1 .. Len(s) /\ n - 1 = m + d /\ m + d \in m .. Len(s)
            /\ n - 1 \in 0 .. Len(s)
        BY <1>1
      <3>2. Within(m, n - 1)
        BY <2>2, <3>1
      <3> HIDE DEF n
      <3>3. Offset(s, m) \in Nat /\ Offset(s, n - 1) \in Nat /\ Offset(s, n) \in Nat
        BY <1>1, <1>3, <3>1
      <3>4. Within(m, n)
        <4>1. /\ Offset(s, n) = Offset(s, n - 1) + Len(s[n]) /\ Len(s[n]) \in Nat
              /\ \A k \in 1 .. Offset(s, n - 1) : FirstParts(s, n)[k] = FirstParts(s, n - 1)[k]
          BY <1>4, <3>1
        <4>2. Offset(s, m) <= Offset(s, n - 1) /\ Offset(s, m) <= Offset(s, n)
          BY <3>2, <3>3, <4>1
        <4>3. ASSUME NEW k \in 1 .. Offset(s, m) PROVE FirstParts(s, n)[k] = FirstParts(s, m)[k]
          <5>1. k \in 1 .. Offset(s, n - 1)
            BY <3>3, <4>2
          <5>2. FirstParts(s, n - 1)[k] = FirstParts(s, m)[k]
            BY <3>2
          <5>3. QED
            BY <4>1, <5>1, <5>2
        <4>4. QED
          BY <4>2, <4>3
      <3>5. QED
        BY <3>4 DEF n
    <2> HIDE DEF T
    <2>3. Nat \subseteq T
      BY <2>1, <2>2, Induction
    <2>4. ASSUME NEW n \in m .. Len(s) PROVE Within(m, n)
      <3>1. n - m \in Nat /\ m + (n - m) = n
        BY <1>1
      <3>2. n - m \in T
        BY <2>3, <3>1
      <3>3. QED
        BY <3>1, <3>2 DEF T
    <2> HIDE DEF Within
    <2>5. QED
      BY <2>4
  <1>6. ASSUME NEW n \in 0 .. Len(s)
        PROVE  /\ Offset(s, n) \in 0 .. Len(text)
               /\ \A k \in 1 .. Offset(s, n) : text[k] = FirstParts(s, n)[k]
    <2>1. Len(s) \in n .. Len(s) /\ Len(s) \in 0 .. Len(s)
      BY <1>1
    <2>2. Within(n, Len(s))
      BY <1>5, <2>1
    <2>3. Offset(s, Len(s)) = Len(text) /\ Offset(s, n) \in Nat /\ Offset(s, Len(s)) \in Nat
      BY <1>2, <1>3, <2>1 DEF Offset
    <2>4. QED
      BY <1>2, <2>2, <2>3
  <1> HIDE DEF Within, text
  <1>7. ASSUME NEW n \in 1 .. Len(s), NEW k \in 1 .. Len(s[n])
        PROVE  text[Offset(s, n - 1) + k] = s[n][k]
    <2>1. n \in 0 .. Len(s) /\ n - 1 \in 0 .. Len(s)
      BY <1>1
    <2>0. /\ Offset(s, n - 1) \in Nat /\ Len(s[n]) \in Nat
          /\ Offset(s, n) = Offset(s, n - 1) + Len(s[n])
      BY <1>3, <1>4, <2>1
    <2>2. Offset(s, n - 1) + k \in 1 .. Offset(s, n)
      BY ONLY <2>0, k \in 1 .. Len(s[n])
    <2>3. QED
      BY <1>4, <1>6, <2>1, <2>2
  <1>8. Offset(s, 0) = 0 /\ Offset(s, Len(s)) = Len(text)
    BY <1>2, EmptySeq DEF Offset
  <1>9. QED
    BY <1>4, <1>6, <1>7, <1>8 DEF LaidOut, text

-----------------------------------------------------------------------------
(* What a sequence ends with, element by element.                          *)
LEMMA SuffixIs ==
  ASSUME NEW S, NEW s \in Seq(S), NEW t \in Seq(S)
  PROVE  IsSuffix(s, t) <=>
             /\ Len(s) <= Len(t)
             /\ \A k \in 1 .. Len(s) : s[Len(s) - k + 1] = t[Len(t) - k + 1]
  <1> DEFINE m == Len(s)
             n == Len(t)
             p == Reverse(s)
             q == Reverse(t)
  <1>1. m \in Nat /\ n \in Nat
    BY LenProperties
  <1>2. /\ \A k \in 1 .. m : m - k + 1 \in 1 .. m
        /\ \A k \in 1 .. n : n - k + 1 \in 1 .. n
    BY <1>1
  <1>3. p \in [1 .. m -> S] /\ \A k \in 1 .. m : p[k] = s[m - k + 1]
    BY <1>2, ElementOfSeq DEF Reverse
  <1>4. q \in [1 .. n -> S] /\ \A k \in 1 .. n : q[k] = t[n - k + 1]
    BY <1>2, ElementOfSeq DEF Reverse
  <1> HIDE DEF p, q
  <1>5. p \in Seq(S) /\ Len(p) = m /\ q \in Seq(S) /\ Len(q) = n
    BY ONLY <1>1, <1>3, <1>4, FunctionIsSeq
  <1>6. IsSuffix(s, t) <=> Len(p) <= Len(q) /\ SubSeq(p, 1, Len(p)) = SubSeq(q, 1, Len(p))
    BY DEF IsSuffix, IsPrefix, p, q
  <1>7. SubSeq(p, 1, Len(p)) = p
    BY <1>5, SubSeqFull
  <1>8. ASSUME m <= n
        PROVE  p = SubSeq(q, 1, m) <=> \A k \in 1 .. m : p[k] = q[k]
    <2> DEFINE u == SubSeq(q, 1, m)
    <2>1. 1 \in Int /\ m \in Int /\ \A k \in 1 .. m : q[k] \in S
      BY <1>1, <1>4, <1>8
    <2>2. /\ u \in Seq(S) /\ Len(u) = IF 1 <= m THEN m - 1 + 1 ELSE 0
          /\ \A k \in 1 .. m - 1 + 1 : u[k] = q[1 + k - 1]
      BY <2>1, SubSeqProperties
    <2> HIDE DEF u
    <2>3. Len(u) = m /\ \A k \in 1 .. m : u[k] = q[k]
      BY <1>1, <2>2
    <2>4. ASSUME \A k \in 1 .. m : p[k] = q[k] PROVE p = u
      BY <1>5, <2>2, <2>3, <2>4, SeqEqual
    <2>5. QED
      BY <2>3, <2>4 DEF u
  <1>9. CASE m <= n
    BY <1>1, <1>2, <1>3, <1>4, <1>5, <1>6, <1>7, <1>8, <1>9
  <1>10. CASE ~ (m <= n)
    BY <1>5, <1>6, <1>10
  <1>11. QED
    BY <1>9, <1>10

(* The first part of two.                                                  *)
LEMMA FirstPart ==
  ASSUME NEW S, NEW s \in Seq(S), NEW t \in Seq(S)
  PROVE  SubSeq(s \o t, 1, Len(s)) = s
  <1> DEFINE u == s \o t
             n == Len(s)
             v == SubSeq(u, 1, n)
  <1>1. /\ u \in Seq(S) /\ Len(u) = n + Len(t) /\ n \in Nat /\ Len(t) \in Nat
        /\ \A k \in 1 .. n : u[k] = s[k]
    BY ConcatAt
  <1> HIDE DEF u, n
  <1>2. 1 \in Int /\ n \in Int /\ \A k \in 1 .. n : u[k] \in S
    BY <1>1, ElementOfSeq DEF n
  <1>3. /\ v \in Seq(S) /\ Len(v) = IF 1 <= n THEN n - 1 + 1 ELSE 0
        /\ \A k \in 1 .. n - 1 + 1 : v[k] = u[1 + k - 1]
    BY <1>2, SubSeqProperties
  <1> HIDE DEF v
  <1>4. Len(v) = n /\ \A k \in 1 .. n : v[k] = s[k]
    BY <1>1, <1>3
  <1>5. v = s
    BY <1>3, <1>4, SeqEqual DEF n
  <1>6. QED
    BY <1>5 DEF u, v, n

-----------------------------------------------------------------------------
(* Cells, one behind the other with a separator between them; a cell is a  *)
(* sequence of units.  Unit n of cell c ends at Begin(cells, sep, c, n),   *)
(* and the cell begins at Begin(cells, sep, c, 0).                         *)
Flat(p) == [c \in DOMAIN p |-> FlattenSeq(p[c])]

RowText(p, sep) == FlattenSeq(Separated(Flat(p), sep))

Begin(p, sep, c, n) ==
    Offset(Separated(Flat(p), sep), c - 1) + Len(Lead(c, sep)) + Offset(p[c], n)

CellRow(S, Q, p, x, sep) ==
    Q = Seq(S) /\ p \in Seq(Seq(Q)) /\ x \in S /\ sep = <<x>>

LEMMA CellsType ==
  ASSUME NEW S, NEW Q, NEW p, NEW x, NEW sep, CellRow(S, Q, p, x, sep)
  PROVE  /\ Separated(Flat(p), sep) \in Seq(Q)
         /\ Len(Separated(Flat(p), sep)) = Len(p) /\ Len(p) \in Nat
         /\ LaidOut(RowText(p, sep), Separated(Flat(p), sep))
         /\ RowText(p, sep) \in Seq(S) /\ Len(RowText(p, sep)) \in Nat
         /\ \A c \in 1 .. Len(p) :
                /\ p[c] \in Seq(Q) /\ Len(p[c]) \in Nat
                /\ FlattenSeq(p[c]) \in Seq(S) /\ LaidOut(FlattenSeq(p[c]), p[c])
                /\ Separated(Flat(p), sep)[c] = Lead(c, sep) \o FlattenSeq(p[c])
  <1> DEFINE P == Seq(Q)
  <1>0. p \in Seq(P) /\ Q = Seq(S) /\ x \in S /\ sep = <<x>>
    BY DEF CellRow
  <1> HIDE DEF P
  <1>1. /\ DOMAIN p = 1 .. Len(p) /\ Len(p) \in Nat
        /\ \A c \in 1 .. Len(p) : p[c] \in P
    BY ONLY <1>0, LenProperties, ElementOfSeq
  <1>2. \A c \in 1 .. Len(p) : FlattenSeq(p[c]) \in Q
    BY <1>1, <1>0, FlattenType DEF P
  <1>3. sep \in Q
    BY <1>0, Single
  <1>4. Flat(p) \in [1 .. Len(p) -> Q] /\ \A c \in 1 .. Len(p) : Flat(p)[c] = FlattenSeq(p[c])
    BY <1>1, <1>2 DEF Flat
  <1>5. Flat(p) \in Seq(Q) /\ Len(Flat(p)) = Len(p)
    BY ONLY <1>1, <1>4, FunctionIsSeq
  <1>6. /\ Separated(Flat(p), sep) \in Seq(Q)
        /\ Len(Separated(Flat(p), sep)) = Len(p)
        /\ \A c \in 1 .. Len(p) : Separated(Flat(p), sep)[c] = Lead(c, sep) \o Flat(p)[c]
    <2> DEFINE parts == Flat(p)
    <2>1. Q = Seq(S) /\ sep \in Q /\ parts \in Seq(Q) /\ Len(parts) = Len(p)
      BY <1>0, <1>3, <1>5
    <2> HIDE DEF parts
    <2>2. /\ Separated(parts, sep) \in Seq(Q)
          /\ Len(Separated(parts, sep)) = Len(parts)
          /\ \A c \in 1 .. Len(parts) : Separated(parts, sep)[c] = Lead(c, sep) \o parts[c]
      BY ONLY <2>1, SeparatedType
    <2>3. QED
      BY <2>1, <2>2 DEF parts
  <1>7. /\ LaidOut(RowText(p, sep), Separated(Flat(p), sep))
        /\ RowText(p, sep) \in Seq(S)
    BY <1>0, <1>6, FlattenLaysOut, FlattenType DEF RowText
  <1>8. \A c \in 1 .. Len(p) : LaidOut(FlattenSeq(p[c]), p[c])
    BY <1>0, <1>1, FlattenLaysOut DEF P
  <1>9. \A c \in 1 .. Len(p) : p[c] \in Seq(Q) /\ Len(p[c]) \in Nat
    BY <1>1, LenProperties DEF P
  <1>10. Len(RowText(p, sep)) \in Nat
    BY <1>7, LenProperties
  <1>11. QED
    BY <1>0, <1>1, <1>2, <1>4, <1>6, <1>7, <1>8, <1>9, <1>10

FollowsLead(p, x, sep, c) ==
    LET f == Separated(Flat(p), sep)
        a == Len(Lead(c, sep))
        b == FlattenSeq(p[c])
    IN /\ a \in {0, 1} /\ (c = 1 => a = 0) /\ (c # 1 => a = 1 /\ f[c][1] = x)
       /\ Len(b) \in Nat /\ Len(f[c]) = a + Len(b)
       /\ \A k \in 1 .. Len(b) : f[c][a + k] = b[k]

LEMMA RowTextCell ==
  ASSUME NEW S, NEW Q, NEW p, NEW x, NEW sep, CellRow(S, Q, p, x, sep),
         NEW c \in 1 .. Len(p)
  PROVE  FollowsLead(p, x, sep, c)
  <1> DEFINE a == Lead(c, sep)
             b == FlattenSeq(p[c])
             fc == Separated(Flat(p), sep)[c]
  <1>1. b \in Seq(S) /\ fc = a \o b
    BY CellsType
  <1>2. a \in Seq(S) /\ (c # 1 => Len(a) = 1 /\ a[1] = x) /\ (c = 1 => Len(a) = 0)
    BY Single, EmptySeq DEF Lead, CellRow
  <1> HIDE DEF a, b, fc
  <1>3. a \in Seq(S) /\ b \in Seq(S)
    BY <1>1, <1>2
  <1>4. /\ Len(a \o b) = Len(a) + Len(b) /\ Len(b) \in Nat
        /\ \A k \in 1 .. Len(a) : (a \o b)[k] = a[k]
        /\ \A k \in 1 .. Len(b) : (a \o b)[Len(a) + k] = b[k]
    BY ONLY <1>3, ConcatAt
  <1>5. ASSUME c # 1 PROVE (a \o b)[1] = x
    <2>1. Len(a) = 1 /\ a[1] = x
      BY <1>2, <1>5
    <2>2. 1 \in 1 .. Len(a)
      BY ONLY <2>1
    <2>3. QED
      BY <1>4, <2>1, <2>2
  <1>6. QED
    BY <1>1, <1>2, <1>4, <1>5 DEF a, b, fc, FollowsLead

LEMMA RowTextUnit ==
  ASSUME NEW S, NEW Q, NEW p, NEW x, NEW sep, CellRow(S, Q, p, x, sep),
         NEW c \in 1 .. Len(p), NEW n \in 1 .. Len(p[c])
  PROVE  LET text == RowText(p, sep)
             unit == p[c][n]
         IN /\ unit \in Seq(S) /\ Len(unit) \in Nat
            /\ Begin(p, sep, c, n - 1) \in Nat /\ Begin(p, sep, c, n) <= Len(text)
            /\ Begin(p, sep, c, n) = Begin(p, sep, c, n - 1) + Len(unit)
            /\ \A k \in 1 .. Len(unit) : text[Begin(p, sep, c, n - 1) + k] = unit[k]
  <1> DEFINE f == Separated(Flat(p), sep)
             text == RowText(p, sep)
             u == p[c]
             b == FlattenSeq(u)
             a == Len(Lead(c, sep))
             unit == u[n]
  <1>1. /\ f \in Seq(Q) /\ Len(f) = Len(p) /\ Len(p) \in Nat /\ LaidOut(text, f)
        /\ Len(text) \in Nat /\ u \in Seq(Q) /\ Len(u) \in Nat /\ LaidOut(b, u)
    <2>1. CellRow(S, Q, p, x, sep) /\ c \in 1 .. Len(p)
      OBVIOUS
    <2>2. /\ Separated(Flat(p), sep) \in Seq(Q) /\ Len(Separated(Flat(p), sep)) = Len(p)
          /\ Len(p) \in Nat /\ LaidOut(RowText(p, sep), Separated(Flat(p), sep))
          /\ Len(RowText(p, sep)) \in Nat
          /\ p[c] \in Seq(Q) /\ Len(p[c]) \in Nat /\ LaidOut(FlattenSeq(p[c]), p[c])
      BY ONLY <2>1, CellsType
    <2>3. QED
      BY ONLY <2>2
  <1>2. /\ a \in {0, 1} /\ Len(b) \in Nat /\ Len(f[c]) = a + Len(b)
        /\ \A k \in 1 .. Len(b) : f[c][a + k] = b[k]
    <2>1. FollowsLead(p, x, sep, c)
      BY RowTextCell
    <2>2. QED
      BY <2>1 DEF FollowsLead
  <1>3. unit \in Q
    BY <1>1, ElementOfSeq
  <1>4. unit \in Seq(S) /\ Len(unit) \in Nat
    BY <1>3, LenProperties DEF CellRow
  <1>5. Begin(p, sep, c, n - 1) = Offset(f, c - 1) + a + Offset(u, n - 1)
        /\ Begin(p, sep, c, n) = Offset(f, c - 1) + a + Offset(u, n)
    BY DEF Begin
  <1> HIDE DEF f, text, u, b, a
  <1>6. /\ c - 1 \in 0 .. Len(f) /\ c \in 0 .. Len(f) /\ c \in 1 .. Len(f)
        /\ n - 1 \in 0 .. Len(u) /\ n \in 0 .. Len(u) /\ n \in 1 .. Len(u)
    BY <1>1 DEF u
  <1>7. /\ Offset(f, c - 1) \in 0 .. Len(text) /\ Offset(f, c) \in 0 .. Len(text)
        /\ Offset(f, c) = Offset(f, c - 1) + (a + Len(b))
        /\ \A k \in 1 .. a + Len(b) : text[Offset(f, c - 1) + k] = f[c][k]
    BY <1>1, <1>2, <1>6 DEF LaidOut
  <1>8. /\ Offset(u, n - 1) \in 0 .. Len(b) /\ Offset(u, n) \in 0 .. Len(b)
        /\ Offset(u, n) = Offset(u, n - 1) + Len(unit)
        /\ \A k \in 1 .. Len(unit) : b[Offset(u, n - 1) + k] = unit[k]
    BY <1>1, <1>6 DEF LaidOut
  <1> DEFINE w == Offset(f, c - 1)
             q == Offset(u, n - 1)
             l == Len(unit)
  <1>9. w \in Nat /\ q \in Nat /\ Offset(f, c) \in Nat /\ Offset(u, n) \in Nat
        /\ l \in Nat /\ a \in Nat
    BY <1>1, <1>2, <1>4, <1>7, <1>8
  <1>10. /\ Offset(u, n) = q + l /\ Offset(u, n) <= Len(b)
         /\ Offset(f, c) = w + (a + Len(b)) /\ Offset(f, c) <= Len(text)
         /\ Len(b) \in Nat /\ Len(text) \in Nat
    BY <1>1, <1>2, <1>7, <1>8
  <1>11. \A k \in 1 .. l : b[q + k] = unit[k]
    BY <1>8
  <1>12. \A k \in 1 .. a + Len(b) : text[w + k] = f[c][k]
    BY <1>7
  <1> HIDE DEF w, q, l, unit
  <1>13. ASSUME NEW k \in 1 .. l PROVE text[w + a + q + k] = unit[k]
    <2>1. q + k \in 1 .. Len(b) /\ a + (q + k) \in 1 .. a + Len(b)
      BY ONLY <1>9, <1>10, k \in 1 .. l
    <2>2. b[q + k] = unit[k]
      BY <1>11
    <2>3. f[c][a + (q + k)] = b[q + k]
      BY <1>2, <2>1
    <2>4. text[w + (a + (q + k))] = f[c][a + (q + k)]
      BY <1>12, <2>1
    <2>5. w + (a + (q + k)) = w + a + q + k
      BY ONLY <1>9, k \in 1 .. l
    <2>6. QED
      BY <2>2, <2>3, <2>4, <2>5
  <1>14. /\ w + a + q \in Nat /\ w + a + Offset(u, n) <= Len(text)
         /\ w + a + Offset(u, n) = w + a + q + l
    BY ONLY <1>9, <1>10
  <1>15. QED
    BY <1>4, <1>5, <1>13, <1>14 DEF text, unit, u, l, w, q

LEMMA RowTextEnds ==
  ASSUME NEW S, NEW Q, NEW p, NEW x, NEW sep, CellRow(S, Q, p, x, sep),
         NEW c \in 1 .. Len(p)
  PROVE  LET text == RowText(p, sep)
             end == Begin(p, sep, c, Len(p[c]))
         IN /\ c = 1 => Begin(p, sep, c, 0) = 0
            /\ end \in 0 .. Len(text)
            /\ c = Len(p) => end = Len(text)
            /\ c < Len(p) => /\ end + 1 <= Len(text) /\ text[end + 1] = x
                             /\ Begin(p, sep, c + 1, 0) = end + 1
  <1> DEFINE f == Separated(Flat(p), sep)
             text == RowText(p, sep)
             u == p[c]
             b == FlattenSeq(u)
             a == Len(Lead(c, sep))
  <1>1. /\ f \in Seq(Q) /\ Len(f) = Len(p) /\ Len(p) \in Nat /\ LaidOut(text, f)
        /\ Len(text) \in Nat /\ u \in Seq(Q) /\ Len(u) \in Nat /\ LaidOut(b, u)
    <2>1. CellRow(S, Q, p, x, sep) /\ c \in 1 .. Len(p)
      OBVIOUS
    <2>2. /\ Separated(Flat(p), sep) \in Seq(Q) /\ Len(Separated(Flat(p), sep)) = Len(p)
          /\ Len(p) \in Nat /\ LaidOut(RowText(p, sep), Separated(Flat(p), sep))
          /\ Len(RowText(p, sep)) \in Nat
          /\ p[c] \in Seq(Q) /\ Len(p[c]) \in Nat /\ LaidOut(FlattenSeq(p[c]), p[c])
      BY ONLY <2>1, CellsType
    <2>3. QED
      BY ONLY <2>2
  <1> DEFINE count == Len(u)
  <1>2. /\ a \in {0, 1} /\ (c = 1 => a = 0) /\ Len(b) \in Nat /\ Len(f[c]) = a + Len(b)
    <2>1. FollowsLead(p, x, sep, c)
      BY RowTextCell
    <2>2. QED
      BY <2>1 DEF FollowsLead
  <1>3. /\ Begin(p, sep, c, 0) = Offset(f, c - 1) + a + Offset(u, 0)
        /\ Begin(p, sep, c, count) = Offset(f, c - 1) + a + Offset(u, count)
    BY DEF Begin
  <1> HIDE DEF f, text, u, b, a
  <1>4. c - 1 \in 0 .. Len(f) /\ c \in 0 .. Len(f) /\ c \in 1 .. Len(f)
    BY <1>1
  <1>5. /\ Offset(f, c - 1) \in 0 .. Len(text) /\ Offset(f, c) \in 0 .. Len(text)
        /\ Offset(f, c) = Offset(f, c - 1) + (a + Len(b))
        /\ Offset(f, 0) = 0 /\ Offset(f, Len(f)) = Len(text)
    BY <1>1, <1>2, <1>4 DEF LaidOut
  <1>6. Offset(u, 0) = 0 /\ Offset(u, count) = Len(b)
    BY <1>1 DEF LaidOut
  <1> DEFINE end == Begin(p, sep, c, count)
  <1>7. end = Offset(f, c)
    <2> HIDE DEF count
    <2>1. a \in Nat /\ Offset(f, c - 1) \in Nat /\ Len(b) \in Nat
      BY <1>1, <1>2, <1>5
    <2> DEFINE w == Offset(f, c - 1)
               m == Len(b)
    <2>2. w \in Nat /\ a \in Nat /\ m \in Nat /\ Offset(f, c) = w + (a + m)
      BY <1>5, <2>1
    <2>3. end = w + a + m
      BY <1>3, <1>6 DEF end
    <2> HIDE DEF end, w, m
    <2>4. w + a + m = w + (a + m)
      BY ONLY <2>2
    <2>5. QED
      BY <2>2, <2>3, <2>4
  <1>8. c = 1 => Begin(p, sep, c, 0) = 0
    BY <1>1, <1>2, <1>3, <1>5, <1>6
  <1>9. ASSUME c < Len(p)
        PROVE  /\ Offset(f, c) + 1 <= Len(text)
               /\ text[Offset(f, c) + 1] = x
               /\ Begin(p, sep, c + 1, 0) = Offset(f, c) + 1
    <2> DEFINE d == c + 1
               g == Len(FlattenSeq(p[d]))
               e == Len(Lead(d, sep))
    <2>1. d \in 1 .. Len(p) /\ d # 1 /\ d - 1 = c /\ d \in 1 .. Len(f) /\ d \in 0 .. Len(f)
      BY <1>1, <1>9
    <2> HIDE DEF d, count, end
    <2>0. FollowsLead(p, x, sep, d)
      BY <2>1, RowTextCell
    <2>2. e = 1 /\ Len(f[d]) = e + g /\ g \in Nat /\ f[d][1] = x
      BY <2>1, <2>0 DEF f, FollowsLead
    <2>3. LaidOut(FlattenSeq(p[d]), p[d])
      BY <2>1, CellsType
    <2>4. Begin(p, sep, d, 0) = Offset(f, c) + e + Offset(p[d], 0)
      BY <2>1 DEF Begin, f
    <2> HIDE DEF g, e
    <2>5. Offset(p[d], 0) = 0
      BY <2>3 DEF LaidOut
    <2>6. /\ Offset(f, d) = Offset(f, c) + Len(f[d]) /\ Offset(f, d) \in 0 .. Len(text)
          /\ \A k \in 1 .. Len(f[d]) : text[Offset(f, c) + k] = f[d][k]
      BY <1>1, <2>1 DEF LaidOut
    <2>7. Offset(f, c) + 1 <= Len(text) /\ 1 \in 1 .. Len(f[d])
      BY ONLY <1>1, <1>5, <2>2, <2>6
    <2>8. Begin(p, sep, d, 0) = Offset(f, c) + 1
      BY <1>5, <2>2, <2>4, <2>5
    <2>9. QED
      BY <2>2, <2>6, <2>7, <2>8 DEF d
  <1> HIDE DEF end, count
  <1>10. c = Len(p) => end = Len(text)
    BY <1>1, <1>5, <1>7
  <1>11. end \in 0 .. Len(text)
    BY <1>5, <1>7
  <1>12. c < Len(p) => /\ end + 1 <= Len(text) /\ text[end + 1] = x
                       /\ Begin(p, sep, c + 1, 0) = end + 1
    BY <1>7, <1>9
  <1>13. QED
    BY <1>8, <1>10, <1>11, <1>12 DEF text, count, end, u

LEMMA LongerSeq ==
  ASSUME NEW S, NEW s \in Seq(S), NEW x \in S
  PROVE  /\ Append(s, x) \in Seq(S) /\ Len(Append(s, x)) = Len(s) + 1 /\ Len(s) \in Nat
         /\ \A k \in 1 .. Len(s) : Append(s, x)[k] = s[k]
         /\ Append(s, x)[Len(s) + 1] = x
  BY AppendProperties, LenProperties

(* What is done to each element may be done before or after.               *)
EachOf(s, f) == [k \in DOMAIN s |-> f[s[k]]]

LEMMA EachConcat ==
  ASSUME NEW Q, NEW a \in Seq(Q), NEW b \in Seq(Q), NEW f
  PROVE  EachOf(a \o b, f) = EachOf(a, f) \o EachOf(b, f)
  <1> DEFINE V == {f[q] : q \in Q}
             x == [k \in DOMAIN a |-> f[a[k]]]
             y == [k \in DOMAIN b |-> f[b[k]]]
             z == [k \in DOMAIN (a \o b) |-> f[(a \o b)[k]]]
             m == Len(a)
             n == Len(b)
  <1>1. /\ m \in Nat /\ n \in Nat /\ DOMAIN a = 1 .. m /\ DOMAIN b = 1 .. n
        /\ \A k \in 1 .. m : a[k] \in Q
        /\ \A k \in 1 .. n : b[k] \in Q
    BY LenProperties, ElementOfSeq
  <1>2. /\ a \o b \in Seq(Q) /\ Len(a \o b) = m + n
        /\ \A k \in 1 .. m : (a \o b)[k] = a[k]
        /\ \A k \in 1 .. n : (a \o b)[m + k] = b[k]
        /\ \A k \in 1 .. m + n : (a \o b)[k] \in Q
    <2>1. /\ a \o b \in Seq(Q) /\ Len(a \o b) = m + n
          /\ \A k \in 1 .. m : (a \o b)[k] = a[k]
          /\ \A k \in 1 .. n : (a \o b)[m + k] = b[k]
      BY <1>1, ConcatAt
    <2>2. \A k \in 1 .. m + n : (a \o b)[k] \in Q
      BY <2>1, ElementOfSeq
    <2>3. QED
      BY <2>1, <2>2
  <1>3. DOMAIN (a \o b) = 1 .. m + n
    BY <1>2, LenProperties
  <1>4. /\ x \in Seq(V) /\ Len(x) = m /\ \A k \in 1 .. m : x[k] = f[a[k]]
        /\ y \in Seq(V) /\ Len(y) = n /\ \A k \in 1 .. n : y[k] = f[b[k]]
        /\ z \in Seq(V) /\ Len(z) = m + n /\ \A k \in 1 .. m + n : z[k] = f[(a \o b)[k]]
    <2>1. x \in [1 .. m -> V] /\ y \in [1 .. n -> V] /\ z \in [1 .. m + n -> V]
      BY <1>1, <1>2, <1>3
    <2>2. m + n \in Nat
      BY <1>1
    <2>3. QED
      BY <1>1, <1>3, <2>1, <2>2, FunctionIsSeq
  <1> HIDE DEF x, y, z, V, m, n
  <1>5. /\ x \o y \in Seq(V) /\ Len(x \o y) = m + n
        /\ \A k \in 1 .. m : (x \o y)[k] = x[k]
        /\ \A k \in 1 .. n : (x \o y)[m + k] = y[k]
    <2>1. x \in Seq(V) /\ y \in Seq(V)
      BY <1>4
    <2>2. /\ x \o y \in Seq(V) /\ Len(x \o y) = Len(x) + Len(y)
          /\ \A k \in 1 .. Len(x) : (x \o y)[k] = x[k]
          /\ \A k \in 1 .. Len(y) : (x \o y)[Len(x) + k] = y[k]
      BY ONLY <2>1, ConcatAt
    <2>3. QED
      BY <1>4, <2>2
  <1>6. ASSUME NEW k \in 1 .. m + n PROVE z[k] = (x \o y)[k]
    <2>1. CASE k <= m
      BY SMTT(20), <1>1, <1>2, <1>4, <1>5, <2>1
    <2>2. CASE ~ (k <= m)
      <3>1. PICK j \in 1 .. n : k = m + j
        <4>1. k - m \in 1 .. n /\ k = m + (k - m)
          BY ONLY <1>1, <2>2, k \in 1 .. m + n
        <4>2. QED
          BY <4>1
      <3>2. (a \o b)[k] = b[j]
        BY <1>2, <3>1
      <3>3. (x \o y)[k] = y[j] /\ y[j] = f[b[j]]
        BY <1>4, <1>5, <3>1
      <3>4. QED
        BY <1>4, <3>2, <3>3
    <2>3. QED
      BY <2>1, <2>2
  <1>7. z = x \o y
    <2>1. z \in Seq(V) /\ x \o y \in Seq(V) /\ Len(z) = Len(x \o y)
      BY ONLY <1>4, <1>5
    <2>2. \A k \in 1 .. Len(z) : z[k] = (x \o y)[k]
      BY ONLY <1>4, <1>6
    <2> DEFINE w == x \o y
    <2> HIDE DEF w
    <2>3. z = w
      BY <2>1, <2>2, SeqEqual DEF w
    <2>4. QED
      BY <2>3 DEF w
  <1>8. QED
    BY <1>7 DEF EachOf, x, y, z

(* What has its elements in two sets has them in both.                     *)
LEMMA SeqBoth ==
  ASSUME NEW A, NEW B, NEW s \in Seq(A), s \in Seq(B)
  PROVE  s \in Seq(A \cap B)
  <1> DEFINE n == Len(s)
             C == A \cap B
  <1>1. n \in Nat /\ DOMAIN s = 1 .. n /\ s = [k \in 1 .. n |-> s[k]]
    BY LenProperties
  <1>2. \A k \in 1 .. n : s[k] \in A /\ s[k] \in B
    BY ElementOfSeq
  <1>3. s \in [1 .. n -> C]
    BY <1>1, <1>2
  <1> HIDE DEF n, C
  <1>4. s \in Seq(C)
    BY ONLY <1>1, <1>3, FunctionIsSeq
  <1>5. QED
    BY <1>4 DEF C

(* A first part, and parts of one element.                                 *)
LEMMA FlattenCons ==
  ASSUME NEW S, NEW Q, Q = Seq(S), NEW x \in Q, NEW s \in Seq(Q), NEW one, one = <<x>>
  PROVE  FlattenSeq(one \o s) = x \o FlattenSeq(s)
  <1> DEFINE T == {t \in Seq(Q) : FlattenSeq(one \o t) = x \o FlattenSeq(t)}
  <1>1. one \in Seq(Q) /\ <<>> \in Seq(Q) /\ x \in Seq(S)
    BY Single, EmptySeq
  <1>2. <<>> \in T
    <2>1. one \o <<>> = one /\ x \o <<>> = x
      BY <1>1, ConcatEmptySeq
    <2>2. FlattenSeq(one) = x
      <3>1. FlattenSeq(<<x>>) = x
        BY <1>1, FlattenTwo
      <3>2. QED
        BY <3>1
    <2>3. QED
      BY <1>1, <2>1, <2>2, FlattenEmpty
  <1>3. ASSUME NEW t \in Seq(Q), NEW y \in Q, t \in T PROVE Append(t, y) \in T
    <2> DEFINE u == one \o t
    <2>1. one \in Seq(Q) /\ t \in Seq(Q)
      BY <1>1
    <2>2. u \in Seq(Q) /\ one \o Append(t, y) = Append(u, y) /\ Append(t, y) \in Seq(Q)
      BY ONLY <2>1, y \in Q, ConcatAppend, ConcatAt, AppendProperties
    <2>3. FlattenSeq(u) = x \o FlattenSeq(t)
      BY <1>3
    <2> HIDE DEF u
    <2>4. FlattenSeq(Append(u, y)) = FlattenSeq(u) \o y
      BY <2>2, FlattenAppend
    <2>5. FlattenSeq(Append(t, y)) = FlattenSeq(t) \o y
      BY <2>1, FlattenAppend
    <2>6. FlattenSeq(t) \in Seq(S) /\ y \in Seq(S) /\ x \in Seq(S)
      BY <1>1, <2>1, FlattenType
    <2>7. (x \o FlattenSeq(t)) \o y = x \o (FlattenSeq(t) \o y)
      BY ONLY SMTT(40), <2>6, ConcatAssociative
    <2>8. FlattenSeq(one \o Append(t, y)) = x \o FlattenSeq(Append(t, y))
      BY <2>2, <2>3, <2>4, <2>5, <2>7
    <2>9. QED
      BY <2>2, <2>8
  <1> HIDE DEF T
  <1>4. Seq(Q) \subseteq T
    BY ONLY <1>2, <1>3, SeqInduction
  <1>5. QED
    BY <1>4 DEF T

Singles(s) == [k \in DOMAIN s |-> <<s[k]>>]

LEMMA FlattenSingles ==
  ASSUME NEW S, NEW Q, Q = Seq(S), NEW s \in Seq(S)
  PROVE  Singles(s) \in Seq(Q) /\ Len(Singles(s)) = Len(s) /\ FlattenSeq(Singles(s)) = s
  <1> DEFINE T == {t \in Seq(S) : FlattenSeq(Singles(t)) = t}
  <1>1. ASSUME NEW t \in Seq(S)
        PROVE  /\ Singles(t) \in Seq(Q) /\ Len(Singles(t)) = Len(t) /\ Len(t) \in Nat
               /\ \A k \in 1 .. Len(t) : Singles(t)[k] = <<t[k]>>
    <2>1. /\ DOMAIN t = 1 .. Len(t) /\ Len(t) \in Nat
          /\ \A k \in 1 .. Len(t) : t[k] \in S
      BY LenProperties, ElementOfSeq
    <2>2. \A k \in 1 .. Len(t) : <<t[k]>> \in Q
      BY <2>1, Single
    <2>3. Singles(t) \in [1 .. Len(t) -> Q] /\ \A k \in 1 .. Len(t) : Singles(t)[k] = <<t[k]>>
      BY <2>1, <2>2 DEF Singles
    <2>4. Singles(t) \in Seq(Q) /\ Len(Singles(t)) = Len(t)
      BY ONLY <2>1, <2>3, FunctionIsSeq
    <2>5. QED
      BY <2>1, <2>3, <2>4
  <1>2. <<>> \in T
    <2>1. <<>> \in Seq(S) /\ Len(<<>>) = 0
      BY EmptySeq
    <2>2. Singles(<<>>) \in Seq(Q) /\ Len(Singles(<<>>)) = 0
      BY <1>1, <2>1
    <2>3. Singles(<<>>) = <<>>
      BY <2>2, EmptySeq
    <2>4. QED
      BY <2>1, <2>3, FlattenEmpty
  <1>3. ASSUME NEW t \in Seq(S), NEW x \in S, t \in T PROVE Append(t, x) \in T
    <2> DEFINE more == Append(t, x)
               one == <<x>>
               u == Singles(t)
               v == Append(u, one)
               w == Singles(more)
               n == Len(t)
    <2>1. /\ more \in Seq(S) /\ Len(more) = n + 1 /\ n \in Nat
          /\ \A k \in 1 .. n : more[k] = t[k]
          /\ more[n + 1] = x
      BY LongerSeq
    <2>2. one \in Q /\ one \in Seq(S)
      BY Single
    <2>3. /\ u \in Seq(Q) /\ Len(u) = n
          /\ \A k \in 1 .. n : u[k] = <<t[k]>>
      BY <1>1
    <2> HIDE DEF more, u
    <2>4. /\ w \in Seq(Q) /\ Len(w) = n + 1
          /\ \A k \in 1 .. n + 1 : w[k] = <<more[k]>>
      BY <1>1, <2>1
    <2>5. w[n + 1] = one
      <3>1. n + 1 \in 1 .. n + 1
        BY <2>1
      <3>2. w[n + 1] = <<more[n + 1]>>
        BY <2>4, <3>1
      <3>3. QED
        BY <2>1, <3>2
    <2>13. ASSUME NEW k \in 1 .. n PROVE w[k] = u[k]
      <3>1. k \in 1 .. n + 1
        BY <2>1
      <3>2. w[k] = <<more[k]>> /\ u[k] = <<t[k]>> /\ more[k] = t[k]
        BY <2>1, <2>3, <2>4, <3>1
      <3>3. QED
        BY ONLY <3>2
    <2> HIDE DEF one, n, w
    <2>6. /\ v \in Seq(Q) /\ Len(v) = n + 1
          /\ \A k \in 1 .. n : v[k] = u[k]
          /\ v[n + 1] = one
      <3>1. u \in Seq(Q) /\ one \in Q /\ Len(u) = n
        BY <2>2, <2>3
      <3>2. /\ Append(u, one) \in Seq(Q) /\ Len(Append(u, one)) = Len(u) + 1
            /\ \A k \in 1 .. Len(u) : Append(u, one)[k] = u[k]
            /\ Append(u, one)[Len(u) + 1] = one
        BY ONLY <3>1, LongerSeq
      <3>3. QED
        BY <3>1, <3>2
    <2> HIDE DEF v
    <2>7. ASSUME NEW k \in 1 .. n + 1 PROVE w[k] = v[k]
      <3>1. k \in 1 .. n \/ k = n + 1
        BY <2>1
      <3>2. QED
        BY <2>5, <2>6, <2>13, <3>1
    <2>8. w = v
      BY ONLY <2>4, <2>6, <2>7, SeqEqual
    <2>9. FlattenSeq(v) = FlattenSeq(u) \o one
      BY <2>2, <2>3, FlattenAppend DEF v
    <2>10. FlattenSeq(u) = t
      BY <1>3 DEF u
    <2>11. Append(t, x) = t \o one
      BY AppendIsConcat DEF one
    <2>12. QED
      BY <2>1, <2>8, <2>9, <2>10, <2>11 DEF w, more
  <1> HIDE DEF T
  <1>4. Seq(S) \subseteq T
    BY ONLY <1>2, <1>3, SeqInduction
  <1>5. QED
    BY <1>1, <1>4 DEF T

-----------------------------------------------------------------------------
(* What is left of a text behind its first n elements.                     *)
Left(text, n) == SubSeq(text, n + 1, Len(text))

LEMMA LeftIs ==
  ASSUME NEW S, NEW text \in Seq(S), NEW n \in 0 .. Len(text)
  PROVE  /\ Left(text, n) \in Seq(S) /\ Len(Left(text, n)) = Len(text) - n
         /\ Len(text) \in Nat
         /\ \A k \in 1 .. Len(text) - n : Left(text, n)[k] = text[n + k]
         /\ n < Len(text) => Left(text, n) # <<>> /\ Head(Left(text, n)) = text[n + 1]
         /\ n = Len(text) => Left(text, n) = <<>>
         /\ n = 0 => Left(text, n) = text
  <1> DEFINE s == Left(text, n)
             l == Len(text)
             m == l - n
  <1>1. l \in Nat /\ n \in Nat /\ n <= l /\ \A k \in n + 1 .. l : text[k] \in S
    BY LenProperties, ElementOfSeq
  <1>2. m \in Nat /\ n + 1 \in Int /\ l \in Int
    BY <1>1
  <1>3. /\ s \in Seq(S) /\ Len(s) = IF n + 1 <= l THEN l - (n + 1) + 1 ELSE 0
        /\ \A k \in 1 .. l - (n + 1) + 1 : s[k] = text[(n + 1) + k - 1]
    BY SMTT(40), <1>1, <1>2, SubSeqProperties DEF Left
  <1> HIDE DEF s, l
  <1>4. Len(s) = m /\ \A k \in 1 .. m : s[k] = text[n + k]
    <2>1. l - (n + 1) + 1 = m /\ (n + 1 <= l \/ m = 0)
      BY <1>1
    <2>2. \A k \in 1 .. m : (n + 1) + k - 1 = n + k
      BY <1>1, <1>2
    <2>3. QED
      BY <1>3, <2>1, <2>2
  <1> HIDE DEF m
  <1>5. ASSUME n < l PROVE s # <<>> /\ Head(s) = text[n + 1]
    <2>1. m # 0 /\ 1 \in 1 .. m
      BY <1>1, <1>5 DEF m
    <2>2. s # <<>> /\ s[1] = text[n + 1]
      BY <1>3, <1>4, <2>1, EmptySeq
    <2>3. QED
      BY <1>3, <2>2, HeadTailProperties
  <1>6. ASSUME n = l PROVE s = <<>>
    <2>1. m = 0
      BY <1>1, <1>6 DEF m
    <2>2. QED
      BY <1>3, <1>4, <2>1, EmptySeq
  <1>7. ASSUME n = 0 PROVE s = text
    <2>1. m = l /\ \A k \in 1 .. m : n + k = k
      BY <1>1, <1>7 DEF m
    <2>2. Len(s) = Len(text) /\ \A k \in 1 .. Len(s) : s[k] = text[k]
      BY <1>4, <2>1 DEF l
    <2>3. QED
      BY <1>3, <2>2, SeqEqual
  <1>8. QED
    BY <1>1, <1>3, <1>4, <1>5, <1>6, <1>7 DEF s, l, m

LEMMA LeftNext ==
  ASSUME NEW S, NEW text \in Seq(S), NEW n \in 0 .. Len(text),
         NEW k \in 0 .. Len(text) - n
  PROVE  /\ n + k \in 0 .. Len(text)
         /\ SubSeq(Left(text, n), k + 1, Len(Left(text, n))) = Left(text, n + k)
  <1> DEFINE s == Left(text, n)
             t == Left(s, k)
             u == Left(text, n + k)
  <1>1. Len(text) \in Nat /\ n \in Nat /\ k \in Nat /\ n + k \in 0 .. Len(text)
    <2>1. Len(text) \in Nat
      BY LenProperties
    <2>2. QED
      BY <2>1
  <1>2. /\ s \in Seq(S) /\ Len(s) = Len(text) - n
        /\ \A j \in 1 .. Len(text) - n : s[j] = text[n + j]
    BY LeftIs
  <1> HIDE DEF s
  <1>3. k \in 0 .. Len(s)
    BY <1>2
  <1>4. /\ t \in Seq(S) /\ Len(t) = Len(s) - k
        /\ \A j \in 1 .. Len(s) - k : t[j] = s[k + j]
    BY SMTT(40), <1>2, <1>3, LeftIs
  <1>5. /\ u \in Seq(S) /\ Len(u) = Len(text) - (n + k)
        /\ \A j \in 1 .. Len(text) - (n + k) : u[j] = text[(n + k) + j]
    BY <1>1, LeftIs
  <1> HIDE DEF t, u
  <1>6. Len(t) = Len(u) /\ Len(u) \in Nat
    BY <1>1, <1>2, <1>4, <1>5
  <1>7. ASSUME NEW j \in 1 .. Len(u) PROVE t[j] = u[j]
    <2>1. /\ j \in 1 .. Len(text) - (n + k) /\ j \in 1 .. Len(s) - k
          /\ k + j \in 1 .. Len(text) - n /\ n + (k + j) = (n + k) + j
      BY <1>1, <1>2, <1>5
    <2>2. QED
      BY <1>2, <1>4, <1>5, <2>1
  <1>8. t = u
    BY <1>4, <1>5, <1>6, <1>7, SeqEqual
  <1>9. QED
    BY <1>1, <1>8 DEF t, u, s, Left

(* What follows the first element.                                         *)
LEMMA TailOfCons ==
  ASSUME NEW S, NEW one \in Seq(S), Len(one) = 1, NEW s \in Seq(S)
  PROVE  Tail(one \o s) = s
  <1> DEFINE all == one \o s
             t == Tail(all)
  <1>1. /\ all \in Seq(S) /\ Len(all) = 1 + Len(s) /\ Len(s) \in Nat
        /\ \A k \in 1 .. Len(s) : all[1 + k] = s[k]
    <2>1. one \in Seq(S) /\ s \in Seq(S)
      OBVIOUS
    <2>2. /\ one \o s \in Seq(S) /\ Len(one \o s) = Len(one) + Len(s)
          /\ \A k \in 1 .. Len(s) : (one \o s)[Len(one) + k] = s[k]
      BY ONLY <2>1, ConcatAt
    <2>3. QED
      BY <2>2, LenProperties
  <1> HIDE DEF all
  <1>2. all # <<>>
    BY <1>1, EmptySeq
  <1>3. /\ t \in Seq(S) /\ Len(t) = Len(all) - 1
        /\ \A k \in 1 .. Len(t) : t[k] = all[k + 1]
    BY <1>1, <1>2, HeadTailProperties
  <1> HIDE DEF t
  <1>4. Len(t) = Len(s)
    BY <1>1, <1>3
  <1>5. ASSUME NEW k \in 1 .. Len(t) PROVE t[k] = s[k]
    BY <1>1, <1>3, <1>4
  <1>6. t = s
    BY <1>3, <1>4, <1>5, SeqEqual
  <1>7. QED
    BY <1>6 DEF t, all
=============================================================================

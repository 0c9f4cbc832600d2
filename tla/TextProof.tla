------------------------------ MODULE TextProof ------------------------------
(***************************************************************************)
(* The conversions, for inputs of any length: a request is answered with   *)
(* what was asked for (ReadTable), a name finds its table and a header has *)
(* the names of the columns (TableNames), a dumped row is parsed as it was *)
(* (CopyText), and a csv file is read as the table it was written from     *)
(* (TextExport).                                                           *)
(***************************************************************************)
EXTENDS ReadTable, TextExport, Lemmas, FiniteSetTheorems

-----------------------------------------------------------------------------
(* Requests.                                                               *)
LEMMA RequestInitInv == RequestInit => RequestInv
  BY DEF RequestInit, NamesInit, X!Init, RequestInv, Progress, Delivered

LEMMA AskedStep ==
  ASSUME RequestInv, Asked
  PROVE  RequestInv'
  <1>1. /\ catalog' = catalog /\ answer' = answer /\ request' = request /\ pc' = pc
        /\ format' = format /\ out' = out /\ result' = result /\ file' = file
    BY DEF Asked, AskForTable, Ask, requestVars
  <1>2. QED
    BY <1>1 DEF RequestInv, Progress, Delivered, Found, Writable, Settled, Inferred

LEMMA InferStep ==
  ASSUME RequestInv, Infer
  PROVE  RequestInv'
  <1>1. /\ catalog' = catalog /\ answer' = answer /\ request' = request
        /\ out' = out /\ file' = file /\ pc = "format"
    BY DEF Infer, nameVars
  <1>2. out = "untouched" /\ file = <<"old">> /\ result = "none"
    BY <1>1 DEF RequestInv, Progress, Delivered
  <1>3. \/ format' \in Settled(request) /\ pc' = "open" /\ result' = "none"
        \/ pc' = "done" /\ result' = "err"
    BY <1>2 DEF Infer, Refuse
  <1>4. Progress'
    BY <1>1, <1>2, <1>3 DEF RequestInv, Progress, Settled, Inferred
  <1>5. Delivered'
    BY <1>1, <1>2, <1>3 DEF Delivered
  <1>6. QED
    BY <1>4, <1>5 DEF RequestInv

LEMMA OpenStep ==
  ASSUME RequestInv, Open
  PROVE  RequestInv'
  <1>1. /\ catalog' = catalog /\ answer' = answer /\ request' = request
        /\ out' = out /\ file' = file /\ pc = "open" /\ format' = format
    BY DEF Open, nameVars
  <1>2. /\ out = "untouched" /\ file = <<"old">> /\ result = "none"
        /\ format \in Settled(request)
    BY <1>1 DEF RequestInv, Progress, Delivered
  <1>3. \/ pc' = "find" /\ result' = "none"
        \/ pc' = "done" /\ result' = "err"
    BY <1>2 DEF Open, Refuse
  <1>4. Progress'
    BY <1>1, <1>2, <1>3 DEF RequestInv, Progress, Settled, Inferred
  <1>5. Delivered'
    BY <1>1, <1>2, <1>3 DEF Delivered
  <1>6. QED
    BY <1>4, <1>5 DEF RequestInv

LEMMA TakeStep ==
  ASSUME RequestInv, Take
  PROVE  RequestInv'
  <1>1. /\ catalog' = catalog /\ request' = request
        /\ out' = out /\ file' = file /\ pc = "find" /\ format' = format
    BY DEF Take, Find
  <1>2. /\ out = "untouched" /\ file = <<"old">> /\ result = "none"
        /\ format \in Settled(request)
    BY <1>1 DEF RequestInv, Progress, Delivered
  <1>3. answer' = <<Matches(asked)>> /\ answer'[1] = Matches(asked)
    BY DEF Take, Find
  <1>4. \/ Cardinality(answer'[1]) = 1 /\ pc' = "read" /\ result' = "none"
        \/ pc' = "done" /\ result' = "err"
    BY <1>2 DEF Take, Refuse
  <1>5. Progress'
    BY <1>1, <1>2, <1>3, <1>4 DEF RequestInv, Progress, Found, Settled, Inferred
  <1>6. Delivered'
    BY <1>1, <1>2, <1>4 DEF Delivered
  <1>7. QED
    BY <1>5, <1>6 DEF RequestInv

LEMMA ReadStep ==
  ASSUME RequestInv, Read
  PROVE  RequestInv'
  <1>1. /\ catalog' = catalog /\ request' = request /\ answer' = answer
        /\ pc = "read" /\ format' = format
        /\ pc' = IF result' = "none" THEN "read" ELSE "done"
    BY DEF Read, nameVars
  <1>2. Found /\ result = "none" /\ format \in Settled(request)
    BY <1>1 DEF RequestInv, Progress
  <1>3. PICK e \in answer[1] : file' = Content(e)
    BY DEF Read
  <1>4. CASE Writable
    <2>1. /\ out' \in {"untouched", "partial", "whole"}
          /\ result' \in {"none", "ok", "err"}
          /\ out' = "untouched" => out = "untouched"
          /\ result' = "ok" => out' = "whole"
      BY <1>2, <1>4 DEF Read, X!Next, X!Work, X!Succeed, X!Fail, RequestInv, Delivered
    <2>2. /\ out' = "untouched" => file' = file
          /\ out' = "partial" => file' = <<"partial">>
          /\ out' = "whole" => file' = <<"whole", e, format>>
      BY <1>3, <2>1 DEF Content
    <2>3. Progress'
      BY <1>1, <1>2, <2>1 DEF RequestInv, Progress, Found, Settled, Inferred
    <2>4. Found' /\ Writable' /\ format' \in Settled(request)'
      BY <1>1, <1>2, <1>4 DEF Found, Writable, Settled, Inferred
    <2>5. Delivered'
      BY <1>1, <1>3, <2>1, <2>2, <2>4 DEF RequestInv, Delivered
    <2>6. QED
      BY <2>3, <2>5 DEF RequestInv
  <1>5. CASE ~ Writable
    <2>1. result' = "err" /\ out' = out /\ out = "untouched"
      BY <1>5 DEF Read, RequestInv, Delivered
    <2>2. file' = file
      BY <1>3, <2>1 DEF Content
    <2>3. Progress'
      BY <1>1, <1>2, <2>1 DEF RequestInv, Progress, Found, Settled, Inferred
    <2>4. Delivered'
      BY <2>1, <2>2 DEF RequestInv, Delivered
    <2>5. QED
      BY <2>3, <2>4 DEF RequestInv
  <1>6. QED
    BY <1>4, <1>5

LEMMA RequestHolds == RequestSpec => []RequestInv
  <1>1. RequestInv /\ [RequestNext]_allVars => RequestInv'
    <2> SUFFICES ASSUME RequestInv, [RequestNext]_allVars PROVE RequestInv'
      OBVIOUS
    <2>1. CASE RequestNext
      BY <2>1, AskedStep, InferStep, OpenStep, TakeStep, ReadStep DEF RequestNext
    <2>2. CASE UNCHANGED allVars
      <3>1. /\ catalog' = catalog /\ answer' = answer /\ request' = request /\ pc' = pc
            /\ format' = format /\ out' = out /\ result' = result /\ file' = file
        BY <2>2 DEF allVars, nameVars, requestVars
      <3>2. QED
        BY <3>1 DEF RequestInv, Progress, Delivered, Found, Writable, Settled, Inferred
    <2>3. QED
      BY <2>1, <2>2
  <1>2. QED
    BY <1>1, RequestInitInv, PTL DEF RequestSpec

(* The settled format is the one given, or else the one the output names.  *)
LEMMA SettledIs ==
  ASSUME NEW f \in Settled(request)
  PROVE  /\ request.given # "none" => f = request.given
         /\ request.given = "none" =>
                \/ request.output = "stdout" /\ f = "tsv-raw"
                \/ /\ request.output # "stdout" /\ request.output \in DOMAIN NamedBy
                   /\ f = NamedBy[request.output]
  BY DEF Settled, Inferred

LEMMA OneMatch ==
  ASSUME NameFindsTable, Found
  PROVE  answer = <<answer[1]>> /\ answer[1] = {meant[1]}
  <1>1. answer = <<answer[1]>> /\ Cardinality(answer[1]) = 1
    BY DEF Found
  <1>2. \A x : <<x>> # <<>>
    OBVIOUS
  <1>3. answer # <<>>
    BY ONLY <1>1, <1>2
  <1>4. answer # <<>> => (Cardinality(answer[1]) = 1 => answer[1] = {meant[1]})
    BY Zenon DEF NameFindsTable
  <1>5. QED
    BY <1>1, <1>3, <1>4

(* A whole output is the one table meant, in the format asked for.         *)
THEOREM AskedCorrect == RequestSpec /\ []NameFindsTable => []OkMeansAsked
  <1>1. RequestInv /\ NameFindsTable => OkMeansAsked
    <2> SUFFICES ASSUME RequestInv, NameFindsTable, result = "ok"
                 PROVE  /\ file[1] = "whole" /\ file[2] = meant[1]
                        /\ request.given # "none" => file[3] = request.given
                        /\ request.given = "none" =>
                               request.output \in (DOMAIN NamedBy \cup {"stdout"})
                        /\ request.given = "none" /\ request.output # "stdout" =>
                               file[3] = NamedBy[request.output]
                        /\ request.output = "stdout" => file[3] = "tsv-raw"
      BY DEF OkMeansAsked
    <2>1. Found /\ Writable /\ format \in Settled(request) /\ out = "whole"
      BY DEF RequestInv, Delivered
    <2>2. PICK e \in answer[1] : file = <<"whole", e, format>>
      BY <2>1 DEF RequestInv, Delivered
    <2>3. e = meant[1]
      BY <2>1, OneMatch
    <2>4. file[1] = "whole" /\ file[2] = meant[1] /\ file[3] = format
      BY <2>2, <2>3
    <2>5. QED
      BY <2>1, <2>4, SettledIs DEF Writable
  <1>2. QED
    BY <1>1, RequestHolds, PTL

(* An earlier output is only given up for the one table meant, in a format *)
(* somebody named.                                                         *)
THEOREM RefusalCorrect == RequestSpec /\ []NameFindsTable => []RefusedKeepsOutput
  <1>1. RequestInv /\ NameFindsTable => RefusedKeepsOutput
    <2> SUFFICES ASSUME RequestInv, NameFindsTable, file # <<"old">>
                 PROVE  /\ answer = <<{meant[1]}>>
                        /\ \/ request.given # "none"
                           \/ request.output \in (DOMAIN NamedBy \cup {"stdout"})
      BY DEF RefusedKeepsOutput
    <2>1. Found /\ format \in Settled(request)
      BY DEF RequestInv, Delivered
    <2>2. answer = <<{meant[1]}>>
      BY <2>1, OneMatch
    <2>3. QED
      BY <2>1, <2>2, SettledIs
  <1>2. QED
    BY <1>1, RequestHolds, PTL

-----------------------------------------------------------------------------
(* Split, defined with a recursive function: it exists, is unique, and     *)
(* grows with the text.                                                    *)
IsSplitting(f, s, c, n) ==
    f = [k \in 0 .. n |-> IF k = 0 THEN <<<<>>>> ELSE SplitAt(f[k - 1], s[k], c)]

LEMMA SplittingAt ==
  ASSUME NEW f, NEW s, NEW c, NEW n \in Nat, IsSplitting(f, s, c, n), NEW k \in 0 .. n
  PROVE  f[k] = IF k = 0 THEN <<<<>>>> ELSE SplitAt(f[k - 1], s[k], c)
  <1> DEFINE h == [m \in 0 .. n |-> IF m = 0 THEN <<<<>>>> ELSE SplitAt(f[m - 1], s[m], c)]
  <1>1. h[k] = IF k = 0 THEN <<<<>>>> ELSE SplitAt(f[k - 1], s[k], c)
    OBVIOUS
  <1>2. f = h
    BY DEF IsSplitting
  <1> HIDE DEF h
  <1>3. QED
    BY <1>1, <1>2

LEMMA SplittingExists ==
  ASSUME NEW s, NEW c, NEW n \in Nat
  PROVE  \E f : IsSplitting(f, s, c, n)
  <1> DEFINE T == {m \in Nat : \E f : IsSplitting(f, s, c, m)}
  <1>1. 0 \in T
    <2>1. IsSplitting([k \in 0 .. 0 |-> <<<<>>>>], s, c, 0)
      BY DEF IsSplitting
    <2>2. QED
      BY <2>1
  <1>2. ASSUME NEW m \in Nat, m \in T PROVE m + 1 \in T
    <2>1. PICK f : IsSplitting(f, s, c, m)
      BY <1>2
    <2> DEFINE g == [k \in 0 .. m + 1 |-> IF k = m + 1 THEN SplitAt(f[m], s[k], c) ELSE f[k]]
    <2>2. ASSUME NEW k \in 0 .. m + 1
          PROVE  g[k] = IF k = 0 THEN <<<<>>>> ELSE SplitAt(g[k - 1], s[k], c)
      <3>1. CASE k = m + 1
        <4>1. k # 0 /\ k - 1 = m /\ m \in 0 .. m + 1 /\ m # m + 1
          BY <3>1
        <4>2. g[k] = SplitAt(f[m], s[k], c) /\ g[k - 1] = f[m]
          BY <3>1, <4>1
        <4>3. QED
          BY <4>1, <4>2
      <3>2. CASE k # m + 1
        <4>1. k \in 0 .. m /\ g[k] = f[k]
          BY <3>2
        <4>2. f[k] = IF k = 0 THEN <<<<>>>> ELSE SplitAt(f[k - 1], s[k], c)
          <5>1. IsSplitting(f, s, c, m) /\ m \in Nat /\ k \in 0 .. m
            BY <2>1, <4>1
          <5>2. QED
            BY ONLY <5>1, SplittingAt
        <4>3. k # 0 => g[k - 1] = f[k - 1]
          BY <4>1
        <4>4. QED
          BY <4>1, <4>2, <4>3
      <3>3. QED
        BY <3>1, <3>2
    <2>3. DOMAIN g = 0 .. m + 1 /\ g = [k \in 0 .. m + 1 |-> g[k]]
      OBVIOUS
    <2> HIDE DEF g
    <2>4. IsSplitting(g, s, c, m + 1)
      BY <2>2, <2>3 DEF IsSplitting
    <2>5. QED
      BY <2>4
  <1> HIDE DEF T
  <1>3. Nat \subseteq T
    BY <1>1, <1>2, Induction
  <1>4. QED
    BY <1>3 DEF T

LEMMA SplitIs ==
  ASSUME NEW s, NEW c, Len(s) \in Nat
  PROVE  \E f : IsSplitting(f, s, c, Len(s)) /\ Split(s, c) = f[Len(s)]
  <1> DEFINE h == CHOOSE f : IsSplitting(f, s, c, Len(s))
  <1>1. IsSplitting(h, s, c, Len(s))
    BY SplittingExists
  <1>2. Split(s, c) = h[Len(s)]
    BY DEF Split, IsSplitting
  <1>3. QED
    BY <1>1, <1>2

LEMMA SplitEmpty == \A c : Split(<<>>, c) = <<<<>>>>
  <1> SUFFICES ASSUME NEW c PROVE Split(<<>>, c) = <<<<>>>>
    OBVIOUS
  <1>1. Len(<<>>) = 0
    BY EmptySeq
  <1>2. PICK f : IsSplitting(f, <<>>, c, 0) /\ Split(<<>>, c) = f[0]
    BY <1>1, SplitIs
  <1>3. 0 \in 0 .. 0
    OBVIOUS
  <1>4. QED
    BY <1>2, <1>3, SplittingAt

(* One more character.                                                     *)
LEMMA SplitAppend ==
  ASSUME NEW S, NEW s \in Seq(S), NEW x \in S, NEW c
  PROVE  Split(Append(s, x), c) = SplitAt(Split(s, c), x, c)
  <1> DEFINE t == Append(s, x)
  <1>1. /\ Len(s) \in Nat /\ Len(t) = Len(s) + 1 /\ t[Len(s) + 1] = x
        /\ \A k \in 1 .. Len(s) : s[k] = t[k]
    BY LenProperties, AppendProperties
  <1> HIDE DEF t
  <1>2. PICK n \in Nat, m \in Nat : m = n + 1 /\ Len(s) = n /\ Len(t) = m
    BY <1>1
  <1>3. PICK f : IsSplitting(f, s, c, n) /\ Split(s, c) = f[n]
    BY <1>2, SplitIs
  <1>4. PICK g : IsSplitting(g, t, c, m) /\ Split(t, c) = g[m]
    BY <1>2, SplitIs
  <1> DEFINE T == {k \in Nat : k \in 0 .. n => f[k] = g[k]}
  <1>5. 0 \in T
    <2>1. 0 \in 0 .. n /\ 0 \in 0 .. m
      BY <1>2
    <2>2. f[0] = <<<<>>>> /\ g[0] = <<<<>>>>
      BY <1>3, <1>4, <2>1, SplittingAt
    <2>3. QED
      BY <2>2
  <1>6. ASSUME NEW k \in Nat, k \in T PROVE k + 1 \in T
    <2> SUFFICES ASSUME k + 1 \in 0 .. n PROVE f[k + 1] = g[k + 1]
      OBVIOUS
    <2>1. k + 1 \in 0 .. m /\ (k + 1) - 1 = k /\ k + 1 # 0 /\ k \in 0 .. n /\ k + 1 \in 1 .. n
      BY <1>2
    <2>2. f[k + 1] = SplitAt(f[k], s[k + 1], c)
      BY <1>3, <2>1, SplittingAt
    <2>3. g[k + 1] = SplitAt(g[k], t[k + 1], c)
      BY <1>4, <2>1, SplittingAt
    <2>4. f[k] = g[k] /\ s[k + 1] = t[k + 1]
      BY <1>1, <1>2, <1>6, <2>1
    <2>5. QED
      BY <2>2, <2>3, <2>4
  <1> HIDE DEF T
  <1>7. n \in T
    BY <1>5, <1>6, Induction
  <1>8. f[n] = g[n]
    BY <1>2, <1>7 DEF T
  <1>9. g[m] = SplitAt(g[n], x, c)
    <2>1. m \in 0 .. m /\ m # 0 /\ m - 1 = n /\ t[m] = x
      BY <1>1, <1>2
    <2>2. QED
      BY <1>4, <2>1, SplittingAt
  <1>10. QED
    BY <1>3, <1>4, <1>8, <1>9 DEF t

Parts(S) == Seq(Seq(S))

(* The last part of s, and the parts before it.                            *)
Ends(s, c, front, last) == Split(s, c) = Append(front, last)

(* A part goes on until the next c ...                                     *)
LEMMA SplitConcat ==
  ASSUME NEW S, NEW c, NEW R, R \subseteq S, c \notin R,
         NEW s \in Seq(S), NEW front \in Parts(S), NEW last \in Seq(S),
         Ends(s, c, front, last), NEW q \in Seq(R)
  PROVE  Ends(s \o q, c, front, last \o q)
  <1> DEFINE T == {p \in Seq(R) : Ends(s \o p, c, front, last \o p)}
  <1>1. <<>> \in T
    BY EmptySeq, ConcatEmptySeq
  <1>2. ASSUME NEW p \in Seq(R), NEW x \in R, p \in T
        PROVE  Append(p, x) \in T
    <2>1. p \in Seq(S) /\ x \in S /\ s \o p \in Seq(S) /\ last \o p \in Seq(S)
      BY SeqMonotonic, ConcatProperties
    <2>2. Append(p, x) \in Seq(R)
      BY AppendProperties
    <2>3. s \o Append(p, x) = Append(s \o p, x)
      BY <2>1, ConcatAppend
    <2>4. last \o Append(p, x) = Append(last \o p, x)
      BY <2>1, ConcatAppend
    <2>5. Split(Append(s \o p, x), c) = SplitAt(Split(s \o p, c), x, c)
      BY <2>1, SplitAppend
    <2>6. Split(s \o p, c) = Append(front, last \o p)
      BY <1>2 DEF Ends
    <2>7. /\ Front(Append(front, last \o p)) = front
          /\ Last(Append(front, last \o p)) = last \o p
      <3> DEFINE Q == Seq(S)
                 y == last \o p
      <3>1. front \in Seq(Q) /\ y \in Q
        BY <2>1 DEF Parts
      <3> HIDE DEF Q, y
      <3>2. Front(Append(front, y)) = front /\ Last(Append(front, y)) = y
        BY <3>1, FrontAndLast
      <3>3. QED
        BY <3>2 DEF y
    <2>8. SplitAt(Split(s \o p, c), x, c) = Append(front, Append(last \o p, x))
      BY <2>6, <2>7 DEF SplitAt
    <2>9. Split(s \o Append(p, x), c) = Append(front, last \o Append(p, x))
      BY <2>3, <2>4, <2>5, <2>8
    <2>10. QED
      BY <2>2, <2>9 DEF Ends
  <1> HIDE DEF T
  <1>3. Seq(R) \subseteq T
    BY <1>1, <1>2, SeqInduction
  <1>4. QED
    BY <1>3 DEF T

(* ... and there the next one begins.                                      *)
LEMMA SplitFirst ==
  ASSUME NEW S, NEW c, NEW R, R \subseteq S, c \notin R, NEW p \in Seq(R)
  PROVE  Ends(p, c, <<>>, p)
  <1> DEFINE none == <<>>
  <1>1. none \in Seq(S) /\ none \in Parts(S)
    BY EmptySeq DEF Parts
  <1>2. Ends(none, c, none, none)
    BY SplitEmpty DEF Ends
  <1>3. none \o p = p
    BY ConcatEmptySeq
  <1> HIDE DEF none
  <1>4. Ends(none \o p, c, none, none \o p)
    BY <1>1, <1>2, SplitConcat
  <1>5. QED
    BY <1>3, <1>4 DEF none

LEMMA SplitNext ==
  ASSUME NEW S, NEW c \in S, NEW R, R \subseteq S, c \notin R,
         NEW s \in Seq(S), Split(s, c) \in Parts(S), NEW p \in Seq(R)
  PROVE  Ends(s \o (<<c>> \o p), c, Split(s, c), p)
  <1> DEFINE none == <<>>
             u == Append(s, c)
             parts == Split(s, c)
  <1>1. p \in Seq(S) /\ <<c>> \in Seq(S) /\ u = s \o <<c>>
        /\ none \in Seq(S) /\ u \in Seq(S) /\ parts \in Parts(S)
    BY SeqMonotonic, AppendIsConcat, Single, EmptySeq, AppendProperties
  <1>2. s \o (<<c>> \o p) = u \o p
    BY SMTT(40), <1>1, ConcatAssociative
  <1>3. Ends(u, c, parts, none)
    BY SplitAppend DEF SplitAt, Ends
  <1>4. none \o p = p
    BY <1>1, ConcatEmptySeq
  <1> HIDE DEF none, u, parts
  <1>5. Ends(u \o p, c, parts, none \o p)
    BY <1>1, <1>3, SplitConcat
  <1>6. QED
    BY <1>2, <1>4, <1>5 DEF parts

LEMMA SplitTwo ==
  ASSUME NEW S, NEW c \in S, NEW R, R \subseteq S, c \notin R,
         NEW p \in Seq(R), NEW q \in Seq(R)
  PROVE  Split(p \o (<<c>> \o q), c) = <<p, q>>
  <1>1. p \in Seq(S) /\ q \in Seq(S)
    BY SeqMonotonic
  <1>2. Split(p, c) = <<p>>
    <2>1. Append(<<>>, p) = <<p>>
      OBVIOUS
    <2>2. QED
      BY <2>1, SplitFirst DEF Ends
  <1>3. <<p>> \in Parts(S)
    BY <1>1 DEF Parts
  <1>4. Ends(p \o (<<c>> \o q), c, Split(p, c), q)
    BY <1>1, <1>2, <1>3, SplitNext
  <1>5. Append(<<p>>, q) = <<p, q>>
    BY <1>1, Pair
  <1>6. QED
    BY <1>2, <1>4, <1>5 DEF Ends

-----------------------------------------------------------------------------
(* Split and Joined are inverse, and Split cuts at every dot.              *)
LEMMA SplitStep ==
  ASSUME NEW S, NEW c, NEW s \in Seq(S), NEW x \in S,
         NEW front \in Parts(S), NEW last \in Seq(S), Ends(s, c, front, last)
  PROVE  /\ x = c => Ends(Append(s, x), c, Append(front, last), <<>>)
         /\ x # c => Ends(Append(s, x), c, front, Append(last, x))
  <1> DEFINE Q == Seq(S)
  <1>1. Split(Append(s, x), c) = SplitAt(Split(s, c), x, c)
    BY SplitAppend
  <1>2. Split(s, c) = Append(front, last)
    BY DEF Ends
  <1>3. front \in Seq(Q) /\ last \in Q
    BY DEF Parts
  <1> HIDE DEF Q
  <1>4. Front(Append(front, last)) = front /\ Last(Append(front, last)) = last
    BY <1>3, FrontAndLast
  <1>5. QED
    BY <1>1, <1>2, <1>4 DEF SplitAt, Ends

LEMMA SplitEnds ==
  ASSUME NEW S, NEW c \in S, NEW R, R = S \ {c}
  PROVE  \A s \in Seq(S) : \E front \in Parts(R), last \in Seq(R) : Ends(s, c, front, last)
  <1> DEFINE T == {s \in Seq(S) :
                       \E front \in Parts(R), last \in Seq(R) : Ends(s, c, front, last)}
             none == <<>>
  <1>1. none \in Seq(R) /\ none \in Parts(R) /\ none \in Seq(S)
    BY EmptySeq DEF Parts
  <1>2. none \in T
    <2>1. Ends(none, c, none, none)
      BY SplitEmpty DEF Ends
    <2> HIDE DEF none
    <2>2. QED
      BY <1>1, <2>1
  <1>3. ASSUME NEW s \in Seq(S), NEW x \in S, s \in T
        PROVE  Append(s, x) \in T
    <2>1. PICK front \in Parts(R), last \in Seq(R) : Ends(s, c, front, last)
      BY <1>3
    <2> DEFINE Q == Seq(R)
               more == Append(front, last)
    <2>2. last \in Seq(S) /\ front \in Parts(S)
      <3>1. Seq(R) \subseteq Seq(S)
        BY SeqMonotonic
      <3>2. Seq(Seq(R)) \subseteq Seq(Seq(S))
        BY <3>1, SeqMonotonic
      <3>3. QED
        BY <3>1, <3>2 DEF Parts
    <2>3. /\ x = c => Ends(Append(s, x), c, Append(front, last), <<>>)
          /\ x # c => Ends(Append(s, x), c, front, Append(last, x))
      BY <2>1, <2>2, SplitStep
    <2>4. more \in Parts(R)
      <3>1. front \in Seq(Q) /\ last \in Q
        BY DEF Parts
      <3> HIDE DEF Q
      <3>2. Append(front, last) \in Seq(Q)
        BY <3>1, AppendProperties
      <3>3. QED
        BY <3>2 DEF Parts, Q
    <2>5. x # c => Append(last, x) \in Seq(R)
      BY AppendProperties
    <2>6. Append(s, x) \in Seq(S)
      BY AppendProperties
    <2>7. CASE x = c
      <3>1. Ends(Append(s, x), c, more, none)
        BY <2>3, <2>7
      <3> HIDE DEF more, none
      <3>2. QED
        BY <1>1, <2>4, <2>6, <3>1
    <2>8. CASE x # c
      <3>1. Ends(Append(s, x), c, front, Append(last, x)) /\ Append(last, x) \in Seq(R)
        BY <2>3, <2>5, <2>8
      <3> QED
        BY <2>6, <3>1
    <2>9. QED
      BY <2>7, <2>8
  <1> HIDE DEF T, none
  <1>4. Seq(S) \subseteq T
    BY <1>2, <1>3, SeqInduction DEF none
  <1>5. QED
    BY <1>4 DEF T

LEMMA SplitType ==
  ASSUME NEW S, NEW c \in S, NEW R, R = S \ {c}, NEW s \in Seq(S)
  PROVE  /\ Split(s, c) \in Parts(R) /\ Split(s, c) \in Parts(S) /\ Split(s, c) # <<>>
         /\ Len(Split(s, c)) \in Nat \ {0}
         /\ \A k \in 1 .. Len(Split(s, c)) : Split(s, c)[k] \in Seq(R)
  <1> DEFINE Q == Seq(R)
  <1>1. PICK front \in Parts(R), last \in Seq(R) : Split(s, c) = Append(front, last)
    <2>1. \A t \in Seq(S) : \E front \in Parts(R), last \in Seq(R) : Ends(t, c, front, last)
      BY ONLY c \in S, R = S \ {c}, SplitEnds
    <2>2. QED
      BY <2>1 DEF Ends
  <1>2. front \in Seq(Q) /\ last \in Q
    BY DEF Parts
  <1>3. Seq(Q) \subseteq Parts(S)
    <2>1. Seq(R) \subseteq Seq(S)
      BY SeqMonotonic
    <2>2. QED
      BY <2>1, SeqMonotonic DEF Parts
  <1> HIDE DEF Q
  <1>4. /\ Split(s, c) \in Seq(Q) /\ Split(s, c) # <<>>
        /\ Len(Split(s, c)) = Len(front) + 1 /\ Len(front) \in Nat
    BY <1>1, <1>2, AppendProperties, LenProperties
  <1>5. \A k \in 1 .. Len(Split(s, c)) : Split(s, c)[k] \in Q
    BY <1>4, ElementOfSeq
  <1>6. Split(s, c) \in Parts(R) /\ Split(s, c) \in Parts(S)
    BY <1>3, <1>4 DEF Parts, Q
  <1>7. \A k \in 1 .. Len(Split(s, c)) : Split(s, c)[k] \in Seq(R)
    BY <1>5 DEF Q
  <1>8. Len(Split(s, c)) \in Nat \ {0}
    BY ONLY <1>4
  <1>9. QED
    BY ONLY <1>4, <1>6, <1>7, <1>8

(* A text with a c in it is cut there.                                     *)
LEMMA SplitJoin ==
  ASSUME NEW S, NEW c \in S, NEW s \in Seq(S)
  PROVE  \A q \in Seq(S) : Split(s \o (<<c>> \o q), c) = Split(s, c) \o Split(q, c)
  <1> DEFINE T == {q \in Seq(S) : Split(s \o (<<c>> \o q), c) = Split(s, c) \o Split(q, c)}
             none == <<>>
             Q == Seq(S)
             parts == Split(s, c)
             h(q) == s \o (<<c>> \o q)
  <1>1. none \in Q /\ <<c>> \in Q /\ s \in Q /\ parts \in Seq(Q)
    <2>1. none \in Seq(S) /\ <<c>> \in Seq(S)
      BY EmptySeq
    <2> DEFINE R == S \ {c}
    <2>2. R = S \ {c}
      OBVIOUS
    <2> HIDE DEF R
    <2>3. Split(s, c) \in Parts(S)
      BY ONLY c \in S, s \in Seq(S), <2>2, SplitType
    <2>4. QED
      BY <2>1, <2>3 DEF Parts
  <1>2. none \in T
    <2>1. h(none) = Append(s, c)
      BY <1>1, ConcatEmptySeq, AppendIsConcat
    <2>2. PICK front \in Parts(S), last \in Seq(S) : Ends(s, c, front, last)
      <3>1. PICK front \in Parts(S \ {c}), last \in Seq(S \ {c}) : Ends(s, c, front, last)
        BY SplitEnds
      <3>2. Seq(S \ {c}) \subseteq Seq(S)
        BY SeqMonotonic
      <3>3. Seq(Seq(S \ {c})) \subseteq Seq(Seq(S))
        BY <3>2, SeqMonotonic
      <3>4. QED
        BY <3>1, <3>2, <3>3 DEF Parts
    <2>3. Split(Append(s, c), c) = Append(parts, none)
      BY SMTT(20), <2>2, SplitStep DEF Ends
    <2>4. Split(none, c) = <<none>>
      BY SplitEmpty
    <2> HIDE DEF Q, parts, none
    <2>5. Append(parts, none) = parts \o <<none>>
      BY <1>1, AppendIsConcat
    <2>6. QED
      BY <1>1, <2>1, <2>3, <2>4, <2>5 DEF parts, Q
  <1>3. ASSUME NEW q \in Seq(S), NEW x \in S, q \in T
        PROVE  Append(q, x) \in T
    <2>1. Append(q, x) \in Seq(S) /\ <<c>> \o q \in Seq(S)
      BY <1>1, AppendProperties, ConcatProperties
    <2>2. h(q) \in Seq(S) /\ h(Append(q, x)) = Append(h(q), x)
      <3>1. <<c>> \o Append(q, x) = Append(<<c>> \o q, x)
        BY <1>1, ConcatAppend
      <3> DEFINE r == <<c>> \o q
      <3>2. r \in Seq(S)
        BY <2>1
      <3> HIDE DEF r
      <3>3. s \o r \in Seq(S) /\ s \o Append(r, x) = Append(s \o r, x)
        BY <3>2, ConcatAppend, ConcatProperties
      <3>4. QED
        BY <3>1, <3>3 DEF r
    <2>3. PICK front \in Seq(Q), last \in Q : Split(q, c) = Append(front, last)
      <3>1. PICK front \in Parts(S \ {c}), last \in Seq(S \ {c}) : Ends(q, c, front, last)
        BY SplitEnds
      <3>2. Seq(S \ {c}) \subseteq Seq(S)
        BY SeqMonotonic
      <3>3. Seq(Seq(S \ {c})) \subseteq Seq(Seq(S))
        BY <3>2, SeqMonotonic
      <3>4. QED
        BY <3>1, <3>2, <3>3 DEF Parts, Ends
    <2> DEFINE both == parts \o front
    <2>4. both \in Seq(Q)
      <3> HIDE DEF Q, parts
      <3> QED BY <1>1, ConcatProperties
    <2>5. Split(h(q), c) = Append(both, last)
      <3>1. Split(h(q), c) = parts \o Append(front, last)
        BY <1>3, <2>3
      <3> HIDE DEF Q, parts
      <3>2. parts \o Append(front, last) = Append(parts \o front, last)
        BY <1>1, <2>3, ConcatAppend
      <3>3. QED
        BY <3>1, <3>2
    <2>6. /\ x = c => Ends(Append(q, x), c, Append(front, last), none)
          /\ x # c => Ends(Append(q, x), c, front, Append(last, x))
      <3>1. front \in Parts(S) /\ last \in Seq(S) /\ Ends(q, c, front, last)
        BY <2>3 DEF Parts, Ends
      <3> HIDE DEF Q, h, parts
      <3>2. QED
        BY <3>1, SplitStep
    <2> DEFINE hq == h(q)
    <2> HIDE DEF both
    <2>7. /\ x = c => Ends(Append(hq, x), c, Append(both, last), none)
          /\ x # c => Ends(Append(hq, x), c, both, Append(last, x))
      <3>1. hq \in Seq(S) /\ both \in Parts(S) /\ last \in Seq(S) /\ Ends(hq, c, both, last)
        BY <2>2, <2>3, <2>4, <2>5 DEF Parts, Ends
      <3> HIDE DEF hq
      <3>2. QED
        BY <3>1, SplitStep
    <2>8. Append(last, x) \in Q
      BY AppendProperties
    <2> HIDE DEF Q, parts, none
    <2>9. CASE x = c
      <3> DEFINE more == Append(front, last)
      <3>1. more \in Seq(Q)
        BY AppendProperties
      <3>2. /\ parts \o more = Append(both, last)
            /\ parts \o Append(more, none) = Append(parts \o more, none)
        <4>1. /\ parts \in Seq(Q) /\ more \in Seq(Q) /\ none \in Q
              /\ front \in Seq(Q) /\ last \in Q
          BY <1>1, <3>1
        <4>2. parts \o more = Append(both, last)
          BY ONLY <4>1, ConcatAppend DEF both, more
        <4> HIDE DEF more
        <4>3. parts \o Append(more, none) = Append(parts \o more, none)
          BY ONLY <4>1, ConcatAppend
        <4>4. QED
          BY <4>2, <4>3
      <3>3. Split(Append(hq, x), c) = Append(Append(both, last), none)
        BY <2>7, <2>9 DEF Ends
      <3>4. Split(Append(q, x), c) = Append(more, none)
        BY <2>6, <2>9 DEF Ends
      <3>5. QED
        BY <2>1, <2>2, <3>2, <3>3, <3>4 DEF parts
    <2>10. CASE x # c
      <3>1. parts \o Append(front, Append(last, x)) = Append(both, Append(last, x))
        BY <1>1, <2>8, ConcatAppend DEF both
      <3>2. Split(Append(hq, x), c) = Append(both, Append(last, x))
        BY <2>7, <2>10 DEF Ends
      <3>3. Split(Append(q, x), c) = Append(front, Append(last, x))
        BY <2>6, <2>10 DEF Ends
      <3>4. QED
        BY <2>1, <2>2, <3>1, <3>2, <3>3 DEF parts
    <2>11. QED
      BY <2>9, <2>10
  <1> HIDE DEF T, none
  <1>4. Seq(S) \subseteq T
    BY <1>2, <1>3, SeqInduction DEF none
  <1>5. QED
    BY <1>4 DEF T

LEMMA JoinedIs ==
  ASSUME NEW S, NEW c \in S, NEW parts \in Parts(S), NEW x \in Seq(S)
  PROVE  /\ Joined(parts, <<c>>) \in Seq(S)
         /\ Joined(Append(parts, x), <<c>>) =
                Joined(parts, <<c>>) \o (Lead(Len(parts) + 1, <<c>>) \o x)
  <1> DEFINE Q == Seq(S)
             sep == <<c>>
             more == Append(parts, x)
             y == Lead(Len(parts) + 1, sep) \o x
             s == Separated(parts, sep)
  <1>1. sep \in Q /\ parts \in Seq(Q) /\ x \in Q
    BY DEF Parts
  <1>2. \A p : Joined(p, sep) = FlattenSeq(Separated(p, sep))
    BY DEF Joined, Separated, Lead
  <1>3. y \in Q
    BY <1>1, LeadType
  <1>4. Q = Seq(S)
    OBVIOUS
  <1> HIDE DEF Q, sep, more, y, s
  <1>5. s \in Seq(Q)
    BY ONLY <1>1, <1>4, SeparatedType DEF s
  <1>6. Separated(more, sep) = Append(s, y)
    <2>1. SeparatesLast(parts, x, sep)
      BY ONLY <1>1, <1>4, SeparatedAppend
    <2>2. QED
      BY <2>1 DEF SeparatesLast, s, y, more
  <1>7. s \in Seq(Seq(S)) /\ y \in Seq(S)
    BY <1>3, <1>4, <1>5
  <1>8. FlattenSeq(Append(s, y)) = FlattenSeq(s) \o y /\ FlattenSeq(s) \in Seq(S)
    BY ONLY <1>7, FlattenAppend, FlattenType
  <1>9. QED
    BY <1>2, <1>6, <1>8 DEF s, y, more, sep

LEMMA JoinedOne ==
  ASSUME NEW S, NEW c \in S, NEW x \in Seq(S)
  PROVE  Joined(Append(<<>>, x), <<c>>) = x
  <1> DEFINE parts == <<x>>
  <1>1. <<>> \o x = x /\ FlattenSeq(<<x>>) = x
    BY ConcatEmptySeq, FlattenTwo
  <1>2. DOMAIN parts = {1} /\ parts[1] = x
    OBVIOUS
  <1>3. Append(<<>>, x) = parts
    OBVIOUS
  <1> HIDE DEF parts
  <1>4. [n \in DOMAIN parts |-> (IF n = 1 THEN <<>> ELSE <<c>>) \o parts[n]] = <<x>>
    BY <1>1, <1>2
  <1>5. QED
    BY <1>1, <1>3, <1>4 DEF Joined

LEMMA JoinedNext ==
  ASSUME NEW S, NEW c \in S, NEW parts \in Parts(S), parts # <<>>, NEW x \in Seq(S)
  PROVE  Joined(Append(parts, x), <<c>>) = Joined(parts, <<c>>) \o (<<c>> \o x)
  <1>1. Joined(Append(parts, x), <<c>>) =
            Joined(parts, <<c>>) \o (Lead(Len(parts) + 1, <<c>>) \o x)
    BY JoinedIs
  <1>2. Len(parts) \in Nat /\ Len(parts) # 0
    BY EmptySeq DEF Parts
  <1>3. Lead(Len(parts) + 1, <<c>>) = <<c>>
    BY <1>2 DEF Lead
  <1>4. QED
    BY <1>1, <1>3

(* What was cut is put together again.                                     *)
LEMMA JoinSplit ==
  ASSUME NEW S, NEW c \in S
  PROVE  \A s \in Seq(S) : Joined(Split(s, c), <<c>>) = s
  <1> DEFINE T == {s \in Seq(S) : Joined(Split(s, c), <<c>>) = s}
             none == <<>>
             R == S \ {c}
  <1>1. none \in Seq(S) /\ none \in Parts(S) /\ <<c>> \in Seq(S)
    BY EmptySeq DEF Parts
  <1>2. none \in T
    <2>1. Split(none, c) = Append(none, none)
      BY SplitEmpty
    <2> HIDE DEF none
    <2>2. none = <<>>
      BY DEF none
    <2>3. Joined(Append(none, none), <<c>>) = none
      BY <1>1, <2>2, JoinedOne
    <2>4. QED
      BY <1>1, <2>1, <2>3
  <1>3. ASSUME NEW s \in Seq(S), NEW x \in S, s \in T
        PROVE  Append(s, x) \in T
    <2>1. PICK front \in Parts(S), last \in Seq(S) : Ends(s, c, front, last)
      <3>1. \A t \in Seq(S) : \E front \in Parts(R), last \in Seq(R) : Ends(t, c, front, last)
        BY ONLY c \in S, SplitEnds DEF R
      <3>2. Seq(R) \subseteq Seq(S)
        BY SeqMonotonic
      <3>3. Seq(Seq(R)) \subseteq Seq(Seq(S))
        BY <3>2, SeqMonotonic
      <3> HIDE DEF R
      <3>4. QED
        BY <3>1, <3>2, <3>3 DEF Parts
    <2>2. /\ x = c => Ends(Append(s, x), c, Append(front, last), none)
          /\ x # c => Ends(Append(s, x), c, front, Append(last, x))
      BY <2>1, SplitStep
    <2>3. Joined(Append(front, last), <<c>>) = s
      BY <1>3, <2>1 DEF Ends
    <2>4. Append(s, x) \in Seq(S) /\ Append(last, x) \in Seq(S)
      BY AppendProperties
    <2>5. Append(s, c) = s \o <<c>> /\ <<c>> \o none = <<c>>
      BY <1>1, AppendIsConcat, ConcatEmptySeq
    <2>6. CASE x = c
      <3> DEFINE more == Append(front, last)
                 Q == Seq(S)
      <3>1. more \in Parts(S) /\ more # <<>>
        <4>1. front \in Seq(Q) /\ last \in Q
          BY DEF Parts
        <4> HIDE DEF Q
        <4>2. more \in Seq(Q) /\ more # <<>>
          BY <4>1, AppendProperties
        <4>3. QED
          BY <4>2 DEF Parts, Q
      <3>2. Split(Append(s, x), c) = Append(more, none)
        BY <2>2, <2>6 DEF Ends
      <3> HIDE DEF more, none, Q
      <3>3. Joined(Append(more, none), <<c>>) = Joined(more, <<c>>) \o (<<c>> \o none)
        BY ONLY c \in S, <1>1, <3>1, JoinedNext
      <3>4. Joined(more, <<c>>) = s
        BY <2>3 DEF more
      <3>5. QED
        BY <2>4, <2>5, <2>6, <3>2, <3>3, <3>4
    <2>7. CASE x # c
      <3> DEFINE lead == Lead(Len(front) + 1, <<c>>)
                 j == Joined(front, <<c>>)
      <3>1. Split(Append(s, x), c) = Append(front, Append(last, x))
        BY <2>2, <2>7 DEF Ends
      <3>2. lead \in Seq(S) /\ lead \o last \in Seq(S)
        BY <1>1, LeadType
      <3>3. /\ j \in Seq(S) /\ Joined(Append(front, last), <<c>>) = j \o (lead \o last)
            /\ Joined(Append(front, Append(last, x)), <<c>>) = j \o (lead \o Append(last, x))
        BY <2>4, JoinedIs
      <3> HIDE DEF lead, j
      <3>4. lead \o Append(last, x) = Append(lead \o last, x)
        BY <3>2, ConcatAppend
      <3> DEFINE z == lead \o last
      <3>5. z \in Seq(S)
        BY <3>2
      <3> HIDE DEF z
      <3>6. j \o Append(z, x) = Append(j \o z, x)
        BY <3>3, <3>5, ConcatAppend
      <3>7. QED
        BY <2>3, <2>4, <3>1, <3>3, <3>4, <3>6 DEF z
    <2>8. QED
      BY <2>6, <2>7
  <1> HIDE DEF T, none
  <1>4. Seq(S) \subseteq T
    BY <1>2, <1>3, SeqInduction DEF none
  <1>5. QED
    BY <1>4 DEF T

(* And what was put together is cut as it was.                             *)
LEMMA SplitJoined ==
  ASSUME NEW S, NEW c \in S, NEW R, R = S \ {c}, NEW Q, Q = Seq(R)
  PROVE  \A parts \in Seq(Q) : parts # <<>> => Split(Joined(parts, <<c>>), c) = parts
  <1> DEFINE T == {parts \in Seq(Q) : parts # <<>> => Split(Joined(parts, <<c>>), c) = parts}
  <1>0. c \notin R /\ R \subseteq S
    OBVIOUS
  <1>1. <<>> \in T
    BY EmptySeq
  <1>2. ASSUME NEW parts \in Seq(Q), NEW x \in Q, parts \in T
        PROVE  Append(parts, x) \in T
    <2>1. parts \in Parts(S) /\ x \in Seq(S) /\ x \in Seq(R)
      <3>1. Seq(R) \subseteq Seq(S)
        BY <1>0, SeqMonotonic
      <3>2. Seq(Q) \subseteq Seq(Seq(S))
        BY <3>1, SeqMonotonic
      <3>3. QED
        BY <3>1, <3>2 DEF Parts
    <2>2. Append(parts, x) \in Seq(Q)
      BY AppendProperties
    <2>3. CASE parts = <<>>
      <3>1. Joined(Append(parts, x), <<c>>) = x
        BY ONLY c \in S, <2>1, <2>3, JoinedOne
      <3>2. Ends(x, c, <<>>, x)
        BY ONLY <1>0, <2>1, SplitFirst
      <3>3. QED
        BY <2>2, <2>3, <3>1, <3>2 DEF Ends
    <2>4. CASE parts # <<>>
      <3> DEFINE s == Joined(parts, <<c>>)
      <3>1. s \in Seq(S)
        BY ONLY c \in S, <2>1, JoinedIs
      <3>2. Joined(Append(parts, x), <<c>>) = s \o (<<c>> \o x)
        BY ONLY c \in S, <2>1, <2>4, JoinedNext
      <3>3. Split(s, c) = parts
        BY <1>2, <2>4
      <3> HIDE DEF s
      <3>4. Ends(s \o (<<c>> \o x), c, parts, x)
        BY <1>0, <2>1, <3>1, <3>3, SplitNext
      <3>5. QED
        BY <2>2, <3>2, <3>4 DEF Ends
    <2>5. QED
      BY <2>3, <2>4
  <1> HIDE DEF T
  <1>3. Seq(Q) \subseteq T
    BY <1>1, <1>2, SeqInduction
  <1>4. QED
    BY <1>3 DEF T

(* One more character, part by part.                                       *)
LEMMA SplitGrows ==
  ASSUME NEW S, NEW c \in S, NEW s \in Seq(S), NEW x \in S, NEW n, n = Len(Split(s, c))
  PROVE  /\ n \in Nat \ {0}
         /\ x = c => /\ Len(Split(Append(s, x), c)) = n + 1
                     /\ Split(Append(s, x), c)[n + 1] = <<>>
                     /\ \A k \in 1 .. n : Split(Append(s, x), c)[k] = Split(s, c)[k]
         /\ x # c => /\ Len(Split(Append(s, x), c)) = n
                     /\ Split(Append(s, x), c)[n] = Append(Split(s, c)[n], x)
                     /\ \A k \in 1 .. n - 1 : Split(Append(s, x), c)[k] = Split(s, c)[k]
  <1> DEFINE R == S \ {c}
             Q == Seq(S)
             none == <<>>
  <1>1. PICK front \in Parts(S), last \in Seq(S) : Ends(s, c, front, last)
    <2>1. \A t \in Seq(S) : \E front \in Parts(R), last \in Seq(R) : Ends(t, c, front, last)
      BY ONLY c \in S, SplitEnds DEF R
    <2>2. Seq(R) \subseteq Seq(S)
      BY SeqMonotonic
    <2>3. Seq(Seq(R)) \subseteq Seq(Seq(S))
      BY <2>2, SeqMonotonic
    <2> HIDE DEF R
    <2>4. QED
      BY <2>1, <2>2, <2>3 DEF Parts
  <1>2. /\ x = c => Ends(Append(s, x), c, Append(front, last), none)
        /\ x # c => Ends(Append(s, x), c, front, Append(last, x))
    BY <1>1, SplitStep
  <1>3. Append(last, x) \in Q /\ none \in Q /\ front \in Seq(Q) /\ last \in Q
    BY AppendProperties, EmptySeq DEF Parts
  <1> DEFINE more == Append(front, last)
             longer == Append(last, x)
  <1> HIDE DEF Q, none, R
  <1>4. /\ more \in Seq(Q) /\ Len(more) = Len(front) + 1 /\ Len(front) \in Nat
        /\ \A k \in 1 .. Len(front) : more[k] = front[k]
        /\ more[Len(front) + 1] = last
    BY <1>3, LongerSeq
  <1>5. Split(s, c) = more
    BY <1>1 DEF Ends
  <1> HIDE DEF more, longer
  <1>6. ASSUME x = c
        PROVE  /\ Len(Split(Append(s, x), c)) = n + 1
               /\ Split(Append(s, x), c)[n + 1] = none
               /\ \A k \in 1 .. n : Split(Append(s, x), c)[k] = Split(s, c)[k]
    <2>1. Split(Append(s, x), c) = Append(more, none)
      BY <1>2, <1>6 DEF Ends, more
    <2>2. QED
      BY <1>3, <1>4, <1>5, <2>1, LongerSeq
  <1>7. ASSUME x # c
        PROVE  /\ Len(Split(Append(s, x), c)) = n
               /\ Split(Append(s, x), c)[n] = Append(Split(s, c)[n], x)
               /\ \A k \in 1 .. n - 1 : Split(Append(s, x), c)[k] = Split(s, c)[k]
    <2>1. Split(Append(s, x), c) = Append(front, longer) /\ longer \in Q
      BY <1>2, <1>3, <1>7 DEF Ends, longer
    <2>2. /\ Len(Append(front, longer)) = Len(front) + 1
          /\ \A k \in 1 .. Len(front) : Append(front, longer)[k] = front[k]
          /\ Append(front, longer)[Len(front) + 1] = longer
      BY <1>3, <2>1, LongerSeq
    <2>3. n = Len(front) + 1 /\ n - 1 = Len(front)
      BY <1>4, <1>5
    <2>4. Split(s, c)[n] = last /\ \A k \in 1 .. n - 1 : Split(s, c)[k] = front[k]
      BY <1>4, <1>5, <2>3
    <2>5. QED
      BY <2>1, <2>2, <2>3, <2>4 DEF longer
  <1>8. n \in Nat \ {0}
    BY <1>4, <1>5
  <1>9. QED
    BY <1>6, <1>7, <1>8 DEF none

LEMMA SplitStays ==
  ASSUME NEW S, NEW c \in S, NEW s \in Seq(S), NEW x \in S, x # c
  PROVE  /\ Len(Split(Append(s, x), c)) = Len(Split(s, c))
         /\ Split(Append(s, x), c)[Len(Split(s, c))] = Append(Split(s, c)[Len(Split(s, c))], x)
         /\ \A k \in 1 .. Len(Split(s, c)) - 1 : Split(Append(s, x), c)[k] = Split(s, c)[k]
  <1> DEFINE n == Len(Split(s, c))
  <1>1. n = Len(Split(s, c))
    OBVIOUS
  <1> HIDE DEF n
  <1>2. x # c => /\ Len(Split(Append(s, x), c)) = n
                 /\ Split(Append(s, x), c)[n] = Append(Split(s, c)[n], x)
                 /\ \A k \in 1 .. n - 1 : Split(Append(s, x), c)[k] = Split(s, c)[k]
    BY ONLY c \in S, s \in Seq(S), x \in S, <1>1, SplitGrows
  <1>3. QED
    BY <1>1, <1>2

(* A character before a text goes to its first part.                       *)
Opening(k, q) == IF k = 1 THEN <<q>> ELSE <<>>

OpensFirst(s, c, q) ==
    /\ Len(Split(<<q>> \o s, c)) = Len(Split(s, c))
    /\ \A k \in 1 .. Len(Split(s, c)) :
           Split(<<q>> \o s, c)[k] = Opening(k, q) \o Split(s, c)[k]

LEMMA SplitBefore ==
  ASSUME NEW S, NEW c \in S, NEW q \in S, q # c
  PROVE  \A s \in Seq(S) : OpensFirst(s, c, q)
  <1> DEFINE T == {s \in Seq(S) : OpensFirst(s, c, q)}
             none == <<>>
             one == <<q>>
  <1>1. none \in Seq(S) /\ one \in Seq(S) /\ one = Append(none, q) /\ one \o none = one
    BY EmptySeq, ConcatEmptySeq
  <1>2. none \in T
    <2>1. Split(none, c) = <<none>> /\ Len(<<none>>) = 1 /\ <<none>>[1] = none
      BY SplitEmpty
    <2>2. Ends(one, c, none, one)
      <3>1. one \in Seq({q}) /\ c \notin {q} /\ {q} \subseteq S
        OBVIOUS
      <3>2. QED
        BY ONLY <3>1, SplitFirst
    <2>3. Append(none, one) = <<one>> /\ Len(<<one>>) = 1 /\ <<one>>[1] = one
      OBVIOUS
    <2> HIDE DEF none, one
    <2>4. Split(one, c) = <<one>>
      BY <2>2, <2>3 DEF Ends
    <2>5. Opening(1, q) = one
      BY DEF Opening, one
    <2>6. \A k \in 1 .. 1 : k = 1
      OBVIOUS
    <2>7. OpensFirst(none, c, q)
      BY <1>1, <2>1, <2>3, <2>4, <2>5, <2>6 DEF OpensFirst, one
    <2>8. QED
      BY <1>1, <2>7
  <1>3. ASSUME NEW s \in Seq(S), NEW x \in S, s \in T
        PROVE  Append(s, x) \in T
    <2> DEFINE w == one \o s
               n == Len(Split(s, c))
               n2 == Len(Split(w, c))
    <2>1. w \in Seq(S) /\ one \o Append(s, x) = Append(w, x) /\ Append(s, x) \in Seq(S)
      BY <1>1, ConcatProperties, ConcatAppend, AppendProperties
    <2>2. n = n2 /\ \A k \in 1 .. n : Split(w, c)[k] = Opening(k, q) \o Split(s, c)[k]
      BY <1>3 DEF OpensFirst
    <2> HIDE DEF w, n, n2
    <2>3. /\ n \in Nat \ {0}
          /\ x = c => /\ Len(Split(Append(s, x), c)) = n + 1
                      /\ Split(Append(s, x), c)[n + 1] = <<>>
                      /\ \A k \in 1 .. n : Split(Append(s, x), c)[k] = Split(s, c)[k]
          /\ x # c => /\ Len(Split(Append(s, x), c)) = n
                      /\ Split(Append(s, x), c)[n] = Append(Split(s, c)[n], x)
                      /\ \A k \in 1 .. n - 1 : Split(Append(s, x), c)[k] = Split(s, c)[k]
      BY ONLY c \in S, s \in Seq(S), x \in S, SplitGrows DEF n
    <2>4. n = Len(Split(w, c))
      BY <2>2 DEF n2
    <2>5. /\ x = c => /\ Len(Split(Append(w, x), c)) = n + 1
                      /\ Split(Append(w, x), c)[n + 1] = <<>>
                      /\ \A k \in 1 .. n : Split(Append(w, x), c)[k] = Split(w, c)[k]
          /\ x # c => /\ Len(Split(Append(w, x), c)) = n
                      /\ Split(Append(w, x), c)[n] = Append(Split(w, c)[n], x)
                      /\ \A k \in 1 .. n - 1 : Split(Append(w, x), c)[k] = Split(w, c)[k]
      BY ONLY SMTT(20), c \in S, <2>1, x \in S, <2>4, SplitGrows
    <2>6. CASE x = c
      <3>1. Opening(n + 1, q) = <<>> /\ <<>> \o <<>> = <<>>
        BY <2>3, EmptySeq, ConcatEmptySeq DEF Opening
      <3>2. ASSUME NEW k \in 1 .. n + 1
            PROVE  Split(Append(w, x), c)[k] = Opening(k, q) \o Split(Append(s, x), c)[k]
        <4>1. CASE k = n + 1
          BY <2>3, <2>5, <2>6, <3>1, <4>1
        <4>2. CASE k # n + 1
          <5>1. k \in 1 .. n
            BY <2>3, <4>2
          <5>2. QED
            BY <2>2, <2>3, <2>5, <2>6, <5>1
        <4>3. QED
          BY <4>1, <4>2
      <3>3. OpensFirst(Append(s, x), c, q)
        BY <2>1, <2>3, <2>5, <2>6, <3>2 DEF OpensFirst, one
      <3>4. QED
        BY <2>1, <3>3
    <2>7. CASE x # c
      <3>1. Split(s, c)[n] \in Seq(S) /\ Opening(n, q) \in Seq(S)
        <4>1. Split(s, c) \in Seq(Seq(S))
          <5> DEFINE R == S \ {c}
          <5>1. R = S \ {c}
            OBVIOUS
          <5> HIDE DEF R
          <5>2. Split(s, c) \in Parts(S)
            BY ONLY c \in S, s \in Seq(S), <5>1, SplitType
          <5>3. QED
            BY <5>2 DEF Parts
        <4>2. n \in 1 .. Len(Split(s, c))
          BY <2>3 DEF n
        <4>3. QED
          BY <1>1, <4>1, <4>2, ElementOfSeq DEF Opening
      <3>2. Opening(n, q) \o Append(Split(s, c)[n], x) = Append(Opening(n, q) \o Split(s, c)[n], x)
        BY <3>1, ConcatAppend
      <3>3. ASSUME NEW k \in 1 .. n
            PROVE  Split(Append(w, x), c)[k] = Opening(k, q) \o Split(Append(s, x), c)[k]
        <4>1. CASE k = n
          BY <2>2, <2>3, <2>5, <2>7, <3>2, <4>1
        <4>2. CASE k # n
          <5>1. k \in 1 .. n - 1 /\ k \in 1 .. n
            BY <2>3, <4>2
          <5>2. QED
            BY <2>2, <2>3, <2>5, <2>7, <5>1
        <4>3. QED
          BY <4>1, <4>2
      <3>4. OpensFirst(Append(s, x), c, q)
        BY <2>1, <2>3, <2>5, <2>7, <3>3 DEF OpensFirst, one
      <3>5. QED
        BY <2>1, <3>4
    <2>8. QED
      BY <2>6, <2>7
  <1> HIDE DEF T, none
  <1>4. Seq(S) \subseteq T
    BY <1>2, <1>3, SeqInduction DEF none
  <1>5. QED
    BY <1>4 DEF T

-----------------------------------------------------------------------------
(* Trimmed takes what is c at either end, and only that.                   *)
LEMMA TrimmedIs ==
  ASSUME NEW S, NEW c, NEW s \in Seq(S), NEW first \in 1 .. Len(s), NEW last \in first .. Len(s),
         s[first] # c, s[last] # c,
         \A k \in 1 .. Len(s) : k < first \/ k > last => s[k] = c
  PROVE  Trimmed(s, c) = SubSeq(s, first, last)
  <1> DEFINE others == {k \in DOMAIN s : s[k] # c}
  <1>1. Len(s) \in Nat /\ DOMAIN s = 1 .. Len(s)
    BY LenProperties
  <1>2. first \in others /\ last \in others /\ others \subseteq first .. last
    BY <1>1
  <1>3. (CHOOSE k \in others : \A m \in others : k <= m) = first
    BY <1>2
  <1>4. (CHOOSE k \in others : \A m \in others : m <= k) = last
    BY <1>2
  <1>5. Trimmed(s, c) = IF others = {} THEN <<>>
                        ELSE SubSeq(s, CHOOSE k \in others : \A m \in others : k <= m,
                                       CHOOSE k \in others : \A m \in others : m <= k)
    BY DEF Trimmed
  <1>6. QED
    BY <1>2, <1>3, <1>4, <1>5

LEMMA TrimmedBetween ==
  ASSUME NEW S, NEW c \in S, NEW before \in Seq({c}), NEW after \in Seq({c}),
         NEW s \in Seq(S), s # <<>>, s[1] # c, s[Len(s)] # c
  PROVE  Trimmed(before \o (s \o after), c) = s
  <1> DEFINE m == Len(before)
             n == Len(s)
             t == before \o (s \o after)
  <1>1. /\ before \in Seq(S) /\ after \in Seq(S) /\ m \in Nat /\ n \in Nat /\ n >= 1
        /\ Len(after) \in Nat
    BY SeqMonotonic, LenProperties, EmptySeq
  <1>2. /\ s \o after \in Seq(S) /\ Len(s \o after) = n + Len(after)
        /\ \A k \in 1 .. n + Len(after) :
               (s \o after)[k] = IF k <= n THEN s[k] ELSE after[k - n]
    BY <1>1, ConcatProperties
  <1>3. /\ t \in Seq(S) /\ Len(t) = m + (n + Len(after))
        /\ \A k \in 1 .. m + (n + Len(after)) :
               t[k] = IF k <= m THEN before[k] ELSE (s \o after)[k - m]
    BY <1>1, <1>2, ConcatProperties
  <1>4. \A k \in 1 .. m : t[k] = c
    <2>1. \A k \in 1 .. m : before[k] = c
      BY ElementOfSeq
    <2>2. QED
      BY <1>1, <1>3, <2>1
  <1>5. \A k \in m + 1 .. m + n : t[k] = s[k - m]
    BY <1>1, <1>2, <1>3
  <1>6. \A k \in m + n + 1 .. Len(t) : t[k] = c
    <2>1. \A k \in 1 .. Len(after) : after[k] = c
      BY ElementOfSeq
    <2>2. QED
      BY <1>1, <1>2, <1>3, <2>1
  <1> HIDE DEF m, n, t
  <1>7. Trimmed(t, c) = SubSeq(t, m + 1, m + n)
    <2> DEFINE first == m + 1
               last == m + n
    <2>1. first \in 1 .. Len(t) /\ last \in first .. Len(t)
      BY <1>1, <1>3
    <2>2. t[first] = s[1] /\ t[last] = s[n]
      <3>1. first \in m + 1 .. m + n /\ first - m = 1
        BY <1>1
      <3>2. last \in m + 1 .. m + n /\ last - m = n
        BY <1>1
      <3>3. QED
        BY <1>5, <3>1, <3>2
    <2>3. t[first] # c /\ t[last] # c
      BY <2>2 DEF n
    <2>4. \A k \in 1 .. Len(t) : k < first \/ k > last => t[k] = c
      BY <1>1, <1>3, <1>4, <1>6
    <2>5. t \in Seq(S)
      BY <1>3
    <2> HIDE DEF first, last
    <2>6. Trimmed(t, c) = SubSeq(t, first, last)
      BY <2>1, <2>3, <2>4, <2>5, TrimmedIs
    <2>7. QED
      BY <2>6 DEF first, last
  <1>8. /\ SubSeq(t, m + 1, m + n) \in Seq(S)
        /\ Len(SubSeq(t, m + 1, m + n)) = n
        /\ \A k \in 1 .. n : SubSeq(t, m + 1, m + n)[k] = s[k]
    <2>1. \A k \in m + 1 .. m + n : t[k] \in S
      BY <1>1, <1>3, ElementOfSeq
    <2>2. /\ SubSeq(t, m + 1, m + n) \in Seq(S)
          /\ Len(SubSeq(t, m + 1, m + n)) =
                 IF m + 1 <= m + n THEN (m + n) - (m + 1) + 1 ELSE 0
          /\ \A k \in 1 .. (m + n) - (m + 1) + 1 :
                 SubSeq(t, m + 1, m + n)[k] = t[(m + 1) + k - 1]
      BY <1>1, <2>1, SubSeqProperties
    <2>3. QED
      BY <1>1, <1>5, <2>2
  <1>9. SubSeq(t, m + 1, m + n) = s
    BY <1>1, <1>8, SeqEqual DEF n
  <1>10. QED
    BY <1>7, <1>9 DEF t

(* Nothing, or one c, on either side.                                      *)
LEMMA TrimmedCases ==
  ASSUME NEW S, NEW c \in S, NEW s \in Seq(S), s # <<>>, s[1] # c, s[Len(s)] # c
  PROVE  /\ Trimmed(s, c) = s
         /\ Trimmed(s \o <<c>>, c) = s
         /\ Trimmed(<<c>> \o s, c) = s
         /\ Trimmed((<<c>> \o s) \o <<c>>, c) = s
  <1> DEFINE none == <<>>
             one == <<c>>
  <1>1. none \in Seq({c}) /\ one \in Seq({c}) /\ one \in Seq(S)
    BY EmptySeq
  <1>2. /\ none \o (s \o none) = s
        /\ none \o (s \o one) = s \o one
        /\ one \o (s \o none) = one \o s
        /\ one \o (s \o one) = (one \o s) \o one
    BY <1>1, ConcatEmptySeq, ConcatProperties, ConcatAssociative
  <1> HIDE DEF none, one
  <1>3. /\ Trimmed(none \o (s \o none), c) = s
        /\ Trimmed(none \o (s \o one), c) = s
        /\ Trimmed(one \o (s \o none), c) = s
        /\ Trimmed(one \o (s \o one), c) = s
    BY <1>1, TrimmedBetween
  <1>4. QED
    BY <1>2, <1>3 DEF one

-----------------------------------------------------------------------------
(* Doubled adds one or two characters for each, and can be undone.         *)
Twice(x) == IF x = "quote" THEN <<"quote", "quote">> ELSE <<x>>

LEMMA TwiceIs ==
  ASSUME NEW S, "quote" \in S, NEW x \in S
  PROVE  /\ Twice(x) \in Seq(S) /\ Len(Twice(x)) >= 1 /\ Len(Twice(x)) \in Nat
         /\ Twice(x)[Len(Twice(x))] = x
  BY DEF Twice

LEMMA DoubledIs ==
  ASSUME NEW S, "quote" \in S, NEW s \in Seq(S)
  PROVE  /\ Doubled(s) = FlattenSeq([k \in 1 .. Len(s) |-> Twice(s[k])])
         /\ [k \in 1 .. Len(s) |-> Twice(s[k])] \in Seq(Seq(S))
         /\ Len([k \in 1 .. Len(s) |-> Twice(s[k])]) = Len(s)
  <1>1. DOMAIN s = 1 .. Len(s) /\ Len(s) \in Nat
    BY LenProperties
  <1>2. \A k \in 1 .. Len(s) : Twice(s[k]) \in Seq(S)
    BY ElementOfSeq, TwiceIs
  <1>3. [k \in 1 .. Len(s) |-> Twice(s[k])] \in [1 .. Len(s) -> Seq(S)]
    BY <1>2
  <1>4. Doubled(s) = FlattenSeq([k \in 1 .. Len(s) |-> Twice(s[k])])
    BY <1>1 DEF Doubled, Twice
  <1>5. QED
    BY <1>1, <1>3, <1>4, FunctionIsSeq

LEMMA DoubledType ==
  ASSUME NEW S, "quote" \in S, NEW s \in Seq(S)
  PROVE  Doubled(s) \in Seq(S)
  BY DoubledIs, FlattenType

LEMMA DoubledAppend ==
  ASSUME NEW S, "quote" \in S, NEW s \in Seq(S), NEW x \in S
  PROVE  Doubled(Append(s, x)) = Doubled(s) \o Twice(x)
  <1> DEFINE Q == Seq(S)
             t == Append(s, x)
             f == [k \in 1 .. Len(s) |-> Twice(s[k])]
             g == [k \in 1 .. Len(t) |-> Twice(t[k])]
             y == Twice(x)
  <1>1. /\ t \in Seq(S) /\ Len(t) = Len(s) + 1 /\ Len(s) \in Nat
        /\ \A k \in 1 .. Len(s) : t[k] = s[k]
        /\ t[Len(s) + 1] = x
    BY AppendProperties, LenProperties
  <1>2. /\ f \in Seq(Q) /\ g \in Seq(Q) /\ Len(f) = Len(s) /\ Len(g) = Len(t)
        /\ Doubled(s) = FlattenSeq(f) /\ Doubled(t) = FlattenSeq(g)
    BY <1>1, DoubledIs
  <1>3. y \in Q
    BY TwiceIs
  <1>4. /\ \A k \in 1 .. Len(s) : g[k] = f[k]
        /\ g[Len(s) + 1] = y
    BY <1>1
  <1> HIDE DEF Q, t, f, g, y
  <1>5. /\ Append(f, y) \in Seq(Q) /\ Len(Append(f, y)) = Len(f) + 1
        /\ \A k \in 1 .. Len(f) : Append(f, y)[k] = f[k]
        /\ Append(f, y)[Len(f) + 1] = y
    BY <1>2, <1>3, AppendProperties
  <1>6. Append(f, y) = g
    <2>1. Len(Append(f, y)) = Len(g)
      BY <1>1, <1>2, <1>5
    <2>2. \A k \in 1 .. Len(Append(f, y)) : Append(f, y)[k] = g[k]
      BY <1>1, <1>2, <1>4, <1>5
    <2>3. QED
      BY <1>2, <1>5, <2>1, <2>2, SeqEqual
  <1>7. FlattenSeq(Append(f, y)) = FlattenSeq(f) \o y
    BY <1>2, <1>3, FlattenAppend DEF Q
  <1>8. QED
    BY <1>2, <1>6, <1>7 DEF t, y

LEMMA DoubledEmpty == Doubled(<<>>) = <<>>
  <1>1. [k \in DOMAIN <<>> |-> IF <<>>[k] = "quote" THEN <<"quote", "quote">> ELSE <<<<>>[k]>>]
            = <<>>
    OBVIOUS
  <1>2. QED
    BY <1>1, FlattenEmpty DEF Doubled

LEMMA DoubledInjective ==
  ASSUME NEW S, "quote" \in S
  PROVE  \A s, t \in Seq(S) : Doubled(s) = Doubled(t) => s = t
  <1> DEFINE T == {s \in Seq(S) : \A t \in Seq(S) : Doubled(s) = Doubled(t) => s = t}
  <1>1. ASSUME NEW s \in Seq(S), NEW x \in S
        PROVE  /\ Doubled(Append(s, x)) \in Seq(S) /\ Doubled(Append(s, x)) # <<>>
               /\ Doubled(Append(s, x))[Len(Doubled(Append(s, x)))] = x
    <2> DEFINE d == Doubled(s)
               y == Twice(x)
    <2>1. d \in Seq(S) /\ y \in Seq(S) /\ Len(d) \in Nat /\ Len(y) \in Nat /\ Len(y) >= 1
          /\ y[Len(y)] = x
      BY DoubledType, TwiceIs, LenProperties
    <2>2. Doubled(Append(s, x)) = d \o y
      BY DoubledAppend
    <2> HIDE DEF d, y
    <2>3. /\ d \o y \in Seq(S) /\ Len(d \o y) = Len(d) + Len(y)
          /\ (d \o y)[Len(d) + Len(y)] = y[Len(y)]
      BY <2>1, ConcatProperties
    <2>4. d \o y # <<>>
      BY <2>1, <2>3, EmptySeq
    <2>5. QED
      BY <2>1, <2>2, <2>3, <2>4
  <1>2. <<>> \in T
    <2> SUFFICES ASSUME NEW t \in Seq(S), t # <<>> PROVE Doubled(t) # <<>>
      BY DoubledEmpty, EmptySeq
    <2>1. PICK t0 \in Seq(S), x \in S : t = Append(t0, x)
      BY SequenceEmptyOrAppend
    <2>2. QED
      BY <1>1, <2>1
  <1>3. ASSUME NEW s \in Seq(S), NEW x \in S, s \in T PROVE Append(s, x) \in T
    <2>1. Append(s, x) \in Seq(S)
      BY AppendProperties
    <2> SUFFICES ASSUME NEW t \in Seq(S), Doubled(Append(s, x)) = Doubled(t)
                 PROVE  Append(s, x) = t
      BY <2>1
    <2>2. t # <<>>
      BY <1>1, DoubledEmpty
    <2>3. PICK t0 \in Seq(S), z \in S : t = Append(t0, z)
      BY <2>2, SequenceEmptyOrAppend
    <2>4. x = z
      <3> DEFINE d == Doubled(t)
      <3>1. d[Len(d)] = x
        BY <1>1
      <3>2. d[Len(d)] = z
        BY <1>1, <2>3
      <3>3. QED
        BY <3>1, <3>2
    <2>5. Doubled(s) \o Twice(x) = Doubled(t0) \o Twice(x)
      BY <2>3, <2>4, DoubledAppend
    <2>6. Doubled(s) = Doubled(t0)
      <3>1. Doubled(s) \in Seq(S) /\ Doubled(t0) \in Seq(S) /\ Twice(x) \in Seq(S)
        BY DoubledType, TwiceIs
      <3>2. QED
        BY <2>5, <3>1, CancelRight
    <2>7. s = t0
      BY <1>3, <2>6
    <2>8. QED
      BY <2>3, <2>4, <2>7
  <1> HIDE DEF T
  <1>4. Seq(S) \subseteq T
    BY <1>2, <1>3, SeqInduction
  <1>5. QED
    BY <1>4 DEF T

LEMMA DoubledPlain ==
  ASSUME NEW S, "quote" \in S, NEW R, R = S \ {"quote"}
  PROVE  \A n \in Seq(R) : Doubled(n) = n
  <1> DEFINE T == {s \in Seq(R) : Doubled(s) = s}
  <1>1. <<>> \in T
    BY DoubledEmpty, EmptySeq
  <1>2. ASSUME NEW s \in Seq(R), NEW x \in R, s \in T
        PROVE  Append(s, x) \in T
    <2>1. s \in Seq(S) /\ x \in S /\ x # "quote"
      BY SeqMonotonic
    <2>2. Doubled(Append(s, x)) = Doubled(s) \o Twice(x)
      BY <2>1, DoubledAppend
    <2>3. Twice(x) = <<x>> /\ Doubled(s) = s
      BY <1>2, <2>1 DEF Twice
    <2>4. Append(s, x) = s \o <<x>> /\ Append(s, x) \in Seq(R)
      BY AppendIsConcat, AppendProperties
    <2>5. QED
      BY <2>2, <2>3, <2>4
  <1> HIDE DEF T
  <1>3. Seq(R) \subseteq T
    BY <1>1, <1>2, SeqInduction
  <1>4. QED
    BY <1>3 DEF T

LEMMA QuotedIs ==
  ASSUME NEW S, "quote" \in S, NEW s \in Seq(S)
  PROVE  /\ Quoted(s) \in Seq(S) /\ Len(Quoted(s)) >= 2
         /\ Quoted(s)[1] = "quote" /\ Quoted(s)[Len(Quoted(s))] = "quote"
         /\ QuoteIdentifier(Quoted(s)) = Quoted(s)
  <1> DEFINE d == Doubled(s)
             q == <<"quote">>
  <1>1. d \in Seq(S) /\ q \in Seq(S) /\ Len(q) = 1 /\ q[1] = "quote" /\ Len(d) \in Nat
    BY DoubledType, LenProperties
  <1>2. Quoted(s) = (q \o d) \o q
    BY DEF Quoted
  <1> HIDE DEF d, q
  <1>3. /\ q \o d \in Seq(S) /\ Len(q \o d) = 1 + Len(d) /\ (q \o d)[1] = "quote"
    <2>1. /\ q \o d \in Seq(S) /\ Len(q \o d) = Len(q) + Len(d)
          /\ \A k \in 1 .. Len(q) + Len(d) :
                 (q \o d)[k] = IF k <= Len(q) THEN q[k] ELSE d[k - Len(q)]
      BY <1>1, ConcatProperties
    <2>2. QED
      BY <1>1, <2>1
  <1>4. /\ (q \o d) \o q \in Seq(S) /\ Len((q \o d) \o q) = Len(d) + 2
        /\ ((q \o d) \o q)[1] = (q \o d)[1] /\ ((q \o d) \o q)[Len(d) + 2] = q[1]
    <2>1. /\ (q \o d) \o q \in Seq(S) /\ Len((q \o d) \o q) = Len(q \o d) + Len(q)
          /\ \A k \in 1 .. Len(q \o d) + Len(q) : ((q \o d) \o q)[k] =
                 IF k <= Len(q \o d) THEN (q \o d)[k] ELSE q[k - Len(q \o d)]
      BY <1>1, <1>3, ConcatProperties
    <2>2. 1 \in 1 .. Len(q \o d) + Len(q) /\ Len(d) + 2 \in 1 .. Len(q \o d) + Len(q)
      BY <1>1, <1>3
    <2>3. QED
      BY <1>1, <1>3, <2>1, <2>2
  <1>5. Quoted(s) \in Seq(S) /\ Len(Quoted(s)) = Len(d) + 2
        /\ Quoted(s)[1] = "quote" /\ Quoted(s)[Len(Quoted(s))] = "quote"
    BY <1>1, <1>2, <1>3, <1>4
  <1>6. QED
    BY <1>1, <1>5 DEF QuoteIdentifier

LEMMA QuotedInjective ==
  ASSUME NEW S, "quote" \in S, NEW s \in Seq(S), NEW t \in Seq(S), Quoted(s) = Quoted(t)
  PROVE  s = t
  <1> DEFINE q == <<"quote">>
             d == Doubled(s)
             e == Doubled(t)
  <1>1. q \in Seq(S) /\ d \in Seq(S) /\ e \in Seq(S) /\ (q \o d) \o q = (q \o e) \o q
    BY DoubledType DEF Quoted
  <1> HIDE DEF q, d, e
  <1>2. q \o d = q \o e
    <2>1. q \o d \in Seq(S) /\ q \o e \in Seq(S)
      BY <1>1, ConcatProperties
    <2>2. QED
      BY <1>1, <2>1, CancelRight
  <1>3. d = e
    BY <1>1, <1>2, CancelLeft
  <1>4. QED
    BY <1>3, DoubledInjective DEF d, e

-----------------------------------------------------------------------------
(* A name cut at its dots, with each part made another.  Normalized trims  *)
(* and quotes each part; Shown quotes each part, and is never the same for *)
(* two texts.                                                              *)
NameText == Seq(NameChar)

Mapped(f, s) == EachOf(Split(s, "dot"), f)

Cleaned == [p \in NameText |-> QuoteIdentifier(Trimmed(p, "space"))]

InQuotes == [p \in NameText |-> Quoted(p)]

Shown(u) == Joined(Mapped(InQuotes, u), <<"dot">>)

NoDot == NameChar \ {"dot"}

LEMMA DotPartsType ==
  ASSUME NEW s \in NameText
  PROVE  /\ DOMAIN Split(s, "dot") = 1 .. Len(Split(s, "dot"))
         /\ Len(Split(s, "dot")) \in Nat \ {0} /\ Split(s, "dot") \in Seq(NameText)
         /\ \A k \in 1 .. Len(Split(s, "dot")) :
                Split(s, "dot")[k] \in Seq(NoDot) /\ Split(s, "dot")[k] \in NameText
  <1>1. "dot" \in NameChar /\ NoDot = NameChar \ {"dot"} /\ s \in Seq(NameChar)
    BY DEF NoDot, NameChar, NameText
  <1>2. /\ Split(s, "dot") \in Parts(NameChar)
        /\ Len(Split(s, "dot")) \in Nat \ {0}
        /\ \A k \in 1 .. Len(Split(s, "dot")) : Split(s, "dot")[k] \in Seq(NoDot)
    BY ONLY <1>1, SplitType
  <1>3. Seq(NoDot) \subseteq NameText
    BY SeqMonotonic DEF NoDot, NameText
  <1>4. Split(s, "dot") \in Seq(NameText)
    BY <1>2 DEF Parts, NameText
  <1>5. DOMAIN Split(s, "dot") = 1 .. Len(Split(s, "dot"))
    BY <1>4, LenProperties
  <1>6. QED
    BY <1>2, <1>3, <1>4, <1>5

LEMMA MappedIs ==
  ASSUME NEW s \in NameText, NEW Q, NEW f, DOMAIN f = NameText,
         \A p \in Seq(NoDot) : f[p] \in Q
  PROVE  /\ Mapped(f, s) \in Seq(Q) /\ Len(Mapped(f, s)) = Len(Split(s, "dot"))
         /\ \A k \in 1 .. Len(Split(s, "dot")) : Mapped(f, s)[k] = f[Split(s, "dot")[k]]
  <1> DEFINE n == Len(Split(s, "dot"))
  <1>1. n \in Nat /\ Mapped(f, s) = [k \in 1 .. n |-> f[Split(s, "dot")[k]]]
    BY DotPartsType DEF Mapped, EachOf
  <1>2. \A k \in 1 .. n : f[Split(s, "dot")[k]] \in Q
    BY DotPartsType
  <1>3. Mapped(f, s) \in [1 .. n -> Q]
    BY <1>1, <1>2
  <1>4. Mapped(f, s) \in Seq(Q) /\ Len(Mapped(f, s)) = n
    BY ONLY <1>1, <1>3, FunctionIsSeq
  <1>5. QED
    BY <1>1, <1>4

(* Two names with a dot between them are cut there.                        *)
LEMMA DotCuts ==
  ASSUME NEW x \in NameText, NEW y \in NameText
  PROVE  Split(x \o (<<"dot">> \o y), "dot") = Split(x, "dot") \o Split(y, "dot")
  <1>1. "dot" \in NameChar
    BY DEF NameChar
  <1>2. QED
    BY <1>1, SplitJoin DEF NameText

LEMMA MappedDot ==
  ASSUME NEW x \in NameText, NEW y \in NameText, NEW f
  PROVE  Mapped(f, x \o (<<"dot">> \o y)) = Mapped(f, x) \o Mapped(f, y)
  <1> DEFINE a == Split(x, "dot")
             b == Split(y, "dot")
             W == NameText
  <1>1. a \in Seq(W) /\ b \in Seq(W)
    BY DotPartsType
  <1>2. Mapped(f, x \o (<<"dot">> \o y)) = EachOf(a \o b, f)
    BY DotCuts DEF Mapped
  <1>3. Mapped(f, x) = EachOf(a, f) /\ Mapped(f, y) = EachOf(b, f)
    BY DEF Mapped
  <1> HIDE DEF a, b, W
  <1>4. EachOf(a \o b, f) = EachOf(a, f) \o EachOf(b, f)
    BY ONLY <1>1, EachConcat
  <1>5. QED
    BY <1>2, <1>3, <1>4

LEMMA QuotedNoDot ==
  ASSUME NEW p \in Seq(NoDot)
  PROVE  InQuotes[p] = Quoted(p) /\ InQuotes[p] \in Seq(NoDot) /\ p \in NameText
  <1>1. "quote" \in NoDot /\ NoDot \subseteq NameChar
    BY DEF NoDot, NameChar
  <1>2. Quoted(p) \in Seq(NoDot) /\ p \in NameText
    BY <1>1, QuotedIs, SeqMonotonic DEF NameText
  <1>3. QED
    BY <1>2 DEF InQuotes

LEMMA ShownInjective ==
  ASSUME NEW u \in NameText, NEW v \in NameText, Shown(u) = Shown(v)
  PROVE  u = v
  <1> DEFINE Q == Seq(NoDot)
             a == Split(u, "dot")
             b == Split(v, "dot")
             x == Mapped(InQuotes, u)
             y == Mapped(InQuotes, v)
  <1>1. /\ x \in Seq(Q) /\ Len(x) = Len(a) /\ \A k \in 1 .. Len(a) : x[k] = InQuotes[a[k]]
        /\ y \in Seq(Q) /\ Len(y) = Len(b) /\ \A k \in 1 .. Len(b) : y[k] = InQuotes[b[k]]
    <2>1. DOMAIN InQuotes = NameText /\ \A p \in Q : InQuotes[p] \in Q
      BY QuotedNoDot DEF InQuotes
    <2>2. \A p \in Seq(NoDot) : InQuotes[p] \in Q
      BY <2>1
    <2> HIDE DEF Q
    <2>3. QED
      BY ONLY u \in NameText, v \in NameText, <2>1, <2>2, MappedIs
  <1>2. /\ a \in Seq(NameText) /\ b \in Seq(NameText)
        /\ Len(a) \in Nat \ {0} /\ Len(b) \in Nat \ {0}
        /\ \A k \in 1 .. Len(a) : a[k] \in Q
        /\ \A k \in 1 .. Len(b) : b[k] \in Q
    BY DotPartsType
  <1>3. "dot" \in NameChar /\ NoDot = NameChar \ {"dot"} /\ "quote" \in NoDot
    BY DEF NoDot, NameChar
  <1>4. x # <<>> /\ y # <<>>
    BY <1>1, <1>2, EmptySeq
  <1>5. /\ Split(Joined(x, <<"dot">>), "dot") = x
        /\ Split(Joined(y, <<"dot">>), "dot") = y
    <2> HIDE DEF x, y
    <2>1. QED
      BY <1>1, <1>3, <1>4, SplitJoined
  <1>6. x = y
    BY <1>5 DEF Shown
  <1> HIDE DEF x, y
  <1>7. Len(a) = Len(b) /\ \A k \in 1 .. Len(a) : a[k] = b[k]
    <2>1. Len(a) = Len(b)
      BY <1>1, <1>6
    <2>2. ASSUME NEW k \in 1 .. Len(a) PROVE a[k] = b[k]
      <3> DEFINE p == a[k]
                 q == b[k]
      <3>1. p \in Seq(NoDot) /\ q \in Seq(NoDot) /\ InQuotes[p] = InQuotes[q]
        BY <1>1, <1>2, <1>6, <2>1
      <3> HIDE DEF p, q, a, b
      <3>2. Quoted(p) = Quoted(q)
        BY <3>1, QuotedNoDot
      <3>3. p = q
        BY <1>3, <3>1, <3>2, QuotedInjective
      <3>4. QED
        BY <3>3 DEF p, q
    <2>3. QED
      BY <2>1, <2>2
  <1> HIDE DEF a, b
  <1>8. a = b
    BY <1>2, <1>7, SeqEqual
  <1>9. Joined(a, <<"dot">>) = u /\ Joined(b, <<"dot">>) = v
    BY <1>3, JoinSplit DEF a, b, NameText
  <1>10. QED
    BY <1>8, <1>9

LEMMA NormalizedIs ==
  ASSUME NEW s \in NameText
  PROVE  Normalized(s) = Joined(Mapped(Cleaned, s), <<"dot">>)
  <1> DEFINE a == Split(s, "dot")
  <1>1. \A k \in DOMAIN a : a[k] \in NameText
    BY DotPartsType
  <1>2. Mapped(Cleaned, s) = [k \in DOMAIN a |-> QuoteIdentifier(Trimmed(a[k], "space"))]
    BY <1>1 DEF Mapped, EachOf, Cleaned
  <1>3. QED
    BY <1>2 DEF Normalized

(* A part without quotes, that neither begins nor ends with a space, only  *)
(* gets its quotes, also if the quotes of its name are beside it.          *)
NoQuote == NameChar \ {"quote"}

Tight(s) == s # <<>> => s[1] # "space" /\ s[Len(s)] # "space"

LEMMA CharsAre == /\ "quote" \in NameChar /\ "space" \in NameChar /\ "dot" \in NameChar
                  /\ "quote" \notin NoQuote /\ NoQuote \subseteq NameChar
                  /\ "dot" \notin NoDot /\ NoDot \subseteq NameChar
                  /\ "dot" \in NoQuote /\ "quote" \in NoDot /\ "space" \in NoDot
                  /\ NoQuote = NameChar \ {"quote"} /\ NoDot = NameChar \ {"dot"}
  BY DEF NoQuote, NoDot, NameChar

LEMMA CleanedIs ==
  ASSUME NEW w \in NameText, w # <<>>, w[1] # "space", w[Len(w)] # "space"
  PROVE  /\ w[1] # "quote" \/ w[Len(w)] # "quote" \/ Len(w) < 2 => Cleaned[w] = InQuotes[w]
         /\ Cleaned[w \o <<"space">>] = Cleaned[w] /\ w \o <<"space">> \in NameText
  <1>1. w \in Seq(NameChar) /\ <<"space">> \in Seq(NameChar)
    BY CharsAre, Single DEF NameText
  <1>2. w \o <<"space">> \in Seq(NameChar)
    BY ONLY <1>1, ConcatProperties
  <1>3. Trimmed(w, "space") = w /\ Trimmed(w \o <<"space">>, "space") = w
    BY <1>1, CharsAre, TrimmedCases
  <1>4. Cleaned[w] = QuoteIdentifier(w) /\ Cleaned[w \o <<"space">>] = QuoteIdentifier(w)
    BY <1>2, <1>3 DEF Cleaned, NameText
  <1>5. InQuotes[w] = Quoted(w)
    BY DEF InQuotes
  <1>6. w[1] # "quote" \/ w[Len(w)] # "quote" \/ Len(w) < 2 => QuoteIdentifier(w) = Quoted(w)
    BY <1>1, LenProperties DEF QuoteIdentifier
  <1>7. QED
    BY <1>2, <1>4, <1>5, <1>6 DEF NameText

LEMMA UnquotedPart ==
  ASSUME NEW p \in Seq(NoQuote), Tight(p)
  PROVE  Cleaned[p] = InQuotes[p]
  <1>1. p \in NameText
    BY CharsAre, SeqMonotonic DEF NameText
  <1>2. CASE p = <<>>
    <2> DEFINE none == <<>>
    <2>1. Len(none) = 0 /\ DOMAIN none = {}
      OBVIOUS
    <2>2. Trimmed(none, "space") = none
      BY <2>1 DEF Trimmed
    <2>3. QuoteIdentifier(none) = Quoted(none)
      BY <2>1 DEF QuoteIdentifier
    <2> HIDE DEF none
    <2>4. p = none
      BY <1>2 DEF none
    <2>5. QED
      BY <1>1, <2>2, <2>3, <2>4 DEF Cleaned, InQuotes
  <1>3. CASE p # <<>>
    <2>1. p[1] # "quote"
      <3>1. 1 \in 1 .. Len(p)
        BY <1>3, LenProperties, EmptySeq
      <3>2. p[1] \in NoQuote
        BY <3>1, ElementOfSeq
      <3>3. QED
        BY <3>2, CharsAre
    <2>2. QED
      BY <1>1, <1>3, <2>1, CleanedIs DEF Tight
  <1>4. QED
    BY <1>2, <1>3

LEMMA QuoteBeside ==
  ASSUME NEW p \in Seq(NoQuote), Tight(p)
  PROVE  /\ Cleaned[<<"quote">> \o p] = InQuotes[<<"quote">> \o p]
         /\ Cleaned[Append(p, "quote")] = InQuotes[Append(p, "quote")]
         /\ Cleaned[Append(Append(p, "quote"), "space")] = InQuotes[Append(p, "quote")]
  <1> DEFINE q == <<"quote">>
             n == Len(p)
             w == q \o p
             v == Append(p, "quote")
  <1>1. /\ p \in Seq(NameChar) /\ q \in Seq(NameChar) /\ n \in Nat /\ Len(q) = 1
        /\ q[1] = "quote" /\ (p = <<>> <=> n = 0)
    BY CharsAre, SeqMonotonic, Single, LenProperties, EmptySeq
  <1>2. \A k \in 1 .. n : p[k] # "quote"
    BY CharsAre, ElementOfSeq
  <1>3. n # 0 => p[1] # "space" /\ p[n] # "space"
    BY <1>1 DEF Tight
  <1> HIDE DEF q
  <1>4. /\ w \in Seq(NameChar) /\ Len(w) = n + 1 /\ w[1] = "quote"
        /\ \A k \in 1 .. n : w[1 + k] = p[k]
    <2>1. p \in Seq(NameChar) /\ q \in Seq(NameChar)
      BY <1>1
    <2>2. /\ q \o p \in Seq(NameChar) /\ Len(q \o p) = Len(q) + Len(p)
          /\ \A k \in 1 .. Len(q) : (q \o p)[k] = q[k]
          /\ \A k \in 1 .. Len(p) : (q \o p)[Len(q) + k] = p[k]
      BY ONLY <2>1, ConcatAt
    <2>3. QED
      BY <1>1, <2>2
  <1>5. /\ v \in Seq(NameChar) /\ Len(v) = n + 1 /\ v[n + 1] = "quote"
        /\ \A k \in 1 .. n : v[k] = p[k]
    BY <1>1, CharsAre, LongerSeq
  <1> HIDE DEF w, v, n
  <1>6. w # <<>> /\ v # <<>>
    BY <1>1, <1>4, <1>5, EmptySeq
  <1>7. Cleaned[w] = InQuotes[w]
    <2>1. n # 0 => w[Len(w)] = p[n] /\ p[n] # "quote"
      <3>1. n # 0 => n \in 1 .. n /\ 1 + n = n + 1
        BY <1>1
      <3>2. QED
        BY <1>2, <1>4, <3>1
    <2>2. w[Len(w)] # "space" /\ (w[Len(w)] # "quote" \/ Len(w) < 2)
      BY <1>1, <1>3, <1>4, <2>1
    <2>3. QED
      BY <1>4, <1>6, <2>2, CleanedIs DEF NameText
  <1>8. Cleaned[v] = InQuotes[v] /\ Cleaned[v \o <<"space">>] = Cleaned[v]
    <2>1. n # 0 => v[1] = p[1] /\ p[1] # "quote"
      BY <1>1, <1>2, <1>5
    <2>2. v[1] # "space" /\ (v[1] # "quote" \/ Len(v) < 2)
      BY <1>1, <1>3, <1>5, <2>1
    <2>3. QED
      BY <1>5, <1>6, <2>2, CleanedIs DEF NameText
  <1>9. Append(v, "space") = v \o <<"space">>
    BY <1>5, CharsAre, AppendIsConcat
  <1>10. QED
    BY <1>7, <1>8, <1>9 DEF w, v, q

(* Without dots a text is one part, and one part is without dots.          *)
LEMMA OnePart ==
  ASSUME NEW s \in Seq(NoDot)
  PROVE  /\ s \in NameText /\ Split(s, "dot") = <<s>>
         /\ \A f : Mapped(f, s) = <<f[s]>>
  <1>1. s \in NameText
    BY CharsAre, SeqMonotonic DEF NameText
  <1>2. Split(s, "dot") = Append(<<>>, s)
    BY CharsAre, SplitFirst DEF Ends
  <1>3. Append(<<>>, s) = <<s>>
    OBVIOUS
  <1>4. \A f : EachOf(<<s>>, f) = <<f[s]>>
    BY DEF EachOf
  <1>5. QED
    BY <1>1, <1>2, <1>3, <1>4 DEF Mapped

LEMMA OnlyPart ==
  ASSUME NEW s \in NameText, Len(Split(s, "dot")) = 1
  PROVE  s \in Seq(NoDot)
  <1> DEFINE p == Split(s, "dot")[1]
  <1>1. Split(s, "dot") \in Seq(NameText) /\ p \in Seq(NoDot) /\ p \in Seq(NameChar)
    BY DotPartsType DEF NameText
  <1>2. Split(s, "dot") = <<p>>
    BY <1>1
  <1> HIDE DEF p
  <1>3. Joined(Append(<<>>, p), <<"dot">>) = p /\ Append(<<>>, p) = <<p>>
    BY <1>1, CharsAre, JoinedOne
  <1>4. Joined(Split(s, "dot"), <<"dot">>) = s
    BY CharsAre, JoinSplit DEF NameText
  <1>5. QED
    BY <1>1, <1>2, <1>3, <1>4

LEMMA SameMapped ==
  ASSUME NEW s, NEW f, NEW g,
         \A k \in DOMAIN Split(s, "dot") : f[Split(s, "dot")[k]] = g[Split(s, "dot")[k]]
  PROVE  Mapped(f, s) = Mapped(g, s)
  BY DEF Mapped, EachOf

TightParts(n) == \A k \in DOMAIN Split(n, "dot") : Tight(Split(n, "dot")[k])

LEMMA UnquotedPartsType ==
  ASSUME NEW n \in Seq(NoQuote)
  PROVE  \A k \in 1 .. Len(Split(n, "dot")) : Split(n, "dot")[k] \in Seq(NoQuote)
  <1> DEFINE R == NoQuote \ {"dot"}
             Q == Seq(NoQuote)
  <1>1. R = NoQuote \ {"dot"} /\ "dot" \in NoQuote
    BY CharsAre
  <1> HIDE DEF R
  <1>2. Split(n, "dot") \in Parts(NoQuote)
    BY ONLY <1>1, n \in Seq(NoQuote), SplitType
  <1>3. Split(n, "dot") \in Seq(Q)
    BY <1>2 DEF Parts
  <1> HIDE DEF Q
  <1>4. \A k \in 1 .. Len(Split(n, "dot")) : Split(n, "dot")[k] \in Q
    BY <1>3, ElementOfSeq
  <1>5. QED
    BY <1>4 DEF Q

LEMMA UnquotedCuts ==
  ASSUME NEW n \in Seq(NoQuote), TightParts(n)
  PROVE  Mapped(Cleaned, n) = Mapped(InQuotes, n)
  <1>1. n \in NameText
    BY CharsAre, SeqMonotonic DEF NameText
  <1>2. \A k \in DOMAIN Split(n, "dot") :
            Cleaned[Split(n, "dot")[k]] = InQuotes[Split(n, "dot")[k]]
    BY <1>1, DotPartsType, UnquotedPartsType, UnquotedPart DEF TightParts
  <1>3. QED
    BY <1>2, SameMapped

(* A name with dots, but no quotes, is quoted as a whole, and cut after.   *)
LEMMA QuotedUnquoted ==
  ASSUME NEW n \in Seq(NoQuote)
  PROVE  /\ n \in NameText /\ <<"quote">> \o n \in NameText
         /\ Quoted(n) = Append(<<"quote">> \o n, "quote") /\ Quoted(n) \in NameText
  <1> DEFINE q == <<"quote">>
  <1>1. n \in Seq(NameChar) /\ q \in Seq(NameChar)
    BY CharsAre, SeqMonotonic, Single
  <1>2. Doubled(n) = n
    BY CharsAre, DoubledPlain
  <1>3. q \o n \in Seq(NameChar)
    BY ONLY <1>1, ConcatProperties
  <1> DEFINE w == q \o n
  <1>4. w \in Seq(NameChar)
    BY <1>3
  <1>5. Quoted(n) = w \o q
    BY <1>2 DEF Quoted
  <1> HIDE DEF w
  <1>6. w \o q = Append(w, "quote") /\ Append(w, "quote") \in Seq(NameChar)
    BY <1>4, CharsAre, AppendIsConcat, AppendProperties
  <1>7. QED
    BY <1>1, <1>4, <1>5, <1>6 DEF NameText, w

LEMMA QuotedPartsAre ==
  ASSUME NEW n \in Seq(NoQuote), n \notin Seq(NoDot), NEW m, m = Len(Split(n, "dot"))
  PROVE  /\ m \in Nat /\ m > 1 /\ Len(Split(Quoted(n), "dot")) = m
         /\ Split(Quoted(n), "dot")[1] = <<"quote">> \o Split(n, "dot")[1]
         /\ \A k \in 2 .. m - 1 : Split(Quoted(n), "dot")[k] = Split(n, "dot")[k]
         /\ Split(Quoted(n), "dot")[m] = Append(Split(n, "dot")[m], "quote")
  <1> DEFINE w == <<"quote">> \o n
             a == Split(n, "dot")
             b == Split(w, "dot")
  <1>1. /\ n \in NameText /\ w \in NameText /\ w \in Seq(NameChar)
        /\ Quoted(n) = Append(w, "quote")
    BY QuotedUnquoted DEF NameText
  <1>2. /\ m \in Nat \ {0} /\ m = Len(a) /\ m # 1
        /\ \A k \in 1 .. m : a[k] \in NameText
    BY <1>1, DotPartsType, OnlyPart
  <1>3. Len(b) = m /\ \A k \in 1 .. m : b[k] = Opening(k, "quote") \o a[k]
    <2>1. OpensFirst(n, "dot", "quote")
      BY <1>1, CharsAre, SplitBefore DEF NameText
    <2>2. QED
      BY <2>1 DEF OpensFirst
  <1> HIDE DEF w, a, b
  <1>4. /\ Len(Split(Append(w, "quote"), "dot")) = m
        /\ Split(Append(w, "quote"), "dot")[m] = Append(b[m], "quote")
        /\ \A k \in 1 .. m - 1 : Split(Append(w, "quote"), "dot")[k] = b[k]
    <2>1. /\ m = Len(Split(w, "dot")) /\ w \in Seq(NameChar)
          /\ "dot" \in NameChar /\ "quote" \in NameChar /\ "quote" # "dot"
      BY <1>1, <1>3, CharsAre DEF b
    <2>2. /\ Len(Split(Append(w, "quote"), "dot")) = m
          /\ Split(Append(w, "quote"), "dot")[m] = Append(Split(w, "dot")[m], "quote")
          /\ \A k \in 1 .. m - 1 : Split(Append(w, "quote"), "dot")[k] = Split(w, "dot")[k]
      BY ONLY <2>1, SplitStays
    <2>3. QED
      BY <2>2 DEF b
  <1>5. \A k \in 2 .. m : b[k] = a[k]
    <2> SUFFICES ASSUME NEW k \in 2 .. m PROVE b[k] = a[k]
      OBVIOUS
    <2>1. k \in 1 .. m /\ k # 1
      BY <1>2
    <2>2. b[k] = <<>> \o a[k]
      BY <1>3, <2>1 DEF Opening
    <2>3. a[k] \in Seq(NameChar)
      BY <1>2, <2>1 DEF NameText
    <2>4. QED
      BY <2>2, <2>3, ConcatEmptySeq
  <1>6. 1 \in 1 .. m /\ m \in 2 .. m /\ 1 \in 1 .. m - 1 /\ m > 1
    <2>1. m \in Nat /\ m # 0 /\ m # 1
      BY <1>2
    <2>2. QED
      BY ONLY <2>1
  <1>7. b[1] = <<"quote">> \o a[1]
    BY <1>3, <1>6 DEF Opening
  <1>8. \A k \in 2 .. m - 1 : k \in 1 .. m - 1 /\ k \in 2 .. m
    BY <1>2
  <1>9. QED
    BY <1>1, <1>2, <1>4, <1>5, <1>6, <1>7, <1>8 DEF a

LEMMA DottedCuts ==
  ASSUME NEW n \in Seq(NoQuote), n \notin Seq(NoDot), TightParts(n)
  PROVE  /\ Mapped(Cleaned, Quoted(n)) = Mapped(InQuotes, Quoted(n))
         /\ Mapped(Cleaned, Quoted(n) \o <<"space">>) = Mapped(InQuotes, Quoted(n))
  <1> DEFINE s == Quoted(n)
             r == Append(s, "space")
             m == Len(Split(n, "dot"))
             a == Split(n, "dot")
             b == Split(s, "dot")
             z == Split(r, "dot")
  <1>1. n \in NameText /\ s \in NameText /\ s \in Seq(NameChar) /\ r = s \o <<"space">>
        /\ r \in NameText
    BY QuotedUnquoted, CharsAre, AppendIsConcat, AppendProperties DEF NameText
  <1>2. /\ m \in Nat /\ m > 1 /\ Len(b) = m
        /\ b[1] = <<"quote">> \o a[1]
        /\ \A k \in 2 .. m - 1 : b[k] = a[k]
        /\ b[m] = Append(a[m], "quote")
    BY QuotedPartsAre
  <1>3. \A k \in 1 .. m : a[k] \in Seq(NoQuote) /\ Tight(a[k])
    BY <1>1, UnquotedPartsType, DotPartsType DEF TightParts
  <1>4. DOMAIN b = 1 .. m /\ DOMAIN z = 1 .. Len(z)
    BY <1>1, <1>2, DotPartsType
  <1>5. /\ Len(z) = m /\ z[m] = Append(b[m], "space")
        /\ \A k \in 1 .. m - 1 : z[k] = b[k]
    <2>1. /\ m = Len(Split(s, "dot")) /\ s \in Seq(NameChar)
          /\ "dot" \in NameChar /\ "space" \in NameChar /\ "space" # "dot"
      BY <1>1, <1>2, CharsAre
    <2> HIDE DEF s, m
    <2>2. QED
      BY ONLY <2>1, SplitStays
  <1> HIDE DEF s, r, m, a, b, z
  <1>6. ASSUME NEW k \in 1 .. m PROVE Cleaned[b[k]] = InQuotes[b[k]]
    <2>1. CASE k = 1
      BY <1>2, <1>3, <2>1, QuoteBeside
    <2>2. CASE k = m
      BY <1>2, <1>3, <2>2, QuoteBeside
    <2>3. CASE k # 1 /\ k # m
      <3>1. k \in 2 .. m - 1
        BY <1>2, <2>3
      <3>2. QED
        BY <1>2, <1>3, <3>1, UnquotedPart
    <2>4. QED
      BY <2>1, <2>2, <2>3
  <1>7. ASSUME NEW k \in 1 .. m PROVE Cleaned[z[k]] = InQuotes[b[k]]
    <2>1. CASE k = m
      <3>1. b[m] = Append(a[m], "quote") /\ z[m] = Append(Append(a[m], "quote"), "space")
        BY <1>2, <1>5
      <3>2. a[m] \in Seq(NoQuote) /\ Tight(a[m])
        BY <1>2, <1>3
      <3>3. QED
        BY <2>1, <3>1, <3>2, QuoteBeside
    <2>2. CASE k # m
      <3>1. k \in 1 .. m - 1
        BY <1>2, <2>2
      <3>2. QED
        BY <1>5, <1>6, <3>1
    <2>3. QED
      BY <2>1, <2>2
  <1>8. EachOf(b, Cleaned) = EachOf(b, InQuotes)
    BY <1>4, <1>6 DEF EachOf
  <1>9. EachOf(z, Cleaned) = EachOf(b, InQuotes)
    BY <1>4, <1>5, <1>7 DEF EachOf
  <1>10. QED
    BY <1>1, <1>8, <1>9 DEF Mapped, s, b, z

-----------------------------------------------------------------------------
(* Names without dots and opening parentheses, that neither begin nor end  *)
(* with a space.  Quotes, and what else wants quotes, may be in them.      *)
NameLetter == NameChar \ {"dot", "open"}

PlainName(n) ==
    n \in Seq(NameLetter) /\ n # <<>> /\ n[1] # "space" /\ n[Len(n)] # "space"

LEMMA PlainHasQuote == /\ NameLetter \subseteq NameChar /\ "quote" \in NameLetter
                       /\ "space" \in NameLetter /\ "dot" \in NameChar
                       /\ "dot" \notin NameLetter /\ "open" \notin NameLetter
  BY DEF NameLetter, NameChar

(* A name, as pg_dump writes it, as `table ls` prints it and, if it has no *)
(* quotes, as it is typed, becomes the same quoted name.                   *)
LEMMA NameBecomes ==
  ASSUME NEW n, PlainName(n)
  PROVE  /\ PlainName(FmtId(n)) /\ QuoteIdentifier(FmtId(n)) = Quoted(n)
         /\ PlainName(Quoted(n)) /\ QuoteIdentifier(Quoted(n)) = Quoted(n)
         /\ "quote" \notin ToSet(n) => QuoteIdentifier(n) = Quoted(n)
  <1>1. n \in Seq(NameLetter) /\ n # <<>> /\ Len(n) \in Nat /\ Len(n) >= 1
    BY EmptySeq DEF PlainName
  <1>2. /\ Quoted(n) \in Seq(NameLetter) /\ Len(Quoted(n)) >= 2
        /\ Quoted(n)[1] = "quote" /\ Quoted(n)[Len(Quoted(n))] = "quote"
        /\ QuoteIdentifier(Quoted(n)) = Quoted(n)
    BY <1>1, PlainHasQuote, QuotedIs
  <1>3. PlainName(Quoted(n))
    <2>1. Quoted(n) # <<>>
      BY <1>2, EmptySeq
    <2>2. QED
      BY <1>2, <2>1 DEF PlainName
  <1>4. n[1] # "quote" => QuoteIdentifier(n) = Quoted(n)
    BY DEF QuoteIdentifier
  <1>5. n[1] \in ToSet(n)
    <2>1. 1 \in DOMAIN n
      BY <1>1, LenProperties
    <2>2. QED
      BY <2>1 DEF ToSet
  <1>6. CASE ToSet(n) \subseteq {"a"}
    <2>1. n[1] = "a" /\ FmtId(n) = n
      BY <1>5, <1>6 DEF FmtId
    <2>2. QED
      BY <1>2, <1>3, <1>4, <2>1
  <1>7. CASE ~ (ToSet(n) \subseteq {"a"})
    <2>1. FmtId(n) = Quoted(n)
      BY <1>7 DEF FmtId
    <2>2. QED
      BY <1>2, <1>3, <1>4, <1>5, <2>1
  <1>8. QED
    BY <1>6, <1>7

(* A name that is found has no opening parenthesis in it, and no space at  *)
(* its ends or at a dot.  What it is looked for as is itself, or the name  *)
(* in quotes if it has dots.                                               *)
FindableName(n) == n \in Seq(NameChar \ {"open"}) /\ n # <<>> /\ TightParts(n)

Spelling(n) == IF n \in Seq(NoDot) THEN n ELSE Quoted(n)

LEMMA FindableType ==
  ASSUME NEW n, FindableName(n)
  PROVE  /\ n \in NameText /\ Quoted(n) \in NameText /\ Spelling(n) \in NameText
         /\ FmtId(n) \in Seq(NameChar \ {"open"}) /\ FmtId(n) \in NameText
         /\ n \in Seq(NoDot) => PlainName(n)
  <1> DEFINE S == NameChar \ {"open"}
  <1>1. n \in Seq(S) /\ "quote" \in S /\ S \subseteq NameChar
    BY DEF FindableName, NameChar
  <1>2. Quoted(n) \in Seq(S)
    BY <1>1, QuotedIs
  <1>3. FmtId(n) \in Seq(S)
    BY <1>1, <1>2 DEF FmtId
  <1>4. Seq(S) \subseteq NameText
    BY <1>1, SeqMonotonic DEF NameText
  <1>5. ASSUME n \in Seq(NoDot) PROVE PlainName(n)
    <2>1. NoDot \cap S = NameLetter
      BY DEF NoDot, NameLetter
    <2>2. n \in Seq(NameLetter)
      <3> HIDE DEF S
      <3>1. n \in Seq(NoDot \cap S)
        BY <1>1, <1>5, SeqBoth
      <3>2. QED
        BY <2>1, <3>1
    <2>3. Split(n, "dot") = <<n>> /\ 1 \in DOMAIN <<n>> /\ <<n>>[1] = n
      BY <1>5, OnePart
    <2>4. Tight(n) /\ n # <<>>
      BY <2>3 DEF FindableName, TightParts
    <2>5. QED
      BY <2>2, <2>4 DEF PlainName, Tight
  <1>6. QED
    BY <1>1, <1>2, <1>3, <1>4, <1>5 DEF Spelling

(* A name, as pg_dump writes it, as `table ls` prints it and, if it has no *)
(* quotes, as it is typed, is cut into the same parts.                     *)
LEMMA PlainCuts ==
  ASSUME NEW n, PlainName(n), n \in Seq(NoDot)
  PROVE  /\ Mapped(Cleaned, FmtId(n)) = Mapped(InQuotes, n)
         /\ Mapped(Cleaned, FmtId(n) \o <<"space">>) = Mapped(InQuotes, n)
         /\ Mapped(Cleaned, Quoted(n)) = Mapped(InQuotes, n)
  <1>1. ASSUME NEW x, PlainName(x), QuoteIdentifier(x) = Quoted(n)
        PROVE  /\ Mapped(Cleaned, x) = Mapped(InQuotes, n)
               /\ Mapped(Cleaned, x \o <<"space">>) = Mapped(InQuotes, n)
    <2>1. /\ x \in Seq(NoDot) /\ x \in NameText /\ <<"space">> \in Seq(NoDot)
          /\ x # <<>> /\ x[1] # "space" /\ x[Len(x)] # "space"
      <3>1. NameLetter \subseteq NoDot /\ NameLetter \subseteq NameChar
        BY DEF NameLetter, NoDot
      <3>2. x \in Seq(NameLetter)
        BY <1>1 DEF PlainName
      <3>3. QED
        BY <1>1, <3>1, <3>2, SeqMonotonic, CharsAre, Single DEF PlainName, NameText
    <2>2. x \o <<"space">> \in Seq(NoDot)
      BY ONLY <2>1, ConcatProperties
    <2>3. Trimmed(x, "space") = x
      BY <2>1, CharsAre, TrimmedCases DEF NameText
    <2>4. Cleaned[x] = Quoted(n) /\ Cleaned[x \o <<"space">>] = Quoted(n)
      <3>1. Cleaned[x] = QuoteIdentifier(x)
        BY <2>1, <2>3 DEF Cleaned
      <3>2. Cleaned[x \o <<"space">>] = Cleaned[x]
        BY <2>1, CleanedIs
      <3>3. QED
        BY <1>1, <3>1, <3>2
    <2>5. Mapped(Cleaned, x) = <<Quoted(n)>> /\ Mapped(Cleaned, x \o <<"space">>) = <<Quoted(n)>>
      BY <2>1, <2>2, <2>4, OnePart
    <2>6. Mapped(InQuotes, n) = <<Quoted(n)>>
      BY OnePart, QuotedNoDot
    <2>7. QED
      BY <2>5, <2>6
  <1>2. QED
    BY <1>1, NameBecomes

LEMMA NameCuts ==
  ASSUME NEW n, FindableName(n), n \in Seq(NoDot) \/ n \in Seq(NoQuote)
  PROVE  /\ Mapped(Cleaned, FmtId(n)) = Mapped(InQuotes, Spelling(n))
         /\ Mapped(Cleaned, FmtId(n) \o <<"space">>) = Mapped(InQuotes, Spelling(n))
         /\ Mapped(Cleaned, Quoted(n)) = Mapped(InQuotes, Spelling(n))
         /\ n \in Seq(NoQuote) => Mapped(Cleaned, n) = Mapped(InQuotes, n)
  <1>1. n \in Seq(NoQuote) => Mapped(Cleaned, n) = Mapped(InQuotes, n)
    BY UnquotedCuts DEF FindableName
  <1>2. CASE n \in Seq(NoDot)
    BY <1>1, <1>2, FindableType, PlainCuts DEF Spelling
  <1>3. CASE n \notin Seq(NoDot)
    <2>1. FmtId(n) = Quoted(n)
      <3> SUFFICES ASSUME ToSet(n) \subseteq {"a"} PROVE FALSE
        BY DEF FmtId
      <3>1. /\ n \in NameText /\ Len(n) \in Nat /\ DOMAIN n = 1 .. Len(n)
            /\ n = [k \in 1 .. Len(n) |-> n[k]]
        BY FindableType, LenProperties DEF NameText
      <3>2. \A k \in 1 .. Len(n) : n[k] = "a"
        BY <3>1 DEF ToSet
      <3>3. "a" \in NoDot
        BY DEF NoDot, NameChar
      <3>4. n \in [1 .. Len(n) -> NoDot]
        BY <3>1, <3>2, <3>3
      <3>5. QED
        BY <1>3, <3>1, <3>4, FunctionIsSeq
    <2>2. Spelling(n) = Quoted(n)
      BY <1>3 DEF Spelling
    <2>3. QED
      BY <1>1, <1>3, <2>1, <2>2, DottedCuts DEF FindableName
  <1>4. QED
    BY <1>2, <1>3

(* Two names and the dot between them.                                     *)
LEMMA DottedNormalized ==
  ASSUME NEW x \in NameText, NEW y \in NameText, NEW u \in NameText, NEW v \in NameText,
         Mapped(Cleaned, x) = Mapped(InQuotes, u), Mapped(Cleaned, y) = Mapped(InQuotes, v)
  PROVE  /\ x \o (<<"dot">> \o y) \in NameText
         /\ Normalized(x \o (<<"dot">> \o y)) = Shown(u \o (<<"dot">> \o v))
  <1>1. x \o (<<"dot">> \o y) \in NameText
    <2>1. x \in Seq(NameChar) /\ y \in Seq(NameChar) /\ <<"dot">> \in Seq(NameChar)
      BY CharsAre, Single DEF NameText
    <2>2. <<"dot">> \o y \in Seq(NameChar)
      BY ONLY <2>1, ConcatProperties
    <2>3. x \o (<<"dot">> \o y) \in Seq(NameChar)
      BY ONLY <2>1, <2>2, ConcatProperties
    <2>4. QED
      BY <2>3 DEF NameText
  <1>2. Mapped(Cleaned, x \o (<<"dot">> \o y)) = Mapped(InQuotes, u \o (<<"dot">> \o v))
    <2>1. Mapped(Cleaned, x \o (<<"dot">> \o y)) = Mapped(Cleaned, x) \o Mapped(Cleaned, y)
      BY MappedDot
    <2>2. Mapped(InQuotes, u \o (<<"dot">> \o v)) = Mapped(InQuotes, u) \o Mapped(InQuotes, v)
      BY MappedDot
    <2>3. QED
      BY <2>1, <2>2
  <1>3. QED
    BY <1>1, <1>2, NormalizedIs DEF Shown

(* A text of two parts was put together in one way only.                   *)
LEMMA OneDot ==
  ASSUME NEW p \in NameText, NEW q \in NameText, NEW v \in Seq(NoDot), NEW w \in Seq(NoDot),
         p \o (<<"dot">> \o q) = v \o (<<"dot">> \o w)
  PROVE  p = v /\ q = w
  <1> DEFINE a == Split(p, "dot")
             b == Split(q, "dot")
  <1>1. a \o b = <<v, w>>
    <2>1. Split(p \o (<<"dot">> \o q), "dot") = a \o b
      BY DotCuts
    <2>2. Split(v \o (<<"dot">> \o w), "dot") = <<v, w>>
      BY ONLY v \in Seq(NoDot), w \in Seq(NoDot), CharsAre, SplitTwo
    <2>3. QED
      BY <2>1, <2>2
  <1>2. /\ a \in Seq(NameText) /\ b \in Seq(NameText)
        /\ Len(a) \in Nat \ {0} /\ Len(b) \in Nat \ {0}
    BY DotPartsType
  <1>3. Len(<<v, w>>) = 2
    OBVIOUS
  <1> HIDE DEF a, b
  <1>4. Len(a) + Len(b) = 2
    <2>1. Len(a \o b) = Len(a) + Len(b)
      BY <1>2, ConcatProperties
    <2>2. QED
      BY <1>1, <1>3, <2>1
  <1>5. Len(a) = 1 /\ Len(b) = 1
    BY <1>2, <1>4
  <1>6. p \in Seq(NoDot) /\ q \in Seq(NoDot)
    BY <1>5, OnlyPart DEF a, b
  <1>7. a = <<p>> /\ b = <<q>>
    BY <1>6, OnePart DEF a, b
  <1>8. <<p>> \o <<q>> = <<p, q>>
    BY Pair
  <1>9. QED
    BY <1>1, <1>7, <1>8

(* A text up to the first of its separators.                               *)
LEMMA FirstCut ==
  ASSUME NEW S, NEW c \in S, NEW R, R = S \ {c},
         NEW p \in Seq(R), NEW v \in Seq(R), NEW x \in Seq(S), NEW y \in Seq(S),
         p \o (<<c>> \o x) = v \o (<<c>> \o y)
  PROVE  p = v
  <1>1. ASSUME NEW r \in Seq(R), NEW z \in Seq(S)
        PROVE  Split(r \o (<<c>> \o z), c)[1] = r
    <2> DEFINE Q == Seq(S)
               b == Split(z, c)
    <2>1. r \in Seq(S) /\ c \notin R /\ R \subseteq S
      BY SeqMonotonic
    <2>2. Split(r \o (<<c>> \o z), c) = Split(r, c) \o b
      BY <2>1, SplitJoin
    <2>3. Split(r, c) = Append(<<>>, r)
      BY ONLY <2>1, r \in Seq(R), SplitFirst DEF Ends
    <2>4. b \in Parts(S)
      BY SplitType
    <2>5. Append(<<>>, r) = <<r>> /\ Len(<<r>>) = 1 /\ <<r>>[1] = r
      OBVIOUS
    <2>6. <<r>> \in Seq(Q) /\ b \in Seq(Q)
      BY <2>1, <2>4 DEF Parts
    <2> HIDE DEF Q, b
    <2>7. \A k \in 1 .. Len(<<r>>) : (<<r>> \o b)[k] = <<r>>[k]
      BY ONLY <2>6, ConcatAt
    <2>8. (<<r>> \o b)[1] = r
      BY <2>5, <2>7
    <2>9. QED
      BY <2>2, <2>3, <2>5, <2>8
  <1>2. QED
    BY <1>1

-----------------------------------------------------------------------------
(* The statement up to its first opening parenthesis.                      *)
LEMMA OpenAt ==
  ASSUME NEW h \in Seq(NameChar \ {"open"}), NEW r \in Seq(NameChar)
  PROVE  LET s == (h \o <<"space", "open">>) \o r IN
         FirstOpen(s) = Len(h) + 2 /\ SubSeq(s, 1, FirstOpen(s) - 1) = h \o <<"space">>
  <1> DEFINE mark == <<"space", "open">>
             space == <<"space">>
             s == (h \o mark) \o r
             n == Len(h)
  <1>1. /\ h \in Seq(NameChar) /\ mark \in Seq(NameChar) /\ Len(mark) = 2
        /\ mark[1] = "space" /\ mark[2] = "open"
        /\ space \in Seq(NameChar) /\ Len(space) = 1 /\ space[1] = "space"
        /\ n \in Nat /\ Len(r) \in Nat
    <2>1. "space" \in NameChar /\ "open" \in NameChar
      BY DEF NameChar
    <2>2. h \in Seq(NameChar)
      BY SeqMonotonic
    <2>3. QED
      BY <2>1, <2>2, LenProperties
  <1>2. \A k \in 1 .. n : h[k] # "open"
    BY ElementOfSeq
  <1> HIDE DEF mark, space, s, n
  <1>3. /\ h \o mark \in Seq(NameChar) /\ Len(h \o mark) = n + 2
        /\ \A k \in 1 .. n : (h \o mark)[k] = h[k]
        /\ (h \o mark)[n + 1] = "space" /\ (h \o mark)[n + 2] = "open"
    <2>1. 1 \in 1 .. 2 /\ 2 \in 1 .. 2
      OBVIOUS
    <2>2. /\ h \o mark \in Seq(NameChar) /\ Len(h \o mark) = n + 2
          /\ \A k \in 1 .. n : (h \o mark)[k] = h[k]
          /\ \A k \in 1 .. 2 : (h \o mark)[n + k] = mark[k]
      <3>0. h \in Seq(NameChar) /\ mark \in Seq(NameChar)
        BY <1>1
      <3>1. /\ h \o mark \in Seq(NameChar) /\ Len(h \o mark) = Len(h) + Len(mark)
            /\ \A k \in 1 .. Len(h) : (h \o mark)[k] = h[k]
            /\ \A k \in 1 .. Len(mark) : (h \o mark)[Len(h) + k] = mark[k]
        BY ONLY <3>0, ConcatAt
      <3>2. QED
        BY ONLY <1>1, <3>1 DEF n
    <2>3. QED
      BY <1>1, <2>1, <2>2
  <1>4. /\ s \in Seq(NameChar) /\ Len(s) = n + 2 + Len(r)
        /\ \A k \in 1 .. n + 2 : s[k] = (h \o mark)[k]
    <2>1. h \o mark \in Seq(NameChar) /\ r \in Seq(NameChar)
      BY <1>3
    <2>2. /\ s \in Seq(NameChar) /\ Len(s) = Len(h \o mark) + Len(r)
          /\ \A k \in 1 .. Len(h \o mark) : s[k] = (h \o mark)[k]
      BY ONLY <2>1, ConcatAt DEF s
    <2>3. QED
      BY <1>3, <2>2
  <1>5. /\ \A k \in 1 .. n : s[k] = h[k]
        /\ s[n + 1] = "space" /\ s[n + 2] = "open"
    <2>1. \A k \in 1 .. n : k \in 1 .. n + 2
      BY <1>1
    <2>2. n + 1 \in 1 .. n + 2 /\ n + 2 \in 1 .. n + 2
      BY <1>1
    <2>3. QED
      BY ONLY <1>3, <1>4, <2>1, <2>2
  <1>6. \A k \in 1 .. n + 1 : s[k] # "open"
    BY SMTT(40), <1>1, <1>2, <1>5
  <1>7. FirstOpen(s) = n + 2
    <2> DEFINE I == {k \in 1 .. Len(s) : s[k] = "open"}
    <2>1. FirstOpen(s) = IF I # {} THEN CHOOSE k \in I : \A m \in I : k <= m ELSE 0
      BY DEF FirstOpen, SelectInSeq, Min
    <2>2. n + 2 \in I
      BY <1>1, <1>4, <1>5
    <2>3. \A k \in I : k \in Nat /\ n + 2 <= k
      BY <1>1, <1>4, <1>6
    <2> HIDE DEF I
    <2>4. \A k \in I : (\A m \in I : k <= m) => k = n + 2
      BY <1>1, <2>2, <2>3
    <2>5. QED
      BY <2>1, <2>2, <2>3, <2>4
  <1>8. SubSeq(s, 1, n + 1) = h \o space
    <2>1. /\ h \o space \in Seq(NameChar) /\ Len(h \o space) = n + 1
          /\ \A k \in 1 .. n : (h \o space)[k] = h[k]
          /\ (h \o space)[n + 1] = "space"
      <3>1. h \in Seq(NameChar) /\ space \in Seq(NameChar)
        BY <1>1
      <3>2. /\ h \o space \in Seq(NameChar) /\ Len(h \o space) = Len(h) + Len(space)
            /\ \A k \in 1 .. Len(h) : (h \o space)[k] = h[k]
            /\ \A k \in 1 .. Len(space) : (h \o space)[Len(h) + k] = space[k]
        BY ONLY <3>1, ConcatAt
      <3>3. 1 \in 1 .. 1
        OBVIOUS
      <3>4. QED
        BY ONLY <1>1, <3>2, <3>3 DEF n
    <2>2. \A k \in 1 .. n + 1 : s[k] \in NameChar
      BY <1>1, <1>4, ElementOfSeq
    <2>3. /\ SubSeq(s, 1, n + 1) \in Seq(NameChar)
          /\ Len(SubSeq(s, 1, n + 1)) = n + 1
          /\ \A k \in 1 .. n + 1 : SubSeq(s, 1, n + 1)[k] = s[k]
      <3>1. /\ SubSeq(s, 1, n + 1) \in Seq(NameChar)
            /\ Len(SubSeq(s, 1, n + 1)) = IF 1 <= n + 1 THEN (n + 1) - 1 + 1 ELSE 0
            /\ \A k \in 1 .. (n + 1) - 1 + 1 : SubSeq(s, 1, n + 1)[k] = s[1 + k - 1]
        BY <1>1, <2>2, SubSeqProperties
      <3>2. QED
        BY <1>1, <3>1
    <2>4. \A k \in 1 .. n + 1 : SubSeq(s, 1, n + 1)[k] = (h \o space)[k]
      BY SMTT(40), <1>1, <1>5, <2>1, <2>3
    <2>5. QED
      BY <2>1, <2>3, <2>4, SeqEqual
  <1>9. FirstOpen(s) - 1 = n + 1
    BY <1>1, <1>7
  <1>10. QED
    BY <1>7, <1>8, <1>9 DEF s, n, mark, space

-----------------------------------------------------------------------------
(* The tables of a dump, when they can be found: their names may have      *)
(* quotes in them, or dots, but no table has both.                         *)
FindableTable(t) ==
    /\ FindableName(t.namespace) /\ FindableName(t.tag)
    /\ \/ t.namespace \in Seq(NoDot) /\ t.tag \in Seq(NoDot)
       \/ Unquoted(t)

FindableTables == \A c \in Catalogs : \A e \in DOMAIN c : FindableTable(c[e])

LEMMA JoinedType ==
  ASSUME NEW parts, NEW separator \in Seq(NameChar), NEW n \in Nat,
         DOMAIN parts = 1 .. n, \A e \in 1 .. n : parts[e] \in Seq(NameChar)
  PROVE  Joined(parts, separator) \in Seq(NameChar)
  <1> DEFINE f == [e \in 1 .. n |-> (IF e = 1 THEN <<>> ELSE separator) \o parts[e]]
             Q == Seq(NameChar)
  <1>1. \A e \in 1 .. n : (IF e = 1 THEN <<>> ELSE separator) \o parts[e] \in Q
    <2> SUFFICES ASSUME NEW e \in 1 .. n
                 PROVE  (IF e = 1 THEN <<>> ELSE separator) \o parts[e] \in Q
      OBVIOUS
    <2>1. parts[e] \in Seq(NameChar) /\ (IF e = 1 THEN <<>> ELSE separator) \in Seq(NameChar)
      BY EmptySeq
    <2>2. QED
      BY ONLY <2>1, ConcatProperties
  <1> HIDE DEF Q
  <1>2. f \in [1 .. n -> Q]
    BY <1>1
  <1>3. Joined(parts, separator) = FlattenSeq(f)
    BY DEF Joined
  <1> HIDE DEF f
  <1>4. f \in Seq(Q)
    BY <1>2, FunctionIsSeq
  <1>5. QED
    BY <1>3, <1>4, FlattenType DEF Q

LEMMA FmtIdType ==
  ASSUME NEW n \in Seq(NameChar)
  PROVE  FmtId(n) \in Seq(NameChar)
  BY PlainHasQuote, QuotedIs DEF FmtId

(* The two names of a table with a dot between them.                       *)
LEMMA DottedIs ==
  ASSUME NEW t, FindableName(t.namespace), FindableName(t.tag)
  PROVE  /\ QualifiedName(t) = Quoted(t.namespace) \o (<<"dot">> \o Quoted(t.tag))
         /\ Typed(t) = t.namespace \o (<<"dot">> \o t.tag)
  <1> DEFINE dot == <<"dot">>
             p == t.namespace
             q == t.tag
             x == Quoted(p)
             y == Quoted(q)
  <1>1. /\ p \in Seq(NameChar) /\ q \in Seq(NameChar) /\ dot \in Seq(NameChar)
        /\ x \in Seq(NameChar) /\ y \in Seq(NameChar)
    BY FindableType, CharsAre, Single DEF NameText
  <1>2. QualifiedName(t) = (x \o dot) \o y /\ Typed(t) = (p \o dot) \o q
    BY DEF QualifiedName, Typed
  <1> HIDE DEF dot, p, q, x, y
  <1>3. (x \o dot) \o y = x \o (dot \o y)
    <2>1. x \in Seq(NameChar) /\ dot \in Seq(NameChar) /\ y \in Seq(NameChar)
      BY <1>1
    <2>2. QED
      BY ONLY <2>1, ConcatAssociative
  <1>4. (p \o dot) \o q = p \o (dot \o q)
    <2>1. p \in Seq(NameChar) /\ dot \in Seq(NameChar) /\ q \in Seq(NameChar)
      BY <1>1
    <2>2. QED
      BY ONLY <2>1, ConcatAssociative
  <1>5. QED
    BY <1>2, <1>3, <1>4 DEF dot, p, q, x, y

(* Without quotes in a text there are none on either side of a dot.        *)
LEMMA UnquotedSides ==
  ASSUME NEW p \in NameText, NEW q \in NameText, "quote" \notin ToSet(p \o (<<"dot">> \o q))
  PROVE  p \in Seq(NoQuote) /\ q \in Seq(NoQuote)
  <1> DEFINE dot == <<"dot">>
             r == dot \o q
             s == p \o r
  <1>1. p \in Seq(NameChar) /\ q \in Seq(NameChar) /\ dot \in Seq(NameChar)
    BY CharsAre, Single DEF NameText
  <1> HIDE DEF dot
  <1>2. /\ r \in Seq(NameChar) /\ Len(r) = Len(dot) + Len(q)
        /\ \A k \in 1 .. Len(q) : r[Len(dot) + k] = q[k]
    BY ONLY <1>1, ConcatAt
  <1> HIDE DEF r
  <1>3. /\ s \in Seq(NameChar) /\ Len(s) = Len(p) + Len(r)
        /\ \A k \in 1 .. Len(p) : s[k] = p[k]
        /\ \A k \in 1 .. Len(r) : s[Len(p) + k] = r[k]
    <2>1. p \in Seq(NameChar) /\ r \in Seq(NameChar)
      BY <1>1, <1>2
    <2>2. QED
      BY ONLY <2>1, ConcatAt
  <1>4. Len(p) \in Nat /\ Len(q) \in Nat /\ Len(dot) \in Nat /\ Len(r) \in Nat
    BY <1>1, <1>2, LenProperties
  <1>5. \A k \in 1 .. Len(s) : s[k] # "quote"
    BY <1>3, LenProperties DEF ToSet, r, dot
  <1> HIDE DEF s
  <1>6. \A k \in 1 .. Len(p) : p[k] # "quote"
    BY <1>3, <1>4, <1>5
  <1>7. ASSUME NEW k \in 1 .. Len(q) PROVE q[k] # "quote"
    <2>1. Len(dot) + k \in 1 .. Len(r) /\ Len(p) + (Len(dot) + k) \in 1 .. Len(s)
      BY <1>2, <1>3, <1>4
    <2>2. s[Len(p) + (Len(dot) + k)] = q[k]
      BY <1>2, <1>3, <2>1
    <2>3. QED
      BY <1>5, <2>1, <2>2
  <1>8. ASSUME NEW t \in Seq(NameChar), \A k \in 1 .. Len(t) : t[k] # "quote"
        PROVE  t \in Seq(NoQuote)
    <2>1. Len(t) \in Nat /\ t = [k \in 1 .. Len(t) |-> t[k]]
      BY LenProperties
    <2>2. \A k \in 1 .. Len(t) : t[k] \in NoQuote
      BY <1>8, CharsAre, ElementOfSeq
    <2>3. t \in [1 .. Len(t) -> NoQuote]
      BY <2>1, <2>2
    <2>4. QED
      BY ONLY <2>1, <2>3, FunctionIsSeq
  <1>9. QED
    BY <1>1, <1>6, <1>7, <1>8

(* The statement: the names of the table, and the list of its columns.     *)
NamesText(t) == (FmtId(t.namespace) \o <<"dot">>) \o FmtId(t.tag)

ListText(t) == Joined([k \in DOMAIN t.columns |-> FmtId(t.columns[k])], <<"comma", "space">>)

LEMMA StatementIs ==
  ASSUME NEW t, FindableName(t.namespace), FindableName(t.tag), t.columns \in Seq(Name)
  PROVE  /\ NamesText(t) \in Seq(NameChar \ {"open"}) /\ ListText(t) \in Seq(NameChar)
         /\ Statement(t) = (NamesText(t) \o <<"space", "open">>) \o (ListText(t) \o <<"close">>)
         /\ NamesText(t) \o <<"space">> =
                FmtId(t.namespace) \o (<<"dot">> \o (FmtId(t.tag) \o <<"space">>))
  <1> DEFINE x == FmtId(t.namespace)
             y == FmtId(t.tag)
             dot == <<"dot">>
             space == <<"space">>
             mark == <<"space", "open">>
             close == <<"close">>
             names == [k \in DOMAIN t.columns |-> FmtId(t.columns[k])]
             list == Joined(names, <<"comma", "space">>)
             h == (x \o dot) \o y
             r == list \o close
  <1>1. x \in Seq(NameChar \ {"open"}) /\ y \in Seq(NameChar \ {"open"})
    BY FindableType
  <1>2. list \in Seq(NameChar)
    <2>1. /\ DOMAIN t.columns = 1 .. Len(t.columns) /\ Len(t.columns) \in Nat
          /\ \A k \in 1 .. Len(t.columns) : t.columns[k] \in Name
      BY LenProperties, ElementOfSeq
    <2>2. Name \subseteq Seq(NameChar)
      BY DEF Name
    <2>3. \A k \in 1 .. Len(t.columns) : FmtId(t.columns[k]) \in Seq(NameChar)
      BY ONLY <2>1, <2>2, FmtIdType
    <2>4. <<"comma", "space">> \in Seq(NameChar)
      BY DEF NameChar
    <2>5. QED
      BY <2>1, <2>3, <2>4, JoinedType
  <1>3. close \in Seq(NameChar) /\ mark \in Seq(NameChar)
    BY DEF NameChar
  <1>4. /\ x \in Seq(NameChar \ {"open"}) /\ dot \in Seq(NameChar \ {"open"})
        /\ y \in Seq(NameChar \ {"open"}) /\ space \in Seq(NameChar \ {"open"})
    <2>1. dot \in Seq(NameChar \ {"open"}) /\ space \in Seq(NameChar \ {"open"})
      BY DEF NameChar
    <2>2. QED
      BY <1>1, <2>1
  <1>5. Statement(t) = (((h \o mark) \o list) \o close)
    BY DEF Statement
  <1> HIDE DEF list, names, x, y
  <1>6. h \in Seq(NameChar \ {"open"}) /\ r \in Seq(NameChar)
    <2> HIDE DEF dot, close
    <2>1. x \o dot \in Seq(NameChar \ {"open"})
      BY <1>4, ConcatProperties
    <2>2. QED
      BY ONLY <1>2, <1>3, <1>4, <2>1, ConcatProperties
  <1>7. Statement(t) = (h \o mark) \o r
    <2> HIDE DEF h, mark, close
    <2>1. h \in Seq(NameChar)
      BY <1>6, SeqMonotonic
    <2>2. h \o mark \in Seq(NameChar)
      BY ONLY <2>1, <1>3, ConcatProperties
    <2> DEFINE head == h \o mark
    <2>3. head \in Seq(NameChar) /\ list \in Seq(NameChar) /\ close \in Seq(NameChar)
      BY <1>2, <1>3, <2>2
    <2> HIDE DEF head
    <2>4. (head \o list) \o close = head \o (list \o close)
      BY ONLY SMTT(40), <2>3, ConcatAssociative
    <2>5. QED
      BY <1>5, <2>4 DEF head
  <1> HIDE DEF h, r
  <1>9. h \o space = x \o (dot \o (y \o space))
    <2> HIDE DEF dot, space
    <2>1. h \o space = (x \o dot) \o (y \o space)
      <3>1. x \o dot \in Seq(NameChar \ {"open"})
        BY ONLY <1>4, ConcatProperties
      <3>2. QED
        BY ONLY SMTT(40), <1>4, <3>1, ConcatAssociative DEF h
    <2>2. y \o space \in Seq(NameChar \ {"open"})
      BY ONLY <1>4, ConcatProperties
    <2> DEFINE z == y \o space
    <2>3. z \in Seq(NameChar \ {"open"})
      BY <2>2
    <2> HIDE DEF z
    <2>4. (x \o dot) \o z = x \o (dot \o z)
      BY ONLY SMTT(40), <1>4, <2>3, ConcatAssociative
    <2>5. QED
      BY <2>1, <2>4 DEF z
  <1>10. NamesText(t) = h /\ ListText(t) = list
    BY DEF NamesText, ListText, h, list, names, x, y
  <1>11. QED
    BY <1>2, <1>6, <1>7, <1>9, <1>10 DEF r, x, y

(* The two names of a table, as they are looked for.                       *)
Spelled(t) == Spelling(t.namespace) \o (<<"dot">> \o Spelling(t.tag))

LEMMA TableNames ==
  ASSUME NEW t, FindableTable(t), NEW n, n \in {t.namespace, t.tag}
  PROVE  /\ FindableName(n) /\ n \in NameText /\ n # <<>>
         /\ n \in Seq(NoDot) \/ n \in Seq(NoQuote)
         /\ Unquoted(t) => n \in Seq(NoQuote)
  <1>1. t.namespace \in NameText /\ t.tag \in NameText
    BY FindableType DEF FindableTable
  <1>2. ASSUME Unquoted(t) PROVE t.namespace \in Seq(NoQuote) /\ t.tag \in Seq(NoQuote)
    <2>1. "quote" \notin ToSet(t.namespace \o (<<"dot">> \o t.tag))
      BY <1>2, DottedIs DEF Unquoted, FindableTable
    <2>2. QED
      BY <1>1, <2>1, UnquotedSides
  <1>3. QED
    BY <1>1, <1>2 DEF FindableTable, FindableName

(* Each name of a table becomes that of the table ...                      *)
LEMMA CopiedTableIs ==
  ASSUME NEW t, FindableTable(t), t.columns \in Seq(Name)
  PROVE  CopiedTable(t) = Shown(Spelled(t))
  <1> DEFINE x == FmtId(t.namespace)
             y == FmtId(t.tag)
             z == y \o <<"space">>
             h == NamesText(t)
             r == ListText(t) \o <<"close">>
  <1>1. /\ h \in Seq(NameChar \ {"open"}) /\ ListText(t) \in Seq(NameChar)
        /\ Statement(t) = (h \o <<"space", "open">>) \o r
        /\ h \o <<"space">> = x \o (<<"dot">> \o z)
    BY StatementIs DEF FindableTable
  <1>2. r \in Seq(NameChar)
    <2>1. <<"close">> \in Seq(NameChar)
      BY DEF NameChar
    <2>2. QED
      BY <1>1, <2>1, ConcatProperties
  <1>3. /\ x \in NameText /\ z \in NameText
        /\ Spelling(t.namespace) \in NameText /\ Spelling(t.tag) \in NameText
    <2>1. /\ x \in NameText /\ y \in NameText
          /\ Spelling(t.namespace) \in NameText /\ Spelling(t.tag) \in NameText
      BY FindableType DEF FindableTable
    <2>2. y \in Seq(NameChar) /\ <<"space">> \in Seq(NameChar)
      BY <2>1, CharsAre, Single DEF NameText
    <2> HIDE DEF y
    <2>3. y \o <<"space">> \in Seq(NameChar)
      BY ONLY <2>2, ConcatProperties
    <2>4. QED
      BY <2>1, <2>3 DEF NameText
  <1>4. /\ Mapped(Cleaned, x) = Mapped(InQuotes, Spelling(t.namespace))
        /\ Mapped(Cleaned, z) = Mapped(InQuotes, Spelling(t.tag))
    BY TableNames, NameCuts
  <1> HIDE DEF h, r, x, z
  <1>5. SubSeq(Statement(t), 1, FirstOpen(Statement(t)) - 1) = h \o <<"space">>
    BY <1>1, <1>2, OpenAt
  <1>6. CopiedTable(t) = Normalized(x \o (<<"dot">> \o z))
    BY <1>1, <1>5 DEF CopiedTable
  <1>7. QED
    BY <1>3, <1>4, <1>6, DottedNormalized DEF Spelled

LEMMA AskedIs ==
  ASSUME NEW t, FindableTable(t)
  PROVE  /\ Normalized(QualifiedName(t)) = Shown(Spelled(t)) /\ Spelled(t) \in NameText
         /\ Unquoted(t) => Normalized(Typed(t)) = Shown(Typed(t)) /\ Typed(t) \in NameText
  <1> DEFINE p == t.namespace
             q == t.tag
  <1>1. /\ p \in NameText /\ q \in NameText /\ Quoted(p) \in NameText /\ Quoted(q) \in NameText
        /\ Spelling(p) \in NameText /\ Spelling(q) \in NameText
    BY FindableType DEF FindableTable
  <1>2. /\ QualifiedName(t) = Quoted(p) \o (<<"dot">> \o Quoted(q))
        /\ Typed(t) = p \o (<<"dot">> \o q)
    BY DottedIs DEF FindableTable
  <1>3. /\ Mapped(Cleaned, Quoted(p)) = Mapped(InQuotes, Spelling(p))
        /\ Mapped(Cleaned, Quoted(q)) = Mapped(InQuotes, Spelling(q))
        /\ Unquoted(t) => /\ Mapped(Cleaned, p) = Mapped(InQuotes, p)
                          /\ Mapped(Cleaned, q) = Mapped(InQuotes, q)
    BY TableNames, NameCuts
  <1> HIDE DEF p, q
  <1>4. Normalized(QualifiedName(t)) = Shown(Spelling(p) \o (<<"dot">> \o Spelling(q)))
    BY <1>1, <1>2, <1>3, DottedNormalized
  <1>5. ASSUME NEW v \in NameText, NEW w \in NameText
        PROVE  v \o (<<"dot">> \o w) \in NameText
    <2>1. v \in Seq(NameChar) /\ w \in Seq(NameChar) /\ <<"dot">> \in Seq(NameChar)
      BY CharsAre, Single DEF NameText
    <2>2. <<"dot">> \o w \in Seq(NameChar)
      BY ONLY <2>1, ConcatProperties
    <2>3. v \o (<<"dot">> \o w) \in Seq(NameChar)
      BY ONLY <2>1, <2>2, ConcatProperties
    <2>4. QED
      BY <2>3 DEF NameText
  <1>6. Spelled(t) = Spelling(p) \o (<<"dot">> \o Spelling(q))
    BY DEF Spelled, p, q
  <1>7. Unquoted(t) => Normalized(Typed(t)) = Shown(Typed(t))
    BY <1>1, <1>2, <1>3, DottedNormalized
  <1>8. QED
    BY <1>1, <1>2, <1>4, <1>5, <1>6, <1>7

(* ... and of no other table: dots and quotes tell the names apart.        *)
LEMMA SpellingIs ==
  ASSUME NEW n, FindableName(n), n \in Seq(NoDot) \/ n \in Seq(NoQuote)
  PROVE  /\ Spelling(n) \in NameText /\ n \in NameText /\ Spelling(n) # <<>>
         /\ Spelling(n) \in Seq(NoDot) => n \in Seq(NoDot) /\ Spelling(n) = n
         /\ n \in Seq(NoQuote) => (Spelling(n)[1] = "quote" <=> n \notin Seq(NoDot))
         /\ Spelling(n) \in Seq(NoQuote) => n \in Seq(NoDot)
  <1>1. Spelling(n) \in NameText /\ n \in NameText /\ n # <<>>
    BY FindableType DEF FindableName
  <1>2. CASE n \in Seq(NoDot)
    <2>1. Spelling(n) = n
      BY <1>2 DEF Spelling
    <2>2. n \in Seq(NoQuote) => n[1] # "quote"
      <3> SUFFICES ASSUME n \in Seq(NoQuote) PROVE n[1] # "quote"
        OBVIOUS
      <3>1. 1 \in 1 .. Len(n)
        BY <1>1, LenProperties, EmptySeq
      <3>2. n[1] \in NoQuote
        BY <3>1, ElementOfSeq
      <3>3. QED
        BY <3>2, CharsAre
    <2>3. QED
      BY <1>1, <1>2, <2>1, <2>2
  <1>3. CASE n \notin Seq(NoDot)
    <2> DEFINE s == Quoted(n)
    <2>1. Spelling(n) = s /\ n \in Seq(NoQuote)
      BY <1>3 DEF Spelling
    <2>2. s \in Seq(NameChar) /\ Len(s) >= 2 /\ s[1] = "quote"
      BY <1>1, CharsAre, QuotedIs DEF NameText
    <2>3. s \notin Seq(NoDot)
      <3>1. Len(Split(s, "dot")) # 1
        <4> DEFINE m == Len(Split(n, "dot"))
        <4>1. m \in Nat /\ m > 1 /\ Len(Split(s, "dot")) = m
          BY <1>3, <2>1, QuotedPartsAre
        <4> HIDE DEF m, s
        <4>2. m # 1
          BY ONLY <4>1
        <4>3. QED
          BY <4>1, <4>2
      <3> HIDE DEF s
      <3>2. s \in Seq(NoDot) => Len(Split(s, "dot")) = 1
        <4>1. Len(<<s>>) = 1
          OBVIOUS
        <4>2. QED
          BY <4>1, OnePart
      <3>3. QED
        BY ONLY <3>1, <3>2
    <2>4. s # <<>> /\ Len(s) \in Nat
      BY <2>2, EmptySeq, LenProperties
    <2>5. s \notin Seq(NoQuote)
      <3> SUFFICES ASSUME s \in Seq(NoQuote) PROVE FALSE
        OBVIOUS
      <3>1. 1 \in 1 .. Len(s)
        BY <2>2, <2>4
      <3> HIDE DEF s
      <3>2. s[1] \in NoQuote
        BY <3>1, ElementOfSeq
      <3>3. QED
        BY <2>2, <3>2, CharsAre
    <2> HIDE DEF s
    <2>6. QED
      BY <1>1, <1>3, <2>1, <2>2, <2>3, <2>4, <2>5
  <1>4. QED
    BY <1>2, <1>3

Regroups(q, p, d) == ((q \o p) \o q) \o d = q \o (p \o (q \o d))

LEMMA QuotesOut ==
  ASSUME NEW S, NEW q \in Seq(S), NEW p \in Seq(S), NEW d \in Seq(S)
  PROVE  Regroups(q, p, d)
  <1> DEFINE qp == q \o p
             qd == q \o d
  <1>1. qp \in Seq(S) /\ qd \in Seq(S)
    BY ConcatProperties
  <1> HIDE DEF qp, qd
  <1>2. (qp \o q) \o d = qp \o (q \o d)
    BY ONLY SMTT(20), <1>1, q \in Seq(S), d \in Seq(S), ConcatAssociative
  <1>3. (q \o p) \o qd = q \o (p \o qd)
    <2>1. q \in Seq(S) /\ p \in Seq(S) /\ qd \in Seq(S)
      BY <1>1
    <2>2. QED
      BY ONLY <2>1, ConcatAssociative
  <1>4. QED
    BY <1>2, <1>3 DEF Regroups, qp, qd

(* Names without quotes: the first character tells where the name ends.    *)
LEMMA FirstName ==
  ASSUME NEW p, NEW v, FindableName(p), FindableName(v), p \in Seq(NoQuote), v \in Seq(NoQuote),
         NEW x \in NameText, NEW y \in NameText,
         Spelling(p) \o (<<"dot">> \o x) = Spelling(v) \o (<<"dot">> \o y)
  PROVE  p = v
  <1> DEFINE dx == <<"dot">> \o x
             dy == <<"dot">> \o y
             sp == Spelling(p)
             sv == Spelling(v)
  <1>1. /\ sp \in Seq(NameChar) /\ sv \in Seq(NameChar)
        /\ x \in Seq(NameChar) /\ y \in Seq(NameChar) /\ <<"dot">> \in Seq(NameChar)
        /\ sp # <<>> /\ sv # <<>>
    BY SpellingIs, CharsAre, Single DEF NameText
  <1>2. dx \in Seq(NameChar) /\ dy \in Seq(NameChar)
    BY ONLY <1>1, ConcatProperties
  <1>3. sp[1] = sv[1]
    <2>1. sp \o dx = sv \o dy
      OBVIOUS
    <2> HIDE DEF sp, sv, dx, dy
    <2>2. 1 \in 1 .. Len(sp) /\ 1 \in 1 .. Len(sv)
      BY <1>1, LenProperties, EmptySeq
    <2>3. /\ \A k \in 1 .. Len(sp) : (sp \o dx)[k] = sp[k]
          /\ \A k \in 1 .. Len(sv) : (sv \o dy)[k] = sv[k]
      BY ONLY <1>1, <1>2, ConcatAt
    <2>4. QED
      BY <2>1, <2>2, <2>3
  <1>4. p \in Seq(NoDot) <=> v \in Seq(NoDot)
    BY <1>3, SpellingIs
  <1>5. CASE p \in Seq(NoDot)
    <2>1. sp = p /\ sv = v
      BY <1>4, <1>5 DEF Spelling
    <2>2. v \in Seq(NoDot) /\ p \o (<<"dot">> \o x) = v \o (<<"dot">> \o y)
      BY <1>4, <1>5, <2>1
    <2>3. QED
      BY ONLY <1>1, <1>5, <2>2, CharsAre, FirstCut
  <1>6. CASE p \notin Seq(NoDot)
    <2> DEFINE q == <<"quote">>
    <2>1. sp = (q \o p) \o q /\ sv = (q \o v) \o q
      <3>1. Doubled(p) = p /\ Doubled(v) = v
        BY CharsAre, DoubledPlain
      <3>2. QED
        BY <1>4, <1>6, <3>1 DEF Spelling, Quoted
    <2>2. q \in Seq(NameChar) /\ p \in Seq(NameChar) /\ v \in Seq(NameChar)
      BY CharsAre, SeqMonotonic, Single
    <2> HIDE DEF dx, dy
    <2> DEFINE qx == q \o dx
               qy == q \o dy
    <2>3. qx \in Seq(NameChar) /\ qy \in Seq(NameChar)
      BY ONLY <1>2, <2>2, ConcatProperties
    <2>4. /\ ((q \o p) \o q) \o dx = q \o (p \o qx)
          /\ ((q \o v) \o q) \o dy = q \o (v \o qy)
      <3> HIDE DEF q
      <3>1. Regroups(q, p, dx) /\ Regroups(q, v, dy)
        BY ONLY <1>2, <2>2, QuotesOut
      <3>2. QED
        BY <3>1 DEF Regroups
    <2>5. q \o (p \o qx) = q \o (v \o qy)
      BY <2>1, <2>4 DEF dx, dy
    <2> HIDE DEF qx, qy
    <2>6. p \o qx = v \o qy
      <3>1. p \o qx \in Seq(NameChar) /\ v \o qy \in Seq(NameChar)
        BY ONLY <2>2, <2>3, ConcatProperties
      <3>2. QED
        BY <2>2, <2>5, <3>1, CancelLeft
    <2>7. p \o (<<"quote">> \o dx) = v \o (<<"quote">> \o dy)
      BY <2>6 DEF qx, qy
    <2>8. QED
      BY ONLY <1>2, <2>7, p \in Seq(NoQuote), v \in Seq(NoQuote), CharsAre, FirstCut
  <1>7. QED
    BY <1>5, <1>6

LEMMA SpelledInjective ==
  ASSUME NEW t, NEW u, FindableTable(t), FindableTable(u), Spelled(t) = Spelled(u)
  PROVE  t.namespace = u.namespace /\ t.tag = u.tag
  <1> DEFINE p == t.namespace
             q == t.tag
             v == u.namespace
             w == u.tag
             Undotted(e) == e.namespace \in Seq(NoDot) /\ e.tag \in Seq(NoDot)
  <1>1. /\ FindableName(p) /\ (p \in Seq(NoDot) \/ p \in Seq(NoQuote))
        /\ FindableName(q) /\ (q \in Seq(NoDot) \/ q \in Seq(NoQuote))
        /\ FindableName(v) /\ (v \in Seq(NoDot) \/ v \in Seq(NoQuote))
        /\ FindableName(w) /\ (w \in Seq(NoDot) \/ w \in Seq(NoQuote))
    BY TableNames
  <1>2. /\ Spelling(p) \in NameText /\ Spelling(q) \in NameText
        /\ Spelling(v) \in NameText /\ Spelling(w) \in NameText
    BY <1>1, SpellingIs
  <1>3. Spelling(p) \o (<<"dot">> \o Spelling(q)) = Spelling(v) \o (<<"dot">> \o Spelling(w))
    BY DEF Spelled
  <1>4. CASE Undotted(t)
    <2>1. Spelling(p) = p /\ Spelling(q) = q /\ p \in Seq(NoDot) /\ q \in Seq(NoDot)
      BY <1>4 DEF Spelling
    <2>2. Spelling(v) \o (<<"dot">> \o Spelling(w)) = p \o (<<"dot">> \o q)
      BY <1>3, <2>1
    <2>3. Spelling(v) = p /\ Spelling(w) = q
      <3> HIDE DEF p, q, v, w
      <3>1. QED
        BY ONLY ZenonT(60), <1>2, <2>1, <2>2, OneDot
    <2>4. QED
      BY <1>1, <2>1, <2>3, SpellingIs
  <1>5. CASE Undotted(u)
    <2>1. Spelling(v) = v /\ Spelling(w) = w /\ v \in Seq(NoDot) /\ w \in Seq(NoDot)
      BY <1>5 DEF Spelling
    <2>2. Spelling(p) \o (<<"dot">> \o Spelling(q)) = v \o (<<"dot">> \o w)
      BY <1>3, <2>1
    <2>3. Spelling(p) = v /\ Spelling(q) = w
      <3> HIDE DEF p, q, v, w
      <3>1. QED
        BY ONLY ZenonT(30), <1>2, <2>1, <2>2, OneDot
    <2>4. QED
      BY <1>1, <2>1, <2>3, SpellingIs
  <1>6. CASE ~ Undotted(t) /\ ~ Undotted(u)
    <2>1. Unquoted(t) /\ Unquoted(u)
      BY <1>6 DEF FindableTable
    <2>2. p \in Seq(NoQuote) /\ q \in Seq(NoQuote) /\ v \in Seq(NoQuote) /\ w \in Seq(NoQuote)
      BY <2>1, TableNames
    <2> HIDE DEF p, q, v, w
    <2>3. p = v
      BY ONLY <1>1, <1>2, <1>3, <2>2, FirstName
    <2>4. Spelling(q) = Spelling(w)
      <3> DEFINE dot == <<"dot">>
                 x == Spelling(q)
                 y == Spelling(w)
                 s == Spelling(p)
      <3>1. x \in Seq(NameChar) /\ y \in Seq(NameChar) /\ s \in Seq(NameChar)
            /\ dot \in Seq(NameChar) /\ s \o (dot \o x) = s \o (dot \o y)
        BY <1>2, <1>3, <2>3, CharsAre, Single DEF NameText
      <3> HIDE DEF dot, x, y, s
      <3>2. dot \o x \in Seq(NameChar) /\ dot \o y \in Seq(NameChar)
        BY ONLY <3>1, ConcatProperties
      <3>3. dot \o x = dot \o y
        BY <3>1, <3>2, CancelLeft
      <3>4. QED
        BY <3>1, <3>3, CancelLeft DEF x, y
    <2>5. q = w
      <3>1. Spelling(q) \o (<<"dot">> \o Spelling(q)) = Spelling(w) \o (<<"dot">> \o Spelling(q))
        BY <2>4
      <3>2. QED
        BY ONLY <1>1, <1>2, <2>2, <3>1, FirstName
    <2>6. QED
      BY <2>3, <2>5 DEF p, q, v, w
  <1>7. QED
    BY <1>4, <1>5, <1>6

LEMMA TypedIsOwn ==
  ASSUME NEW t, NEW u, FindableTable(t), FindableTable(u), Unquoted(t), Typed(t) = Spelled(u)
  PROVE  t.namespace = u.namespace /\ t.tag = u.tag
  <1> DEFINE p == t.namespace
             q == t.tag
             v == u.namespace
             w == u.tag
  <1>1. p \in NameText /\ q \in NameText /\ Typed(t) = p \o (<<"dot">> \o q)
    BY TableNames, DottedIs DEF FindableTable
  <1>2. /\ FindableName(v) /\ (v \in Seq(NoDot) \/ v \in Seq(NoQuote))
        /\ FindableName(w) /\ (w \in Seq(NoDot) \/ w \in Seq(NoQuote))
    BY TableNames
  <1>3. Spelling(v) \in NameText /\ Spelling(w) \in NameText
    BY <1>2, SpellingIs
  <1>4. p \o (<<"dot">> \o q) = Spelling(v) \o (<<"dot">> \o Spelling(w))
    BY <1>1 DEF Spelled
  <1>5. Spelling(v) \in Seq(NoQuote) /\ Spelling(w) \in Seq(NoQuote)
    <2>1. "quote" \notin ToSet(Spelling(v) \o (<<"dot">> \o Spelling(w)))
      BY <1>1, <1>4 DEF Unquoted
    <2>2. QED
      BY <1>3, <2>1, UnquotedSides
  <1>6. v \in Seq(NoDot) /\ w \in Seq(NoDot)
    BY <1>2, <1>5, SpellingIs
  <1>7. Spelling(v) = v /\ Spelling(w) = w
    BY <1>6 DEF Spelling
  <1>8. QED
    <2> HIDE DEF p, q, v, w
    <2>1. p \o (<<"dot">> \o q) = v \o (<<"dot">> \o w)
      BY ONLY <1>4, <1>7
    <2>2. p = v /\ q = w
      BY ONLY ZenonT(30), <1>1, <1>6, <2>1, OneDot
    <2>3. QED
      BY <2>2 DEF p, q, v, w

-----------------------------------------------------------------------------
(* What was asked for is a name of the table meant, and the answer is the  *)
(* entries whose name becomes the same.                                    *)
NamesInv ==
    /\ catalog \in Catalogs
    /\ asked # <<>> =>
           /\ meant[1] \in DOMAIN catalog
           /\ \/ asked = QualifiedName(catalog[meant[1]])
              \/ /\ meant[2] = "typed" /\ Unquoted(catalog[meant[1]])
                 /\ asked = Typed(catalog[meant[1]])
    /\ answer # <<>> => asked # <<>> /\ answer = <<Matches(asked)>>

LEMMA NamesHold == RequestSpec => []NamesInv
  <1>1. RequestInit => NamesInv
    BY DEF RequestInit, NamesInit, NamesInv
  <1>2. NamesInv /\ [RequestNext]_allVars => NamesInv'
    <2> SUFFICES ASSUME NamesInv, [RequestNext]_allVars PROVE NamesInv'
      OBVIOUS
    <2>1. CASE Asked
      <3>1. PICK e \in DOMAIN catalog :
                \/ Ask(QualifiedName(catalog[e]), e, "listed")
                \/ Unquoted(catalog[e]) /\ Ask(Typed(catalog[e]), e, "typed")
        BY <2>1 DEF Asked, AskForTable
      <3>2. /\ meant'[1] = e
            /\ \/ asked' = QualifiedName(catalog[e])
               \/ meant'[2] = "typed" /\ Unquoted(catalog[e]) /\ asked' = Typed(catalog[e])
        BY <3>1 DEF Ask
      <3>3. catalog' = catalog /\ answer' = answer /\ asked = <<>>
        BY <3>1 DEF Ask
      <3>4. answer = <<>>
        BY <3>3 DEF NamesInv
      <3>5. QED
        BY <3>2, <3>3, <3>4 DEF NamesInv
    <2>2. CASE Take
      <3>1. /\ catalog' = catalog /\ asked' = asked /\ meant' = meant /\ asked # <<>>
            /\ answer' = <<Matches(asked)>>
        BY <2>2 DEF Take, Find
      <3>2. Matches(asked) = Matches(asked)'
        BY <3>1 DEF Matches
      <3>3. QED
        BY <3>1, <3>2 DEF NamesInv
    <2>3. CASE UNCHANGED nameVars
      <3>1. catalog' = catalog /\ asked' = asked /\ meant' = meant /\ answer' = answer
        BY <2>3 DEF nameVars
      <3>2. QED
        BY <3>1 DEF NamesInv, Matches
    <2>4. QED
      BY <2>1, <2>2, <2>3 DEF RequestNext, Infer, Open, Read, allVars
  <1>3. QED
    BY <1>1, <1>2, PTL DEF RequestSpec

LEMMA OnlyMeant ==
  ASSUME FindableTables, NamesInv, asked # <<>>
  PROVE  /\ meant[1] \in DOMAIN catalog
         /\ Matches(asked) \subseteq {meant[1]}
         /\ meant[2] = "listed" /\ Parses(catalog[meant[1]]) => meant[1] \in Matches(asked)
  <1> DEFINE m == meant[1]
             t == catalog[m]
  <1>1. /\ m \in DOMAIN catalog /\ catalog \in Catalogs
        /\ \/ asked = QualifiedName(t)
           \/ meant[2] = "typed" /\ Unquoted(t) /\ asked = Typed(t)
    BY DEF NamesInv
  <1>2. ASSUME NEW e \in DOMAIN catalog
        PROVE  /\ FindableTable(catalog[e])
               /\ CopiedTable(catalog[e]) = Shown(Spelled(catalog[e]))
               /\ Spelled(catalog[e]) \in NameText
    <2>1. FindableTable(catalog[e]) /\ catalog[e].columns \in Seq(Name)
      BY <1>1, FindableTables, NamesAssumption DEF FindableTables
    <2>2. QED
      BY <2>1, CopiedTableIs, AskedIs
  <1>3. FindableTable(t)
    BY <1>1, <1>2
  <1> HIDE DEF t
  <1>4. ASSUME NEW e \in Matches(asked) PROVE e = m
    <2>1. e \in DOMAIN catalog /\ Shown(Spelled(catalog[e])) = Normalized(asked)
      BY <1>2 DEF Matches
    <2>2. FindableTable(catalog[e]) /\ Spelled(catalog[e]) \in NameText
      BY <1>2, <2>1
    <2>3. catalog[e].namespace = t.namespace /\ catalog[e].tag = t.tag
      <3>1. CASE asked = QualifiedName(t)
        <4>1. Spelled(catalog[e]) = Spelled(t)
          BY <1>3, <2>1, <2>2, <3>1, AskedIs, ShownInjective
        <4>2. QED
          BY <1>3, <2>2, <4>1, SpelledInjective
      <3>2. CASE Unquoted(t) /\ asked = Typed(t)
        <4>1. Spelled(catalog[e]) = Typed(t)
          BY <1>3, <2>1, <2>2, <3>2, AskedIs, ShownInjective
        <4>2. QED
          BY <1>3, <2>2, <3>2, <4>1, TypedIsOwn
      <3>3. QED
        BY <1>1, <3>1, <3>2
    <2>4. QED
      BY <1>1, <2>1, <2>3, NamesAssumption DEF t
  <1>5. meant[2] = "listed" /\ Parses(t) => m \in Matches(asked)
    <2> SUFFICES ASSUME meant[2] = "listed", Parses(t) PROVE m \in Matches(asked)
      OBVIOUS
    <2>1. asked = QualifiedName(t)
      BY <1>1
    <2>2. CopiedTable(t) = Normalized(asked)
      BY <1>1, <1>2, <1>3, <2>1, AskedIs DEF t
    <2>3. QED
      BY <1>1, <2>2 DEF Matches, t
  <1>6. QED
    BY <1>1, <1>4, <1>5 DEF t

(* In a dump whose names have no opening parentheses, and no spaces at     *)
(* their ends or at a dot, and whose tables have no dots in their names or *)
(* no quotes, a name finds its table whatever else is in it.               *)
THEOREM NamesCorrect == ASSUME FindableTables PROVE RequestSpec => []NameFindsTable
  <1>1. NamesInv => NameFindsTable
    <2> SUFFICES ASSUME NamesInv, answer # <<>> PROVE NameFindsTable
      BY DEF NameFindsTable
    <2> DEFINE m == meant[1]
               found == answer[1]
    <2>1. /\ found \subseteq {m}
          /\ meant[2] = "listed" /\ Parses(catalog[m]) => m \in found
      BY OnlyMeant DEF NamesInv
    <2> HIDE DEF m, found
    <2>2. found = {} \/ found = {m}
      BY <2>1
    <2>3. Cardinality({}) = 0 /\ Cardinality({m}) = 1
      BY FS_EmptySet, FS_Singleton
    <2>4. /\ Cardinality(found) = 1 => found = {m}
          /\ Cardinality(found) <= 1
      <3>1. CASE found = {}
        BY <2>3, <3>1
      <3>2. CASE found = {m}
        BY <2>3, <3>2
      <3>3. QED
        BY <2>2, <3>1, <3>2
    <2>5. QED
      BY <2>1, <2>4 DEF NameFindsTable, m, found
  <1>2. QED
    BY <1>1, NamesHold, PTL

-----------------------------------------------------------------------------
(* The header.  Columns whose names have no quotes or commas in them:      *)
(* anything else may be, spaces at the ends and parentheses too.           *)
ColumnChar == NameChar \ {"comma", "quote"}

PlainColumns ==
    \A c \in Catalogs : \A e \in DOMAIN c : c[e].columns \in Seq(Seq(ColumnChar))

PartChar == NameChar \ {"comma"}

LEMMA PartHas == /\ PartChar \subseteq NameChar /\ ColumnChar \subseteq PartChar
                 /\ "space" \in PartChar /\ "quote" \in PartChar
                 /\ "comma" \notin PartChar /\ "comma" \in NameChar
                 /\ "quote" \notin ColumnChar /\ "space" # "quote"
  BY DEF PartChar, ColumnChar, NameChar

(* A name in the list, after the space if one is before it, is cleaned up. *)
LEMMA ColumnIs ==
  ASSUME NEW n \in Seq(ColumnChar), n # <<>>
  PROVE  /\ FmtId(n) \in Seq(PartChar)
         /\ Trimmed(FmtId(n), "space") = FmtId(n)
         /\ Trimmed(<<"space">> \o FmtId(n), "space") = FmtId(n)
         /\ Trimmed(FmtId(n), "quote") = n
  <1> DEFINE x == FmtId(n)
  <1>1. /\ n \in Seq(PartChar) /\ Len(n) \in Nat /\ Len(n) >= 1 /\ DOMAIN n = 1 .. Len(n)
        /\ 1 \in 1 .. Len(n) /\ Len(n) \in 1 .. Len(n)
    BY PartHas, SeqMonotonic, LenProperties, EmptySeq
  <1>2. n[1] # "quote" /\ n[Len(n)] # "quote" /\ n[1] \in ToSet(n) /\ n[Len(n)] \in ToSet(n)
    <2>1. n[1] \in ColumnChar /\ n[Len(n)] \in ColumnChar
      BY <1>1, ElementOfSeq
    <2>2. QED
      BY <1>1, <2>1, PartHas DEF ToSet
  <1>3. /\ x \in Seq(PartChar) /\ x # <<>> /\ x[1] # "space" /\ x[Len(x)] # "space"
        /\ Trimmed(x, "quote") = n
    <2>1. CASE ToSet(n) \subseteq {"a"}
      <3>1. x = n /\ n[1] = "a" /\ n[Len(n)] = "a"
        BY <1>2, <2>1 DEF FmtId
      <3>2. Trimmed(n, "quote") = n
        BY <1>1, <1>2, PartHas, TrimmedCases
      <3>3. QED
        BY <1>1, <3>1, <3>2
    <2>2. CASE ~ (ToSet(n) \subseteq {"a"})
      <3>1. x = Quoted(n) /\ Quoted(n) = (<<"quote">> \o n) \o <<"quote">>
        <4>1. ColumnChar = PartChar \ {"quote"}
          BY DEF ColumnChar, PartChar
        <4>2. Doubled(n) = n
          BY <4>1, PartHas, DoubledPlain
        <4>3. QED
          BY <2>2, <4>2 DEF FmtId, Quoted
      <3> HIDE DEF x
      <3>2. Trimmed(x, "quote") = n
        BY <1>1, <1>2, <3>1, PartHas, TrimmedCases
      <3>3. /\ x \in Seq(PartChar) /\ Len(x) >= 2
            /\ x[1] = "quote" /\ x[Len(x)] = "quote"
        BY <1>1, <3>1, PartHas, QuotedIs
      <3>4. x # <<>>
        BY <3>3, EmptySeq
      <3>5. QED
        BY <3>2, <3>3, <3>4
    <2>3. QED
      BY <2>1, <2>2
  <1> HIDE DEF x
  <1>4. Trimmed(x, "space") = x /\ Trimmed(<<"space">> \o x, "space") = x
    BY <1>3, PartHas, TrimmedCases
  <1>5. QED
    BY <1>3, <1>4 DEF x

(* Split undoes Joined, but for the space after each comma.                *)
Listed(parts) == Joined(parts, <<"comma", "space">>)

LEMMA ListedAppend ==
  ASSUME NEW parts \in Seq(Seq(PartChar)), NEW x \in Seq(PartChar)
  PROVE  /\ Listed(parts) \in Seq(NameChar)
         /\ Listed(<<>>) = <<>>
         /\ parts # <<>> => Listed(Append(parts, x)) =
                Listed(parts) \o (<<"comma">> \o (<<"space">> \o x))
         /\ Listed(Append(<<>>, x)) = x
  <1> DEFINE Q == Seq(NameChar)
             both == <<"comma", "space">>
  <1>1. Seq(PartChar) \subseteq Q /\ both \in Q
    <2>1. Seq(PartChar) \subseteq Seq(NameChar)
      BY PartHas, SeqMonotonic
    <2>2. "comma" \in NameChar /\ "space" \in NameChar
      BY DEF NameChar
    <2>3. <<"comma", "space">> \in Seq(NameChar)
      BY <2>2, Pair
    <2>4. QED
      BY <2>1, <2>3
  <1>2. parts \in Seq(Q) /\ x \in Q /\ <<>> \in Seq(Q)
    <2> HIDE DEF Q
    <2>1. parts \in Seq(Q) /\ x \in Q
      BY <1>1, SeqMonotonic
    <2>2. QED
      BY <2>1, EmptySeq
  <1>3. \A s : Listed(s) = FlattenSeq(Separated(s, both))
    BY DEF Listed, Joined, Separated, Lead
  <1>4. Q = Seq(NameChar)
    OBVIOUS
  <1> HIDE DEF Q, both
  <1>5. /\ Separated(parts, both) \in Seq(Q) /\ Separated(<<>>, both) = <<>>
    <2>1. Separated(parts, both) \in Seq(Q)
      BY ONLY <1>1, <1>2, <1>4, SeparatedType
    <2>2. Separated(<<>>, both) = <<>>
      BY DEF Separated
    <2>3. QED
      BY <2>1, <2>2
  <1>6. /\ Separated(Append(parts, x), both) =
               Append(Separated(parts, both), Lead(Len(parts) + 1, both) \o x)
        /\ Separated(Append(<<>>, x), both) =
               Append(Separated(<<>>, both), Lead(Len(<<>>) + 1, both) \o x)
    <2>1. both \in Q
      BY <1>1
    <2>2. parts \in Seq(Q) /\ x \in Q
      BY <1>2
    <2>3. <<>> \in Seq(Q) /\ x \in Q
      BY <1>2
    <2>4. SeparatesLast(parts, x, both)
      BY ONLY <1>4, <2>1, <2>2, SeparatedAppend
    <2>5. SeparatesLast(<<>>, x, both)
      BY ONLY <1>4, <2>1, <2>3, SeparatedAppend
    <2>6. QED
      BY ONLY <2>4, <2>5 DEF SeparatesLast
  <1>7. Listed(parts) \in Seq(NameChar)
    BY <1>3, <1>4, <1>5, FlattenType
  <1>8. Listed(<<>>) = <<>>
    BY <1>3, <1>5, FlattenEmpty
  <1>9. ASSUME parts # <<>>
        PROVE  Listed(Append(parts, x)) = Listed(parts) \o (<<"comma">> \o (<<"space">> \o x))
    <2>1. Lead(Len(parts) + 1, both) = both
      <3>1. Len(parts) \in Nat /\ Len(parts) # 0
        BY <1>2, <1>9, EmptySeq
      <3>2. QED
        BY <3>1 DEF Lead
    <2> DEFINE y == both \o x
    <2>2. y \in Q
      BY ONLY <1>1, <1>2, <1>4, ConcatProperties
    <2>3. Separated(Append(parts, x), both) = Append(Separated(parts, both), y)
      BY <1>6, <2>1
    <2> HIDE DEF y
    <2>4. FlattenSeq(Append(Separated(parts, both), y)) = FlattenSeq(Separated(parts, both)) \o y
      BY <1>4, <1>5, <2>2, FlattenAppend
    <2>5. y = <<"comma">> \o (<<"space">> \o x)
      <3> DEFINE c == <<"comma">>
                 p == <<"space">>
      <3>1. c \in Seq(NameChar) /\ p \in Seq(NameChar) /\ x \in Seq(NameChar) /\ both = c \o p
        <4>1. "comma" \in NameChar /\ "space" \in NameChar
          BY DEF NameChar
        <4>2. QED
          BY <1>2, <1>4, <4>1, Pair DEF both
      <3> HIDE DEF c, p
      <3>2. (c \o p) \o x = c \o (p \o x)
        BY ONLY SMTT(40), <3>1, ConcatAssociative
      <3>3. QED
        BY <3>1, <3>2 DEF y, c, p
    <2>6. QED
      BY <1>3, <2>3, <2>4, <2>5
  <1>10. Listed(Append(<<>>, x)) = x
    <2>1. Lead(Len(<<>>) + 1, both) = <<>>
      BY EmptySeq DEF Lead
    <2>2. <<>> \o x = x
      BY <1>2, <1>4, ConcatEmptySeq
    <2>3. Separated(Append(<<>>, x), both) = Append(<<>>, x)
      BY <1>5, <1>6, <2>1, <2>2
    <2>4. Append(<<>>, x) = <<x>>
      BY <1>2, Single
    <2>5. FlattenSeq(<<x>>) = x
      BY <1>2, <1>4, FlattenTwo
    <2>6. QED
      BY <1>3, <2>3, <2>4, <2>5
  <1>11. QED
    BY <1>7, <1>8, <1>9, <1>10

LEMMA SplitListed ==
  ASSUME NEW parts \in Seq(Seq(PartChar)), parts # <<>>
  PROVE  Split(Listed(parts), "comma") = Separated(parts, <<"space">>)
  <1> DEFINE Q == Seq(PartChar)
             space == <<"space">>
             T == {s \in Seq(Q) : s # <<>> =>
                       Split(Listed(s), "comma") = Separated(s, space)}
  <1>1. space \in Q /\ Q = Seq(PartChar)
    BY PartHas
  <1> HIDE DEF Q, space
  <1>2. <<>> \in T
    BY EmptySeq
  <1>3. ASSUME NEW s \in Seq(Q), NEW x \in Q, s \in T PROVE Append(s, x) \in T
    <2>1. Append(s, x) \in Seq(Q)
      BY AppendProperties
    <2>2. /\ Separated(Append(s, x), space) =
                 Append(Separated(s, space), Lead(Len(s) + 1, space) \o x)
          /\ Separated(s, space) \in Seq(Q)
      <3>1. SeparatesLast(s, x, space)
        BY ONLY <1>1, s \in Seq(Q), x \in Q, SeparatedAppend
      <3>2. Separated(s, space) \in Seq(Q)
        BY ONLY <1>1, s \in Seq(Q), SeparatedType
      <3>3. QED
        BY ONLY <3>1, <3>2 DEF SeparatesLast
    <2>3. /\ Listed(s) \in Seq(NameChar)
          /\ s # <<>> => Listed(Append(s, x)) =
                 Listed(s) \o (<<"comma">> \o (<<"space">> \o x))
          /\ Listed(Append(<<>>, x)) = x
      BY <1>1, ListedAppend
    <2>4. CASE s = <<>>
      <3>1. Lead(Len(s) + 1, space) = <<>> /\ Separated(s, space) = <<>>
        BY <2>4, EmptySeq DEF Lead, Separated
      <3>2. <<>> \o x = x
        BY <1>1, ConcatEmptySeq
      <3>3. Split(x, "comma") = Append(<<>>, x)
        <4>1. Ends(x, "comma", <<>>, x)
          BY <1>1, PartHas, SplitFirst
        <4>2. QED
          BY <4>1 DEF Ends
      <3>4. Split(Listed(Append(s, x)), "comma") = Separated(Append(s, x), space)
        BY <2>2, <2>3, <2>4, <3>1, <3>2, <3>3
      <3>5. QED
        BY <2>1, <3>4
    <2>5. CASE s # <<>>
      <3>1. Lead(Len(s) + 1, space) = space
        <4>1. Len(s) \in Nat /\ Len(s) # 0
          BY <2>5, EmptySeq
        <4>2. QED
          BY <4>1 DEF Lead
      <3>2. Split(Listed(s), "comma") = Separated(s, space)
        BY <1>3, <2>5
      <3>3. Split(Listed(s), "comma") \in Parts(NameChar)
        <4>1. Q \subseteq Seq(NameChar)
          BY <1>1, PartHas, SeqMonotonic
        <4> DEFINE W == Seq(NameChar)
        <4> HIDE DEF W
        <4>2. Separated(s, space) \in Seq(W)
          BY <2>2, <4>1, SeqMonotonic DEF W
        <4>3. QED
          BY <3>2, <4>2 DEF W, Parts
      <3> DEFINE p == space \o x
      <3>4. p \in Seq(PartChar)
        BY <1>1, ConcatProperties
      <3>5. Listed(Append(s, x)) = Listed(s) \o (<<"comma">> \o p)
        BY <2>3, <2>5 DEF space
      <3> HIDE DEF p
      <3>6. Ends(Listed(s) \o (<<"comma">> \o p), "comma", Split(Listed(s), "comma"), p)
        BY <2>3, <3>3, <3>4, PartHas, SplitNext
      <3>7. Split(Listed(Append(s, x)), "comma") = Append(Separated(s, space), p)
        BY <3>2, <3>5, <3>6 DEF Ends
      <3>8. Separated(Append(s, x), space) = Append(Separated(s, space), p)
        BY <2>2, <3>1 DEF p
      <3>9. QED
        BY <2>1, <3>7, <3>8
    <2>6. QED
      BY <2>4, <2>5
  <1> HIDE DEF T
  <1>4. Seq(Q) \subseteq T
    BY <1>2, <1>3, SeqInduction
  <1>5. QED
    BY <1>1, <1>4 DEF T, space

LEMMA MiddlePart ==
  ASSUME NEW S, NEW a \in Seq(S), NEW b \in Seq(S), NEW x \in S
  PROVE  LET s == a \o (b \o <<x>>) IN SubSeq(s, Len(a) + 1, Len(s) - 1) = b
  <1> DEFINE m == Len(a)
             n == Len(b)
             one == <<x>>
             s == a \o (b \o one)
             part == SubSeq(s, m + 1, m + n)
  <1>1. one \in Seq(S) /\ Len(one) = 1 /\ m \in Nat /\ n \in Nat
    BY Single, LenProperties
  <1> HIDE DEF one
  <1>2. /\ b \o one \in Seq(S) /\ Len(b \o one) = n + 1
        /\ \A k \in 1 .. n : (b \o one)[k] = b[k]
    <2>1. /\ b \o one \in Seq(S) /\ Len(b \o one) = Len(b) + Len(one)
          /\ \A k \in 1 .. Len(b) : (b \o one)[k] = b[k]
      BY ONLY ZenonT(60), b \in Seq(S), <1>1, ConcatAt
    <2>2. QED
      BY ONLY <1>1, <2>1
  <1>3. /\ s \in Seq(S) /\ Len(s) = m + (n + 1)
        /\ \A k \in 1 .. n + 1 : s[m + k] = (b \o one)[k]
    <2> DEFINE c == b \o one
    <2>1. c \in Seq(S) /\ Len(c) = n + 1
      BY <1>2
    <2> HIDE DEF c
    <2>a. a \in Seq(S) /\ c \in Seq(S)
      BY <2>1
    <2>2. /\ a \o c \in Seq(S) /\ Len(a \o c) = Len(a) + Len(c)
          /\ \A k \in 1 .. Len(c) : (a \o c)[Len(a) + k] = c[k]
      BY ONLY <2>a, ConcatAt
    <2> HIDE DEF n
    <2>3. QED
      BY ONLY <2>1, <2>2 DEF s, c, m
  <1> HIDE DEF m, n, s, part
  <1>4. /\ part \in Seq(S) /\ Len(part) = n
        /\ \A k \in 1 .. n : part[k] = s[m + k]
    <2>1. \A k \in m + 1 .. m + n : s[k] \in S
      BY <1>1, <1>3, ElementOfSeq
    <2>2. /\ part \in Seq(S)
          /\ Len(part) = IF m + 1 <= m + n THEN (m + n) - (m + 1) + 1 ELSE 0
          /\ \A k \in 1 .. (m + n) - (m + 1) + 1 : part[k] = s[(m + 1) + k - 1]
      BY <1>1, <2>1, SubSeqProperties DEF part
    <2>3. \A k \in 1 .. n : (m + 1) + k - 1 = m + k /\ k \in 1 .. (m + n) - (m + 1) + 1
      BY <1>1
    <2>4. QED
      BY SMTT(40), <1>1, <2>2, <2>3
  <1>5. \A k \in 1 .. n : k \in 1 .. n + 1
    BY <1>1
  <1>6. \A k \in 1 .. n : part[k] = b[k]
    BY <1>2, <1>3, <1>4, <1>5
  <1>7. part = b
    BY <1>4, <1>6, SeqEqual DEF n
  <1>8. Len(s) - 1 = m + n
    BY <1>1, <1>3
  <1>9. QED
    BY <1>7, <1>8 DEF part, s, m, one

LEMMA CopiedColumnsIs ==
  ASSUME NEW t, FindableName(t.namespace), FindableName(t.tag), t.columns \in Seq(Name),
         t.columns \in Seq(Seq(ColumnChar)), t.columns # <<>>
  PROVE  CopiedColumns(t) = t.columns
  <1> DEFINE columnsOf == t.columns
             n == Len(columnsOf)
             texts == [k \in DOMAIN columnsOf |-> FmtId(columnsOf[k])]
             space == <<"space">>
             parts == Separated(texts, space)
  <1>1. /\ DOMAIN columnsOf = 1 .. n /\ n \in Nat /\ n # 0
        /\ columnsOf = [k \in 1 .. n |-> columnsOf[k]]
    BY LenProperties, EmptySeq
  <1>2. ASSUME NEW k \in 1 .. n
        PROVE  /\ FmtId(columnsOf[k]) \in Seq(PartChar)
               /\ Trimmed(FmtId(columnsOf[k]), "space") = FmtId(columnsOf[k])
               /\ Trimmed(space \o FmtId(columnsOf[k]), "space") = FmtId(columnsOf[k])
               /\ Trimmed(FmtId(columnsOf[k]), "quote") = columnsOf[k]
    <2>1. columnsOf[k] \in Seq(ColumnChar) /\ columnsOf[k] \in Name
      <3> DEFINE W == Seq(ColumnChar)
      <3>1. columnsOf \in Seq(W)
        OBVIOUS
      <3> HIDE DEF W, columnsOf
      <3>2. columnsOf[k] \in W
        BY <3>1, ElementOfSeq
      <3>3. columnsOf \in Seq(Name)
        BY DEF columnsOf
      <3>4. columnsOf[k] \in Name
        BY <3>3, ElementOfSeq
      <3>5. QED
        BY <3>2, <3>4 DEF W
    <2> HIDE DEF columnsOf
    <2>2. columnsOf[k] # <<>>
      BY <2>1 DEF Name
    <2>3. QED
      BY <2>1, <2>2, ColumnIs
  <1> HIDE DEF columnsOf, n
  <1>3. /\ texts \in Seq(Seq(PartChar)) /\ Len(texts) = n /\ texts # <<>>
        /\ \A k \in 1 .. n : texts[k] = FmtId(columnsOf[k])
    <2> DEFINE W == Seq(PartChar)
    <2>1. \A k \in 1 .. n : FmtId(columnsOf[k]) \in W
      BY <1>2
    <2> HIDE DEF W
    <2>2. texts \in [1 .. n -> W]
      BY <1>1, <2>1
    <2>3. texts \in Seq(W) /\ Len(texts) = n
      BY ONLY <1>1, <2>2, FunctionIsSeq
    <2>4. \A k \in 1 .. n : texts[k] = FmtId(columnsOf[k])
      BY <1>1
    <2> HIDE DEF texts
    <2>5. texts # <<>>
      BY <1>1, <2>3, EmptySeq
    <2>6. QED
      BY <2>3, <2>4, <2>5 DEF W
  <1>4. ListText(t) = Listed(texts)
    BY DEF ListText, Listed, columnsOf
  <1>5. ColumnList(t) = ListText(t)
    <2> DEFINE a == NamesText(t) \o <<"space", "open">>
               b == ListText(t)
               s == Statement(t)
    <2>1. /\ NamesText(t) \in Seq(NameChar \ {"open"}) /\ b \in Seq(NameChar)
          /\ s = a \o (b \o <<"close">>)
      BY StatementIs
    <2>2. /\ "close" \in NameChar /\ <<"space", "open">> \in Seq(NameChar)
          /\ Len(<<"space", "open">>) = 2
      <3>1. "close" \in NameChar /\ "space" \in NameChar /\ "open" \in NameChar
        BY DEF NameChar
      <3>2. QED
        BY <3>1, Pair
    <2>3. b \o <<"close">> \in Seq(NameChar)
      BY <2>1, <2>2, Single, ConcatProperties
    <2>4. FirstOpen(s) = Len(NamesText(t)) + 2
      BY <2>1, <2>3, OpenAt
    <2>5. NamesText(t) \in Seq(NameChar)
      BY <2>1, SeqMonotonic
    <2>6. a \in Seq(NameChar) /\ Len(a) = Len(NamesText(t)) + 2
      BY <2>2, <2>5, ConcatProperties
    <2> HIDE DEF a, b, s
    <2>7. SubSeq(s, Len(a) + 1, Len(s) - 1) = b
      BY <2>1, <2>2, <2>6, MiddlePart
    <2>8. QED
      BY <2>4, <2>6, <2>7 DEF ColumnList, b, s
  <1> HIDE DEF texts
  <1>6. Split(ColumnList(t), "comma") = parts
    BY <1>3, <1>4, <1>5, SplitListed
  <1>7. /\ DOMAIN parts = 1 .. n
        /\ \A k \in 1 .. n : parts[k] = Lead(k, space) \o texts[k]
    <2> DEFINE W == Seq(PartChar)
    <2>1. space \in W /\ texts \in Seq(W) /\ W = Seq(PartChar)
      BY <1>3, PartHas
    <2> HIDE DEF W, space
    <2>2. /\ parts \in Seq(W) /\ Len(parts) = Len(texts)
          /\ \A k \in 1 .. Len(texts) : parts[k] = Lead(k, space) \o texts[k]
      BY ONLY <2>1, SeparatedType
    <2>3. DOMAIN parts = 1 .. Len(parts)
      BY ONLY <2>2, LenProperties
    <2>4. QED
      BY ONLY <1>3, <2>2, <2>3
  <1> HIDE DEF parts
  <1>8. \A k \in 1 .. n : Trimmed(Trimmed(parts[k], "space"), "quote") = columnsOf[k]
    <2> SUFFICES ASSUME NEW k \in 1 .. n
                 PROVE  Trimmed(Trimmed(parts[k], "space"), "quote") = columnsOf[k]
      OBVIOUS
    <2>1. parts[k] = Lead(k, space) \o FmtId(columnsOf[k])
      BY <1>3, <1>7
    <2>2. parts[k] = FmtId(columnsOf[k]) \/ parts[k] = space \o FmtId(columnsOf[k])
      <3>1. <<>> \o FmtId(columnsOf[k]) = FmtId(columnsOf[k])
        BY <1>2, ConcatEmptySeq
      <3>2. QED
        BY <2>1, <3>1 DEF Lead
    <2>3. QED
      BY <1>2, <2>2
  <1>9. CopiedColumns(t) = [k \in 1 .. n |-> Trimmed(Trimmed(parts[k], "space"), "quote")]
    BY <1>6, <1>7 DEF CopiedColumns
  <1>10. CopiedColumns(t) = [k \in 1 .. n |-> columnsOf[k]]
    BY <1>8, <1>9
  <1>11. QED
    BY <1>1, <1>10 DEF columnsOf

HeaderInv ==
    header # <<>> => answer # <<>> /\ header = catalog[meant[1]].columns

(* The header has the names of the columns, whatever else is in them.      *)
THEOREM HeaderCorrect ==
  ASSUME FindableTables, PlainColumns PROVE RequestSpec => []HeaderIsColumns
  <1>1. RequestInit => HeaderInv
    BY DEF RequestInit, NamesInit, HeaderInv
  <1>2. NamesInv /\ HeaderInv /\ [RequestNext]_allVars => HeaderInv'
    <2> SUFFICES ASSUME NamesInv, HeaderInv, [RequestNext]_allVars PROVE HeaderInv'
      OBVIOUS
    <2>1. CASE Asked
      <3>1. catalog' = catalog /\ answer' = answer /\ header' = header /\ asked = <<>>
        BY <2>1 DEF Asked, AskForTable, Ask
      <3>2. header = <<>>
        BY <3>1 DEF NamesInv, HeaderInv
      <3>3. QED
        BY <3>1, <3>2 DEF HeaderInv
    <2>2. CASE Take
      <3> DEFINE m == meant[1]
                 found == Matches(asked)
      <3>1. /\ catalog' = catalog /\ meant' = meant /\ asked # <<>>
            /\ answer' = <<found>>
            /\ header' \in IF Cardinality(found) = 1
                           THEN {CopiedColumns(catalog[e]) : e \in found} ELSE {<<>>}
        BY <2>2 DEF Take, Find
      <3>2. <<found>> # <<>>
        OBVIOUS
      <3>3. ASSUME NEW e \in found PROVE CopiedColumns(catalog[e]) = catalog[m].columns
        <4>1. e = m /\ m \in DOMAIN catalog /\ catalog \in Catalogs
          BY <3>1, OnlyMeant DEF NamesInv
        <4>2. catalog[m].columns # <<>>
          BY <4>1 DEF Matches, Parses
        <4>3. /\ FindableTable(catalog[m])
              /\ catalog[m].columns \in Seq(Seq(ColumnChar))
              /\ catalog[m].columns \in Seq(Name)
          BY <4>1, FindableTables, PlainColumns, NamesAssumption
             DEF FindableTables, PlainColumns
        <4>4. QED
          BY <4>1, <4>2, <4>3, CopiedColumnsIs DEF FindableTable
      <3> HIDE DEF m, found
      <3>4. header' = <<>> \/ header' = catalog[m].columns
        BY <3>1, <3>3
      <3>5. QED
        BY <3>1, <3>2, <3>4 DEF HeaderInv, m
    <2>3. CASE UNCHANGED nameVars
      BY <2>3 DEF nameVars, HeaderInv
    <2>4. QED
      BY <2>1, <2>2, <2>3 DEF RequestNext, Infer, Open, Read, allVars
  <1>3. HeaderInv => HeaderIsColumns
    BY DEF HeaderInv, HeaderIsColumns
  <1>4. QED
    BY <1>1, <1>2, <1>3, NamesHold, PTL DEF RequestSpec

-----------------------------------------------------------------------------
(* A dumped row.  A cell is a sequence of units, one for each character or *)
(* one for a NULL; a field is a cell, behind a tab unless it is the first. *)
Text == Seq(Char \ {"bad"})

CellType == [null : BOOLEAN, text : Text]

(* No newline is in a dumped row.                                          *)
Safe == Char \ {"nl", "cr"}

Units(cell) ==
    IF cell.null THEN <<<<"bs", "N">>>> ELSE [k \in DOMAIN cell.text |-> Escaped(cell.text[k])]

Count(cell) == IF cell.null THEN 1 ELSE Len(cell.text)

Tab == <<"tab">>

RowParts(r) == [c \in DOMAIN r |-> Units(r[c])]

(* Unit n of cell c ends at Start(r, c, n); the cell begins at Start(r, c, *)
(* 0).                                                                     *)
Start(r, c, n) == Begin(RowParts(r), Tab, c, n)

LEMMA CharHas == /\ "bs" \in Char /\ "tab" \in Char /\ "nl" \in Char /\ "cr" \in Char
                 /\ "N" \in Safe /\ "bs" \in Safe /\ "tab" \in Safe
                 /\ "t" \in Safe /\ "n" \in Safe /\ "r" \in Safe
                 /\ Safe \subseteq Char /\ "nl" \notin Safe /\ "cr" \notin Safe
  BY DEF Char, Control, Safe

LEMMA BackslashAnd ==
  ASSUME NEW x \in Safe
  PROVE  /\ <<"bs", x>> \in Seq(Safe) /\ Len(<<"bs", x>>) = 2
         /\ <<"bs", x>>[1] = "bs" /\ <<"bs", x>>[2] = x
  BY CharHas, Pair

(* One character: alone, or with a backslash before a letter that is       *)
(* neither N nor a dot.                                                    *)
LEMMA EscapedIs ==
  ASSUME NEW c \in Char
  PROVE  /\ Escaped(c) \in Seq(Safe) /\ Len(Escaped(c)) \in 1 .. 2
         /\ Len(Escaped(c)) = 1 =>
                Escaped(c)[1] = c /\ c # "tab" /\ c # "bs" /\ c # "nl" /\ c # "cr"
         /\ Len(Escaped(c)) = 2 =>
                /\ Escaped(c)[1] = "bs" /\ Escaped(c)[2] # "N" /\ Escaped(c)[2] # "."
                /\ Unescaped(Escaped(c)[2]) = c
  <1>1. CASE c = "tab"
    <2>1. Escaped(c) = <<"bs", "t">> /\ Unescaped("t") = c
      BY <1>1 DEF Escaped, Unescaped
    <2>2. QED
      BY <2>1, CharHas, BackslashAnd
  <1>2. CASE c = "nl"
    <2>1. Escaped(c) = <<"bs", "n">> /\ Unescaped("n") = c
      BY <1>2 DEF Escaped, Unescaped
    <2>2. QED
      BY <2>1, CharHas, BackslashAnd
  <1>3. CASE c = "cr"
    <2>1. Escaped(c) = <<"bs", "r">> /\ Unescaped("r") = c
      BY <1>3 DEF Escaped, Unescaped
    <2>2. QED
      BY <2>1, CharHas, BackslashAnd
  <1>4. CASE c = "bs"
    <2>1. Escaped(c) = <<"bs", "bs">> /\ Unescaped("bs") = c
      BY <1>4 DEF Escaped, Unescaped
    <2>2. QED
      BY <2>1, CharHas, BackslashAnd
  <1>5. CASE c \notin {"tab", "nl", "cr", "bs"}
    <2>1. Escaped(c) = <<c>> /\ c \in Safe
      BY <1>5 DEF Escaped, Safe
    <2>2. QED
      BY <1>5, <2>1, CharHas
  <1>6. QED
    BY <1>1, <1>2, <1>3, <1>4, <1>5

LEMMA UnitsIs ==
  ASSUME NEW cell \in CellType
  PROVE  /\ Units(cell) \in Seq(Seq(Safe)) /\ Len(Units(cell)) = Count(cell)
         /\ Encoded(cell) = FlattenSeq(Units(cell)) /\ Encoded(cell) \in Seq(Safe)
         /\ cell.null => Units(cell)[1] = <<"bs", "N">>
         /\ ~ cell.null => \A k \in 1 .. Len(cell.text) :
                               /\ Units(cell)[k] = Escaped(cell.text[k])
                               /\ cell.text[k] \in Char
         /\ Count(cell) \in Nat
  <1> DEFINE Q == Seq(Safe)
  <1>1. CASE cell.null
    <2> DEFINE x == <<"bs", "N">>
    <2>1. x \in Q /\ Units(cell) = <<x>> /\ Encoded(cell) = x /\ Count(cell) = 1
      BY <1>1, CharHas, Pair DEF Units, Encoded, Count
    <2> HIDE DEF x, Q
    <2>2. <<x>> \in Seq(Q) /\ Len(<<x>>) = 1 /\ <<x>>[1] = x
      BY <2>1, Single
    <2>3. FlattenSeq(<<x>>) = x
      BY <2>1, FlattenTwo DEF Q
    <2>4. QED
      BY <1>1, <2>1, <2>2, <2>3 DEF x, Q
  <1>2. CASE ~ cell.null
    <2> DEFINE s == cell.text
               n == Len(s)
               u == [k \in 1 .. n |-> Escaped(s[k])]
    <2>1. s \in Seq(Char) /\ n \in Nat /\ DOMAIN s = 1 .. n
      <3>1. s \in Seq(Char \ {"bad"})
        BY DEF CellType, Text
      <3>2. s \in Seq(Char)
        BY <3>1, SeqMonotonic
      <3>3. QED
        BY <3>2, LenProperties
    <2>2. Units(cell) = u /\ Count(cell) = n /\ Encoded(cell) = FlattenSeq(u)
      BY <1>2, <2>1 DEF Units, Count, Encoded
    <2> HIDE DEF s, n
    <2>3. \A k \in 1 .. n : s[k] \in Char /\ Escaped(s[k]) \in Q
      <3>1. \A k \in 1 .. n : s[k] \in Char
        BY <2>1, ElementOfSeq DEF n
      <3>2. QED
        BY <3>1, EscapedIs
    <2> HIDE DEF Q
    <2>4. u \in [1 .. n -> Q]
      BY <2>3
    <2>5. u \in Seq(Q) /\ Len(u) = n
      BY ONLY <2>1, <2>4, FunctionIsSeq
    <2>6. FlattenSeq(u) \in Seq(Safe)
      BY <2>5, FlattenType DEF Q
    <2>7. QED
      BY <1>2, <2>1, <2>2, <2>3, <2>5, <2>6 DEF Q, s, n
  <1>3. QED
    BY <1>1, <1>2

LEMMA RowLayout ==
  ASSUME NEW r \in Seq(CellType)
  PROVE  /\ CellRow(Safe, Seq(Safe), RowParts(r), "tab", Tab) /\ Dumped(r) = RowText(RowParts(r), Tab)
         /\ Dumped(r) \in Seq(Safe) /\ Len(Dumped(r)) \in Nat /\ Len(r) \in Nat
         /\ Len(RowParts(r)) = Len(r)
         /\ \A c \in 1 .. Len(r) :
                /\ r[c] \in CellType /\ RowParts(r)[c] = Units(r[c])
                /\ Len(RowParts(r)[c]) = Count(r[c]) /\ Count(r[c]) \in Nat
  <1> DEFINE Q == Seq(Safe)
             P == Seq(Q)
             p == RowParts(r)
  <1>1. /\ DOMAIN r = 1 .. Len(r) /\ Len(r) \in Nat
        /\ \A c \in 1 .. Len(r) : r[c] \in CellType
    BY LenProperties, ElementOfSeq
  <1>2. \A c \in 1 .. Len(r) : /\ Units(r[c]) \in P /\ Len(Units(r[c])) = Count(r[c])
                               /\ Count(r[c]) \in Nat
                               /\ Encoded(r[c]) = FlattenSeq(Units(r[c]))
    BY <1>1, UnitsIs
  <1> HIDE DEF P
  <1>3. p \in [1 .. Len(r) -> P] /\ \A c \in 1 .. Len(r) : p[c] = Units(r[c])
    BY <1>1, <1>2 DEF RowParts
  <1>4. DOMAIN p = DOMAIN r
    BY DEF RowParts
  <1> HIDE DEF p
  <1>5. p \in Seq(P) /\ Len(p) = Len(r)
    BY ONLY <1>1, <1>3, FunctionIsSeq
  <1>6. CellRow(Safe, Q, p, "tab", Tab)
    BY <1>5, CharHas DEF CellRow, P, Tab
  <1>7. Dumped(r) = RowText(p, Tab)
    <2>1. Flat(p) = [c \in DOMAIN r |-> Encoded(r[c])]
      BY <1>1, <1>2, <1>3, <1>4 DEF Flat
    <2>2. Separated(Flat(p), Tab) =
              [c \in DOMAIN r |-> (IF c = 1 THEN <<>> ELSE <<"tab">>) \o Encoded(r[c])]
      BY <2>1 DEF Separated, Lead, Tab
    <2>3. QED
      BY <2>2 DEF Dumped, RowText
  <1>8. Dumped(r) \in Seq(Safe) /\ Len(Dumped(r)) \in Nat
    BY <1>6, <1>7, CellsType
  <1>9. QED
    BY <1>1, <1>2, <1>3, <1>5, <1>6, <1>7, <1>8 DEF p

LEMMA UnitLayout ==
  ASSUME NEW r \in Seq(CellType), NEW c \in 1 .. Len(r), NEW n \in 1 .. Count(r[c])
  PROVE  LET unit == Units(r[c])[n] IN
         /\ Start(r, c, n - 1) \in Nat /\ Start(r, c, n) <= Len(Dumped(r))
         /\ Start(r, c, n) = Start(r, c, n - 1) + Len(unit)
         /\ \A k \in 1 .. Len(unit) : Dumped(r)[Start(r, c, n - 1) + k] = unit[k]
  <1> DEFINE p == RowParts(r)
             text == RowText(p, Tab)
             unit == p[c][n]
  <1>1. /\ CellRow(Safe, Seq(Safe), p, "tab", Tab) /\ Dumped(r) = text
        /\ c \in 1 .. Len(p) /\ n \in 1 .. Len(p[c]) /\ p[c] = Units(r[c])
    BY RowLayout
  <1> HIDE DEF p
  <1>2. /\ Begin(p, Tab, c, n - 1) \in Nat /\ Begin(p, Tab, c, n) <= Len(text)
        /\ Begin(p, Tab, c, n) = Begin(p, Tab, c, n - 1) + Len(unit)
        /\ \A k \in 1 .. Len(unit) : text[Begin(p, Tab, c, n - 1) + k] = unit[k]
    <2>1. /\ CellRow(Safe, Seq(Safe), p, "tab", Tab)
          /\ c \in 1 .. Len(p) /\ n \in 1 .. Len(p[c])
      BY <1>1
    <2>2. QED
      BY ONLY <2>1, RowTextUnit
  <1>3. QED
    BY <1>1, <1>2 DEF Start, p

(* The cells, one behind the other, with a tab between them.               *)
LEMMA CellEnds ==
  ASSUME NEW r \in Seq(CellType), NEW c \in 1 .. Len(r)
  PROVE  /\ c = 1 => Start(r, c, 0) = 0
         /\ Start(r, c, Count(r[c])) \in 0 .. Len(Dumped(r))
         /\ c = Len(r) => Start(r, c, Count(r[c])) = Len(Dumped(r))
         /\ c < Len(r) =>
                /\ Start(r, c, Count(r[c])) + 1 <= Len(Dumped(r))
                /\ Dumped(r)[Start(r, c, Count(r[c])) + 1] = "tab"
                /\ Start(r, c + 1, 0) = Start(r, c, Count(r[c])) + 1
  <1> DEFINE p == RowParts(r)
             text == RowText(p, Tab)
             end == Begin(p, Tab, c, Len(p[c]))
  <1>1. /\ CellRow(Safe, Seq(Safe), p, "tab", Tab) /\ Dumped(r) = text
        /\ c \in 1 .. Len(p) /\ Len(p) = Len(r) /\ Len(p[c]) = Count(r[c])
    BY RowLayout
  <1> HIDE DEF p
  <1>2. /\ c = 1 => Begin(p, Tab, c, 0) = 0
        /\ end \in 0 .. Len(text)
        /\ c = Len(p) => end = Len(text)
        /\ c < Len(p) => /\ end + 1 <= Len(text) /\ text[end + 1] = "tab"
                         /\ Begin(p, Tab, c + 1, 0) = end + 1
    BY ONLY <1>1, RowTextEnds
  <1>3. QED
    BY <1>1, <1>2 DEF Start, p

(* A unit of one character is itself read; one of two characters is a      *)
(* backslash and what stands for the character, or \N.                     *)
LEMMA UnitIs ==
  ASSUME NEW cell \in CellType, NEW n \in 1 .. Count(cell)
  PROVE  LET unit == Units(cell)[n] IN
         /\ Len(unit) \in 1 .. 2 /\ (Len(unit) = 2 => unit[2] # ".")
         /\ Len(unit) = 1 => unit[1] # "bs"
         /\ cell.null => n = 1 /\ Len(unit) = 2 /\ unit[1] = "bs" /\ unit[2] = "N"
         /\ ~ cell.null =>
                /\ cell.text[n] \in Char
                /\ Len(unit) = 1 => unit[1] = cell.text[n] /\ unit[1] # "tab"
                /\ Len(unit) = 2 => /\ unit[1] = "bs" /\ unit[2] # "N"
                                    /\ Unescaped(unit[2]) = cell.text[n]
  <1> DEFINE unit == Units(cell)[n]
  <1>1. CASE cell.null
    <2>1. Count(cell) = 1
      BY <1>1 DEF Count
    <2>2. n = 1 /\ unit = <<"bs", "N">>
      BY <1>1, <2>1, UnitsIs
    <2>3. Len(unit) = 2 /\ unit[1] = "bs" /\ unit[2] = "N"
      BY <2>2, CharHas, BackslashAnd
    <2>4. QED
      BY <1>1, <2>2, <2>3
  <1>2. CASE ~ cell.null
    <2>1. Count(cell) = Len(cell.text)
      BY <1>2 DEF Count
    <2>2. unit = Escaped(cell.text[n]) /\ cell.text[n] \in Char
      BY <1>2, <2>1, UnitsIs
    <2>3. QED
      BY <1>2, <2>2, EscapedIs
  <1>3. QED
    BY <1>1, <1>2

(* What follows the first n units of a cell.                               *)
LEMMA NextUnit ==
  ASSUME NEW r \in Seq(CellType), NEW c \in 1 .. Len(r), NEW n \in 0 .. Count(r[c]),
         n # Count(r[c])
  PROVE  LET unit == Units(r[c])[n + 1]
             p == Start(r, c, n) + 1
         IN /\ n + 1 \in 1 .. Count(r[c]) /\ p \in 1 .. Len(Dumped(r))
            /\ Dumped(r)[p] = unit[1]
            /\ Len(unit) = 2 => p < Len(Dumped(r)) /\ Dumped(r)[p + 1] = unit[2]
            /\ Start(r, c, n + 1) + 1 = p + Len(unit)
  <1> DEFINE m == n + 1
             unit == Units(r[c])[m]
             l == Len(unit)
             a == Start(r, c, n)
             text == Dumped(r)
  <1>1. r[c] \in CellType /\ Count(r[c]) \in Nat /\ Len(text) \in Nat
    BY RowLayout
  <1>2. m \in 1 .. Count(r[c]) /\ m - 1 = n
    BY <1>1
  <1>3. l \in 1 .. 2
    BY <1>1, <1>2, UnitIs
  <1> HIDE DEF m
  <1>4. /\ a \in Nat /\ Start(r, c, m) <= Len(text) /\ Start(r, c, m) = a + l
        /\ \A k \in 1 .. l : text[a + k] = unit[k]
    BY <1>2, UnitLayout
  <1> HIDE DEF a, l, text, unit
  <1>5. 1 \in 1 .. l /\ (l = 2 => 2 \in 1 .. l)
    BY ONLY <1>3
  <1>6. text[a + 1] = unit[1] /\ (l = 2 => text[a + 2] = unit[2])
    BY <1>4, <1>5
  <1>7. /\ a + 1 \in 1 .. Len(text) /\ (l = 2 => a + 1 < Len(text))
        /\ a + 2 = (a + 1) + 1 /\ Start(r, c, m) + 1 = (a + 1) + l
    BY <1>1, <1>3, <1>4
  <1>8. QED
    BY <1>2, <1>6, <1>7 DEF m, a, l, text, unit

(* No row is dumped as the end marker.                                     *)
LEMMA NotEndMarker ==
  ASSUME NEW r \in Seq(CellType), r # <<>>
  PROVE  Dumped(r) # <<"bs", ".">>
  <1> SUFFICES ASSUME Dumped(r) = <<"bs", ".">> PROVE FALSE
    OBVIOUS
  <1> DEFINE text == Dumped(r)
             count == Count(r[1])
  <1>1. Len(r) \in Nat /\ Len(r) # 0
    BY EmptySeq, LenProperties
  <1>2. 1 \in 1 .. Len(r)
    BY <1>1
  <1>3. Len(text) = 2 /\ text[1] = "bs" /\ text[2] = "."
    OBVIOUS
  <1>4. r[1] \in CellType /\ count \in Nat /\ Start(r, 1, 0) = 0
    BY <1>2, RowLayout, CellEnds
  <1>5. CASE count = 0
    <2>1. CASE Len(r) = 1
      BY <1>2, <1>3, <1>4, <1>5, <2>1, CellEnds
    <2>2. CASE Len(r) # 1
      <3> DEFINE m == Len(r)
      <3>0. m \in Nat /\ m # 0 /\ m # 1
        BY <1>1, <2>2
      <3> HIDE DEF m
      <3>1. 1 < m
        BY ONLY <3>0
      <3>2. text[0 + 1] = "tab"
        BY <1>2, <1>4, <1>5, <3>1, CellEnds DEF m
      <3>3. QED
        BY <1>3, <3>2
    <2>3. QED
      BY <2>1, <2>2
  <1>6. CASE count # 0
    <2> DEFINE unit == Units(r[1])[0 + 1]
    <2>1. 0 \in 0 .. count /\ 0 + 1 \in 1 .. count
      BY <1>4, <1>6
    <2>2. /\ text[0 + 1] = unit[1]
          /\ Len(unit) = 2 => text[(0 + 1) + 1] = unit[2]
      BY <1>2, <1>4, <1>6, <2>1, NextUnit
    <2>3. /\ Len(unit) \in 1 .. 2 /\ (Len(unit) = 2 => unit[2] # ".")
          /\ Len(unit) = 1 => unit[1] # "bs"
      BY <1>4, <2>1, UnitIs
    <2> HIDE DEF unit, text
    <2>4. QED
      BY <1>3, <2>2, <2>3
  <1>7. QED
    BY <1>5, <1>6

(* strip_newline removes the newline and nothing else.                     *)
LEMMA StrippedIs ==
  ASSUME NEW s \in Seq(Safe), NEW newline \in Newlines
  PROVE  Stripped(s \o newline) = s
  <1> DEFINE t == s \o newline
             n == Len(s)
             l == Len(newline)
             two == <<"cr", "nl">>
             one == <<"nl">>
  <1>1. /\ one \in Seq(Char) /\ Len(one) = 1 /\ one[1] = "nl"
        /\ two \in Seq(Char) /\ Len(two) = 2 /\ two[1] = "cr" /\ two[2] = "nl"
    BY CharHas, Single, Pair
  <1>2. s \in Seq(Char)
    <2>1. Safe \subseteq Char
      BY CharHas
    <2>2. QED
      BY <2>1, SeqMonotonic
  <1>3. newline \in Seq(Char) /\ (newline = <<>> \/ newline = one \/ newline = two)
    <2>1. newline = <<>> \/ newline = one \/ newline = two
      BY DEF Newlines
    <2> HIDE DEF one, two
    <2>2. QED
      BY <1>1, <2>1, EmptySeq
  <1> HIDE DEF one, two
  <1>4. s \in Seq(Char) /\ newline \in Seq(Char)
    BY <1>2, <1>3
  <1>5. /\ t \in Seq(Char) /\ Len(t) = n + l /\ n \in Nat /\ l \in Nat
        /\ \A k \in 1 .. n : t[k] = s[k]
        /\ \A k \in 1 .. l : t[n + k] = newline[k]
        /\ SubSeq(t, 1, n) = s
    BY ONLY <1>4, ConcatAt, FirstPart
  <1>6. \A k \in 1 .. n : s[k] # "nl" /\ s[k] # "cr"
    BY ElementOfSeq, CharHas
  <1>7. l = 0 <=> newline = <<>>
    BY <1>4, EmptySeq
  <1> HIDE DEF t, n, l
  <1>8. /\ IsSuffix(one, t) <=> 1 <= Len(t) /\ t[Len(t)] = "nl"
        /\ IsSuffix(two, t) <=> 2 <= Len(t) /\ t[Len(t)] = "nl" /\ t[Len(t) - 1] = "cr"
    <2>0. one \in Seq(Char) /\ two \in Seq(Char) /\ t \in Seq(Char)
      BY <1>1, <1>5
    <2>1. IsSuffix(one, t) <=>
             /\ Len(one) <= Len(t)
             /\ \A k \in 1 .. Len(one) : one[Len(one) - k + 1] = t[Len(t) - k + 1]
      BY ONLY <2>0, SuffixIs
    <2>2. IsSuffix(two, t) <=>
             /\ Len(two) <= Len(t)
             /\ \A k \in 1 .. Len(two) : two[Len(two) - k + 1] = t[Len(t) - k + 1]
      BY ONLY <2>0, SuffixIs
    <2>3. Len(t) \in Nat
      BY <1>5
    <2>4. QED
      BY <1>1, <2>1, <2>2, <2>3
  <1>9. CASE newline = <<>>
    <2>1. t = s /\ Len(t) = n
      BY <1>4, <1>5, <1>7, <1>9, ConcatEmptySeq DEF t
    <2>2. ~ IsSuffix(one, t)
      BY <1>5, <1>6, <1>8, <2>1
    <2>3. QED
      BY <2>1, <2>2 DEF Stripped, one, t
  <1>10. CASE newline = one
    <2>1. l = 1
      BY ONLY <1>1, <1>10 DEF l
    <2>2. newline[1] = "nl"
      BY ONLY <1>1, <1>10
    <2>3. t[n + 1] = "nl" /\ Len(t) = n + 1 /\ n \in Nat
      BY <1>5, <2>1, <2>2
    <2>4. 1 <= Len(t) /\ Len(t) - 1 = n /\ (2 <= Len(t) => n \in 1 .. n)
      BY ONLY <2>3
    <2>5. IsSuffix(one, t) /\ ~ IsSuffix(two, t)
      BY <1>5, <1>6, <1>8, <2>3, <2>4
    <2>6. QED
      BY <1>5, <2>4, <2>5 DEF Stripped, Without, one, two, t
  <1>11. CASE newline = two
    <2>1. l = 2
      BY ONLY <1>1, <1>11 DEF l
    <2>2. newline[1] = "cr" /\ newline[2] = "nl"
      BY ONLY <1>1, <1>11
    <2>3. t[n + 1] = "cr" /\ t[n + 2] = "nl" /\ Len(t) = n + 2 /\ n \in Nat
      BY <1>5, <2>1, <2>2
    <2>4. 2 <= Len(t) /\ 1 <= Len(t) /\ Len(t) - 2 = n /\ Len(t) - 1 = n + 1
      BY ONLY <2>3
    <2>5. IsSuffix(one, t) /\ IsSuffix(two, t)
      BY <1>8, <2>3, <2>4
    <2>6. QED
      BY <1>5, <2>4, <2>5 DEF Stripped, Without, one, two, t
  <1>12. QED
    BY <1>3, <1>9, <1>10, <1>11

-----------------------------------------------------------------------------
(* Reading a dumped line: n units of cell c are read, the next character   *)
(* is the one behind them.                                                 *)
Reading(c, n) ==
    /\ i = Start(row, c, n) + 1
    /\ Len(cells) = c - 1 /\ \A k \in 1 .. c - 1 : cells[k] = row[k]
    /\ started = (n > 0)
    /\ isNull = (row[c].null /\ n > 0)
    /\ row[c].null => field = <<>>
    /\ ~ row[c].null => Len(field) = n /\ \A k \in 1 .. n : field[k] = row[c].text[k]

DumpedInv ==
    /\ row \in Rows /\ columns = Len(row)
    /\ i = 0 =>
           /\ verdict = "none" /\ \E newline \in Newlines : line = Dumped(row) \o newline
           /\ cells = <<>> /\ field = <<>> /\ isNull = FALSE /\ started = FALSE
    /\ i > 0 => line = Dumped(row)
    /\ i > 0 /\ verdict = "none" =>
           \E c \in 1 .. Len(row) : \E n \in 0 .. Count(row[c]) : Reading(c, n)
    /\ verdict # "none" => verdict = "ok" /\ cells = row

CopyInv == TypeOK /\ (row # <<>> => DumpedInv)

LEMMA RowIs ==
  ASSUME NEW r \in Rows
  PROVE  /\ r \in Seq(CellType) /\ r # <<>> /\ Len(r) \in Nat \ {0}
         /\ \A c \in 1 .. Len(r) : r[c] \in CellType /\ (r[c].null => r[c].text = <<>>)
  <1>1. r \in Seq(CellType) /\ r # <<>> /\ \A c \in DOMAIN r : r[c].null => r[c].text = <<>>
    BY CopyTextAssumption DEF CellType, Text
  <1>2. Len(r) \in Nat /\ DOMAIN r = 1 .. Len(r)
    BY <1>1, LenProperties
  <1>3. Len(r) # 0
    BY <1>1, EmptySeq
  <1>4. \A c \in 1 .. Len(r) : r[c] \in CellType
    BY <1>1, ElementOfSeq
  <1>5. QED
    BY <1>1, <1>2, <1>3, <1>4

(* What the type invariant says, in the terms of the proofs.               *)
LEMMA CopyTypes ==
  ASSUME TypeOK
  PROVE  /\ line \in Seq(Char) /\ Len(line) \in Nat /\ i \in Nat /\ i <= Len(line) + 1
         /\ field \in Seq(Char) /\ isNull \in BOOLEAN /\ started \in BOOLEAN
         /\ cells \in Seq(CellType) /\ Len(cells) \in Nat /\ columns \in Nat
         /\ \A k \in 1 .. Len(line) : line[k] \in Char
         /\ Cell \in [null : BOOLEAN, text : Seq(Char)]
         /\ isNull \/ "bad" \notin ToSet(field) => Cell \in CellType
  <1>1. /\ line \in Seq(Char) /\ i \in 0 .. Len(line) + 1
        /\ field \in Seq(Char) /\ isNull \in BOOLEAN /\ started \in BOOLEAN
        /\ cells \in Seq(CellType) /\ columns \in Nat
    BY DEF TypeOK, CellType, Text
  <1>2. /\ Len(line) \in Nat /\ Len(cells) \in Nat
        /\ \A k \in 1 .. Len(line) : line[k] \in Char
    BY <1>1, LenProperties, ElementOfSeq
  <1>3. Null \in CellType /\ Null \in [null : BOOLEAN, text : Seq(Char)]
    BY EmptySeq DEF Null, CellType, Text
  <1>4. Value(field) \in [null : BOOLEAN, text : Seq(Char)]
    BY <1>1 DEF Value
  <1>5. ASSUME "bad" \notin ToSet(field) PROVE Value(field) \in CellType
    <2>1. /\ DOMAIN field = 1 .. Len(field) /\ Len(field) \in Nat
          /\ \A k \in 1 .. Len(field) : field[k] \in Char
      BY <1>1, LenProperties, ElementOfSeq
    <2>2. \A k \in 1 .. Len(field) : field[k] # "bad"
      BY <1>5, <2>1 DEF ToSet
    <2>3. field \in [1 .. Len(field) -> Char \ {"bad"}]
      BY <1>1, <2>1, <2>2, LenProperties
    <2>4. field \in Text
      BY <2>1, <2>3, FunctionIsSeq DEF Text
    <2>5. QED
      BY <2>4 DEF Value, CellType
  <1>6. QED
    BY <1>1, <1>2, <1>3, <1>4, <1>5 DEF Cell

LEMMA UnescapedType ==
  ASSUME NEW x \in Char
  PROVE  Unescaped(x) \in Char
  BY CharHas DEF Unescaped

LEMMA CopyTypeStep ==
  ASSUME TypeOK, Next
  PROVE  TypeOK'
  <1>1. CASE Strip
    <2> DEFINE l == Len(line)
    <2>1. /\ columns' = columns /\ field' = field /\ isNull' = isNull /\ started' = started
          /\ cells' = cells /\ i' = 1 /\ line' = Stripped(line)
          /\ verdict' \in {"end", "none"}
      BY <1>1 DEF Strip, inputVars, fieldVars
    <2>2. line \in Seq(Char) /\ l \in Nat
      BY CopyTypes
    <2> HIDE DEF l
    <2>3. ASSUME NEW n \in {1, 2}, SubSeq(line, 1, l - n) \notin Seq(Char) PROVE FALSE
      <3>1. 1 \in Int /\ l - n \in Int /\ \A k \in 1 .. l - n : line[k] \in Char
        BY <2>2, <2>3, ElementOfSeq DEF l
      <3>2. QED
        BY <2>3, <3>1, SubSeqProperties
    <2>4. Stripped(line) \in {line, SubSeq(line, 1, l - 1), SubSeq(line, 1, l - 2)}
      BY DEF Stripped, Without, l
    <2>5. line' \in Seq(Char) /\ Len(line') \in Nat
      BY <2>1, <2>2, <2>3, <2>4, LenProperties
    <2>6. i' \in 0 .. Len(line') + 1
      BY <2>1, <2>5
    <2>7. QED
      BY <2>1, <2>5, <2>6 DEF TypeOK
  <1>2. CASE Delimiter
    <2>1. /\ columns' = columns /\ line' = line /\ verdict' = verdict /\ field' = <<>>
          /\ isNull' = FALSE /\ started' = FALSE /\ i' = i + 1 /\ i <= Len(line)
          /\ cells' = Append(cells, Cell) /\ Len(cells) < columns /\ FieldOk
      BY <1>2 DEF Delimiter, At, Finalize, FieldOk, inputVars
    <2>2. Cell \in CellType
      BY <2>1, CopyTypes DEF FieldOk
    <2>3. cells' \in Seq(CellType) /\ Len(cells') = Len(cells) + 1
      BY <2>1, <2>2, CopyTypes, LongerSeq
    <2>4. i' \in 0 .. Len(line') + 1
      BY <2>1, CopyTypes
    <2>7. Len(cells') <= columns'
      <3>1. columns' = columns /\ Len(cells) < columns /\ Len(cells') = Len(cells) + 1
        BY <2>1, <2>3
      <3>2. Len(cells) \in Nat /\ columns \in Nat
        BY CopyTypes
      <3>3. QED
        BY ONLY <3>1, <3>2
    <2>5. <<>> \in Seq(Char)
      BY EmptySeq
    <2>6. QED
      BY <2>1, <2>3, <2>4, <2>5, <2>7 DEF TypeOK, CellType, Text
  <1>3. CASE NullMark
    <2>1. /\ columns' = columns /\ line' = line /\ verdict' = verdict /\ field' = field
          /\ isNull' = TRUE /\ started' = TRUE /\ i' = i + 2 /\ i < Len(line)
          /\ cells' = cells
      BY <1>3 DEF NullMark, AtNull, Escape, inputVars
    <2>2. i' \in 0 .. Len(line') + 1
      BY <2>1, CopyTypes
    <2>3. QED
      BY <2>1, <2>2 DEF TypeOK
  <1>4. CASE EscapedChar
    <2>1. /\ columns' = columns /\ line' = line /\ verdict' = verdict /\ isNull' = isNull
          /\ started' = TRUE /\ i' = i + 2 /\ i < Len(line) /\ cells' = cells
          /\ field' = Append(field, Unescaped(line[i + 1]))
      BY <1>4 DEF EscapedChar, Escape, inputVars
    <2>2. i' \in 0 .. Len(line') + 1 /\ i + 1 \in 1 .. Len(line)
      BY SMTT(40), <2>1, CopyTypes
    <2>3. field' \in Seq(Char)
      <3>1. Unescaped(line[i + 1]) \in Char
        BY <2>2, CopyTypes, UnescapedType
      <3>2. field \in Seq(Char)
        BY CopyTypes
      <3>3. QED
        BY <2>1, <3>1, <3>2, LongerSeq
    <2>4. QED
      BY <2>1, <2>2, <2>3 DEF TypeOK
  <1>5. CASE PlainChar
    <2>1. /\ columns' = columns /\ line' = line /\ verdict' = verdict /\ isNull' = isNull
          /\ started' = TRUE /\ i' = i + 1 /\ i <= Len(line) /\ cells' = cells /\ i > 0
          /\ field' = Append(field, line[i])
      BY <1>5 DEF PlainChar, Scanning, inputVars
    <2>2. i' \in 0 .. Len(line') + 1 /\ i \in 1 .. Len(line)
      BY <2>1, CopyTypes
    <2>3. field' \in Seq(Char)
      <3>1. line[i] \in Char /\ field \in Seq(Char)
        BY <2>2, CopyTypes
      <3>2. QED
        BY <2>1, <3>1, LongerSeq
    <2>4. QED
      BY <2>1, <2>2, <2>3 DEF TypeOK
  <1>6. CASE LineEnd
    <2>1. /\ columns' = columns /\ line' = line /\ verdict' \in {"ok", "err"} /\ field' = field
          /\ isNull' = isNull /\ started' = started /\ i' = i
          /\ cells' = Append(cells, Cell) /\ Len(cells) < columns /\ FieldOk
      BY <1>6 DEF LineEnd, Finalize, FieldOk, inputVars, fieldVars
    <2>2. Cell \in CellType
      BY <2>1, CopyTypes DEF FieldOk
    <2>3. cells' \in Seq(CellType) /\ Len(cells') = Len(cells) + 1
      BY <2>1, <2>2, CopyTypes, LongerSeq
    <2>4. Len(cells') <= columns'
      BY <2>1, <2>3, CopyTypes
    <2>5. QED
      BY <2>1, <2>3, <2>4 DEF TypeOK, CellType, Text
  <1>7. CASE FieldFails
    BY <1>7 DEF FieldFails, TypeOK, inputVars, fieldVars
  <1>8. QED
    BY <1>1, <1>2, <1>3, <1>4, <1>5, <1>6, <1>7 DEF Next

(* Where the next unit of a dumped line begins.                            *)
LEMMA AtUnit ==
  ASSUME TypeOK, DumpedInv, Scanning,
         NEW c \in 1 .. Len(row), NEW n \in 0 .. Count(row[c]), Reading(c, n),
         n # Count(row[c])
  PROVE  LET unit == Units(row[c])[n + 1] IN
         /\ n + 1 \in 1 .. Count(row[c]) /\ n \in Nat /\ i \in 1 .. Len(line)
         /\ line[i] = unit[1]
         /\ Len(unit) = 2 => i < Len(line) /\ line[i + 1] = unit[2]
         /\ Start(row, c, n + 1) + 1 = i + Len(unit)
  <1>1. row \in Rows /\ line = Dumped(row) /\ i = Start(row, c, n) + 1
    BY DEF DumpedInv, Scanning, Reading
  <1>2. row \in Seq(CellType)
    BY <1>1, RowIs
  <1>3. LET unit == Units(row[c])[n + 1]
            p == Start(row, c, n) + 1
        IN /\ n + 1 \in 1 .. Count(row[c]) /\ p \in 1 .. Len(Dumped(row))
           /\ Dumped(row)[p] = unit[1]
           /\ Len(unit) = 2 => p < Len(Dumped(row)) /\ Dumped(row)[p + 1] = unit[2]
           /\ Start(row, c, n + 1) + 1 = p + Len(unit)
    BY <1>2, NextUnit
  <1>4. n \in Nat
    BY <1>2, RowLayout
  <1>5. QED
    BY <1>1, <1>3, <1>4

(* A step reads one unit.                                                  *)
LEMMA UnitStep ==
  ASSUME TypeOK, DumpedInv, Scanning, Next,
         NEW c \in 1 .. Len(row), NEW n \in 0 .. Count(row[c]), Reading(c, n),
         n # Count(row[c])
  PROVE  Reading(c, n + 1)' /\ i' > 0 /\ UNCHANGED <<row, columns, line, verdict>>
  <1> DEFINE unit == Units(row[c])[n + 1]
             cell == row[c]
             l == Len(unit)
             x == unit[1]
             y == unit[2]
             s == Start(row, c, n + 1)
  <1>1. /\ n + 1 \in 1 .. Count(cell) /\ n \in Nat /\ i \in 1 .. Len(line) /\ line[i] = x
        /\ l = 2 => i < Len(line) /\ line[i + 1] = y
        /\ s + 1 = i + l
    BY AtUnit
  <1>2. cell \in CellType /\ cell.null \in BOOLEAN
    <2>1. cell \in CellType
      BY RowIs DEF DumpedInv
    <2>2. QED
      BY <2>1 DEF CellType
  <1>3. /\ l \in 1 .. 2
        /\ cell.null => n + 1 = 1 /\ l = 2 /\ x = "bs" /\ y = "N"
        /\ ~ cell.null =>
               /\ l = 1 => x = cell.text[n + 1] /\ x # "tab"
               /\ l = 2 => x = "bs" /\ y # "N" /\ Unescaped(y) = cell.text[n + 1]
        /\ l = 1 => x # "bs"
    BY <1>1, <1>2, UnitIs
  <1>4. /\ Len(cells) = c - 1 /\ \A k \in 1 .. c - 1 : cells[k] = row[k]
        /\ started = (n > 0) /\ isNull = (cell.null /\ n > 0)
        /\ cell.null => field = <<>>
        /\ ~ cell.null => Len(field) = n /\ \A k \in 1 .. n : field[k] = cell.text[k]
    BY DEF Reading
  <1>5. verdict = "none" /\ Scanning /\ i > 0 /\ Len(line) \in Nat /\ field \in Seq(Char)
    BY CopyTypes DEF Scanning
  <1>6. n + 1 > 0 /\ (n > 0 => n + 1 # 1) /\ i <= Len(line) /\ ~ (i > Len(line)) /\ i # 0
    BY SMTT(40), <1>1, <1>5
  <1> HIDE DEF unit, cell, l, x, y, s
  <1>7. x # "tab"
    BY <1>3
  <1>8. ~ Strip /\ ~ Delimiter /\ ~ LineEnd /\ ~ FieldFails
    BY ONLY <1>1, <1>6, <1>7 DEF Strip, Delimiter, At, LineEnd, FieldFails
  <1>9. CASE cell.null
    <2>0. n = 0 /\ n + 1 > 0 /\ ~ (n > 0)
      BY <1>1, <1>3, <1>9
    <2>1. n = 0 /\ ~ started /\ field = <<>> /\ n + 1 > 0
      BY <1>4, <1>9, <2>0
    <2>2. Escape /\ AtNull
      BY ONLY <1>1, <1>3, <1>5, <1>6, <1>9, <2>1 DEF AtNull, Escape, At
    <2>3. NullMark
      BY <1>8, <2>2 DEF Next, EscapedChar, PlainChar
    <2>4. /\ isNull' = TRUE /\ started' = TRUE /\ i' = i + 2 /\ row' = row
          /\ columns' = columns /\ line' = line /\ field' = field /\ cells' = cells
          /\ verdict' = verdict
      BY <2>3 DEF NullMark, inputVars
    <2>5. i' = s + 1 /\ i' > 0
      BY <1>1, <1>3, <1>9, <2>4
    <2>6. Reading(c, n + 1)'
      BY <1>4, <1>6, <1>9, <2>1, <2>4, <2>5 DEF Reading, cell, s
    <2>7. QED
      BY <2>4, <2>5, <2>6
  <1>10. CASE ~ cell.null
    <2>1. ~ AtNull /\ (Escape <=> l = 2)
      BY <1>1, <1>3, <1>5, <1>6, <1>10 DEF AtNull, Escape, At
    <2>2. ~ NullMark /\ (EscapedChar => l = 2) /\ (PlainChar => l # 2)
      BY <2>1 DEF NullMark, EscapedChar, PlainChar
    <2>3. /\ isNull' = isNull /\ started' = TRUE /\ row' = row
          /\ columns' = columns /\ line' = line /\ cells' = cells /\ verdict' = verdict
      BY <1>8, <2>2 DEF Next, EscapedChar, PlainChar, inputVars
    <2>4. i' = i + l /\ field' = Append(field, cell.text[n + 1])
      <3>1. CASE EscapedChar
        BY <1>1, <1>3, <1>10, <2>2, <3>1 DEF EscapedChar
      <3>2. CASE PlainChar
        BY <1>1, <1>3, <1>10, <2>2, <3>2 DEF PlainChar
      <3>3. QED
        BY <1>8, <2>2, <3>1, <3>2 DEF Next
    <2>5. i' = s + 1 /\ i' > 0
      BY <1>1, <1>3, <2>4
    <2>6. Len(field') = n + 1 /\ \A k \in 1 .. n + 1 : field'[k] = cell.text[k]
      <3> DEFINE z == cell.text[n + 1]
      <3>1. z \in Char
        BY <1>1, <1>2, <1>10, UnitIs
      <3>2. Len(field) = n /\ field' = Append(field, z)
        BY <1>4, <1>10, <2>4
      <3>3. z = cell.text[n + 1]
        OBVIOUS
      <3> HIDE DEF z
      <3>4. /\ Len(Append(field, z)) = Len(field) + 1
            /\ \A k \in 1 .. Len(field) : Append(field, z)[k] = field[k]
            /\ Append(field, z)[Len(field) + 1] = z
        BY <1>5, <3>1, LongerSeq
      <3>5. ASSUME NEW k \in 1 .. n + 1 PROVE field'[k] = cell.text[k]
        <4>1. k \in 1 .. n \/ k = n + 1
          BY <1>1
        <4>2. QED
          BY <1>4, <1>10, <3>2, <3>3, <3>4, <4>1
      <3>6. QED
        BY <3>2, <3>4, <3>5
    <2>7. Reading(c, n + 1)'
      BY <1>4, <1>6, <1>10, <2>3, <2>5, <2>6 DEF Reading, cell, s
    <2>8. QED
      BY <2>3, <2>5, <2>7
  <1>11. QED
    BY <1>2, <1>9, <1>10

(* A cell that is read to its end is the cell that was dumped.             *)
LEMMA CellIs ==
  ASSUME TypeOK, DumpedInv, NEW c \in 1 .. Len(row), Reading(c, Count(row[c]))
  PROVE  Cell = row[c] /\ FieldOk /\ Len(cells) = c - 1
  <1> DEFINE cell == row[c]
             count == Count(cell)
  <1>1. /\ row \in Rows /\ columns = Len(row) /\ Len(row) \in Nat
        /\ cell \in CellType /\ (cell.null => cell.text = <<>>)
    BY RowIs DEF DumpedInv
  <1>2. /\ Len(cells) = c - 1 /\ isNull = (cell.null /\ count > 0)
        /\ ~ cell.null => Len(field) = count /\ \A k \in 1 .. count : field[k] = cell.text[k]
    BY DEF Reading
  <1>3. Len(cells) < columns
    BY <1>1, <1>2
  <1>4. cell = [null |-> cell.null, text |-> cell.text] /\ cell.null \in BOOLEAN
        /\ cell.text \in Text
    BY <1>1 DEF CellType
  <1> HIDE DEF cell, count
  <1>5. CASE cell.null
    <2>1. count > 0
      BY <1>5 DEF count, Count
    <2>2. isNull /\ cell = Null
      BY <1>1, <1>2, <1>4, <1>5, <2>1 DEF Null
    <2>3. QED
      BY <1>2, <1>3, <2>2 DEF Cell, FieldOk, cell
  <1>6. CASE ~ cell.null
    <2>1. count = Len(cell.text) /\ ~ isNull
      BY <1>2, <1>6 DEF count, Count
    <2>2. cell.text \in Seq(Char)
      <3>1. cell.text \in Seq(Char \ {"bad"})
        BY <1>4 DEF Text
      <3>2. QED
        BY <3>1, SeqMonotonic
    <2>3. field \in Seq(Char)
      BY CopyTypes
    <2>4. field = cell.text
      BY <1>2, <1>6, <2>1, <2>2, <2>3, SeqEqual
    <2>5. "bad" \notin ToSet(field)
      <3>1. DOMAIN field = 1 .. Len(field) /\ field \in Seq(Char \ {"bad"})
        BY <1>4, <2>4, LenProperties DEF Text
      <3>2. \A k \in 1 .. Len(field) : field[k] # "bad"
        BY <3>1, ElementOfSeq
      <3>3. QED
        BY <3>1, <3>2 DEF ToSet
    <2>6. Cell = cell
      BY <1>4, <1>6, <2>1, <2>4 DEF Cell, Value
    <2>7. QED
      BY <1>2, <1>3, <2>5, <2>6 DEF FieldOk, cell
  <1>7. QED
    BY <1>4, <1>5, <1>6

(* Behind a cell that is not the last stands a tab, and the next cell      *)
(* begins.                                                                 *)
LEMMA DelimiterStep ==
  ASSUME TypeOK, DumpedInv, Scanning, Next,
         NEW c \in 1 .. Len(row), Reading(c, Count(row[c])), c # Len(row)
  PROVE  Reading(c + 1, 0)' /\ i' > 0 /\ UNCHANGED <<row, columns, line, verdict>>
  <1> DEFINE p == Start(row, c, Count(row[c]))
             s == Start(row, c + 1, 0)
             d == c + 1
             l == Len(row)
  <1>1. row \in Rows /\ line = Dumped(row) /\ row \in Seq(CellType) /\ l \in Nat
    BY RowIs DEF DumpedInv, Scanning
  <1>2. c \in 1 .. l /\ c < l /\ d \in 1 .. l
    BY <1>1
  <1>3. /\ p \in Nat /\ p + 1 <= Len(line) /\ line[p + 1] = "tab" /\ s = p + 1
    BY <1>1, <1>2, CellEnds
  <1>4. i = p + 1 /\ \A k \in 1 .. c - 1 : cells[k] = row[k]
    BY DEF Reading
  <1>5. Cell = row[c] /\ FieldOk /\ Len(cells) = c - 1
    BY CellIs
  <1>6. verdict = "none" /\ Scanning /\ cells \in Seq(CellType) /\ Len(line) \in Nat
    BY CopyTypes DEF Scanning
  <1> HIDE DEF p, s, d, l
  <1>7. i > 0 /\ i # 0 /\ i <= Len(line) /\ ~ (i > Len(line)) /\ line[i] = "tab"
    BY <1>3, <1>4, <1>6
  <1>8. Delimiter
    BY ONLY Next, <1>5, <1>7
    DEF Next, Strip, NullMark, AtNull, EscapedChar, Escape, At, PlainChar, LineEnd, FieldFails
  <1>9. /\ field' = <<>> /\ isNull' = FALSE /\ started' = FALSE /\ i' = i + 1
        /\ row' = row /\ columns' = columns /\ line' = line /\ verdict' = verdict
        /\ cells' = Append(cells, row[c])
    BY <1>5, <1>8 DEF Delimiter, Finalize, inputVars
  <1>10. Len(cells') = c /\ \A k \in 1 .. c : cells'[k] = row[k]
    <2>1. row[c] \in CellType /\ cells \in Seq(CellType)
      BY <1>1, <1>6, RowIs
    <2>2. /\ Len(cells') = Len(cells) + 1
          /\ \A k \in 1 .. Len(cells) : cells'[k] = cells[k]
          /\ cells'[Len(cells) + 1] = row[c]
      BY <1>9, <2>1, LongerSeq
    <2>3. Len(cells) + 1 = c /\ \A k \in 1 .. c : k \in 1 .. c - 1 \/ k = c
      BY <1>5
    <2>4. QED
      BY <1>4, <1>5, <2>2, <2>3
  <1>11. i' = s + 1 /\ i' > 0 /\ d - 1 = c
    BY <1>3, <1>4, <1>9 DEF d
  <1>12. Reading(d, 0)'
    <2>1. s = Start(row, d, 0)
      BY DEF s, d
    <2>2. <<>> \in Seq(Char) /\ Len(<<>>) = 0 /\ \A k \in 1 .. 0 : FALSE
      BY EmptySeq
    <2>3. (0 > 0) = FALSE /\ (row'[d].null /\ 0 > 0) = FALSE
      OBVIOUS
    <2>4. i' = Start(row', d, 0) + 1
      BY <1>9, <1>11, <2>1
    <2>8. started' = (0 > 0) /\ isNull' = (row'[d].null /\ 0 > 0)
      BY <1>9, <2>3
    <2>5. Len(cells') = d - 1 /\ \A k \in 1 .. d - 1 : cells'[k] = row'[k]
      BY <1>9, <1>10, <1>11
    <2>6. /\ row'[d].null => field' = <<>>
          /\ ~ row'[d].null =>
                 Len(field') = 0 /\ \A k \in 1 .. 0 : field'[k] = row'[d].text[k]
      BY <1>9, <2>2
    <2>7. QED
      BY ONLY <2>4, <2>5, <2>6, <2>8 DEF Reading
  <1>13. QED
    BY <1>9, <1>11, <1>12 DEF d

(* Behind the last cell the line ends.                                     *)
LEMMA LastStep ==
  ASSUME TypeOK, DumpedInv, Scanning, Next,
         NEW c \in 1 .. Len(row), Reading(c, Count(row[c])), c = Len(row)
  PROVE  /\ verdict' = "ok" /\ cells' = row /\ i' > 0
         /\ UNCHANGED <<row, columns, line>>
  <1>1. /\ row \in Rows /\ line = Dumped(row) /\ row \in Seq(CellType)
        /\ columns = Len(row) /\ Len(row) \in Nat
    BY RowIs DEF DumpedInv, Scanning
  <1>2. Start(row, c, Count(row[c])) = Len(line)
    BY <1>1, CellEnds
  <1>3. i = Len(line) + 1 /\ \A k \in 1 .. c - 1 : cells[k] = row[k]
    BY <1>2 DEF Reading
  <1>4. Cell = row[c] /\ FieldOk /\ Len(cells) = c - 1
    BY CellIs
  <1>5. verdict = "none" /\ Scanning /\ cells \in Seq(CellType) /\ Len(line) \in Nat
    BY CopyTypes DEF Scanning
  <1>6. i > 0 /\ i # 0 /\ i > Len(line) /\ ~ (i <= Len(line)) /\ ~ (i < Len(line))
    BY <1>3, <1>5
  <1>7. LineEnd
    BY ONLY Next, <1>4, <1>6
    DEF Next, Strip, NullMark, AtNull, EscapedChar, Escape, At, PlainChar, Delimiter, FieldFails
  <1>8. /\ row' = row /\ columns' = columns /\ line' = line /\ i' = i
        /\ cells' = Append(cells, row[c])
        /\ verdict' = IF Len(cells') = columns THEN "ok" ELSE "err"
    BY <1>4, <1>7 DEF LineEnd, Finalize, inputVars
  <1>9. cells' \in Seq(CellType) /\ Len(cells') = c /\ \A k \in 1 .. c : cells'[k] = row[k]
    <2>1. row[c] \in CellType /\ cells \in Seq(CellType)
      BY <1>1, <1>5, RowIs
    <2>2. /\ cells' \in Seq(CellType) /\ Len(cells') = Len(cells) + 1
          /\ \A k \in 1 .. Len(cells) : cells'[k] = cells[k]
          /\ cells'[Len(cells) + 1] = row[c]
      BY <1>8, <2>1, LongerSeq
    <2>3. Len(cells) + 1 = c /\ \A k \in 1 .. c : k \in 1 .. c - 1 \/ k = c
      BY <1>4
    <2>4. QED
      BY <1>3, <1>4, <2>2, <2>3
  <1>10. cells' = row
    BY <1>1, <1>9, SeqEqual
  <1>11. QED
    BY <1>1, <1>6, <1>8, <1>9, <1>10

(* The newline goes, and the line is not taken for the end marker.         *)
LEMMA StripStep ==
  ASSUME TypeOK, row # <<>>, DumpedInv, Strip
  PROVE  DumpedInv'
  <1>1. /\ i = 0 /\ i' = 1 /\ row' = row /\ columns' = columns /\ line' = Stripped(line)
        /\ verdict' = (IF line' = <<"bs", ".">> THEN "end" ELSE "none")
        /\ field' = field /\ isNull' = isNull /\ started' = started /\ cells' = cells
    BY DEF Strip, inputVars, fieldVars
  <1>2. /\ row \in Rows /\ columns = Len(row)
        /\ cells = <<>> /\ field = <<>> /\ isNull = FALSE /\ started = FALSE
        /\ \E newline \in Newlines : line = Dumped(row) \o newline
    BY <1>1 DEF DumpedInv
  <1>3. /\ row \in Seq(CellType) /\ Len(row) \in Nat \ {0}
        /\ Dumped(row) \in Seq(Safe)
    BY <1>2, RowIs, RowLayout
  <1>4. line' = Dumped(row)
    BY <1>1, <1>2, <1>3, StrippedIs
  <1>5. line' # <<"bs", ".">> /\ verdict' = "none"
    BY <1>1, <1>3, <1>4, NotEndMarker
  <1> DEFINE one == 1
             zero == 0
             s == Start(row, one, zero)
  <1>6. /\ one \in 1 .. Len(row) /\ Count(row[one]) \in Nat /\ s = 0
        /\ zero \in 0 .. Count(row[one])
    <2>1. one \in 1 .. Len(row)
      BY <1>3
    <2>2. Count(row[one]) \in Nat /\ s = 0
      BY <1>3, <2>1, RowLayout, CellEnds
    <2>3. QED
      BY <2>1, <2>2
  <1>7. Reading(one, zero)'
    <2>1. /\ i' = s + 1 /\ Len(<<>>) = one - 1 /\ one - 1 = 0 /\ Len(<<>>) = zero
          /\ ~ (zero > 0)
      BY <1>1, <1>6
    <2>2. /\ \A k \in 1 .. one - 1 : FALSE
          /\ \A k \in 1 .. zero : FALSE
      OBVIOUS
    <2>3. /\ cells' = <<>> /\ field' = <<>> /\ isNull' = FALSE /\ started' = FALSE
          /\ row' = row
      BY <1>1, <1>2
    <2> HIDE DEF one, zero
    <2>4. i' = Start(row', one, zero) + 1
      BY <2>1, <2>3
    <2>9. (zero > 0) = FALSE /\ (row'[one].null /\ zero > 0) = FALSE
      BY ONLY <2>1
    <2>5. started' = (zero > 0) /\ isNull' = (row'[one].null /\ zero > 0)
      BY <2>3, <2>9
    <2>6. Len(cells') = one - 1 /\ \A k \in 1 .. one - 1 : cells'[k] = row'[k]
      BY ONLY <2>1, <2>2, <2>3
    <2>7. /\ row'[one].null => field' = <<>>
          /\ ~ row'[one].null =>
                 Len(field') = zero /\ \A k \in 1 .. zero : field'[k] = row'[one].text[k]
      BY ONLY <2>1, <2>2, <2>3
    <2>8. QED
      BY ONLY <2>4, <2>5, <2>6, <2>7 DEF Reading
  <1>8. i' > 0 /\ ~ (i' = 0)
    BY <1>1
  <1>9. \E c \in 1 .. Len(row) : \E n \in 0 .. Count(row[c]) : Reading(c, n)'
    BY <1>6, <1>7
  <1>10. QED
    BY <1>1, <1>2, <1>4, <1>5, <1>8, <1>9 DEF DumpedInv

LEMMA DumpedStep ==
  ASSUME TypeOK, row # <<>>, DumpedInv, Next
  PROVE  DumpedInv'
  <1>1. CASE Strip
    BY <1>1, StripStep
  <1>2. CASE ~ Strip
    <2>1. Scanning
      BY <1>2 DEF Next, Scanning, Delimiter, At, NullMark, AtNull, Escape, EscapedChar,
                  PlainChar, LineEnd, FieldFails
    <2>2. /\ row \in Rows /\ columns = Len(row) /\ line = Dumped(row) /\ verdict = "none"
          /\ row \in Seq(CellType) /\ Len(row) \in Nat
      BY <2>1, RowIs DEF DumpedInv, Scanning
    <2> PICK c \in 1 .. Len(row) : \E n \in 0 .. Count(row[c]) : Reading(c, n)
      BY <2>1 DEF DumpedInv, Scanning
    <2> PICK n \in 0 .. Count(row[c]) : Reading(c, n)
      OBVIOUS
    <2>8. Count(row[c]) \in Nat
      BY <2>2, RowLayout
    <2>3. c \in Nat /\ Count(row[c]) \in Nat /\ n \in Nat
      BY <2>2, <2>8
    <2>4. CASE n # Count(row[c])
      <3>1. Reading(c, n + 1)' /\ i' > 0 /\ UNCHANGED <<row, columns, line, verdict>>
        BY <2>1, <2>4, UnitStep
      <3>2. n + 1 \in 0 .. Count(row[c]) /\ c \in 1 .. Len(row)
        BY <2>3, <2>4
      <3>3. \E b \in 1 .. Len(row) : \E m \in 0 .. Count(row[b]) : Reading(b, m)'
        BY <3>1, <3>2
      <3>4. i' # 0 /\ row' = row /\ columns' = columns /\ line' = line /\ verdict' = "none"
        BY <2>2, <3>1
      <3>5. QED
        BY <2>2, <3>3, <3>4 DEF DumpedInv
    <2>5. CASE n = Count(row[c]) /\ c # Len(row)
      <3>1. Reading(c + 1, 0)' /\ i' > 0 /\ UNCHANGED <<row, columns, line, verdict>>
        BY <2>1, <2>5, DelimiterStep
      <3>2. c + 1 \in 1 .. Len(row)
        BY <2>2, <2>3, <2>5
      <3>3. Count(row[c + 1]) \in Nat
        BY <2>2, <3>2, RowLayout
      <3>4. 0 \in 0 .. Count(row[c + 1])
        BY <3>3
      <3>5. \E b \in 1 .. Len(row) : \E m \in 0 .. Count(row[b]) : Reading(b, m)'
        BY <3>1, <3>2, <3>4
      <3>6. i' # 0 /\ row' = row /\ columns' = columns /\ line' = line /\ verdict' = "none"
        BY <2>2, <3>1
      <3>7. QED
        BY <2>2, <3>5, <3>6 DEF DumpedInv
    <2>6. CASE n = Count(row[c]) /\ c = Len(row)
      <3>1. /\ verdict' = "ok" /\ cells' = row /\ i' > 0
            /\ UNCHANGED <<row, columns, line>>
        BY <2>1, <2>6, LastStep
      <3>2. i' # 0
        BY <3>1
      <3>3. QED
        BY <2>2, <3>1, <3>2 DEF DumpedInv
    <2>7. QED
      BY <2>4, <2>5, <2>6
  <1>3. QED
    BY <1>1, <1>2

LEMMA TextInitInv == TextInit => CopyInv
  <1> SUFFICES ASSUME TextInit PROVE CopyInv
    OBVIOUS
  <1>1. CASE Init
    <2>1. /\ i = 0 /\ field = <<>> /\ isNull = FALSE /\ started = FALSE
          /\ cells = <<>> /\ verdict = "none"
      BY <1>1 DEF Init
    <2>2. columns \in Nat /\ line \in Seq(Char)
      <3>1. CASE \E r \in Rows, newline \in Newlines :
                    row = r /\ columns = Len(r) /\ line = Dumped(r) \o newline
        <4> PICK r \in Rows, newline \in Newlines :
                    row = r /\ columns = Len(r) /\ line = Dumped(r) \o newline
          BY <3>1
        <4>1. r \in Seq(CellType) /\ Len(r) \in Nat /\ Safe \subseteq Char
          BY RowIs, CharHas
        <4>2. Dumped(r) \in Seq(Char)
          <5>1. Dumped(r) \in Seq(Safe)
            BY <4>1, RowLayout
          <5>2. QED
            BY <4>1, <5>1, SeqMonotonic
        <4>3. newline \in Seq(Char)
          <5>1. <<>> \in Seq(Char) /\ <<"nl">> \in Seq(Char) /\ <<"cr", "nl">> \in Seq(Char)
            BY CharHas, EmptySeq, Single, Pair
          <5>2. QED
            BY <5>1 DEF Newlines
        <4>4. QED
          BY <4>1, <4>2, <4>3, ConcatProperties
      <3>2. CASE \E r \in Lines : row = <<>> /\ columns = r.columns /\ line = r.text
        BY <3>2, CopyTextAssumption
      <3>3. QED
        BY <1>1, <3>1, <3>2 DEF Init
    <2>3. Len(line) \in Nat
      BY <2>2, LenProperties
    <2>4. TypeOK
      <3>1. i \in 0 .. Len(line) + 1
        BY <2>1, <2>3
      <3>2. field \in Seq(Char) /\ cells \in Seq([null : BOOLEAN, text : Seq(Char \ {"bad"})])
        BY <2>1, EmptySeq
      <3>3. Len(cells) <= columns
        BY <2>1, <2>2
      <3>4. QED
        BY <2>1, <2>2, <3>1, <3>2, <3>3 DEF TypeOK
    <2>5. ASSUME row # <<>> PROVE DumpedInv
      <3>1. /\ row \in Rows /\ columns = Len(row)
            /\ \E newline \in Newlines : line = Dumped(row) \o newline
        BY <1>1, <2>5 DEF Init
      <3>2. ~ (i > 0)
        BY <2>1
      <3>3. QED
        BY <2>1, <3>1, <3>2 DEF DumpedInv
    <2>6. QED
      BY <2>4, <2>5 DEF CopyInv
  <1>2. CASE ~ Init
    <2>1. /\ Csv!Init /\ row = <<>> /\ columns = Len(table.header) /\ line = <<>> /\ i = 0
          /\ field = <<>> /\ isNull = FALSE /\ started = FALSE
          /\ cells = <<>> /\ verdict = "end"
      BY <1>2 DEF TextInit
    <2>2. Csv!IsTable(table)
      BY <2>1, TablesAssumption DEF Csv!Init
    <2>3. columns \in Nat
      BY <2>1, <2>2, LenProperties DEF Csv!IsTable
    <2>4. i \in 0 .. Len(line) + 1 /\ Len(cells) <= columns
      BY <2>1, <2>3
    <2>5. /\ line \in Seq(Char) /\ field \in Seq(Char)
          /\ cells \in Seq([null : BOOLEAN, text : Seq(Char \ {"bad"})])
      BY <2>1, EmptySeq
    <2>6. QED
      BY <2>1, <2>3, <2>4, <2>5 DEF CopyInv, TypeOK
  <1>3. QED
    BY <1>1, <1>2

LEMMA CopyUnchanged ==
  ASSUME CopyInv, UNCHANGED vars
  PROVE  CopyInv'
  <1>1. /\ row' = row /\ columns' = columns /\ line' = line /\ i' = i
        /\ field' = field /\ isNull' = isNull /\ started' = started
        /\ cells' = cells /\ verdict' = verdict
    BY DEF vars, inputVars, fieldVars
  <1>2. TypeOK'
    BY <1>1 DEF CopyInv, TypeOK
  <1>3. ASSUME row' # <<>> PROVE DumpedInv'
    BY <1>1, <1>3 DEF CopyInv, DumpedInv, Reading
  <1>4. QED
    BY <1>2, <1>3 DEF CopyInv

LEMMA TextStepInv ==
  ASSUME CopyInv, [TextNext]_<<vars, csvVars>>
  PROVE  CopyInv'
  <1>1. CASE Next
    <2>1. row' = row
      BY <1>1 DEF Next, Strip, Delimiter, NullMark, EscapedChar, PlainChar, LineEnd,
                  FieldFails, inputVars
    <2>2. QED
      BY <1>1, <2>1, CopyTypeStep, DumpedStep DEF CopyInv
  <1>2. CASE ~ Next
    <2>1. UNCHANGED vars
      BY <1>2 DEF TextNext, WriteCsv
    <2>2. QED
      BY <2>1, CopyUnchanged
  <1>3. QED
    BY <1>1, <1>2

LEMMA CopyHolds == TextSpec => []CopyInv
  BY TextInitInv, TextStepInv, PTL DEF TextSpec

(* Every row the server dumps, of any length and with any text, is what    *)
(* parse_line reads from its line: NULL, the empty string and the text \N  *)
(* are told apart, an escaped tab or newline ends nothing, and no row is   *)
(* taken for the end marker.                                               *)
THEOREM CopyCorrect == TextSpec => []RoundTrip
  <1>1. CopyInv => RoundTrip
    BY DEF CopyInv, DumpedInv, RoundTrip
  <1>2. QED
    BY <1>1, CopyHolds, PTL

-----------------------------------------------------------------------------
-----------------------------------------------------------------------------
(* Any line.  A character is literal if the one before it is a backslash   *)
(* that is not: so the scan, which takes a backslash and the next          *)
(* character together, is never at a literal character.                    *)
LEMMA LastOtherIs ==
  ASSUME NEW text, NEW k \in Nat \ {0}
  PROVE  /\ LastOther(text, k) \in 0 .. k - 1
         /\ text[k] = "bs" => LastOther(text, k + 1) = LastOther(text, k)
         /\ text[k] # "bs" => LastOther(text, k + 1) = k
  <1> DEFINE others == {j \in 1 .. k - 1 : text[j] # "bs"}
             more == {j \in 1 .. (k + 1) - 1 : text[j] # "bs"}
             last == CHOOSE j \in others : \A m \in others : m <= j
             lastmore == CHOOSE j \in more : \A m \in more : m <= j
  <1>1. /\ LastOther(text, k) = IF others = {} THEN 0 ELSE last
        /\ LastOther(text, k + 1) = IF more = {} THEN 0 ELSE lastmore
    BY DEF LastOther
  <1>2. others # {} => last \in others
    <2>1. k - 1 \in Nat /\ others \subseteq 1 .. k - 1
      OBVIOUS
    <2>2. others # {} => \E m \in others : \A j \in others : j <= m
      BY ONLY <2>1, GreatestExists
    <2>3. QED
      BY <2>2
  <1>3. text[k] = "bs" => more = others
    OBVIOUS
  <1>4. text[k] # "bs" => k \in more /\ \A m \in more : m <= k
    OBVIOUS
  <1>5. text[k] # "bs" => lastmore = k
    BY <1>4
  <1>6. CASE others = {}
    <2>1. LastOther(text, k) = 0
      BY <1>1, <1>6
    <2>2. text[k] = "bs" => LastOther(text, k + 1) = 0
      BY <1>1, <1>3, <1>6
    <2>3. text[k] # "bs" => LastOther(text, k + 1) = k
      BY ONLY <1>1, <1>4, <1>5
    <2>4. 0 \in 0 .. k - 1
      OBVIOUS
    <2>5. QED
      BY ONLY <2>1, <2>2, <2>3, <2>4
  <1>7. CASE others # {}
    <2>1. LastOther(text, k) = last
      BY <1>1, <1>7
    <2>2. text[k] = "bs" => LastOther(text, k + 1) = last
      BY <1>1, <1>3, <1>7
    <2>3. text[k] # "bs" => LastOther(text, k + 1) = k
      BY ONLY <1>1, <1>4, <1>5
    <2>4. last \in 1 .. k - 1
      BY <1>2, <1>7
    <2> HIDE DEF last
    <2>5. last \in 0 .. k - 1
      BY ONLY <2>4
    <2>6. QED
      BY ONLY <2>1, <2>2, <2>3, <2>5
  <1>8. QED
    BY <1>6, <1>7

LEMMA LiteralNext ==
  ASSUME NEW text, NEW k \in Nat \ {0}
  PROVE  Literal(text, k + 1) <=> text[k] = "bs" /\ ~ Literal(text, k)
  <1>1. PICK m \in 0 .. k - 1 : m = LastOther(text, k)
    BY LastOtherIs
  <1>2. Literal(text, k) <=> (k - 1 - m) % 2 = 1
    BY <1>1 DEF Literal
  <1>3. CASE text[k] = "bs"
    <2>1. LastOther(text, k + 1) = m
      BY <1>1, <1>3, LastOtherIs
    <2>2. Literal(text, k + 1) <=> (k + 1 - 1 - m) % 2 = 1
      BY <2>1 DEF Literal
    <2>3. (k + 1 - 1 - m) % 2 = 1 <=> ~ ((k - 1 - m) % 2 = 1)
      BY <1>1
    <2>4. QED
      BY ONLY <1>2, <1>3, <2>2, <2>3
  <1>4. CASE text[k] # "bs"
    <2>1. LastOther(text, k + 1) = k
      BY <1>4, LastOtherIs
    <2>2. Literal(text, k + 1) <=> (k + 1 - 1 - k) % 2 = 1
      BY <2>1 DEF Literal
    <2>3. ~ ((k + 1 - 1 - k) % 2 = 1)
      OBVIOUS
    <2>4. QED
      BY ONLY <1>4, <2>2, <2>3
  <1>5. QED
    BY <1>3, <1>4

LEMMA LiteralFirst == \A text : ~ Literal(text, 1)
  <1> SUFFICES ASSUME NEW text PROVE ~ Literal(text, 1)
    OBVIOUS
  <1>1. LastOther(text, 1) = 0
    BY LastOtherIs
  <1>2. Literal(text, 1) <=> (1 - 1 - 0) % 2 = 1
    BY <1>1 DEF Literal
  <1>3. QED
    BY <1>2

(* The delimiters up to a character, and their numbers.                    *)
LEMMA DelimitersAre ==
  ASSUME NEW text \in Seq(Char)
  PROVE  /\ Delimiters(text) \subseteq 1 .. Len(text) /\ Len(text) \in Nat
         /\ DelimitersTo(text, Len(text)) = Delimiters(text)
         /\ DelimitersTo(text, 0) = {} /\ Cardinality(DelimitersTo(text, 0)) = 0
         /\ IsFiniteSet(Delimiters(text)) /\ Cardinality(Delimiters(text)) \in Nat
         /\ \A k : /\ IsFiniteSet(DelimitersTo(text, k))
                   /\ DelimitersTo(text, k) \subseteq Delimiters(text)
                   /\ Cardinality(DelimitersTo(text, k)) \in Nat
                   /\ Cardinality(DelimitersTo(text, k)) <= Cardinality(Delimiters(text))
  <1>1. Delimiters(text) \subseteq 1 .. Len(text) /\ Len(text) \in Nat
    BY LenProperties DEF Delimiters
  <1>2. IsFiniteSet(Delimiters(text)) /\ Cardinality(Delimiters(text)) \in Nat
    <2>1. IsFiniteSet(1 .. Len(text))
      BY <1>1, FS_Interval
    <2>2. QED
      BY <1>1, <2>1, FS_Subset, FS_CardinalityType
  <1>3. ASSUME NEW k
        PROVE  /\ IsFiniteSet(DelimitersTo(text, k))
               /\ DelimitersTo(text, k) \subseteq Delimiters(text)
               /\ Cardinality(DelimitersTo(text, k)) \in Nat
               /\ Cardinality(DelimitersTo(text, k)) <= Cardinality(Delimiters(text))
    <2>1. DelimitersTo(text, k) \subseteq Delimiters(text)
      BY DEF DelimitersTo
    <2>2. QED
      BY <1>2, <2>1, FS_Subset, FS_CardinalityType
  <1>4. DelimitersTo(text, Len(text)) = Delimiters(text)
    BY <1>1 DEF DelimitersTo
  <1>5. DelimitersTo(text, 0) = {} /\ Cardinality(DelimitersTo(text, 0)) = 0
    BY <1>1, FS_EmptySet DEF DelimitersTo
  <1>6. QED
    BY <1>1, <1>2, <1>3, <1>4, <1>5

LEMMA DelimitersNext ==
  ASSUME NEW text \in Seq(Char), NEW p \in 1 .. Len(text)
  PROVE  /\ p \notin Delimiters(text) => DelimitersTo(text, p) = DelimitersTo(text, p - 1)
         /\ p \in Delimiters(text) =>
                Cardinality(DelimitersTo(text, p)) = Cardinality(DelimitersTo(text, p - 1)) + 1
  <1>1. Delimiters(text) \subseteq Nat /\ Len(text) \in Nat
    BY DelimitersAre
  <1>2. p \notin Delimiters(text) => DelimitersTo(text, p) = DelimitersTo(text, p - 1)
    BY <1>1 DEF DelimitersTo
  <1>3. p \in Delimiters(text) => DelimitersTo(text, p) = DelimitersTo(text, p - 1) \cup {p}
    BY <1>1 DEF DelimitersTo
  <1>4. p \notin DelimitersTo(text, p - 1)
    BY <1>1 DEF DelimitersTo
  <1>5. p \in Delimiters(text) =>
            Cardinality(DelimitersTo(text, p)) = Cardinality(DelimitersTo(text, p - 1)) + 1
    BY <1>3, <1>4, DelimitersAre, FS_AddElement
  <1>6. QED
    BY <1>2, <1>5

(* The number of a delimiter tells it from the others.                     *)
LEMMA NthDelimiterIs ==
  ASSUME NEW text \in Seq(Char), NEW k \in Delimiters(text)
  PROVE  NthDelimiter(text, Cardinality(DelimitersTo(text, k))) = k
  <1> DEFINE n == Cardinality(DelimitersTo(text, k))
  <1>1. /\ Delimiters(text) \subseteq Nat /\ k \in DelimitersTo(text, k)
        /\ n \in Nat /\ n <= Cardinality(Delimiters(text)) /\ Cardinality(Delimiters(text)) \in Nat
    <2>1. Delimiters(text) \subseteq 1 .. Len(text) /\ Len(text) \in Nat
      BY DelimitersAre
    <2>2. Delimiters(text) \subseteq Nat
      BY <2>1
    <2>3. k \in DelimitersTo(text, k)
      BY <2>2 DEF DelimitersTo
    <2>4. QED
      BY <2>2, <2>3, DelimitersAre
  <1>2. n # 0
    BY <1>1, DelimitersAre, FS_EmptySet
  <1>3. ASSUME NEW j \in Delimiters(text), NEW m \in Delimiters(text), j < m
        PROVE  Cardinality(DelimitersTo(text, j)) # Cardinality(DelimitersTo(text, m))
    <2>1. /\ DelimitersTo(text, j) \subseteq DelimitersTo(text, m)
          /\ m \in DelimitersTo(text, m) /\ m \notin DelimitersTo(text, j)
      BY <1>1, <1>3 DEF DelimitersTo
    <2>2. DelimitersTo(text, j) # DelimitersTo(text, m)
      BY <2>1
    <2>3. QED
      BY <2>1, <2>2, DelimitersAre, FS_Subset
  <1>4. ASSUME NEW j \in Delimiters(text), Cardinality(DelimitersTo(text, j)) = n
        PROVE  j = k
    <2>1. ~ (j < k) /\ ~ (k < j)
      BY <1>3, <1>4
    <2>2. QED
      BY <1>1, <2>1
  <1>5. (CHOOSE j \in Delimiters(text) : Cardinality(DelimitersTo(text, j)) = n) = k
    <2> HIDE DEF n
    <2>1. n = Cardinality(DelimitersTo(text, k))
      BY DEF n
    <2>2. QED
      BY <1>4, <2>1
  <1>6. ~ (n > Cardinality(Delimiters(text)))
    BY <1>1
  <1>7. NthDelimiter(text, n) =
            CHOOSE j \in Delimiters(text) : Cardinality(DelimitersTo(text, j)) = n
    BY <1>2, <1>6 DEF NthDelimiter
  <1>8. QED
    BY <1>5, <1>7

LEMMA NoneDelimits == \A text : NthDelimiter(text, 0) = 0
  BY DEF NthDelimiter

(* The meaning of a field, character by character.                         *)
LEMMA MeantType ==
  ASSUME NEW text \in Seq(Char), NEW k \in 1 .. Len(text)
  PROVE  Meant(text, k) \in Seq(Char)
  <1>1. text[k] \in Char
    BY ElementOfSeq
  <1>2. Unescaped(text[k]) \in Char
    BY <1>1, UnescapedType
  <1>3. <<>> \in Seq(Char) /\ <<text[k]>> \in Seq(Char) /\ <<Unescaped(text[k])>> \in Seq(Char)
    BY <1>1, <1>2, EmptySeq, Single
  <1>4. QED
    BY <1>3 DEF Meant

LEMMA FieldTextGrows ==
  ASSUME NEW text \in Seq(Char), NEW first \in Nat \ {0}, NEW last \in Nat,
         first - 1 <= last, last <= Len(text)
  PROVE  /\ FieldText(text, first, last) \in Seq(Char)
         /\ last = first - 1 => FieldText(text, first, last) = <<>>
         /\ last >= first =>
                FieldText(text, first, last) =
                FieldText(text, first, last - 1) \o Meant(text, last)
  <1> DEFINE Q == Seq(Char)
             n == last - first
             k == last - first + 1
             s == [j \in 1 .. n |-> Meant(text, first + j - 1)]
             t == [j \in 1 .. k |-> Meant(text, first + j - 1)]
  <1>1. Len(text) \in Nat
    BY LenProperties
  <1>2. k \in Nat /\ \A j \in 1 .. k : first + j - 1 \in 1 .. Len(text)
    BY <1>1
  <1>3. t \in [1 .. k -> Q]
    BY <1>2, MeantType
  <1>4. t \in Seq(Q) /\ Len(t) = k
    BY ONLY <1>2, <1>3, FunctionIsSeq
  <1>5. FieldText(text, first, last) = FlattenSeq(t)
    BY DEF FieldText
  <1>6. FieldText(text, first, last) \in Seq(Char)
    <2> HIDE DEF t
    <2>1. t \in Seq(Seq(Char))
      BY <1>4
    <2>2. QED
      BY <1>5, <2>1, FlattenType
  <1>7. ASSUME last = first - 1 PROVE FieldText(text, first, last) = <<>>
    <2>1. k = 0
      BY <1>7
    <2> HIDE DEF t, k, Q
    <2>2. t = <<>>
      BY <1>4, <2>1, EmptySeq
    <2>3. QED
      BY <1>5, <2>2, FlattenEmpty
  <1>8. ASSUME last >= first
        PROVE  FieldText(text, first, last) =
               FieldText(text, first, last - 1) \o Meant(text, last)
    <2>1. n \in Nat /\ k \in Nat /\ k = n + 1
      BY <1>8
    <2>2. s \in [1 .. n -> Q]
      <3>1. \A j \in 1 .. n : first + j - 1 \in 1 .. Len(text)
        BY <1>2, <2>1
      <3>2. QED
        BY <3>1, MeantType
    <2>3. s \in Seq(Q) /\ Len(s) = n
      BY ONLY <2>1, <2>2, FunctionIsSeq
    <2>4. \A j \in 1 .. n : s[j] = t[j]
      BY <2>1
    <2>5. t[k] = Meant(text, last)
      <3>1. k \in 1 .. k /\ first + k - 1 = last
        BY <2>1
      <3>2. QED
        BY <3>1
    <2>6. FieldText(text, first, last - 1) = FlattenSeq(s)
      <3>1. last - 1 - first + 1 = n
        OBVIOUS
      <3>2. QED
        BY <3>1 DEF FieldText
    <2>7. Meant(text, last) \in Seq(Char)
      BY <1>1, <1>8, MeantType
    <2> HIDE DEF s, t, n, k
    <2>8. FlattenSeq(t) = FlattenSeq(s) \o Meant(text, last)
      <3>1. s \in Seq(Seq(Char)) /\ t \in Seq(Seq(Char)) /\ Len(t) = k
        BY <1>4, <2>3
      <3>2. n \in Nat /\ k \in Nat /\ k = n + 1 /\ Len(s) = n
        BY <2>1, <2>3
      <3> DEFINE x == Meant(text, last)
      <3>3. x \in Seq(Char) /\ t[k] = x /\ \A j \in 1 .. n : s[j] = t[j]
        BY <2>4, <2>5, <2>7
      <3> HIDE DEF x
      <3>4. t = Append(s, x)
        <4> DEFINE more == Append(s, x)
        <4>1. s \in Seq(Q) /\ t \in Seq(Q) /\ x \in Q
          BY <3>1, <3>3 DEF Q
        <4> HIDE DEF Q
        <4>2. /\ more \in Seq(Q) /\ Len(more) = Len(s) + 1 /\ more[Len(s) + 1] = x
              /\ \A j \in 1 .. Len(s) : more[j] = s[j]
          BY <4>1, LongerSeq
        <4> HIDE DEF more
        <4>3. Len(more) = k /\ \A j \in 1 .. k : more[j] = t[j]
          BY <3>2, <3>3, <4>2
        <4>4. more = t
          BY <3>1, <4>1, <4>2, <4>3, SeqEqual
        <4>5. QED
          BY <4>4 DEF more
      <3>6. FlattenSeq(t) = FlattenSeq(s) \o x
        BY <3>1, <3>3, <3>4, FlattenAppend
      <3>5. QED
        BY <3>6 DEF x
    <2>9. QED
      BY <1>5, <2>6, <2>8
  <1>9. QED
    BY <1>6, <1>7, <1>8

(* The first p - 1 characters of a line have been scanned, `done` are the   *)
(* finished cells, and the current field is behind position s.             *)
Scanned(text, done, p, s) ==
    /\ p \in 1 .. Len(text) + 1 /\ (p <= Len(text) => ~ Literal(text, p))
    /\ s \in 0 .. p - 1 /\ ~ Literal(text, s + 1)
    /\ s = NthDelimiter(text, Len(done))
    /\ Cardinality(DelimitersTo(text, p - 1)) = Len(done)
    /\ \A n \in DOMAIN done : done[n] = DefinedCell(text, n)

(* What of the current field was scanned: the flags and the text.          *)
NullAt(text, s) == text[s + 1] = "bs" /\ text[s + 2] = "N"

Partial(text, p, s, f, null, any) ==
    /\ any = (p > s + 1)
    /\ null = (p > s + 2 /\ NullAt(text, s))
    /\ ~ null => f = FieldText(text, s + 1, p - 1)

LEMMA ScannedIs ==
  ASSUME NEW text \in Seq(Char), NEW done \in Seq(CellType), NEW p, NEW s,
         Scanned(text, done, p, s)
  PROVE  /\ p \in Nat \ {0} /\ p <= Len(text) + 1 /\ Len(text) \in Nat
         /\ s \in Nat /\ s < p /\ Len(done) \in Nat
         /\ FieldText(text, s + 1, p - 1) \in Seq(Char)
         /\ p <= Len(text) /\ NullAt(text, s) => p # s + 2
  <1>1. Len(text) \in Nat /\ Len(done) \in Nat
    BY LenProperties
  <1>2. p \in 1 .. Len(text) + 1 /\ s \in 0 .. p - 1
    BY DEF Scanned
  <1>3. p \in Nat \ {0} /\ p <= Len(text) + 1 /\ s \in Nat /\ s < p
    BY <1>1, <1>2
  <1>4. FieldText(text, s + 1, p - 1) \in Seq(Char)
    <2> DEFINE first == s + 1
               last == p - 1
    <2>1. /\ first \in Nat \ {0} /\ last \in Nat
          /\ first - 1 <= last /\ last <= Len(text)
      BY <1>1, <1>3
    <2> HIDE DEF first, last
    <2>2. FieldText(text, first, last) \in Seq(Char)
      BY <2>1, FieldTextGrows
    <2>3. QED
      BY <2>2 DEF first, last
  <1>5. ASSUME p <= Len(text), NullAt(text, s), p = s + 2 PROVE FALSE
    <2>1. ~ Literal(text, s + 1) /\ text[s + 1] = "bs" /\ ~ Literal(text, p)
      BY <1>5 DEF Scanned, NullAt
    <2>2. s + 1 \in Nat \ {0} /\ (s + 1) + 1 = p
      BY <1>3, <1>5
    <2>3. Literal(text, p)
      BY <2>1, <2>2, LiteralNext
    <2>4. QED
      BY <2>1, <2>3
  <1>6. QED
    BY <1>1, <1>3, <1>4, <1>5

(* A backslash and the character behind it.                                *)
LEMMA PairScanned ==
  ASSUME NEW text \in Seq(Char), NEW done \in Seq(CellType), NEW p, NEW s,
         Scanned(text, done, p, s), p < Len(text), text[p] = "bs"
  PROVE  /\ Scanned(text, done, p + 2, s)
         /\ FieldText(text, s + 1, p + 1) =
            Append(FieldText(text, s + 1, p - 1), Unescaped(text[p + 1]))
  <1>1. /\ p \in Nat \ {0} /\ Len(text) \in Nat /\ s \in Nat /\ s < p
        /\ FieldText(text, s + 1, p - 1) \in Seq(Char)
    BY ScannedIs
  <1> DEFINE q == p + 1
             first == s + 1
  <1>2. /\ p \in 1 .. Len(text) /\ q \in 1 .. Len(text) /\ q \in Nat \ {0}
        /\ q - 1 = p /\ q + 1 = p + 2 /\ p <= Len(text)
    BY <1>1
  <1>3. ~ Literal(text, p)
    BY <1>2 DEF Scanned
  <1> HIDE DEF q
  <1>4. Literal(text, q)
    BY <1>1, <1>3, LiteralNext DEF q
  <1>5. ~ Literal(text, q + 1)
    BY <1>2, <1>4, LiteralNext
  <1>6. p \notin Delimiters(text) /\ q \notin Delimiters(text)
    BY <1>4 DEF Delimiters
  <1>7. DelimitersTo(text, q) = DelimitersTo(text, p - 1)
    <2>1. DelimitersTo(text, p) = DelimitersTo(text, p - 1)
      BY <1>2, <1>6, DelimitersNext
    <2>2. DelimitersTo(text, q) = DelimitersTo(text, q - 1)
      BY <1>2, <1>6, DelimitersNext
    <2>3. QED
      BY <1>2, <2>1, <2>2
  <1>8. Scanned(text, done, q + 1, s)
    <2>1. q + 1 \in 1 .. Len(text) + 1 /\ s \in 0 .. (q + 1) - 1 /\ (q + 1) - 1 = q
      BY <1>1, <1>2
    <2>2. QED
      BY <1>5, <1>7, <2>1 DEF Scanned
  <1>9. Meant(text, p) = <<>> /\ Meant(text, q) = <<Unescaped(text[q])>>
    BY <1>1, <1>3, <1>4 DEF Meant
  <1>10. Unescaped(text[q]) \in Char
    BY <1>2, ElementOfSeq, UnescapedType
  <1>11. FieldText(text, first, p) = FieldText(text, first, p - 1)
    <2>1. /\ first \in Nat \ {0} /\ p \in Nat /\ first - 1 <= p /\ p >= first
      BY <1>1
    <2> HIDE DEF first
    <2>2. FieldText(text, first, p) = FieldText(text, first, p - 1) \o <<>>
      <3>1. p <= Len(text)
        BY <1>2
      <3>2. FieldText(text, first, p) = FieldText(text, first, p - 1) \o Meant(text, p)
        BY ONLY text \in Seq(Char), <2>1, <3>1, FieldTextGrows
      <3>3. QED
        BY <1>9, <3>2
    <2>3. FieldText(text, first, p - 1) \in Seq(Char)
      BY <1>1 DEF first
    <2>4. QED
      BY <2>2, <2>3, ConcatEmptySeq
  <1>12. FieldText(text, first, q) = FieldText(text, first, q - 1) \o <<Unescaped(text[q])>>
    <2>1. /\ first \in Nat \ {0} /\ q \in Nat /\ first - 1 <= q /\ q >= first
          /\ q <= Len(text)
      BY <1>1, <1>2
    <2> HIDE DEF first
    <2>2. QED
      BY <1>9, <2>1, FieldTextGrows
  <1> HIDE DEF first
  <1>13. FieldText(text, first, q) = Append(FieldText(text, first, p - 1), Unescaped(text[q]))
    <2>1. FieldText(text, first, p - 1) \in Seq(Char)
      BY <1>1 DEF first
    <2>2. FieldText(text, first, q) = FieldText(text, first, p - 1) \o <<Unescaped(text[q])>>
      BY <1>2, <1>11, <1>12
    <2>3. QED
      BY <1>10, <2>1, <2>2, AppendIsConcat
  <1>14. QED
    BY <1>2, <1>8, <1>13 DEF first, q

(* Any other character that does not end the field.                        *)
LEMMA OneScanned ==
  ASSUME NEW text \in Seq(Char), NEW done \in Seq(CellType), NEW p, NEW s,
         Scanned(text, done, p, s), p <= Len(text), text[p] # "tab",
         text[p] # "bs" \/ p = Len(text)
  PROVE  /\ Scanned(text, done, p + 1, s)
         /\ FieldText(text, s + 1, p) = Append(FieldText(text, s + 1, p - 1), text[p])
  <1>1. /\ p \in Nat \ {0} /\ Len(text) \in Nat /\ s \in Nat /\ s < p
        /\ FieldText(text, s + 1, p - 1) \in Seq(Char)
    BY ScannedIs
  <1> DEFINE first == s + 1
  <1>2. p \in 1 .. Len(text)
    BY <1>1
  <1>3. ~ Literal(text, p)
    BY DEF Scanned
  <1>4. p + 1 <= Len(text) => ~ Literal(text, p + 1)
    <2>1. ASSUME p + 1 <= Len(text) PROVE text[p] # "bs"
      BY <1>1, <2>1
    <2>2. QED
      BY <1>1, <2>1, LiteralNext
  <1>5. DelimitersTo(text, p) = DelimitersTo(text, p - 1)
    <2>1. p \notin Delimiters(text)
      BY DEF Delimiters
    <2>2. QED
      BY <1>2, <2>1, DelimitersNext
  <1>6. Scanned(text, done, p + 1, s)
    <2>1. p + 1 \in 1 .. Len(text) + 1 /\ s \in 0 .. (p + 1) - 1 /\ (p + 1) - 1 = p
      BY <1>1, <1>2
    <2>2. QED
      BY <1>4, <1>5, <2>1 DEF Scanned
  <1>7. Meant(text, p) = <<text[p]>> /\ text[p] \in Char
    BY <1>2, <1>3, ElementOfSeq DEF Meant
  <1>8. FieldText(text, first, p) = FieldText(text, first, p - 1) \o <<text[p]>>
    <2>1. /\ first \in Nat \ {0} /\ p \in Nat /\ first - 1 <= p /\ p >= first
      BY <1>1
    <2> HIDE DEF first
    <2>2. QED
      BY <1>7, <2>1, FieldTextGrows
  <1>9. QED
    BY <1>1, <1>6, <1>7, <1>8, AppendIsConcat

(* The delimiter, or the end of the line, behind a field.                  *)
LEMMA FieldEnds ==
  ASSUME NEW text \in Seq(Char), NEW done \in Seq(CellType), NEW p, NEW s,
         Scanned(text, done, p, s), p <= Len(text) => text[p] = "tab"
  PROVE  /\ NthDelimiter(text, Len(done) + 1) = p
         /\ Len(done) <= Cardinality(Delimiters(text))
         /\ Cardinality(Delimiters(text)) \in Nat
         /\ p > Len(text) => Len(done) = Cardinality(Delimiters(text))
         /\ p <= Len(text) => Cardinality(DelimitersTo(text, p)) = Len(done) + 1
  <1> DEFINE m == Len(done)
             all == Cardinality(Delimiters(text))
  <1>1. /\ p \in Nat \ {0} /\ p <= Len(text) + 1 /\ Len(text) \in Nat /\ m \in Nat
    BY ScannedIs
  <1>2. all \in Nat /\ Cardinality(DelimitersTo(text, p - 1)) = m
    BY DelimitersAre DEF Scanned
  <1>3. CASE p > Len(text)
    <2>1. p - 1 = Len(text) /\ p = Len(text) + 1 /\ ~ (p <= Len(text))
      BY <1>1, <1>3
    <2>2. m = all
      BY <1>2, <2>1, DelimitersAre
    <2> HIDE DEF m, all
    <2>3. m + 1 # 0 /\ m + 1 > all /\ m <= all
      BY <1>1, <2>2
    <2>4. NthDelimiter(text, m + 1) = Len(text) + 1
      BY <2>3 DEF NthDelimiter, all
    <2>5. QED
      BY <1>2, <2>1, <2>2, <2>3, <2>4 DEF m, all
  <1>4. CASE p <= Len(text)
    <2>1. p \in 1 .. Len(text) /\ ~ (p > Len(text)) /\ text[p] = "tab"
      BY <1>1, <1>4
    <2>2. p \in Delimiters(text)
      <3>1. p \in DOMAIN text
        BY <2>1, LenProperties
      <3>2. QED
        BY <1>4, <2>1, <3>1 DEF Delimiters, Scanned
    <2>3. Cardinality(DelimitersTo(text, p)) = m + 1
      BY <1>2, <2>1, <2>2, DelimitersNext
    <2>4. m + 1 <= all
      BY <2>3, DelimitersAre
    <2>5. NthDelimiter(text, m + 1) = p
      BY <2>2, <2>3, NthDelimiterIs
    <2> HIDE DEF m, all
    <2>6. m <= all
      BY <1>1, <1>2, <2>4
    <2>7. QED
      BY <1>2, <2>1, <2>3, <2>5, <2>6 DEF m, all
  <1>5. QED
    BY <1>1, <1>3, <1>4

(* The cell that is then finished.                                         *)
LEMMA FieldIs ==
  ASSUME NEW text \in Seq(Char), NEW done \in Seq(CellType), NEW p, NEW s,
         NEW f, NEW null, NEW any,
         Scanned(text, done, p, s), Partial(text, p, s, f, null, any),
         p <= Len(text) => text[p] = "tab"
  PROVE  DefinedCell(text, Len(done) + 1) = IF null THEN Null ELSE Value(f)
  <1>1. /\ p \in Nat \ {0} /\ s \in Nat /\ Len(done) \in Nat
    BY ScannedIs
  <1> DEFINE n == Len(done) + 1
             first == NthDelimiter(text, n - 1) + 1
             last == NthDelimiter(text, n) - 1
  <1>2. NthDelimiter(text, n) = p
    BY FieldEnds
  <1>3. NthDelimiter(text, n - 1) = s
    <2>1. n - 1 = Len(done)
      BY <1>1
    <2>2. QED
      BY <2>1 DEF Scanned
  <1>4. /\ first = s + 1 /\ last = p - 1 /\ first + 1 = s + 2
        /\ last > first <=> p > s + 2
    BY <1>1, <1>2, <1>3
  <1>5. DefinedCell(text, n) =
            IF last > first /\ text[first] = "bs" /\ text[first + 1] = "N"
            THEN Null ELSE Value(FieldText(text, first, last))
    BY DEF DefinedCell
  <1> HIDE DEF n, first, last
  <1>6. null = (last > first /\ text[first] = "bs" /\ text[first + 1] = "N")
    BY <1>4 DEF Partial, NullAt
  <1>7. ~ null => f = FieldText(text, first, last)
    BY <1>4 DEF Partial
  <1>8. QED
    BY <1>5, <1>6, <1>7 DEF n

(* And the field behind the delimiter begins.                              *)
LEMMA NextField ==
  ASSUME NEW text \in Seq(Char), NEW done \in Seq(CellType), NEW p, NEW s, NEW x \in CellType,
         Scanned(text, done, p, s), p <= Len(text), text[p] = "tab",
         x = DefinedCell(text, Len(done) + 1)
  PROVE  /\ Scanned(text, Append(done, x), p + 1, p) /\ p \in Nat
         /\ Partial(text, p + 1, p, <<>>, FALSE, FALSE)
  <1> DEFINE more == Append(done, x)
             m == Len(done)
  <1>1. p \in Nat \ {0} /\ Len(text) \in Nat /\ m \in Nat
    BY ScannedIs
  <1>2. /\ Len(more) = m + 1 /\ more[m + 1] = x
        /\ \A n \in 1 .. m : more[n] = done[n]
        /\ DOMAIN more = 1 .. m + 1 /\ DOMAIN done = 1 .. m
    BY LongerSeq, LenProperties
  <1>3. ~ Literal(text, p + 1)
    BY <1>1, LiteralNext
  <1>4. p + 1 \in 1 .. Len(text) + 1 /\ p \in 0 .. (p + 1) - 1 /\ (p + 1) - 1 = p
    BY <1>1
  <1>5. p = NthDelimiter(text, m + 1) /\ Cardinality(DelimitersTo(text, p)) = m + 1
    BY FieldEnds
  <1>6. \A n \in DOMAIN more : more[n] = DefinedCell(text, n)
    <2>1. \A n \in 1 .. m : done[n] = DefinedCell(text, n)
      BY <1>2 DEF Scanned
    <2>2. \A n \in 1 .. m + 1 : n \in 1 .. m \/ n = m + 1
      BY <1>1
    <2>3. x = DefinedCell(text, m + 1)
      OBVIOUS
    <2> HIDE DEF more, m
    <2>4. QED
      BY <1>2, <2>1, <2>2, <2>3
  <1> HIDE DEF more, m
  <1>7. Scanned(text, more, p + 1, p)
    BY <1>2, <1>3, <1>4, <1>5, <1>6 DEF Scanned
  <1>8. Partial(text, p + 1, p, <<>>, FALSE, FALSE)
    <2>1. FieldText(text, p + 1, p) = <<>>
      <3> DEFINE first == p + 1
      <3>1. first \in Nat \ {0} /\ p \in Nat /\ first - 1 <= p /\ p = first - 1
        BY <1>1
      <3> HIDE DEF first
      <3>2. FieldText(text, first, p) = <<>>
        BY <3>1, FieldTextGrows
      <3>3. QED
        BY <3>2 DEF first
    <2>2. ~ (p + 1 > p + 1) /\ ~ (p + 1 > p + 2)
      BY <1>1
    <2>3. QED
      BY <1>4, <2>1, <2>2 DEF Partial
  <1>9. QED
    BY <1>1, <1>7, <1>8 DEF more

(* The fields of a whole line.                                             *)
LEMMA DefinedIs ==
  ASSUME NEW text \in Seq(Char)
  PROVE  LET all == Cardinality(Delimiters(text))
         IN /\ all \in Nat /\ Len(Defined(text)) = all + 1
            /\ DOMAIN Defined(text) = 1 .. all + 1
            /\ \A n \in 1 .. all + 1 : Defined(text)[n] = DefinedCell(text, n)
  <1> DEFINE all == Cardinality(Delimiters(text))
             Fields == {DefinedCell(text, n) : n \in 1 .. all + 1}
  <1>1. all \in Nat
    BY DelimitersAre
  <1> HIDE DEF all
  <1>2. Defined(text) \in [1 .. all + 1 -> Fields]
    BY DEF Defined, all
  <1>3. all + 1 \in Nat
    BY <1>1
  <1> HIDE DEF Fields
  <1>4. Len(Defined(text)) = all + 1
    BY ONLY <1>2, <1>3, FunctionIsSeq
  <1>5. QED
    BY <1>1, <1>4 DEF Defined, all

(* The reference and the scan agree at every step.                         *)
ScanInv ==
    /\ i = 0 => cells = <<>> /\ field = <<>> /\ ~ isNull /\ ~ started
    /\ i > 0 /\ verdict = "none" => \E s \in Nat :
           Scanned(line, cells, i, s) /\ Partial(line, i, s, field, isNull, started)
    /\ AsDefined

LEMMA InField ==
  ASSUME TypeOK, ScanInv, Scanning
  PROVE  /\ line \in Seq(Char) /\ cells \in Seq(CellType) /\ field \in Seq(Char)
         /\ i \in Nat \ {0} /\ Len(line) \in Nat /\ Len(cells) \in Nat /\ columns \in Nat
         /\ \E s \in Nat :
                Scanned(line, cells, i, s) /\ Partial(line, i, s, field, isNull, started)
  BY CopyTypes DEF ScanInv, Scanning

(* In the middle of a line nothing is decided.                             *)
LEMMA StillScans ==
  ASSUME NEW s \in Nat, verdict' = "none", i' \in Nat \ {0},
         Scanned(line', cells', i', s), Partial(line', i', s, field', isNull', started')
  PROVE  ScanInv'
  <1>1. AsDefined'
    BY DEF AsDefined
  <1>2. i' # 0
    OBVIOUS
  <1>3. QED
    BY <1>1, <1>2 DEF ScanInv

LEMMA NullMarkScans ==
  ASSUME TypeOK, ScanInv, NullMark
  PROVE  ScanInv'
  <1>1. /\ Scanning /\ i < Len(line) /\ line[i] = "bs" /\ ~ started /\ line[i + 1] = "N"
        /\ isNull' = TRUE /\ started' = TRUE /\ i' = i + 2 /\ line' = line
        /\ field' = field /\ cells' = cells /\ verdict' = "none"
    BY DEF NullMark, AtNull, Escape, At, Scanning, inputVars
  <1>2. line \in Seq(Char) /\ cells \in Seq(CellType) /\ i \in Nat \ {0}
    BY <1>1, InField
  <1> PICK s \in Nat :
          Scanned(line, cells, i, s) /\ Partial(line, i, s, field, isNull, started)
    BY <1>1, InField
  <1>3. i = s + 1
    <2>1. s < i
      BY <1>2, ScannedIs
    <2>2. ~ (i > s + 1)
      BY <1>1 DEF Partial
    <2>3. QED
      BY <1>2, <2>1, <2>2
  <1>4. Scanned(line, cells, i + 2, s)
    BY <1>1, <1>2, PairScanned
  <1>5. Partial(line, i + 2, s, field, TRUE, TRUE)
    <2>1. i + 2 > s + 1 /\ i + 2 > s + 2 /\ i + 1 = s + 2
      BY <1>3
    <2>2. NullAt(line, s)
      BY <1>1, <1>3, <2>1 DEF NullAt
    <2>3. QED
      BY <2>1, <2>2 DEF Partial
  <1>6. i' \in Nat \ {0}
    BY <1>1, <1>2
  <1>7. QED
    BY <1>1, <1>4, <1>5, <1>6, StillScans

LEMMA EscapedCharScans ==
  ASSUME TypeOK, ScanInv, EscapedChar
  PROVE  ScanInv'
  <1>1. /\ Scanning /\ i < Len(line) /\ line[i] = "bs" /\ (started \/ line[i + 1] # "N")
        /\ started' = TRUE /\ i' = i + 2 /\ line' = line /\ isNull' = isNull
        /\ field' = Append(field, Unescaped(line[i + 1]))
        /\ cells' = cells /\ verdict' = "none"
    BY DEF EscapedChar, AtNull, Escape, At, Scanning, inputVars
  <1>2. /\ line \in Seq(Char) /\ cells \in Seq(CellType) /\ i \in Nat \ {0}
        /\ Len(line) \in Nat
    BY <1>1, InField
  <1> PICK s \in Nat :
          Scanned(line, cells, i, s) /\ Partial(line, i, s, field, isNull, started)
    BY <1>1, InField
  <1>3. s < i /\ (NullAt(line, s) => i # s + 2)
    <2>1. i <= Len(line)
      BY <1>1, <1>2
    <2>2. QED
      BY <1>2, <2>1, ScannedIs
  <1>4. /\ Scanned(line, cells, i + 2, s)
        /\ FieldText(line, s + 1, i + 1) =
           Append(FieldText(line, s + 1, i - 1), Unescaped(line[i + 1]))
    BY <1>1, <1>2, PairScanned
  <1>5. started = (i > s + 1) /\ isNull = (i > s + 2 /\ NullAt(line, s))
        /\ (~ isNull => field = FieldText(line, s + 1, i - 1))
    BY DEF Partial
  <1>6. isNull = (i + 2 > s + 2 /\ NullAt(line, s))
    <2>1. ASSUME NullAt(line, s) PROVE i > s + 2
      <3>1. i # s + 1
        <4>1. ASSUME i = s + 1 PROVE FALSE
          <5>1. i + 1 = s + 2 /\ ~ (i > s + 1)
            BY <4>1
          <5>2. QED
            BY <1>1, <1>5, <2>1, <5>1 DEF NullAt
        <4>2. QED
          BY <4>1
      <3>2. QED
        BY <1>2, <1>3, <2>1, <3>1
    <2>2. i + 2 > s + 2
      BY <1>2, <1>3
    <2>3. QED
      BY <1>5, <2>1, <2>2
  <1>7. Partial(line, i + 2, s, field', isNull, TRUE)
    <2>1. i + 2 > s + 1 /\ (i + 2) - 1 = i + 1
      BY <1>2, <1>3
    <2>2. ~ isNull => field' = FieldText(line, s + 1, (i + 2) - 1)
      BY <1>1, <1>4, <1>5, <2>1
    <2>3. QED
      BY <1>6, <2>1, <2>2 DEF Partial
  <1>8. i' \in Nat \ {0}
    BY <1>1, <1>2
  <1>9. QED
    BY <1>1, <1>4, <1>7, <1>8, StillScans

LEMMA PlainCharScans ==
  ASSUME TypeOK, ScanInv, PlainChar
  PROVE  ScanInv'
  <1>1. /\ Scanning /\ i <= Len(line) /\ line[i] # "tab" /\ ~ Escape
        /\ started' = TRUE /\ i' = i + 1 /\ line' = line /\ isNull' = isNull
        /\ field' = Append(field, line[i])
        /\ cells' = cells /\ verdict' = "none"
    BY DEF PlainChar, Scanning, inputVars
  <1>2. /\ line \in Seq(Char) /\ cells \in Seq(CellType) /\ i \in Nat \ {0}
        /\ Len(line) \in Nat
    BY <1>1, InField
  <1>3. line[i] # "bs" \/ i = Len(line)
    BY <1>1, <1>2 DEF Escape, At
  <1> PICK s \in Nat :
          Scanned(line, cells, i, s) /\ Partial(line, i, s, field, isNull, started)
    BY <1>1, InField
  <1>4. s < i /\ (NullAt(line, s) => i # s + 2)
    BY <1>1, <1>2, ScannedIs
  <1>5. /\ Scanned(line, cells, i + 1, s)
        /\ FieldText(line, s + 1, i) = Append(FieldText(line, s + 1, i - 1), line[i])
    BY <1>1, <1>2, <1>3, OneScanned
  <1>6. isNull = (i > s + 2 /\ NullAt(line, s))
        /\ (~ isNull => field = FieldText(line, s + 1, i - 1))
    BY DEF Partial
  <1>7. isNull = (i + 1 > s + 2 /\ NullAt(line, s))
    <2>1. i + 1 > s + 2 <=> i > s + 2 \/ i = s + 2
      BY <1>2
    <2>2. QED
      BY <1>4, <1>6, <2>1
  <1>8. Partial(line, i + 1, s, field', isNull, TRUE)
    <2>1. i + 1 > s + 1 /\ (i + 1) - 1 = i
      BY <1>2, <1>4
    <2>2. ~ isNull => field' = FieldText(line, s + 1, (i + 1) - 1)
      BY <1>1, <1>5, <1>6, <2>1
    <2>3. QED
      BY <1>7, <2>1, <2>2 DEF Partial
  <1>9. i' \in Nat \ {0}
    BY <1>1, <1>2
  <1>10. QED
    BY <1>1, <1>5, <1>8, <1>9, StillScans

LEMMA DelimiterScans ==
  ASSUME TypeOK, ScanInv, Delimiter
  PROVE  ScanInv'
  <1>1. /\ Scanning /\ i <= Len(line) /\ line[i] = "tab" /\ FieldOk
        /\ started' = FALSE /\ i' = i + 1 /\ line' = line /\ isNull' = FALSE
        /\ field' = <<>> /\ cells' = Append(cells, Cell) /\ verdict' = "none"
    BY DEF Delimiter, Finalize, At, Scanning, inputVars
  <1>2. line \in Seq(Char) /\ cells \in Seq(CellType) /\ i \in Nat \ {0}
    BY <1>1, InField
  <1>3. Cell \in CellType
    BY <1>1, CopyTypes DEF FieldOk
  <1> PICK s \in Nat :
          Scanned(line, cells, i, s) /\ Partial(line, i, s, field, isNull, started)
    BY <1>1, InField
  <1>4. Cell = DefinedCell(line, Len(cells) + 1)
    BY <1>1, <1>2, FieldIs DEF Cell
  <1>5. /\ Scanned(line, Append(cells, Cell), i + 1, i)
        /\ Partial(line, i + 1, i, <<>>, FALSE, FALSE)
    BY <1>1, <1>2, <1>3, <1>4, NextField
  <1>6. i' \in Nat \ {0} /\ i \in Nat
    BY <1>1, <1>2
  <1>7. QED
    BY <1>1, <1>5, <1>6, StillScans

(* Where a field is finished or refused.                                   *)
LEMMA AtFieldEnd ==
  ASSUME TypeOK, ScanInv, Scanning, i <= Len(line) => line[i] = "tab"
  PROVE  /\ Cell = DefinedCell(line, Len(cells) + 1)
         /\ Len(cells) + 1 \in DOMAIN Defined(line)
         /\ i > Len(line) => Len(Defined(line)) = Len(cells) + 1
         /\ Len(cells) < Len(Defined(line)) /\ Len(Defined(line)) \in Nat
         /\ \A n \in 1 .. Len(cells) : cells[n] = DefinedCell(line, n)
  <1>1. line \in Seq(Char) /\ cells \in Seq(CellType) /\ Len(cells) \in Nat
    BY InField
  <1> PICK s \in Nat :
          Scanned(line, cells, i, s) /\ Partial(line, i, s, field, isNull, started)
    BY InField
  <1>2. Cell = DefinedCell(line, Len(cells) + 1)
    BY <1>1, FieldIs DEF Cell
  <1> DEFINE all == Cardinality(Delimiters(line))
             m == Len(cells)
  <1>3. m <= all /\ all \in Nat /\ (i > Len(line) => m = all)
    BY <1>1, FieldEnds
  <1>4. Len(Defined(line)) = all + 1 /\ DOMAIN Defined(line) = 1 .. all + 1
    BY <1>1, DefinedIs
  <1>5. \A n \in 1 .. Len(cells) : cells[n] = DefinedCell(line, n)
    <2>1. DOMAIN cells = 1 .. Len(cells)
      BY <1>1, LenProperties
    <2>2. QED
      BY <2>1 DEF Scanned
  <1> HIDE DEF all
  <1>6. m + 1 \in 1 .. all + 1 /\ m < all + 1 /\ all + 1 \in Nat
    BY <1>1, <1>3
  <1>7. QED
    BY <1>2, <1>3, <1>4, <1>5, <1>6

LEMMA LineEndScans ==
  ASSUME TypeOK, ScanInv, LineEnd, TypeOK'
  PROVE  ScanInv'
  <1>1. /\ Scanning /\ i > Len(line) /\ FieldOk
        /\ line' = line /\ i' = i /\ columns' = columns /\ cells' = Append(cells, Cell)
        /\ verdict' = IF Len(cells') = columns THEN "ok" ELSE "err"
    BY DEF LineEnd, Finalize, inputVars
  <1>2. /\ cells \in Seq(CellType) /\ i \in Nat \ {0} /\ Len(line) \in Nat
        /\ Len(cells) \in Nat /\ line \in Seq(Char)
    BY <1>1, InField
  <1>3. ~ (i <= Len(line)) /\ i # 0
    BY <1>1, <1>2
  <1> DEFINE m == Len(cells)
             all == Defined(line)
  <1>4. /\ Cell = DefinedCell(line, m + 1) /\ Len(all) = m + 1
        /\ \A n \in 1 .. m : cells[n] = DefinedCell(line, n)
    BY <1>1, <1>3, AtFieldEnd
  <1>5. Cell \in CellType
    BY <1>1, CopyTypes DEF FieldOk
  <1>6. DOMAIN all = 1 .. m + 1 /\ \A n \in 1 .. m + 1 : all[n] = DefinedCell(line, n)
    <2>1. /\ Len(Defined(line)) = Cardinality(Delimiters(line)) + 1
          /\ DOMAIN Defined(line) = 1 .. Cardinality(Delimiters(line)) + 1
          /\ \A n \in 1 .. Cardinality(Delimiters(line)) + 1 :
                 Defined(line)[n] = DefinedCell(line, n)
      BY <1>2, DefinedIs
    <2>2. QED
      BY <1>4, <2>1
  <1>7. /\ cells' \in Seq(CellType) /\ Len(cells') = m + 1
        /\ \A n \in 1 .. m + 1 : cells'[n] = DefinedCell(line, n)
    <2>1. /\ Append(cells, Cell) \in Seq(CellType) /\ Len(Append(cells, Cell)) = m + 1
          /\ \A n \in 1 .. m : Append(cells, Cell)[n] = cells[n]
          /\ Append(cells, Cell)[m + 1] = Cell
      BY <1>2, <1>5, LongerSeq
    <2>2. \A n \in 1 .. m + 1 : n \in 1 .. m \/ n = m + 1
      BY <1>2
    <2> HIDE DEF m
    <2>3. QED
      BY <1>1, <1>4, <2>1, <2>2
  <1>8. DOMAIN cells' = 1 .. m + 1
    BY <1>7, LenProperties
  <1>9. cells' = all
    <2>1. cells' = [n \in 1 .. m + 1 |-> cells'[n]]
      BY <1>7, <1>8
    <2>2. all = [n \in 1 .. m + 1 |-> all[n]]
      BY <1>6 DEF Defined
    <2> HIDE DEF all, m
    <2>3. \A n \in 1 .. m + 1 : cells'[n] = all[n]
      BY <1>6, <1>7
    <2>4. QED
      BY <2>1, <2>2, <2>3
  <1>10. \A n \in DOMAIN all : "bad" \notin ToSet(all[n].text)
    <2>1. ASSUME NEW x \in CellType PROVE "bad" \notin ToSet(x.text)
      <3>1. x.text \in Seq(Char \ {"bad"})
        BY DEF CellType, Text
      <3>2. /\ DOMAIN x.text = 1 .. Len(x.text)
            /\ \A n \in 1 .. Len(x.text) : x.text[n] # "bad"
        BY <3>1, LenProperties, ElementOfSeq
      <3>3. QED
        BY <3>2 DEF ToSet
    <2> HIDE DEF all, m
    <2>2. \A n \in DOMAIN all : all[n] \in CellType
      BY <1>6, <1>7, <1>8, <1>9, ElementOfSeq
    <2>3. QED
      BY <2>1, <2>2
  <1>11. Acceptable(line)' <=> verdict' = "ok"
    <2>1. Acceptable(line)' <=> Len(all) = columns
      BY <1>1, <1>10 DEF Acceptable
    <2> HIDE DEF all, m
    <2>2. QED
      BY <1>1, <1>4, <1>7, <2>1
  <1>12. AsDefined' /\ verdict' # "none"
    BY <1>1, <1>9, <1>11 DEF AsDefined
  <1>13. QED
    BY <1>1, <1>3, <1>12 DEF ScanInv

LEMMA FieldFailsScans ==
  ASSUME TypeOK, ScanInv, FieldFails
  PROVE  ScanInv'
  <1>1. /\ Scanning /\ (i <= Len(line) => line[i] = "tab") /\ ~ FieldOk
        /\ line' = line /\ i' = i /\ columns' = columns /\ cells' = cells
        /\ field' = field /\ verdict' = "err"
    BY DEF FieldFails, inputVars, fieldVars
  <1>2. /\ i \in Nat \ {0} /\ Len(cells) \in Nat /\ columns \in Nat
    BY <1>1, InField
  <1> DEFINE m == Len(cells)
             all == Defined(line)
  <1>3. /\ Cell = DefinedCell(line, m + 1) /\ m + 1 \in DOMAIN all
        /\ m < Len(all) /\ Len(all) \in Nat
    BY <1>1, AtFieldEnd
  <1>4. ~ Acceptable(line)
    <2>1. CASE ~ (Len(cells) < columns)
      <3>1. Len(all) # columns
        BY <1>2, <1>3, <2>1
      <3>2. QED
        BY <3>1 DEF Acceptable
    <2>2. CASE ~ isNull /\ "bad" \in ToSet(field)
      <3>1. all[m + 1] = DefinedCell(line, m + 1)
        BY <1>3 DEF Defined
      <3>2. all[m + 1].text = field
        BY <1>3, <2>2, <3>1 DEF Cell, Value
      <3>3. QED
        BY <1>3, <2>2, <3>2 DEF Acceptable
    <2>3. QED
      BY <1>1, <2>1, <2>2 DEF FieldOk
  <1>5. ~ Acceptable(line)'
    BY <1>1, <1>4 DEF Acceptable
  <1>6. AsDefined' /\ verdict' # "none" /\ i' # 0
    BY <1>1, <1>2, <1>5 DEF AsDefined
  <1>7. QED
    BY <1>6 DEF ScanInv

LEMMA StripScans ==
  ASSUME TypeOK, ScanInv, Strip, TypeOK'
  PROVE  ScanInv'
  <1>1. /\ i = 0 /\ i' = 1 /\ cells' = cells /\ field' = field /\ isNull' = isNull
        /\ started' = started /\ verdict' \in {"none", "end"}
    BY DEF Strip, inputVars, fieldVars
  <1>2. /\ cells' = <<>> /\ field' = <<>> /\ isNull' = FALSE /\ started' = FALSE
    BY <1>1 DEF ScanInv, TypeOK
  <1>3. line' \in Seq(Char) /\ Len(line') \in Nat
    BY LenProperties DEF TypeOK
  <1> DEFINE text == line'
             one == 1
             zero == 0
  <1>4. Scanned(text, <<>>, one, zero)
    <2>1. one \in 1 .. Len(text) + 1 /\ zero \in 0 .. one - 1
      BY <1>3
    <2>2. ~ Literal(text, one) /\ ~ Literal(text, zero + 1)
      BY LiteralFirst
    <2>3. /\ Len(<<>>) = 0 /\ zero = NthDelimiter(text, 0)
          /\ Cardinality(DelimitersTo(text, one - 1)) = 0
      <3> HIDE DEF text
      <3>1. text \in Seq(Char) /\ one - 1 = 0
        BY <1>3 DEF text
      <3>2. QED
        BY <3>1, EmptySeq, NoneDelimits, DelimitersAre
    <2>4. \A n \in DOMAIN <<>> : <<>>[n] = DefinedCell(text, n)
      OBVIOUS
    <2> HIDE DEF text, one, zero
    <2>5. QED
      BY <2>1, <2>2, <2>3, <2>4 DEF Scanned
  <1>5. Partial(text, one, zero, <<>>, FALSE, FALSE)
    <2>1. ~ (one > zero + 1) /\ ~ (one > zero + 2)
      OBVIOUS
    <2>2. FieldText(text, zero + 1, one - 1) = <<>>
      <3> DEFINE first == zero + 1
      <3> HIDE DEF text
      <3>1. /\ text \in Seq(Char) /\ first \in Nat \ {0} /\ zero \in Nat
            /\ first - 1 <= zero /\ zero = first - 1 /\ zero <= Len(text) /\ one - 1 = zero
        BY <1>3 DEF text
      <3> HIDE DEF first, zero
      <3>2. FieldText(text, first, zero) = <<>>
        BY <3>1, FieldTextGrows
      <3>3. QED
        BY <3>1, <3>2 DEF first
    <2> HIDE DEF text, one, zero
    <2>3. QED
      BY <2>1, <2>2 DEF Partial
  <1>6. i' # 0
    BY <1>1
  <1>7. \E s \in Nat :
            Scanned(line', cells', i', s) /\ Partial(line', i', s, field', isNull', started')
    <2>1. zero \in Nat /\ i' = one
      BY <1>1
    <2> HIDE DEF zero, one
    <2>2. QED
      BY <1>2, <1>4, <1>5, <2>1
  <1>8. AsDefined'
    BY <1>1 DEF AsDefined
  <1>9. QED
    BY <1>6, <1>7, <1>8 DEF ScanInv

LEMMA ScanInitInv == TextInit => ScanInv
  BY DEF TextInit, Init, ScanInv, AsDefined

LEMMA ScanUnchanged ==
  ASSUME ScanInv, UNCHANGED vars
  PROVE  ScanInv'
  <1>1. /\ columns' = columns /\ line' = line /\ i' = i /\ field' = field
        /\ isNull' = isNull /\ started' = started /\ cells' = cells /\ verdict' = verdict
    BY DEF vars, inputVars, fieldVars
  <1>2. AsDefined'
    BY <1>1 DEF ScanInv, AsDefined, Acceptable
  <1>3. QED
    BY <1>1, <1>2 DEF ScanInv

LEMMA ScanStepInv ==
  ASSUME CopyInv, CopyInv', ScanInv, [TextNext]_<<vars, csvVars>>
  PROVE  ScanInv'
  <1>1. TypeOK /\ TypeOK'
    BY DEF CopyInv
  <1>2. CASE Next
    BY <1>1, <1>2, StripScans, DelimiterScans, NullMarkScans, EscapedCharScans,
       PlainCharScans, LineEndScans, FieldFailsScans DEF Next
  <1>3. CASE ~ Next
    <2>1. UNCHANGED vars
      BY <1>3 DEF TextNext, WriteCsv
    <2>2. QED
      BY <2>1, ScanUnchanged
  <1>4. QED
    BY <1>2, <1>3

(* Any line, of any length and with any characters, is read as the text    *)
(* format defines it: parse_line accepts it exactly if it has the right    *)
(* number of fields and all of them are UTF-8, and yields the text and the *)
(* NULLs of these fields.                                                  *)
THEOREM DefinedCorrect == TextSpec => []AsDefined
  <1>1. TextInit => ScanInv
    BY ScanInitInv
  <1>2. CopyInv /\ CopyInv' /\ ScanInv /\ [TextNext]_<<vars, csvVars>> => ScanInv'
    BY ScanStepInv
  <1>3. ScanInv => AsDefined
    BY DEF ScanInv
  <1>4. QED
    BY <1>1, <1>2, <1>3, CopyHolds, PTL DEF TextSpec

-----------------------------------------------------------------------------
(* A csv file.  A cell is a sequence of marks: the quotes around it and    *)
(* one for each of its characters.                                         *)
CsvCells == [null : BOOLEAN, text : Seq(Csv!Char)]

Comma == <<"comma">>
Mark == <<"quote">>
Nl == <<"nl">>

MarkOf(x) == IF x = "quote" THEN <<"quote", "quote">> ELSE <<x>>

Insides(s) == [k \in DOMAIN s |-> MarkOf(s[k])]

Quotes(cell) == ~ cell.null /\ Csv!NeedsQuoting(cell.text)

Marks(cell) ==
    IF cell.null THEN <<>>
    ELSE IF Quotes(cell) THEN <<Mark>> \o Append(Insides(cell.text), Mark)
    ELSE Singles(cell.text)

MarkCount(cell) ==
    IF cell.null THEN 0 ELSE IF Quotes(cell) THEN Len(cell.text) + 2 ELSE Len(cell.text)

MarkParts(r) == [c \in DOMAIN r |-> Marks(r[c])]

All(t) == <<t.header>> \o t.rows

LinesOf(t) == [r \in DOMAIN All(t) |-> Csv!CsvLine(All(t)[r])]

(* n marks of cell c of line r are read.                                   *)
Place(t, r, c, n) == Offset(LinesOf(t), r - 1) + Begin(MarkParts(All(t)[r]), Comma, c, n)

(* How much of a cell's text its first n marks hold.                       *)
Kept(cell, n) ==
    IF ~ Quotes(cell) THEN n
    ELSE IF n = 0 THEN 0 ELSE IF n = Len(cell.text) + 2 THEN Len(cell.text) ELSE n - 1

Opened(cell, n) == Quotes(cell) /\ n > 0
Inside(cell, n) == Quotes(cell) /\ n > 0 /\ n < Len(cell.text) + 2

CellRead(cell, n) ==
    /\ wasQuoted <=> Opened(cell, n)
    /\ inQuotes <=> Inside(cell, n)
    /\ Len(csvField) = Kept(cell, n)
    /\ \A k \in 1 .. Kept(cell, n) : csvField[k] = cell.text[k]

ReadingCsv(r, c, n) ==
    /\ rest = Left(Csv!Csv(table), Place(table, r, c, n))
    /\ Len(csvRows) = r - 1 /\ \A k \in 1 .. r - 1 : csvRows[k] = All(table)[k]
    /\ Len(csvRow) = c - 1 /\ \A k \in 1 .. c - 1 : csvRow[k] = All(table)[r][k]
    /\ CellRead(All(table)[r][c], n)

NothingRead == csvRow = <<>> /\ csvField = <<>> /\ ~ inQuotes /\ ~ wasQuoted

CsvTypes ==
    /\ rest \in Seq(Csv!Char) /\ csvField \in Seq(Csv!Char)
    /\ csvRow \in Seq(CsvCells) /\ csvRows \in Seq(Seq(CsvCells))
    /\ inQuotes \in BOOLEAN /\ wasQuoted \in BOOLEAN

(* A line of one NULL is a blank line, which is no row.  Rows without a    *)
(* header are not written.                                                 *)
Visible(r) == Len(r) = 1 => ~ r[1].null

NoLoneNull ==
    /\ \A t \in Tables : \A k \in DOMAIN t.rows : Visible(t.rows[k])
    /\ \A r \in Rows : Headers[Len(r)] # {} => Visible(r)

Readable(t) == Csv!IsTable(t) /\ \A k \in DOMAIN t.rows : Visible(t.rows[k])

WrittenInv ==
    /\ Readable(table)
    /\ row # <<>> => table.rows = <<row>>
    /\ csvVerdict = "none" =>
           \/ \E r \in 1 .. Len(All(table)) : \E c \in 1 .. Len(All(table)[r]) :
                  \E n \in 0 .. MarkCount(All(table)[r][c]) : ReadingCsv(r, c, n)
           \/ rest = <<>> /\ csvRows = All(table) /\ NothingRead
    /\ csvVerdict # "none" =>
           csvVerdict = "ok" /\ rest = <<>> /\ csvRows = All(table) /\ NothingRead

CsvInv ==
    /\ CsvTypes
    /\ table = NoTable =>
           rest = <<>> /\ csvRows = <<>> /\ NothingRead /\ csvVerdict = "none"
    /\ table # NoTable => WrittenInv

LEMMA CsvCharHas == /\ "quote" \in Csv!Char /\ "comma" \in Csv!Char /\ "nl" \in Csv!Char
  BY DEF Csv!Char

(* The library's operators are the same in the instance.                   *)
LEMMA CsvLibrary == \A s : Csv!FlattenSeq(s) = FlattenSeq(s) /\ Csv!ToSet(s) = ToSet(s)
  BY DEF Csv!FlattenSeq, FlattenSeq, Csv!ToSet, ToSet

LEMMA MarkOfIs ==
  ASSUME NEW x \in Csv!Char
  PROVE  /\ MarkOf(x) \in Seq(Csv!Char)
         /\ x = "quote" => Len(MarkOf(x)) = 2 /\ MarkOf(x)[1] = "quote" /\ MarkOf(x)[2] = "quote"
         /\ x # "quote" => Len(MarkOf(x)) = 1 /\ MarkOf(x)[1] = x
  <1>1. CASE x = "quote"
    <2>1. MarkOf(x) = <<x, x>>
      BY <1>1 DEF MarkOf
    <2>2. <<x, x>> \in Seq(Csv!Char) /\ Len(<<x, x>>) = 2
      BY Pair
    <2>3. <<x, x>>[1] = x /\ <<x, x>>[2] = x
      OBVIOUS
    <2>4. QED
      BY <1>1, <2>1, <2>2, <2>3
  <1>2. CASE x # "quote"
    <2>1. MarkOf(x) = <<x>>
      BY <1>2 DEF MarkOf
    <2>2. QED
      BY <1>2, <2>1, Single
  <1>3. QED
    BY <1>1, <1>2

(* A text without the characters that need quoting is written as it is.    *)
LEMMA PlainText ==
  ASSUME NEW s \in Seq(Csv!Char), ~ Csv!NeedsQuoting(s)
  PROVE  s # <<>> /\ \A k \in 1 .. Len(s) : s[k] \notin {"quote", "comma", "nl", "cr"}
  <1>1. DOMAIN s = 1 .. Len(s)
    BY LenProperties
  <1>2. s # <<>> /\ ToSet(s) \cap {"quote", "comma", "nl", "cr"} = {}
    BY CsvLibrary DEF Csv!NeedsQuoting
  <1>3. \A k \in 1 .. Len(s) : s[k] \in ToSet(s)
    BY <1>1 DEF ToSet
  <1>4. QED
    BY <1>2, <1>3

LEMMA InsidesIs ==
  ASSUME NEW s \in Seq(Csv!Char)
  PROVE  /\ Insides(s) \in Seq(Seq(Csv!Char)) /\ Len(Insides(s)) = Len(s)
         /\ \A k \in 1 .. Len(s) : Insides(s)[k] = MarkOf(s[k])
         /\ Csv!Doubled(s) = FlattenSeq(Insides(s))
  <1> DEFINE Q == Seq(Csv!Char)
  <1>1. /\ DOMAIN s = 1 .. Len(s) /\ Len(s) \in Nat
        /\ \A k \in 1 .. Len(s) : s[k] \in Csv!Char
    BY LenProperties, ElementOfSeq
  <1>2. ASSUME NEW k \in 1 .. Len(s) PROVE MarkOf(s[k]) \in Q
    <2>1. s[k] \in Csv!Char
      BY <1>1
    <2>2. QED
      BY ONLY <2>1, MarkOfIs
  <1> HIDE DEF Q
  <1>3. /\ Insides(s) \in [1 .. Len(s) -> Q]
        /\ \A k \in 1 .. Len(s) : Insides(s)[k] = MarkOf(s[k])
    BY <1>1, <1>2 DEF Insides
  <1>4. Insides(s) \in Seq(Q) /\ Len(Insides(s)) = Len(s)
    BY ONLY <1>1, <1>3, FunctionIsSeq
  <1>5. Csv!Doubled(s) = FlattenSeq(Insides(s))
    BY CsvLibrary DEF Csv!Doubled, Insides, MarkOf
  <1>6. QED
    BY <1>3, <1>4, <1>5 DEF Q

(* The marks of a quoted text.                                             *)
LEMMA QuotedMarks ==
  ASSUME NEW s \in Seq(Csv!Char), NEW all, all = <<Mark>> \o Append(Insides(s), Mark)
  PROVE  /\ all \in Seq(Seq(Csv!Char)) /\ Len(all) = Len(s) + 2
         /\ all[1] = Mark /\ all[Len(s) + 2] = Mark
         /\ \A k \in 1 .. Len(s) : all[k + 1] = MarkOf(s[k])
         /\ FlattenSeq(all) = <<"quote">> \o Csv!Doubled(s) \o <<"quote">>
  <1> DEFINE Q == Seq(Csv!Char)
             u == Insides(s)
             v == Append(u, Mark)
             one == <<Mark>>
             n == Len(s)
  <1>1. /\ u \in Seq(Q) /\ Len(u) = n /\ n \in Nat
        /\ \A k \in 1 .. n : u[k] = MarkOf(s[k])
        /\ Csv!Doubled(s) = FlattenSeq(u)
    BY InsidesIs, LenProperties
  <1>2. Mark \in Q /\ Q = Seq(Csv!Char)
    BY CsvCharHas, Single DEF Mark
  <1> HIDE DEF Q, u
  <1>3. one \in Seq(Q) /\ Len(one) = 1 /\ one[1] = Mark
    BY <1>2, Single
  <1>4. /\ v \in Seq(Q) /\ Len(v) = n + 1
        /\ \A k \in 1 .. n : v[k] = u[k]
        /\ v[n + 1] = Mark
    <2>1. u \in Seq(Q) /\ Mark \in Q /\ Len(u) = n
      BY <1>1, <1>2
    <2> HIDE DEF n
    <2>2. /\ Append(u, Mark) \in Seq(Q) /\ Len(Append(u, Mark)) = Len(u) + 1
          /\ \A k \in 1 .. Len(u) : Append(u, Mark)[k] = u[k]
          /\ Append(u, Mark)[Len(u) + 1] = Mark
      BY ONLY <2>1, LongerSeq
    <2>3. QED
      BY <2>1, <2>2
  <1> HIDE DEF v, one, n
  <1>5. /\ one \o v \in Seq(Q) /\ Len(one \o v) = Len(one) + Len(v)
        /\ \A k \in 1 .. Len(one) : (one \o v)[k] = one[k]
        /\ \A k \in 1 .. Len(v) : (one \o v)[Len(one) + k] = v[k]
    <2>1. one \in Seq(Q) /\ v \in Seq(Q)
      BY <1>3, <1>4
    <2>2. QED
      BY ONLY <2>1, ConcatAt
  <1>6. all = one \o v
    BY DEF one, v, u
  <1>7. all \in Seq(Q) /\ Len(all) = n + 2 /\ all[1] = Mark
    <2>1. all \in Seq(Q) /\ Len(all) = 1 + (n + 1)
      BY <1>3, <1>4, <1>5, <1>6
    <2>2. 1 \in 1 .. Len(one)
      BY <1>3
    <2>3. all[1] = Mark
      BY <1>3, <1>5, <1>6, <2>2
    <2>4. QED
      BY <1>1, <2>1, <2>3
  <1>8. \A k \in 1 .. n + 1 : all[k + 1] = v[k]
    BY SMTT(40), <1>1, <1>3, <1>4, <1>5, <1>6
  <1>9. all[n + 2] = Mark
    <2>1. n + 1 \in 1 .. n + 1 /\ (n + 1) + 1 = n + 2
      BY <1>1
    <2>2. all[(n + 1) + 1] = v[n + 1]
      BY <1>8, <2>1
    <2>3. QED
      BY <1>4, <2>1, <2>2
  <1>10. ASSUME NEW k \in 1 .. n PROVE all[k + 1] = MarkOf(s[k])
    <2>1. k \in 1 .. n + 1
      BY <1>1
    <2>2. all[k + 1] = v[k]
      BY <1>8, <2>1
    <2>3. QED
      BY <1>1, <1>4, <2>2
  <1>11. FlattenSeq(all) = Mark \o (Csv!Doubled(s) \o Mark)
    <2>0. Q = Seq(Csv!Char) /\ Mark \in Q /\ v \in Seq(Q) /\ one = <<Mark>>
      BY <1>2, <1>4 DEF one
    <2>1. FlattenSeq(one \o v) = Mark \o FlattenSeq(v)
      BY ONLY <2>0, FlattenCons
    <2>2. FlattenSeq(v) = FlattenSeq(u) \o Mark
      BY <1>1, <1>2, FlattenAppend DEF v
    <2>3. QED
      BY <1>1, <1>6, <2>1, <2>2
  <1>12. Mark \o (Csv!Doubled(s) \o Mark) = (Mark \o Csv!Doubled(s)) \o Mark
    <2>1. Csv!Doubled(s) \in Seq(Csv!Char) /\ Mark \in Seq(Csv!Char)
      BY <1>1, <1>2, FlattenType
    <2>2. QED
      BY ONLY SMTT(40), <2>1, ConcatAssociative
  <1>13. QED
    BY <1>2, <1>7, <1>9, <1>10, <1>11, <1>12 DEF n, Mark

LEMMA MarksIs ==
  ASSUME NEW cell \in CsvCells
  PROVE  /\ Marks(cell) \in Seq(Seq(Csv!Char)) /\ Len(Marks(cell)) = MarkCount(cell)
         /\ MarkCount(cell) \in Nat /\ cell.text \in Seq(Csv!Char) /\ Len(cell.text) \in Nat
         /\ FlattenSeq(Marks(cell)) = Csv!CsvCell(cell)
         /\ Quotes(cell) =>
                /\ MarkCount(cell) = Len(cell.text) + 2
                /\ Marks(cell)[1] = Mark /\ Marks(cell)[Len(cell.text) + 2] = Mark
                /\ \A k \in 1 .. Len(cell.text) : Marks(cell)[k + 1] = MarkOf(cell.text[k])
         /\ ~ cell.null /\ ~ Quotes(cell) =>
                /\ MarkCount(cell) = Len(cell.text) /\ cell.text # <<>>
                /\ \A k \in 1 .. Len(cell.text) :
                       /\ Marks(cell)[k] = <<cell.text[k]>>
                       /\ cell.text[k] \notin {"quote", "comma", "nl", "cr"}
         /\ cell.null => MarkCount(cell) = 0
  <1> DEFINE s == cell.text
             Q == Seq(Csv!Char)
  <1>1. s \in Seq(Csv!Char) /\ Len(s) \in Nat /\ cell.null \in BOOLEAN
    BY LenProperties DEF CsvCells
  <1>2. CASE cell.null
    <2>1. /\ Marks(cell) = <<>> /\ MarkCount(cell) = 0 /\ Csv!CsvCell(cell) = <<>>
          /\ ~ Quotes(cell)
      BY <1>2 DEF Marks, MarkCount, Csv!CsvCell, Quotes
    <2> HIDE DEF Q
    <2>2. <<>> \in Seq(Q) /\ Len(<<>>) = 0
      BY EmptySeq
    <2>3. QED
      BY <1>1, <1>2, <2>1, <2>2, FlattenEmpty DEF Q
  <1>3. CASE Quotes(cell)
    <2>1. ~ cell.null /\ Csv!NeedsQuoting(s)
      BY <1>3 DEF Quotes
    <2>2. /\ Marks(cell) = <<Mark>> \o Append(Insides(s), Mark)
          /\ MarkCount(cell) = Len(s) + 2
          /\ Csv!CsvCell(cell) = <<"quote">> \o Csv!Doubled(s) \o <<"quote">>
      BY <1>3, <2>1 DEF Marks, MarkCount, Csv!CsvCell, Csv!CsvStr
    <2>3. MarkCount(cell) \in Nat
      BY <1>1, <2>2
    <2> DEFINE all == Marks(cell)
    <2> HIDE DEF all, s
    <2>4. /\ all \in Seq(Seq(Csv!Char)) /\ Len(all) = Len(s) + 2
          /\ all[1] = Mark /\ all[Len(s) + 2] = Mark
          /\ \A k \in 1 .. Len(s) : all[k + 1] = MarkOf(s[k])
          /\ FlattenSeq(all) = <<"quote">> \o Csv!Doubled(s) \o <<"quote">>
      <3>1. s \in Seq(Csv!Char) /\ all = <<Mark>> \o Append(Insides(s), Mark)
        BY <1>1, <2>2 DEF all
      <3>2. QED
        BY ONLY <3>1, QuotedMarks
    <2>5. QED
      BY <1>1, <1>3, <2>1, <2>2, <2>3, <2>4 DEF all, s
  <1>4. CASE ~ cell.null /\ ~ Quotes(cell)
    <2>1. ~ Csv!NeedsQuoting(s)
      BY <1>4 DEF Quotes
    <2>2. /\ Marks(cell) = Singles(s) /\ MarkCount(cell) = Len(s)
          /\ Csv!CsvCell(cell) = s
      BY <1>4, <2>1 DEF Marks, MarkCount, Csv!CsvCell, Csv!CsvStr
    <2>3. s # <<>> /\ \A k \in 1 .. Len(s) : s[k] \notin {"quote", "comma", "nl", "cr"}
      BY <1>1, <2>1, PlainText
    <2> HIDE DEF Q
    <2>4. Singles(s) \in Seq(Q) /\ Len(Singles(s)) = Len(s) /\ FlattenSeq(Singles(s)) = s
      BY <1>1, FlattenSingles DEF Q
    <2>5. \A k \in 1 .. Len(s) : Singles(s)[k] = <<s[k]>>
      BY <1>1, LenProperties DEF Singles
    <2>6. QED
      BY <1>1, <1>4, <2>2, <2>3, <2>4, <2>5 DEF Q
  <1>5. QED
    BY <1>2, <1>3, <1>4

LEMMA LineLayout ==
  ASSUME NEW r \in Seq(CsvCells)
  PROVE  /\ CellRow(Csv!Char, Seq(Csv!Char), MarkParts(r), "comma", Comma)
         /\ Csv!CsvLine(r) = RowText(MarkParts(r), Comma) \o Nl
         /\ Csv!CsvLine(r) \in Seq(Csv!Char)
         /\ Len(Csv!CsvLine(r)) = Len(RowText(MarkParts(r), Comma)) + 1
         /\ Len(RowText(MarkParts(r), Comma)) \in Nat /\ Len(r) \in Nat
         /\ \A k \in 1 .. Len(RowText(MarkParts(r), Comma)) :
                Csv!CsvLine(r)[k] = RowText(MarkParts(r), Comma)[k]
         /\ Csv!CsvLine(r)[Len(RowText(MarkParts(r), Comma)) + 1] = "nl"
         /\ Len(MarkParts(r)) = Len(r)
         /\ \A c \in 1 .. Len(r) :
                /\ r[c] \in CsvCells /\ MarkParts(r)[c] = Marks(r[c])
                /\ Len(MarkParts(r)[c]) = MarkCount(r[c]) /\ MarkCount(r[c]) \in Nat
  <1> DEFINE Q == Seq(Csv!Char)
             P == Seq(Q)
             p == MarkParts(r)
             text == RowText(p, Comma)
  <1>1. /\ DOMAIN r = 1 .. Len(r) /\ Len(r) \in Nat
        /\ \A c \in 1 .. Len(r) : r[c] \in CsvCells
    BY LenProperties, ElementOfSeq
  <1>2. \A c \in 1 .. Len(r) : /\ Marks(r[c]) \in P /\ Len(Marks(r[c])) = MarkCount(r[c])
                               /\ MarkCount(r[c]) \in Nat
                               /\ Csv!CsvCell(r[c]) = FlattenSeq(Marks(r[c]))
    BY <1>1, MarksIs
  <1> HIDE DEF P
  <1>3. p \in [1 .. Len(r) -> P] /\ \A c \in 1 .. Len(r) : p[c] = Marks(r[c])
    BY <1>1, <1>2 DEF MarkParts
  <1>4. DOMAIN p = DOMAIN r
    BY DEF MarkParts
  <1> HIDE DEF p
  <1>5. p \in Seq(P) /\ Len(p) = Len(r)
    BY ONLY <1>1, <1>3, FunctionIsSeq
  <1>6. CellRow(Csv!Char, Q, p, "comma", Comma)
    BY <1>5, CsvCharHas DEF CellRow, P, Comma
  <1>7. Csv!CsvLine(r) = text \o Nl
    <2>1. Flat(p) = [c \in DOMAIN r |-> Csv!CsvCell(r[c])]
      BY <1>1, <1>2, <1>3, <1>4 DEF Flat
    <2>2. Separated(Flat(p), Comma) =
              [c \in DOMAIN r |-> (IF c = 1 THEN <<>> ELSE <<"comma">>) \o Csv!CsvCell(r[c])]
      BY <2>1 DEF Separated, Lead, Comma
    <2>3. QED
      BY <2>2, CsvLibrary DEF Csv!CsvLine, RowText, Nl
  <1>8. text \in Seq(Csv!Char) /\ Len(text) \in Nat
    BY <1>6, CellsType
  <1>9. Nl \in Seq(Csv!Char) /\ Len(Nl) = 1 /\ Nl[1] = "nl"
    BY CsvCharHas, Single DEF Nl
  <1> HIDE DEF text
  <1>10. /\ text \o Nl \in Seq(Csv!Char) /\ Len(text \o Nl) = Len(text) + Len(Nl)
         /\ \A k \in 1 .. Len(text) : (text \o Nl)[k] = text[k]
         /\ \A k \in 1 .. Len(Nl) : (text \o Nl)[Len(text) + k] = Nl[k]
    <2>1. text \in Seq(Csv!Char) /\ Nl \in Seq(Csv!Char)
      BY <1>8, <1>9
    <2>2. QED
      BY ONLY <2>1, ConcatAt
  <1>11. (text \o Nl)[Len(text) + 1] = "nl"
    <2>1. 1 \in 1 .. Len(Nl)
      BY <1>9
    <2>2. QED
      BY <1>9, <1>10, <2>1
  <1>12. QED
    BY <1>1, <1>2, <1>3, <1>5, <1>6, <1>7, <1>8, <1>9, <1>10, <1>11 DEF p, text

(* The lines of a file: the header's, then the rows'.                      *)
NoText(cell) == cell.null => cell.text = <<>>

LEMMA TableIs ==
  ASSUME NEW t, Readable(t)
  PROVE  /\ All(t) \in Seq(Seq(CsvCells)) /\ Len(All(t)) \in Nat /\ Len(All(t)) >= 1
         /\ t.header \in Seq(CsvCells) /\ t.header # <<>>
         /\ t.rows \in Seq(Seq(CsvCells))
         /\ All(t)[1] = t.header /\ Len(All(t)) = Len(t.rows) + 1
         /\ \A k \in 1 .. Len(t.rows) : All(t)[k + 1] = t.rows[k]
         /\ \A r \in 1 .. Len(All(t)) :
                /\ All(t)[r] \in Seq(CsvCells) /\ Len(All(t)[r]) = Len(All(t)[1])
                /\ Len(All(t)[r]) \in Nat \ {0} /\ Visible(All(t)[r])
                /\ \A c \in 1 .. Len(All(t)[r]) :
                       /\ All(t)[r][c] \in CsvCells
                       /\ NoText(All(t)[r][c])
  <1> DEFINE L == Seq(CsvCells)
             h == t.header
             one == <<h>>
             all == one \o t.rows
             m == Len(t.rows)
             Names == [null : {FALSE}, text : Seq(Csv!Char)]
  <1>1. /\ h \in Seq(Names) /\ h # <<>> /\ t.rows \in Seq(L)
        /\ \A k \in DOMAIN t.rows :
               /\ Len(t.rows[k]) = Len(h) /\ Visible(t.rows[k])
               /\ \A c \in DOMAIN t.rows[k] : t.rows[k][c].null => t.rows[k][c].text = <<>>
    BY DEF Readable, Csv!IsTable, CsvCells
  <1>2. Names \subseteq CsvCells
    BY DEF CsvCells
  <1>3. h \in L
    BY <1>1, <1>2, SeqMonotonic
  <1>4. /\ DOMAIN h = 1 .. Len(h) /\ Len(h) \in Nat /\ Len(h) # 0
        /\ DOMAIN t.rows = 1 .. m /\ m \in Nat
        /\ \A c \in 1 .. Len(h) : h[c] \in Names
    BY <1>1, LenProperties, EmptySeq, ElementOfSeq
  <1>5. \A c \in 1 .. Len(h) : h[c].null = FALSE
    BY <1>4
  <1> HIDE DEF Names, h
  <1>6. one \in Seq(L) /\ Len(one) = 1 /\ one[1] = h
    <2> HIDE DEF L
    <2>1. QED
      BY <1>3, Single
  <1>7. \A k \in 1 .. m : t.rows[k] \in L
    <2> HIDE DEF L
    <2>1. QED
      BY <1>1, ElementOfSeq
  <1> HIDE DEF one
  <1>8. /\ all \in Seq(L) /\ Len(all) = Len(one) + m
        /\ \A k \in 1 .. Len(one) : all[k] = one[k]
        /\ \A k \in 1 .. m : all[Len(one) + k] = t.rows[k]
    <2>1. one \in Seq(L) /\ t.rows \in Seq(L)
      BY <1>1, <1>6
    <2> HIDE DEF L
    <2>2. QED
      BY ONLY <2>1, ConcatAt
  <1>9. All(t) = all
    BY DEF All, one, h
  <1> HIDE DEF all
  <1>10. /\ Len(all) = m + 1 /\ all[1] = h /\ \A k \in 1 .. m : all[k + 1] = t.rows[k]
    <2>1. 1 \in 1 .. Len(one) /\ \A k \in 1 .. m : 1 + k = k + 1
      BY <1>4, <1>6
    <2>2. QED
      BY <1>4, <1>6, <1>8, <2>1
  <1>11. ASSUME NEW r \in 1 .. Len(all)
         PROVE  /\ all[r] \in L /\ Len(all[r]) = Len(h) /\ Visible(all[r])
                /\ \A c \in 1 .. Len(all[r]) : all[r][c].null => all[r][c].text = <<>>
    <2>1. CASE r = 1
      <3>1. all[r] = h
        BY <1>10, <2>1
      <3>2. Visible(h)
        BY <1>5, <1>4 DEF Visible
      <3>3. \A c \in 1 .. Len(h) : h[c].null => h[c].text = <<>>
        BY <1>5
      <3>4. QED
        BY <1>3, <3>1, <3>2, <3>3
    <2>2. CASE r # 1
      <3> DEFINE k == r - 1
      <3>1. k \in 1 .. m /\ k + 1 = r
        BY <1>4, <1>10, <2>2
      <3> HIDE DEF k
      <3>2. all[r] = t.rows[k] /\ t.rows[k] \in L
        BY <1>7, <1>10, <3>1
      <3>3. DOMAIN t.rows[k] = 1 .. Len(t.rows[k])
        BY <3>2, LenProperties
      <3>4. QED
        BY <1>1, <1>4, <3>1, <3>2, <3>3
    <2>3. QED
      BY <2>1, <2>2
  <1>12. \A r \in 1 .. Len(all) : \A c \in 1 .. Len(all[r]) : all[r][c] \in CsvCells
    BY <1>11, ElementOfSeq
  <1>13. Len(all) \in Nat /\ Len(all) >= 1 /\ Len(h) \in Nat \ {0}
    BY <1>4, <1>10
  <1>14. QED
    BY <1>1, <1>3, <1>8, <1>9, <1>10, <1>11, <1>12, <1>13 DEF h, m, NoText

LEMMA FileLayout ==
  ASSUME NEW t, Readable(t)
  PROVE  /\ LinesOf(t) \in Seq(Seq(Csv!Char)) /\ Len(LinesOf(t)) = Len(All(t))
         /\ \A r \in 1 .. Len(All(t)) : LinesOf(t)[r] = Csv!CsvLine(All(t)[r])
         /\ Csv!Csv(t) = FlattenSeq(LinesOf(t))
         /\ Csv!Csv(t) \in Seq(Csv!Char) /\ Len(Csv!Csv(t)) \in Nat
         /\ LaidOut(Csv!Csv(t), LinesOf(t))
  <1> DEFINE Q == Seq(Csv!Char)
             n == Len(All(t))
             m == Len(t.rows)
             lines == LinesOf(t)
             first == Csv!CsvLine(t.header)
             one == <<first>>
             others == [k \in DOMAIN t.rows |-> Csv!CsvLine(t.rows[k])]
             both == one \o others
  <1>1. /\ n \in Nat /\ n = m + 1 /\ DOMAIN All(t) = 1 .. n
        /\ \A r \in 1 .. n : All(t)[r] \in Seq(CsvCells)
        /\ DOMAIN t.rows = 1 .. m /\ m \in Nat
        /\ \A k \in 1 .. m : All(t)[k + 1] = t.rows[k] /\ t.rows[k] \in Seq(CsvCells)
        /\ All(t)[1] = t.header /\ t.header \in Seq(CsvCells)
    <2>1. All(t) \in Seq(Seq(CsvCells)) /\ t.rows \in Seq(Seq(CsvCells))
      BY TableIs
    <2> DEFINE L == Seq(CsvCells)
    <2>2. All(t) \in Seq(L) /\ t.rows \in Seq(L)
      BY <2>1
    <2> HIDE DEF L
    <2>3. /\ DOMAIN All(t) = 1 .. n /\ n \in Nat /\ DOMAIN t.rows = 1 .. m /\ m \in Nat
          /\ \A k \in 1 .. m : t.rows[k] \in L
      BY <2>2, LenProperties, ElementOfSeq
    <2>4. /\ n = m + 1 /\ All(t)[1] = t.header /\ t.header \in L
          /\ \A k \in 1 .. m : All(t)[k + 1] = t.rows[k]
          /\ \A r \in 1 .. n : All(t)[r] \in L
      BY TableIs DEF L
    <2>5. QED
      BY <2>3, <2>4 DEF L
  <1>2. \A r \in 1 .. n : Csv!CsvLine(All(t)[r]) \in Q
    BY <1>1, LineLayout
  <1>3. first \in Q /\ \A k \in 1 .. m : Csv!CsvLine(t.rows[k]) \in Q
    BY <1>1, LineLayout
  <1> HIDE DEF Q, n
  <1>4. lines \in [1 .. n -> Q] /\ \A r \in 1 .. n : lines[r] = Csv!CsvLine(All(t)[r])
    BY <1>1, <1>2 DEF LinesOf
  <1>5. lines \in Seq(Q) /\ Len(lines) = n
    BY ONLY <1>1, <1>4, FunctionIsSeq
  <1>6. others \in [1 .. m -> Q] /\ \A k \in 1 .. m : others[k] = Csv!CsvLine(t.rows[k])
    BY <1>1, <1>3
  <1> HIDE DEF others, m, first
  <1>7. others \in Seq(Q) /\ Len(others) = m
    BY ONLY <1>1, <1>6, FunctionIsSeq
  <1>8. one \in Seq(Q) /\ Len(one) = 1 /\ one[1] = first
    BY <1>3, Single
  <1>9. one = <<first>>
    OBVIOUS
  <1> HIDE DEF one
  <1>10. /\ both \in Seq(Q) /\ Len(both) = Len(one) + Len(others)
         /\ \A k \in 1 .. Len(one) : both[k] = one[k]
         /\ \A k \in 1 .. Len(others) : both[Len(one) + k] = others[k]
    <2>1. one \in Seq(Q) /\ others \in Seq(Q)
      BY <1>7, <1>8
    <2>2. QED
      BY ONLY <2>1, ConcatAt
  <1> HIDE DEF both
  <1>11. Len(both) = n /\ n \in Nat
    BY <1>1, <1>7, <1>8, <1>10
  <1> HIDE DEF lines
  <1>12. ASSUME NEW r \in 1 .. n PROVE lines[r] = both[r]
    <2>1. CASE r = 1
      <3>1. 1 \in 1 .. Len(one)
        BY <1>8
      <3>2. both[1] = first
        BY <1>8, <1>10, <3>1
      <3>3. lines[1] = first
        BY <1>1, <1>4, <2>1 DEF first
      <3>4. QED
        BY <2>1, <3>2, <3>3
    <2>2. CASE r # 1
      <3> DEFINE k == r - 1
      <3>1. k \in 1 .. m /\ k + 1 = r /\ 1 + k = r
        BY <1>1, <2>2
      <3> HIDE DEF k
      <3>2. both[r] = Csv!CsvLine(t.rows[k])
        BY <1>6, <1>7, <1>8, <1>10, <3>1
      <3>3. lines[r] = Csv!CsvLine(t.rows[k])
        BY <1>1, <1>4, <3>1
      <3>4. QED
        BY <3>2, <3>3
    <2>3. QED
      BY <2>1, <2>2
  <1>13. lines = both
    BY ONLY <1>5, <1>10, <1>11, <1>12, SeqEqual
  <1>14. FlattenSeq(both) = first \o FlattenSeq(others)
    <2>1. Q = Seq(Csv!Char) /\ first \in Q /\ others \in Seq(Q) /\ one = <<first>>
      BY <1>3, <1>7, <1>9 DEF Q
    <2>2. FlattenSeq(one \o others) = first \o FlattenSeq(others)
      BY ONLY <2>1, FlattenCons
    <2>3. QED
      BY <2>2 DEF both
  <1>15. Csv!Csv(t) = FlattenSeq(lines)
    BY <1>13, <1>14, CsvLibrary DEF Csv!Csv, first, others
  <1>16. FlattenSeq(lines) \in Seq(Csv!Char) /\ LaidOut(FlattenSeq(lines), lines)
    BY <1>5, FlattenType, FlattenLaysOut DEF Q
  <1>17. Len(FlattenSeq(lines)) \in Nat
    BY <1>16, LenProperties
  <1>18. QED
    BY <1>4, <1>5, <1>15, <1>16, <1>17 DEF lines, n, Q

(* Line r of a file, at its place.                                         *)
LEMMA AtLine ==
  ASSUME NEW t, Readable(t), NEW r \in 1 .. Len(All(t))
  PROVE  LET w == Offset(LinesOf(t), r - 1)
             written == Csv!CsvLine(All(t)[r])
         IN /\ w \in Nat /\ Offset(LinesOf(t), r) = w + Len(written)
            /\ Len(written) \in Nat /\ Len(Csv!Csv(t)) \in Nat
            /\ Offset(LinesOf(t), r) <= Len(Csv!Csv(t))
            /\ \A k \in 1 .. Len(written) : Csv!Csv(t)[w + k] = written[k]
            /\ r = 1 => w = 0
            /\ r = Len(All(t)) => Offset(LinesOf(t), r) = Len(Csv!Csv(t))
  <1> DEFINE text == Csv!Csv(t)
             lines == LinesOf(t)
             n == Len(All(t))
             written == Csv!CsvLine(All(t)[r])
  <1>1. /\ LaidOut(text, lines) /\ Len(lines) = n /\ lines[r] = written /\ Len(text) \in Nat
    BY FileLayout
  <1>2. n \in Nat /\ Len(written) \in Nat
    BY TableIs, LineLayout
  <1> HIDE DEF text, lines, n, written
  <1>3. r \in 1 .. Len(lines) /\ r \in 0 .. Len(lines) /\ r - 1 \in 0 .. Len(lines)
    BY <1>1, <1>2 DEF n
  <1>4. /\ Offset(lines, r) = Offset(lines, r - 1) + Len(lines[r])
        /\ Offset(lines, r) \in 0 .. Len(text) /\ Offset(lines, r - 1) \in 0 .. Len(text)
        /\ \A k \in 1 .. Len(lines[r]) : text[Offset(lines, r - 1) + k] = lines[r][k]
        /\ Offset(lines, 0) = 0 /\ Offset(lines, Len(lines)) = Len(text)
    BY <1>3, <1>1 DEF LaidOut
  <1>5. r = 1 => Offset(lines, r - 1) = 0
    BY <1>4
  <1>6. QED
    BY <1>1, <1>2, <1>4, <1>5 DEF text, lines, n, written

(* A mark, at its place: it is behind the first p characters of a text,    *)
(* and is not its end.                                                     *)
Lies(text, p, mark, q) ==
    /\ p \in Nat /\ Len(mark) \in Nat /\ q = p + Len(mark) /\ q < Len(text)
    /\ \A k \in 1 .. Len(mark) : text[p + k] = mark[k]

LEMMA MarkAt ==
  ASSUME NEW t, Readable(t), NEW r \in 1 .. Len(All(t)), NEW c \in 1 .. Len(All(t)[r]),
         NEW n \in 1 .. MarkCount(All(t)[r][c])
  PROVE  Lies(Csv!Csv(t), Place(t, r, c, n - 1), Marks(All(t)[r][c])[n], Place(t, r, c, n))
  <1> DEFINE cellrow == All(t)[r]
             p == MarkParts(cellrow)
             part == RowText(p, Comma)
             text == Csv!Csv(t)
             mark == p[c][n]
             w == Offset(LinesOf(t), r - 1)
             written == Csv!CsvLine(cellrow)
  <1>1. cellrow \in Seq(CsvCells)
    BY TableIs
  <1>2. /\ CellRow(Csv!Char, Seq(Csv!Char), p, "comma", Comma) /\ Len(part) \in Nat
        /\ Len(written) = Len(part) + 1
        /\ \A k \in 1 .. Len(part) : written[k] = part[k]
        /\ c \in 1 .. Len(p) /\ n \in 1 .. Len(p[c]) /\ p[c] = Marks(cellrow[c])
    BY <1>1, LineLayout
  <1>3. /\ w \in Nat /\ w + Len(written) <= Len(text) /\ Len(text) \in Nat
        /\ \A k \in 1 .. Len(written) : text[w + k] = written[k]
    BY AtLine
  <1> DEFINE a == Begin(p, Comma, c, n - 1)
             b == Begin(p, Comma, c, n)
  <1>4. Place(t, r, c, n - 1) = w + a /\ Place(t, r, c, n) = w + b
    BY DEF Place
  <1> HIDE DEF p, w, text, written, cellrow
  <1>5. /\ mark \in Seq(Csv!Char) /\ Len(mark) \in Nat /\ a \in Nat /\ b <= Len(part)
        /\ b = a + Len(mark)
        /\ \A k \in 1 .. Len(mark) : part[a + k] = mark[k]
    <2>1. /\ CellRow(Csv!Char, Seq(Csv!Char), p, "comma", Comma)
          /\ c \in 1 .. Len(p) /\ n \in 1 .. Len(p[c])
      BY <1>2
    <2>2. /\ p[c][n] \in Seq(Csv!Char) /\ Len(p[c][n]) \in Nat
          /\ Begin(p, Comma, c, n - 1) \in Nat
          /\ Begin(p, Comma, c, n) <= Len(RowText(p, Comma))
          /\ Begin(p, Comma, c, n) = Begin(p, Comma, c, n - 1) + Len(p[c][n])
          /\ \A k \in 1 .. Len(p[c][n]) :
                 RowText(p, Comma)[Begin(p, Comma, c, n - 1) + k] = p[c][n][k]
      BY ONLY SMTT(40), <2>1, RowTextUnit
    <2>3. QED
      BY ONLY <2>2
  <1> HIDE DEF mark, part, a, b
  <1>6. ASSUME NEW k \in 1 .. Len(mark) PROVE text[(w + a) + k] = mark[k]
    <2>0. /\ Len(part) \in Nat /\ Len(written) = Len(part) + 1 /\ w \in Nat /\ a \in Nat
          /\ Len(mark) \in Nat /\ a + Len(mark) <= Len(part)
      BY <1>2, <1>3, <1>5
    <2>4. k \in Nat /\ 1 <= k /\ k <= Len(mark)
      BY ONLY <2>0, k \in 1 .. Len(mark)
    <2>5. a + k \in Nat /\ 1 <= a + k /\ a + k <= Len(part) /\ (w + a) + k = w + (a + k)
      BY ONLY <2>0, <2>4
    <2>1. a + k \in 1 .. Len(part) /\ a + k \in 1 .. Len(written) /\ (w + a) + k = w + (a + k)
      BY ONLY <2>0, <2>5
    <2>2. text[w + (a + k)] = written[a + k] /\ written[a + k] = part[a + k]
      BY <1>2, <1>3, <2>1
    <2>3. QED
      BY <1>5, <2>1, <2>2
  <1>7. w + a \in Nat /\ w + b = (w + a) + Len(mark) /\ w + b < Len(text)
    <2>1. /\ Len(part) \in Nat /\ Len(written) = Len(part) + 1 /\ w \in Nat /\ a \in Nat
          /\ Len(mark) \in Nat /\ b <= Len(part) /\ b = a + Len(mark)
          /\ w + Len(written) <= Len(text) /\ Len(text) \in Nat
      BY <1>2, <1>3, <1>5
    <2>2. QED
      BY ONLY <2>1
  <1>8. mark = Marks(All(t)[r][c])[n]
    BY <1>2 DEF mark, cellrow
  <1>9. QED
    BY <1>4, <1>5, <1>6, <1>7, <1>8 DEF text, Lies

(* What stands behind a cell: a comma, or the end of the line.             *)
LEMMA PlaceEnds ==
  ASSUME NEW t, Readable(t), NEW r \in 1 .. Len(All(t)), NEW c \in 1 .. Len(All(t)[r])
  PROVE  LET text == Csv!Csv(t)
             end == Place(t, r, c, MarkCount(All(t)[r][c]))
         IN /\ end \in Nat /\ end < Len(text) /\ Len(text) \in Nat
            /\ c # Len(All(t)[r]) =>
                   text[end + 1] = "comma" /\ Place(t, r, c + 1, 0) = end + 1
            /\ c = Len(All(t)[r]) =>
                   /\ text[end + 1] = "nl"
                   /\ r # Len(All(t)) => Place(t, r + 1, 1, 0) = end + 1
                   /\ r = Len(All(t)) => Len(text) = end + 1
            /\ r = 1 /\ c = 1 => Place(t, r, c, 0) = 0
  <1> DEFINE cellrow == All(t)[r]
             p == MarkParts(cellrow)
             part == RowText(p, Comma)
             text == Csv!Csv(t)
             w == Offset(LinesOf(t), r - 1)
             written == Csv!CsvLine(cellrow)
             last == Len(cellrow)
             e == Begin(p, Comma, c, MarkCount(cellrow[c]))
  <1>1. cellrow \in Seq(CsvCells) /\ Len(All(t)) \in Nat /\ last \in Nat
    BY TableIs
  <1>2. /\ CellRow(Csv!Char, Seq(Csv!Char), p, "comma", Comma) /\ Len(part) \in Nat
        /\ Len(written) = Len(part) + 1 /\ written[Len(part) + 1] = "nl"
        /\ \A k \in 1 .. Len(part) : written[k] = part[k]
        /\ c \in 1 .. Len(p) /\ Len(p) = last /\ Len(p[c]) = MarkCount(cellrow[c])
    BY <1>1, LineLayout
  <1>3. /\ w \in Nat /\ w + Len(written) <= Len(text) /\ Len(text) \in Nat
        /\ Offset(LinesOf(t), r) = w + Len(written)
        /\ \A k \in 1 .. Len(written) : text[w + k] = written[k]
        /\ r = 1 => w = 0
        /\ r = Len(All(t)) => Offset(LinesOf(t), r) = Len(text)
    BY AtLine
  <1>4. /\ Place(t, r, c, MarkCount(cellrow[c])) = w + e
        /\ Place(t, r, c, 0) = w + Begin(p, Comma, c, 0)
        /\ Place(t, r, c + 1, 0) = w + Begin(p, Comma, c + 1, 0)
    BY DEF Place
  <1> HIDE DEF p, w, text, written, last
  <1>5. /\ c = 1 => Begin(p, Comma, c, 0) = 0
        /\ e \in 0 .. Len(part)
        /\ c = Len(p) => e = Len(part)
        /\ c < Len(p) => /\ e + 1 <= Len(part) /\ part[e + 1] = "comma"
                         /\ Begin(p, Comma, c + 1, 0) = e + 1
    <2>1. /\ CellRow(Csv!Char, Seq(Csv!Char), p, "comma", Comma) /\ c \in 1 .. Len(p)
      BY <1>2
    <2>2. LET end == Begin(p, Comma, c, Len(p[c]))
          IN /\ c = 1 => Begin(p, Comma, c, 0) = 0
             /\ end \in 0 .. Len(part)
             /\ c = Len(p) => end = Len(part)
             /\ c < Len(p) => /\ end + 1 <= Len(part) /\ part[end + 1] = "comma"
                              /\ Begin(p, Comma, c + 1, 0) = end + 1
      BY ONLY <2>1, RowTextEnds
    <2>3. e = Begin(p, Comma, c, Len(p[c]))
      BY <1>2
    <2>4. QED
      BY <2>2, <2>3
  <1> HIDE DEF e, part
  <1>6. e \in Nat /\ w + e \in Nat /\ w + e < Len(text)
    BY <1>2, <1>3, <1>5
  <1>7. ASSUME c # last
        PROVE  text[(w + e) + 1] = "comma" /\ w + Begin(p, Comma, c + 1, 0) = (w + e) + 1
    <2>1. c < Len(p)
      BY <1>1, <1>2, <1>7 DEF last
    <2>2. e + 1 \in 1 .. Len(part) /\ part[e + 1] = "comma" /\ Begin(p, Comma, c + 1, 0) = e + 1
      BY <1>2, <1>5, <2>1
    <2>0. /\ Len(part) \in Nat /\ Len(written) = Len(part) + 1 /\ w \in Nat /\ e \in Nat
          /\ e + 1 <= Len(part)
      BY <1>2, <1>3, <1>5, <2>1
    <2>3. e + 1 \in 1 .. Len(written) /\ w + (e + 1) = (w + e) + 1
      BY ONLY <2>0
    <2>4. text[w + (e + 1)] = part[e + 1]
      BY <1>2, <1>3, <2>2, <2>3
    <2>5. QED
      BY <2>2, <2>3, <2>4
  <1>8. ASSUME c = last
        PROVE  /\ text[(w + e) + 1] = "nl"
               /\ r # Len(All(t)) => Place(t, r + 1, 1, 0) = (w + e) + 1
               /\ r = Len(All(t)) => Len(text) = (w + e) + 1
    <2>1. e = Len(part)
      BY <1>2, <1>5, <1>8
    <2>0. /\ Len(written) = Len(part) + 1 /\ w \in Nat /\ e \in Nat
          /\ written[Len(part) + 1] = "nl"
      BY <1>2, <1>3, <1>6
    <2>2. /\ e + 1 \in 1 .. Len(written) /\ w + (e + 1) = (w + e) + 1
          /\ Len(written) = e + 1 /\ written[e + 1] = "nl"
      BY ONLY <2>0, <2>1
    <2>7. \A k \in 1 .. Len(written) : text[w + k] = written[k]
      BY <1>3
    <2>3. text[w + (e + 1)] = "nl"
      BY ONLY <2>2, <2>7
    <2>4. ASSUME r # Len(All(t)) PROVE Place(t, r + 1, 1, 0) = (w + e) + 1
      <3> DEFINE q == r + 1
                 x == MarkParts(All(t)[q])
      <3>1. q \in 1 .. Len(All(t)) /\ q - 1 = r
        BY <1>1, <2>4
      <3> HIDE DEF q
      <3>2. All(t)[q] \in Seq(CsvCells) /\ Len(All(t)[q]) \in Nat \ {0}
        BY <3>1, TableIs
      <3>3. /\ CellRow(Csv!Char, Seq(Csv!Char), x, "comma", Comma) /\ Len(x) = Len(All(t)[q])
        BY <3>2, LineLayout
      <3>4. 1 \in 1 .. Len(x)
        BY <3>2, <3>3
      <3> HIDE DEF x
      <3>5. Begin(x, Comma, 1, 0) = 0
        BY ONLY <3>3, <3>4, RowTextEnds
      <3>6. Place(t, q, 1, 0) = Offset(LinesOf(t), r) + 0
        BY <3>1, <3>5 DEF Place, x
      <3>7. QED
        BY <1>3, <2>2, <3>6 DEF q
    <2>5. QED
      BY <1>3, <2>2, <2>3, <2>4
  <1>9. r = 1 /\ c = 1 => w + Begin(p, Comma, c, 0) = 0
    BY <1>3, <1>5
  <1>10. QED
    BY <1>3, <1>4, <1>6, <1>7, <1>8, <1>9 DEF text, last

-----------------------------------------------------------------------------
(* Reading a csv file.                                                     *)
LEMMA SkipType ==
  ASSUME NEW S, NEW s \in Seq(S), NEW n \in Nat
  PROVE  SubSeq(s, n + 1, Len(s)) \in Seq(S)
  <1>1. /\ n + 1 \in Int /\ Len(s) \in Int
        /\ \A k \in n + 1 .. Len(s) : s[k] \in S
    BY LenProperties, ElementOfSeq
  <1>2. QED
    BY <1>1, SubSeqProperties

LEMMA HeadType ==
  ASSUME NEW S, NEW s \in Seq(S), s # <<>>
  PROVE  Head(s) \in S
  BY HeadTailProperties

LEMMA CsvCellType ==
  ASSUME CsvTypes
  PROVE  Csv!Cell \in CsvCells
  <1>1. csvField \in Seq(Csv!Char) /\ <<>> \in Seq(Csv!Char)
    BY EmptySeq DEF CsvTypes
  <1>2. QED
    BY <1>1 DEF Csv!Cell, Csv!Value, Csv!Null, CsvCells

LEMMA EndRowType ==
  ASSUME CsvTypes, Csv!EndRow
  PROVE  /\ csvField' \in Seq(Csv!Char) /\ csvRow' \in Seq(CsvCells)
         /\ csvRows' \in Seq(Seq(CsvCells))
  <1>1. /\ csvField \in Seq(Csv!Char) /\ csvRow \in Seq(CsvCells)
        /\ csvRows \in Seq(Seq(CsvCells)) /\ Csv!Cell \in CsvCells
    BY CsvCellType DEF CsvTypes
  <1>2. CASE Csv!HasRow
    <2> DEFINE r == Append(csvRow, Csv!Cell)
               L == Seq(CsvCells)
    <2>1. csvRows' = Append(csvRows, r) /\ csvRow' = <<>> /\ csvField' = <<>>
      BY <1>2 DEF Csv!EndRow
    <2>2. r \in L
      BY <1>1, LongerSeq
    <2>3. csvRows \in Seq(L)
      BY <1>1
    <2> HIDE DEF r, L
    <2>4. csvRows' \in Seq(L)
      BY <2>1, <2>2, <2>3, LongerSeq
    <2>5. QED
      BY <2>1, <2>4, EmptySeq DEF L
  <1>3. CASE ~ Csv!HasRow
    BY <1>1, <1>3 DEF Csv!EndRow
  <1>4. QED
    BY <1>2, <1>3

LEMMA CsvTypeStep ==
  ASSUME CsvTypes, Csv!Next
  PROVE  CsvTypes'
  <1>1. /\ rest \in Seq(Csv!Char) /\ csvField \in Seq(Csv!Char)
        /\ csvRow \in Seq(CsvCells) /\ csvRows \in Seq(Seq(CsvCells))
        /\ inQuotes \in BOOLEAN /\ wasQuoted \in BOOLEAN
        /\ Csv!Cell \in CsvCells /\ <<>> \in Seq(Csv!Char)
    BY CsvCellType, EmptySeq DEF CsvTypes
  <1>2. ASSUME rest # <<>>, csvField' = Append(csvField, Head(rest))
        PROVE  csvField' \in Seq(Csv!Char)
    BY <1>1, <1>2, HeadType, LongerSeq
  <1>3. ASSUME NEW n \in Nat, Csv!Skip(n)
        PROVE  rest' \in Seq(Csv!Char)
    BY <1>1, <1>3, SkipType DEF Csv!Skip
  <1>4. CASE Csv!Quoted
    <2>1. /\ csvRow' = csvRow /\ csvRows' = csvRows /\ wasQuoted' = wasQuoted
          /\ rest # <<>> /\ (Csv!Skip(1) \/ Csv!Skip(2)) /\ inQuotes' \in BOOLEAN
          /\ \/ csvField' = Append(csvField, Head(rest))
             \/ csvField' = Append(csvField, "quote")
             \/ csvField' = csvField
      BY <1>1, <1>4 DEF Csv!Quoted
    <2>2. rest' \in Seq(Csv!Char)
      BY <1>3, <2>1
    <2>3. Append(csvField, "quote") \in Seq(Csv!Char)
      BY <1>1, CsvCharHas, LongerSeq
    <2>4. QED
      BY <1>1, <1>2, <2>1, <2>2, <2>3 DEF CsvTypes
  <1>5. CASE Csv!Comma
    <2>1. /\ csvRows' = csvRows /\ inQuotes' = inQuotes /\ wasQuoted' = FALSE
          /\ csvField' = <<>> /\ csvRow' = Append(csvRow, Csv!Cell) /\ Csv!Skip(1)
      BY <1>5 DEF Csv!Comma
    <2>2. rest' \in Seq(Csv!Char) /\ csvRow' \in Seq(CsvCells)
      BY <1>1, <1>3, <2>1, LongerSeq
    <2>3. QED
      BY <1>1, <2>1, <2>2 DEF CsvTypes
  <1>6. CASE Csv!Newline
    <2>1. /\ inQuotes' = inQuotes /\ wasQuoted' = FALSE /\ Csv!EndRow
          /\ (Csv!Skip(1) \/ Csv!Skip(2))
      BY <1>6 DEF Csv!Newline
    <2>2. rest' \in Seq(Csv!Char)
      BY <1>3, <2>1
    <2>3. QED
      BY <1>1, <2>1, <2>2, EndRowType DEF CsvTypes
  <1>7. CASE Csv!Quote
    <2>1. /\ csvRow' = csvRow /\ csvRows' = csvRows /\ csvField' = csvField
          /\ inQuotes' = TRUE /\ wasQuoted' = TRUE /\ Csv!Skip(1)
      BY <1>7 DEF Csv!Quote
    <2>2. rest' \in Seq(Csv!Char)
      BY <1>3, <2>1
    <2>3. QED
      BY <1>1, <2>1, <2>2 DEF CsvTypes
  <1>8. CASE Csv!Other
    <2>1. /\ csvRow' = csvRow /\ csvRows' = csvRows /\ inQuotes' = inQuotes
          /\ wasQuoted' = wasQuoted /\ Csv!Skip(1) /\ rest # <<>>
          /\ csvField' = Append(csvField, Head(rest))
      BY <1>8 DEF Csv!Other, Csv!Reads
    <2>2. rest' \in Seq(Csv!Char)
      BY <1>3, <2>1
    <2>3. QED
      BY <1>1, <1>2, <2>1, <2>2 DEF CsvTypes
  <1>9. CASE Csv!End
    <2>1. /\ Csv!EndRow /\ rest' = rest /\ inQuotes' = inQuotes /\ wasQuoted' = wasQuoted
      BY <1>9 DEF Csv!End
    <2>2. QED
      BY <1>1, <2>1, EndRowType DEF CsvTypes
  <1>10. QED
    BY <1>4, <1>5, <1>6, <1>7, <1>8, <1>9 DEF Csv!Next

(* Which branch of the reader's loop a character takes.                    *)
LEMMA CsvBranch ==
  ASSUME Csv!Next, rest # <<>>
  PROVE  /\ inQuotes => Csv!Quoted
         /\ ~ inQuotes /\ Head(rest) = "comma" => Csv!Comma
         /\ ~ inQuotes /\ Head(rest) = "nl" => Csv!Newline
         /\ ~ inQuotes /\ Head(rest) = "quote" /\ Csv!OpensQuote => Csv!Quote
         /\ ~ inQuotes /\ Head(rest) \notin {"quote", "comma", "nl", "cr"} => Csv!Other
  BY DEF Csv!Next, Csv!Quoted, Csv!Comma, Csv!Newline, Csv!Quote, Csv!Other, Csv!End, Csv!Reads

(* The characters behind the first p of a text.                            *)
LEMMA RestIs ==
  ASSUME NEW text \in Seq(Csv!Char), NEW p \in Nat, p < Len(text), rest = Left(text, p)
  PROVE  /\ rest # <<>> /\ Head(rest) = text[p + 1]
         /\ Csv!Skip(1) => rest' = Left(text, p + 1)
         /\ \A x : Csv!Peeks(x) <=> p + 2 <= Len(text) /\ text[p + 2] = x
         /\ p + 2 <= Len(text) /\ Csv!Skip(2) => rest' = Left(text, p + 2)
  <1>1. p \in 0 .. Len(text) /\ Len(text) \in Nat
    BY LenProperties
  <1>2. /\ Len(rest) = Len(text) - p
        /\ \A k \in 1 .. Len(text) - p : rest[k] = text[p + k]
        /\ rest # <<>> /\ Head(rest) = text[p + 1]
    <2> DEFINE S == Csv!Char
    <2>1. text \in Seq(S) /\ p \in 0 .. Len(text)
      BY <1>1
    <2> HIDE DEF S
    <2>2. /\ Len(Left(text, p)) = Len(text) - p
          /\ \A k \in 1 .. Len(text) - p : Left(text, p)[k] = text[p + k]
          /\ p < Len(text) => Left(text, p) # <<>> /\ Head(Left(text, p)) = text[p + 1]
      BY ONLY <2>1, LeftIs
    <2>3. QED
      BY <2>2
  <1>3. ASSUME NEW k \in 0 .. Len(text) - p, Csv!Skip(k)
        PROVE  rest' = Left(text, p + k)
    <2>1. SubSeq(Left(text, p), k + 1, Len(Left(text, p))) = Left(text, p + k)
      BY <1>1, LeftNext
    <2>2. QED
      BY <1>3, <2>1 DEF Csv!Skip
  <1>4. Csv!Skip(1) => rest' = Left(text, p + 1)
    <2>1. 1 \in 0 .. Len(text) - p
      BY <1>1
    <2>2. QED
      BY <1>3, <2>1
  <1>5. p + 2 <= Len(text) /\ Csv!Skip(2) => rest' = Left(text, p + 2)
    <2>1. p + 2 <= Len(text) => 2 \in 0 .. Len(text) - p
      BY <1>1
    <2>2. QED
      BY <1>3, <2>1
  <1>6. ASSUME NEW x
        PROVE  Csv!Peeks(x) <=> p + 2 <= Len(text) /\ text[p + 2] = x
    <2>1. Len(rest) > 1 <=> p + 2 <= Len(text)
      BY <1>1, <1>2
    <2>2. p + 2 <= Len(text) => 2 \in 1 .. Len(text) - p
      BY <1>1
    <2>3. QED
      BY <1>2, <2>1, <2>2 DEF Csv!Peeks
  <1>7. QED
    BY <1>2, <1>4, <1>5, <1>6

(* A character of a cell's text is read.                                   *)
LEMMA OneMore ==
  ASSUME CsvTypes, NEW s \in Seq(Csv!Char), NEW m \in Nat, m + 1 <= Len(s),
         Len(csvField) = m, \A k \in 1 .. m : csvField[k] = s[k],
         csvField' = Append(csvField, s[m + 1])
  PROVE  Len(csvField') = m + 1 /\ \A k \in 1 .. m + 1 : csvField'[k] = s[k]
  <1> DEFINE x == s[m + 1]
  <1>1. x \in Csv!Char /\ csvField \in Seq(Csv!Char)
    <2>1. m + 1 \in 1 .. Len(s)
      BY LenProperties
    <2>2. QED
      BY <2>1, ElementOfSeq DEF CsvTypes
  <1>2. csvField' = Append(csvField, x)
    OBVIOUS
  <1> HIDE DEF x
  <1>3. /\ Len(Append(csvField, x)) = Len(csvField) + 1
        /\ \A k \in 1 .. Len(csvField) : Append(csvField, x)[k] = csvField[k]
        /\ Append(csvField, x)[Len(csvField) + 1] = x
    BY <1>1, LongerSeq
  <1>4. ASSUME NEW k \in 1 .. m + 1 PROVE csvField'[k] = s[k]
    <2>1. k \in 1 .. m \/ k = m + 1
      OBVIOUS
    <2>2. QED
      BY <1>2, <1>3, <2>1 DEF x
  <1>5. QED
    BY <1>2, <1>3, <1>4

(* What a mark is: the quote before a text, a character of a quoted text,  *)
(* the quote behind it, or a character of a text that is not quoted.       *)
AtOpening(cell, n) ==
    /\ Quotes(cell) /\ n = 0 /\ Marks(cell)[n + 1] = Mark
    /\ ~ Opened(cell, n) /\ ~ Inside(cell, n) /\ Opened(cell, n + 1) /\ Inside(cell, n + 1)
    /\ Kept(cell, n) = 0 /\ Kept(cell, n + 1) = 0

AtQuoted(cell, n) ==
    /\ n \in 1 .. Len(cell.text) /\ Marks(cell)[n + 1] = MarkOf(cell.text[n])
    /\ Opened(cell, n) /\ Inside(cell, n) /\ Opened(cell, n + 1) /\ Inside(cell, n + 1)
    /\ Kept(cell, n) = n - 1 /\ Kept(cell, n + 1) = n

AtClosing(cell, n) ==
    /\ n + 1 = MarkCount(cell) /\ Marks(cell)[n + 1] = Mark
    /\ Opened(cell, n) /\ Inside(cell, n) /\ Opened(cell, n + 1) /\ ~ Inside(cell, n + 1)
    /\ Kept(cell, n) = Len(cell.text) /\ Kept(cell, n + 1) = Len(cell.text)

AtPlain(cell, n) ==
    /\ n + 1 \in 1 .. Len(cell.text) /\ Marks(cell)[n + 1] = <<cell.text[n + 1]>>
    /\ cell.text[n + 1] \notin {"quote", "comma", "nl", "cr"}
    /\ ~ Opened(cell, n) /\ ~ Inside(cell, n)
    /\ ~ Opened(cell, n + 1) /\ ~ Inside(cell, n + 1)
    /\ Kept(cell, n) = n /\ Kept(cell, n + 1) = n + 1

LEMMA MarkKinds ==
  ASSUME NEW cell \in CsvCells, NEW n \in 0 .. MarkCount(cell), n # MarkCount(cell)
  PROVE  /\ n \in Nat /\ n + 1 \in 1 .. MarkCount(cell)
         /\ AtOpening(cell, n) \/ AtQuoted(cell, n) \/ AtClosing(cell, n) \/ AtPlain(cell, n)
  <1> DEFINE l == Len(cell.text)
             m == MarkCount(cell)
  <1>1. m \in Nat /\ l \in Nat
    BY MarksIs
  <1>2. n \in Nat /\ n + 1 \in 1 .. m /\ n < m
    BY <1>1
  <1>3. ~ cell.null
    <2>1. cell.null => m = 0
      BY MarksIs
    <2> HIDE DEF m
    <2>2. QED
      BY <1>2, <2>1
  <1>4. CASE Quotes(cell)
    <2>1. /\ m = l + 2
          /\ Marks(cell)[1] = Mark /\ Marks(cell)[l + 2] = Mark
          /\ \A k \in 1 .. l : Marks(cell)[k + 1] = MarkOf(cell.text[k])
      BY <1>4, MarksIs
    <2> HIDE DEF l, m
    <2>2. CASE n = 0
      <3>1. n + 1 = 1 /\ ~ (n > 0) /\ n + 1 > 0 /\ n + 1 < l + 2 /\ n # l + 2 /\ n + 1 # 0
            /\ (n + 1) - 1 = 0 /\ n + 1 # l + 2
        BY <1>1, <2>2
      <3>2. Kept(cell, n) = 0 /\ Kept(cell, n + 1) = 0
        BY <1>4, <2>2, <3>1 DEF Kept, l
      <3>3. /\ ~ Opened(cell, n) /\ ~ Inside(cell, n)
            /\ Opened(cell, n + 1) /\ Inside(cell, n + 1)
        BY <1>4, <3>1 DEF Opened, Inside, l
      <3>4. AtOpening(cell, n)
        BY <1>4, <2>1, <2>2, <3>1, <3>2, <3>3 DEF AtOpening
      <3>5. QED
        BY <1>2, <3>4 DEF m
    <2>3. CASE n \in 1 .. l
      <3>1. n > 0 /\ n < l + 2 /\ n + 1 > 0 /\ n + 1 < l + 2 /\ n # 0 /\ n # l + 2
            /\ n + 1 # 0 /\ n + 1 # l + 2 /\ (n + 1) - 1 = n
        BY <1>1, <2>3
      <3>2. Kept(cell, n) = n - 1 /\ Kept(cell, n + 1) = n
        BY <1>4, <3>1 DEF Kept, l
      <3>3. /\ Opened(cell, n) /\ Inside(cell, n)
            /\ Opened(cell, n + 1) /\ Inside(cell, n + 1)
        BY <1>4, <3>1 DEF Opened, Inside, l
      <3>4. AtQuoted(cell, n)
        BY <2>1, <2>3, <3>2, <3>3 DEF AtQuoted, l
      <3>5. QED
        BY <1>2, <3>4 DEF m
    <2>4. CASE n = l + 1
      <3>1. n > 0 /\ n < l + 2 /\ n + 1 > 0 /\ ~ (n + 1 < l + 2) /\ n # 0 /\ n # l + 2
            /\ n + 1 # 0 /\ n + 1 = l + 2 /\ n - 1 = l
        BY <1>1, <2>4
      <3>2. Kept(cell, n) = l /\ Kept(cell, n + 1) = l
        BY <1>4, <3>1 DEF Kept, l
      <3>3. /\ Opened(cell, n) /\ Inside(cell, n)
            /\ Opened(cell, n + 1) /\ ~ Inside(cell, n + 1)
        BY <1>4, <3>1 DEF Opened, Inside, l
      <3>4. n + 1 = m /\ Marks(cell)[n + 1] = Mark
        BY <2>1, <3>1
      <3>5. AtClosing(cell, n)
        BY <3>2, <3>3, <3>4 DEF AtClosing, l, m
      <3>6. QED
        BY <1>2, <3>5 DEF m
    <2>5. n = 0 \/ n \in 1 .. l \/ n = l + 1
      BY <1>1, <1>2, <2>1
    <2>6. QED
      BY <2>2, <2>3, <2>4, <2>5
  <1>5. CASE ~ Quotes(cell)
    <2>1. /\ m = l
          /\ \A k \in 1 .. l : /\ Marks(cell)[k] = <<cell.text[k]>>
                               /\ cell.text[k] \notin {"quote", "comma", "nl", "cr"}
      BY <1>3, <1>5, MarksIs
    <2>2. n + 1 \in 1 .. l
      BY <1>2, <2>1
    <2>3. Kept(cell, n) = n /\ Kept(cell, n + 1) = n + 1
      BY <1>5 DEF Kept
    <2>4. /\ ~ Opened(cell, n) /\ ~ Inside(cell, n)
          /\ ~ Opened(cell, n + 1) /\ ~ Inside(cell, n + 1)
      BY <1>5 DEF Opened, Inside
    <2>5. AtPlain(cell, n)
      BY <2>1, <2>2, <2>3, <2>4 DEF AtPlain
    <2>6. QED
      BY <1>2, <2>5
  <1>6. QED
    BY <1>4, <1>5

(* A step reads one mark.                                                  *)
LEMMA CellStep ==
  ASSUME CsvTypes, Csv!Next, NEW cell \in CsvCells, NEW text \in Seq(Csv!Char),
         NEW n \in 0 .. MarkCount(cell), n # MarkCount(cell), CellRead(cell, n),
         NEW p \in Nat, NEW q \in Nat, Lies(text, p, Marks(cell)[n + 1], q),
         n + 1 = MarkCount(cell) => text[q + 1] # "quote",
         rest = Left(text, p)
  PROVE  /\ rest' = Left(text, q) /\ CellRead(cell, n + 1)'
         /\ UNCHANGED <<table, csvVerdict, csvRows, csvRow>>
  <1> DEFINE s == cell.text
             mark == Marks(cell)[n + 1]
  <1>1. n \in Nat /\ n + 1 \in 1 .. MarkCount(cell)
    BY MarkKinds
  <1>6. /\ q = p + Len(mark) /\ \A k \in 1 .. Len(mark) : text[p + k] = mark[k]
        /\ q < Len(text)
    BY DEF Lies
  <1>2. s \in Seq(Csv!Char) /\ Len(s) \in Nat /\ Len(mark) \in Nat
    <2>1. s \in Seq(Csv!Char) /\ Len(s) \in Nat
      BY MarksIs
    <2>2. Marks(cell) \in Seq(Seq(Csv!Char)) /\ Len(Marks(cell)) = MarkCount(cell)
      BY MarksIs
    <2> DEFINE Q == Seq(Csv!Char)
    <2>3. Marks(cell) \in Seq(Q) /\ n + 1 \in 1 .. Len(Marks(cell))
      BY <1>1, <2>2
    <2> HIDE DEF Q
    <2>4. mark \in Q
      BY <2>3, ElementOfSeq
    <2>5. QED
      BY <2>1, <2>4, LenProperties DEF Q
  <1>3. /\ wasQuoted <=> Opened(cell, n)
        /\ inQuotes <=> Inside(cell, n)
        /\ Len(csvField) = Kept(cell, n)
        /\ \A k \in 1 .. Kept(cell, n) : csvField[k] = s[k]
    BY DEF CellRead
  <1>4. p < Len(text) /\ Len(text) \in Nat
    BY <1>2, <1>6, LenProperties
  <1>5. /\ rest # <<>> /\ Head(rest) = text[p + 1]
        /\ Csv!Skip(1) => rest' = Left(text, p + 1)
        /\ \A x : Csv!Peeks(x) <=> p + 2 <= Len(text) /\ text[p + 2] = x
        /\ p + 2 <= Len(text) /\ Csv!Skip(2) => rest' = Left(text, p + 2)
    BY <1>4, RestIs
  <1> HIDE DEF mark, s
  <1>7. ASSUME Len(mark) = 1
        PROVE  q = p + 1 /\ Head(rest) = mark[1]
    <2>1. 1 \in 1 .. Len(mark)
      BY <1>7
    <2>2. QED
      BY <1>5, <1>6, <1>7, <2>1
  <1>8. ASSUME csvField' = csvField, Kept(cell, n + 1) = Kept(cell, n)
        PROVE  /\ Len(csvField') = Kept(cell, n + 1)
               /\ \A k \in 1 .. Kept(cell, n + 1) : csvField'[k] = s[k]
    BY <1>3, <1>8
  <1>9. ASSUME NEW m \in Nat, m + 1 <= Len(s), csvField' = Append(csvField, s[m + 1]),
               Kept(cell, n) = m, Kept(cell, n + 1) = m + 1
        PROVE  /\ Len(csvField') = Kept(cell, n + 1)
               /\ \A k \in 1 .. Kept(cell, n + 1) : csvField'[k] = s[k]
    <2>1. s \in Seq(Csv!Char) /\ Len(csvField) = m /\ \A k \in 1 .. m : csvField[k] = s[k]
      BY <1>2, <1>3, <1>9
    <2>2. Len(csvField') = m + 1 /\ \A k \in 1 .. m + 1 : csvField'[k] = s[k]
      BY ONLY CsvTypes, <1>9, <2>1, OneMore
    <2>3. QED
      BY <1>9, <2>2
  <1>10. ASSUME Len(csvField') = Kept(cell, n + 1),
                \A k \in 1 .. Kept(cell, n + 1) : csvField'[k] = s[k],
                wasQuoted' <=> Opened(cell, n + 1), inQuotes' <=> Inside(cell, n + 1)
         PROVE  CellRead(cell, n + 1)'
    BY <1>10 DEF CellRead, s
  <1>11. CASE AtOpening(cell, n)
    <2>1. mark = Mark /\ Kept(cell, n) = 0 /\ Kept(cell, n + 1) = 0
      BY <1>11 DEF AtOpening, mark
    <2>2. Len(mark) = 1 /\ mark[1] = "quote"
      BY <2>1, Single DEF Mark
    <2>3. ~ inQuotes /\ ~ wasQuoted /\ Opened(cell, n + 1) /\ Inside(cell, n + 1)
      BY <1>3, <1>11 DEF AtOpening
    <2>4. csvField = <<>>
      BY <1>3, <2>1, EmptySeq DEF CsvTypes
    <2>5. Csv!Quote
      BY <1>5, <1>7, <2>2, <2>3, <2>4, CsvBranch DEF Csv!OpensQuote
    <2>6. /\ table' = table /\ csvRows' = csvRows /\ csvRow' = csvRow /\ csvField' = csvField
          /\ csvVerdict' = csvVerdict /\ inQuotes' = TRUE /\ wasQuoted' = TRUE
          /\ Csv!Skip(1)
      BY <2>5 DEF Csv!Quote
    <2>7. CellRead(cell, n + 1)'
      BY <1>8, <1>10, <2>1, <2>3, <2>6
    <2>8. QED
      BY <1>5, <1>7, <2>2, <2>6, <2>7
  <1>12. CASE AtQuoted(cell, n)
    <2> DEFINE x == s[n]
               m == n - 1
    <2>1. n \in 1 .. Len(s) /\ mark = MarkOf(x) /\ Kept(cell, n) = m /\ Kept(cell, n + 1) = n
      BY <1>12 DEF AtQuoted, mark, s
    <2>2. x \in Csv!Char
      BY <1>2, <2>1, ElementOfSeq
    <2>3. inQuotes /\ wasQuoted /\ Opened(cell, n + 1) /\ Inside(cell, n + 1)
      BY <1>3, <1>12 DEF AtQuoted
    <2>4. Csv!Quoted
      BY <1>5, <2>3, CsvBranch
    <2>5. m \in Nat /\ m + 1 = n /\ m + 1 <= Len(s)
      BY <1>2, <2>1
    <2> HIDE DEF x, m
    <2>6. csvField' = Append(csvField, x) /\ rest' = Left(text, q) /\ inQuotes' = inQuotes
      <3>1. CASE x = "quote"
        <4>1. Len(mark) = 2 /\ mark[1] = "quote" /\ mark[2] = "quote"
          BY <2>1, <2>2, <3>1, MarkOfIs
        <4>2. 1 \in 1 .. Len(mark) /\ 2 \in 1 .. Len(mark) /\ q = p + 2 /\ p + 2 <= Len(text)
          BY <1>4, <1>6, <4>1
        <4>3. Head(rest) = "quote" /\ Csv!Peeks("quote")
          BY <1>5, <1>6, <4>1, <4>2
        <4>4. Csv!Skip(2) /\ csvField' = Append(csvField, "quote") /\ inQuotes' = inQuotes
          BY <2>4, <4>3 DEF Csv!Quoted
        <4>5. QED
          BY <1>5, <3>1, <4>2, <4>4
      <3>2. CASE x # "quote"
        <4>1. Len(mark) = 1 /\ mark[1] = x
          BY <2>1, <2>2, <3>2, MarkOfIs
        <4>2. q = p + 1 /\ Head(rest) = x
          BY <1>7, <4>1
        <4>3. Csv!Skip(1) /\ csvField' = Append(csvField, x) /\ inQuotes' = inQuotes
          BY <2>4, <3>2, <4>2 DEF Csv!Quoted
        <4>4. QED
          BY <1>5, <4>2, <4>3
      <3>3. QED
        BY <3>1, <3>2
    <2>7. /\ table' = table /\ csvRows' = csvRows /\ csvRow' = csvRow
          /\ csvVerdict' = csvVerdict /\ wasQuoted' = wasQuoted
      BY <2>4 DEF Csv!Quoted
    <2>8. /\ Len(csvField') = Kept(cell, n + 1)
          /\ \A k \in 1 .. Kept(cell, n + 1) : csvField'[k] = s[k]
      <3>1. csvField' = Append(csvField, s[m + 1]) /\ Kept(cell, n + 1) = m + 1
        BY <2>1, <2>5, <2>6 DEF x
      <3>2. QED
        BY <1>9, <2>1, <2>5, <3>1
    <2>9. CellRead(cell, n + 1)'
      BY <1>10, <2>3, <2>6, <2>7, <2>8
    <2>10. QED
      BY <2>6, <2>7, <2>9
  <1>13. CASE AtClosing(cell, n)
    <2>1. /\ mark = Mark /\ Kept(cell, n) = Kept(cell, n + 1)
          /\ n + 1 = MarkCount(cell)
      BY <1>13 DEF AtClosing, mark
    <2>2. Len(mark) = 1 /\ mark[1] = "quote"
      BY <2>1, Single DEF Mark
    <2>3. q = p + 1 /\ Head(rest) = "quote" /\ text[q + 1] # "quote"
      BY <1>7, <2>1, <2>2
    <2>4. inQuotes /\ wasQuoted /\ Opened(cell, n + 1) /\ ~ Inside(cell, n + 1)
      BY <1>3, <1>13 DEF AtClosing
    <2>5. q + 1 = p + 2
      BY <2>3
    <2>6. ~ Csv!Peeks("quote")
      BY <1>5, <2>3, <2>5
    <2>7. Csv!Quoted
      BY <1>5, <2>4, CsvBranch
    <2>8. /\ table' = table /\ csvRows' = csvRows /\ csvRow' = csvRow /\ csvField' = csvField
          /\ csvVerdict' = csvVerdict /\ wasQuoted' = wasQuoted /\ inQuotes' = FALSE
          /\ Csv!Skip(1)
      BY <2>3, <2>6, <2>7 DEF Csv!Quoted
    <2>9. CellRead(cell, n + 1)'
      BY <1>8, <1>10, <2>1, <2>4, <2>8
    <2>10. QED
      BY <1>5, <2>3, <2>8, <2>9
  <1>14. CASE AtPlain(cell, n)
    <2> DEFINE x == s[n + 1]
    <2>1. /\ n + 1 \in 1 .. Len(s) /\ mark = <<x>>
          /\ x \notin {"quote", "comma", "nl", "cr"}
          /\ Kept(cell, n) = n /\ Kept(cell, n + 1) = n + 1
      BY <1>14 DEF AtPlain, mark, s
    <2>2. n + 1 <= Len(s)
      BY <1>2, <2>1
    <2> HIDE DEF x
    <2>3. Len(mark) = 1 /\ mark[1] = x
      BY <2>1
    <2>4. q = p + 1 /\ Head(rest) = x
      BY <1>7, <2>3
    <2>5. ~ inQuotes /\ ~ wasQuoted /\ ~ Opened(cell, n + 1) /\ ~ Inside(cell, n + 1)
      BY <1>3, <1>14 DEF AtPlain
    <2>6. Csv!Other
      BY <1>5, <2>1, <2>4, <2>5, CsvBranch
    <2>7. /\ table' = table /\ csvRows' = csvRows /\ csvRow' = csvRow
          /\ csvVerdict' = csvVerdict /\ wasQuoted' = wasQuoted /\ inQuotes' = inQuotes
          /\ Csv!Skip(1) /\ csvField' = Append(csvField, s[n + 1])
      BY <2>4, <2>6 DEF Csv!Other, x
    <2>8. /\ Len(csvField') = Kept(cell, n + 1)
          /\ \A k \in 1 .. Kept(cell, n + 1) : csvField'[k] = s[k]
      BY <1>1, <1>9, <2>1, <2>2, <2>7
    <2>9. CellRead(cell, n + 1)'
      BY <1>10, <2>5, <2>7, <2>8
    <2>10. QED
      BY <1>5, <2>4, <2>7, <2>9
  <1>15. QED
    BY <1>11, <1>12, <1>13, <1>14, MarkKinds

(* What follows the first n marks of a cell.                               *)
LEMMA MarkNext ==
  ASSUME NEW t, Readable(t), NEW r \in 1 .. Len(All(t)), NEW c \in 1 .. Len(All(t)[r]),
         NEW cell, cell = All(t)[r][c], NEW n \in 0 .. MarkCount(cell), n # MarkCount(cell)
  PROVE  Lies(Csv!Csv(t), Place(t, r, c, n), Marks(cell)[n + 1], Place(t, r, c, n + 1))
  <1> DEFINE m == n + 1
  <1>1. cell \in CsvCells
    BY TableIs
  <1>2. m \in 1 .. MarkCount(All(t)[r][c]) /\ m - 1 = n
    BY <1>1, MarkKinds
  <1> HIDE DEF m
  <1>3. Lies(Csv!Csv(t), Place(t, r, c, m - 1), Marks(All(t)[r][c])[m], Place(t, r, c, m))
    BY <1>2, MarkAt
  <1>4. QED
    BY <1>2, <1>3 DEF m

LEMMA MarkStep ==
  ASSUME CsvTypes, Readable(table), Csv!Next,
         NEW r \in 1 .. Len(All(table)), NEW c \in 1 .. Len(All(table)[r]),
         NEW n \in 0 .. MarkCount(All(table)[r][c]), ReadingCsv(r, c, n),
         n # MarkCount(All(table)[r][c])
  PROVE  ReadingCsv(r, c, n + 1)' /\ UNCHANGED <<table, csvVerdict>>
  <1> PICK cell \in CsvCells : cell = All(table)[r][c]
    BY TableIs
  <1> PICK text \in Seq(Csv!Char) : text = Csv!Csv(table)
    BY FileLayout
  <1> PICK p : p = Place(table, r, c, n)
    OBVIOUS
  <1> PICK q : q = Place(table, r, c, n + 1)
    OBVIOUS
  <1>1. n \in 0 .. MarkCount(cell) /\ n # MarkCount(cell) /\ CellRead(cell, n)
        /\ rest = Left(text, p)
    BY DEF ReadingCsv
  <1>2. n \in Nat /\ n + 1 \in 1 .. MarkCount(cell) /\ (n + 1) - 1 = n
    BY <1>1, MarkKinds
  <1>3. Lies(text, p, Marks(cell)[n + 1], q)
    <2>1. /\ Readable(table) /\ r \in 1 .. Len(All(table)) /\ c \in 1 .. Len(All(table)[r])
          /\ n \in 0 .. MarkCount(cell) /\ n # MarkCount(cell) /\ cell = All(table)[r][c]
      BY <1>1
    <2>2. Lies(Csv!Csv(table), Place(table, r, c, n), Marks(cell)[n + 1], Place(table, r, c, n + 1))
      BY ONLY <2>1, MarkNext
    <2>3. QED
      BY <2>2
  <1>4. ASSUME n + 1 = MarkCount(cell) PROVE text[q + 1] # "quote"
    <2>1. q = Place(table, r, c, MarkCount(All(table)[r][c]))
      BY <1>4
    <2>2. text[q + 1] = "comma" \/ text[q + 1] = "nl"
      BY <2>1, PlaceEnds
    <2>3. QED
      BY <2>2
  <1>5. p \in Nat /\ q \in Nat
    BY <1>3 DEF Lies
  <1>6. /\ rest' = Left(text, q) /\ CellRead(cell, n + 1)'
        /\ UNCHANGED <<table, csvVerdict, csvRows, csvRow>>
    <2>1. CsvTypes /\ cell \in CsvCells /\ text \in Seq(Csv!Char)
      OBVIOUS
    <2>2. n + 1 = MarkCount(cell) => text[q + 1] # "quote"
      BY <1>4
    <2>3. Csv!Next
      OBVIOUS
    <2>4. QED
      BY ONLY <2>1, <2>2, <2>3, <1>1, <1>3, <1>5, CellStep
  <1>7. /\ cell = All(table')[r][c] /\ text = Csv!Csv(table')
        /\ q = Place(table', r, c, n + 1) /\ All(table') = All(table)
    BY <1>6
  <1>8. rest' = Left(Csv!Csv(table'), Place(table', r, c, n + 1))
    BY <1>6, <1>7
  <1>9. /\ Len(csvRows) = r - 1 /\ \A k \in 1 .. r - 1 : csvRows[k] = All(table)[k]
        /\ Len(csvRow) = c - 1 /\ \A k \in 1 .. c - 1 : csvRow[k] = All(table)[r][k]
    BY DEF ReadingCsv
  <1>10. CellRead(All(table)[r][c], n + 1)'
    BY <1>6, <1>7 DEF CellRead
  <1>11. QED
    BY <1>6, <1>8, <1>9, <1>10 DEF ReadingCsv

(* A cell whose marks are read is the cell that was written.               *)
LEMMA WholeCell ==
  ASSUME CsvTypes, NEW cell \in CsvCells, cell.null => cell.text = <<>>,
         CellRead(cell, MarkCount(cell))
  PROVE  /\ ~ inQuotes /\ Csv!Cell = cell
         /\ ~ cell.null => wasQuoted \/ csvField # <<>>
  <1> DEFINE s == cell.text
             m == MarkCount(cell)
             l == Len(s)
  <1>1. /\ wasQuoted <=> Opened(cell, m)
        /\ inQuotes <=> Inside(cell, m)
        /\ Len(csvField) = Kept(cell, m)
        /\ \A k \in 1 .. Kept(cell, m) : csvField[k] = s[k]
    BY DEF CellRead
  <1>2. s \in Seq(Csv!Char) /\ l \in Nat /\ csvField \in Seq(Csv!Char)
    BY MarksIs DEF CsvTypes
  <1>3. cell = [null |-> cell.null, text |-> s] /\ cell.null \in BOOLEAN
    BY DEF CsvCells
  <1> HIDE DEF s, l
  <1>4. CASE Quotes(cell)
    <2>1. m = l + 2
      BY <1>4, MarksIs DEF l, s
    <2> HIDE DEF m
    <2>2. m > 0 /\ m # 0 /\ ~ (m < l + 2)
      BY <1>2, <2>1
    <2>3. Kept(cell, m) = l
      BY <1>4, <2>1, <2>2 DEF Kept, l, s
    <2>4. Opened(cell, m) /\ ~ Inside(cell, m)
      BY <1>4, <2>2 DEF Opened, Inside, l, s
    <2>5. csvField = s
      BY <1>1, <1>2, <2>3, SeqEqual DEF l
    <2>6. ~ cell.null
      BY <1>4 DEF Quotes
    <2>7. Csv!Cell = cell
      BY <1>1, <1>3, <2>4, <2>5, <2>6 DEF Csv!Cell, Csv!Value
    <2>8. QED
      BY <1>1, <2>4, <2>7
  <1>5. CASE ~ Quotes(cell)
    <2>1. Kept(cell, m) = m /\ ~ Opened(cell, m) /\ ~ Inside(cell, m)
      BY <1>5 DEF Kept, Opened, Inside
    <2>2. CASE cell.null
      <3>1. m = 0 /\ s = <<>>
        BY <2>2, MarksIs DEF s
      <3>2. csvField = <<>>
        BY <1>1, <1>2, <2>1, <3>1, EmptySeq
      <3>3. Csv!Cell = cell
        BY <1>1, <1>3, <2>1, <2>2, <3>1, <3>2 DEF Csv!Cell, Csv!Null
      <3>4. QED
        BY <1>1, <2>1, <2>2, <3>3
    <2>3. CASE ~ cell.null
      <3>1. m = l /\ s # <<>>
        BY <1>5, <2>3, MarksIs DEF l, s
      <3>2. csvField = s
        BY <1>1, <1>2, <2>1, <3>1, SeqEqual DEF l
      <3>3. Csv!Cell = cell
        BY <1>3, <2>3, <3>1, <3>2 DEF Csv!Cell, Csv!Value
      <3>4. QED
        BY <1>1, <2>1, <3>1, <3>2, <3>3
    <2>4. QED
      BY <2>2, <2>3
  <1>6. QED
    BY <1>4, <1>5

(* Nothing of a cell is read.                                              *)
LEMMA NoneRead ==
  ASSUME NEW cell \in CsvCells
  PROVE  /\ ~ Opened(cell, 0) /\ ~ Inside(cell, 0) /\ Kept(cell, 0) = 0
         /\ 0 \in 0 .. MarkCount(cell)
  <1>1. MarkCount(cell) \in Nat
    BY MarksIs
  <1>2. ~ (0 > 0)
    OBVIOUS
  <1>3. ~ Opened(cell, 0) /\ ~ Inside(cell, 0)
    BY <1>2 DEF Opened, Inside
  <1>4. Kept(cell, 0) = 0
    BY DEF Kept
  <1>5. QED
    BY <1>1, <1>3, <1>4

LEMMA FreshCell ==
  ASSUME NEW cell \in CsvCells, csvField' = <<>>, ~ wasQuoted', ~ inQuotes'
  PROVE  CellRead(cell, 0)'
  <1>1. /\ ~ Opened(cell, 0) /\ ~ Inside(cell, 0) /\ Kept(cell, 0) = 0
    BY NoneRead
  <1>2. Len(csvField') = 0 /\ \A k \in 1 .. 0 : csvField'[k] = cell.text[k]
    BY EmptySeq
  <1>3. QED
    BY <1>1, <1>2 DEF CellRead

(* What is read when a cell's marks are.                                   *)
LEMMA AtCellEnd ==
  ASSUME CsvTypes, Readable(table),
         NEW r \in 1 .. Len(All(table)), NEW c \in 1 .. Len(All(table)[r]),
         ReadingCsv(r, c, MarkCount(All(table)[r][c]))
  PROVE  LET end == Place(table, r, c, MarkCount(All(table)[r][c]))
             text == Csv!Csv(table)
         IN /\ ~ inQuotes /\ Csv!Cell = All(table)[r][c]
            /\ ~ All(table)[r][c].null => wasQuoted \/ csvField # <<>>
            /\ rest # <<>> /\ Head(rest) = text[end + 1]
            /\ Csv!Skip(1) => rest' = Left(text, end + 1)
  <1> DEFINE cell == All(table)[r][c]
             text == Csv!Csv(table)
             end == Place(table, r, c, MarkCount(cell))
  <1>1. CsvTypes /\ cell \in CsvCells /\ (cell.null => cell.text = <<>>)
    <2>1. /\ Readable(table) /\ r \in 1 .. Len(All(table)) /\ c \in 1 .. Len(All(table)[r])
      OBVIOUS
    <2>2. All(table)[r][c] \in CsvCells /\ NoText(All(table)[r][c])
      BY ONLY <2>1, TableIs
    <2>3. QED
      BY <2>2 DEF NoText
  <1>2. CellRead(cell, MarkCount(cell)) /\ rest = Left(text, end)
    BY DEF ReadingCsv
  <1>3. end \in Nat /\ end < Len(text) /\ text \in Seq(Csv!Char)
    BY PlaceEnds, FileLayout
  <1> HIDE DEF cell, text, end
  <1>4. /\ ~ inQuotes /\ Csv!Cell = cell
        /\ ~ cell.null => wasQuoted \/ csvField # <<>>
    BY ONLY <1>1, <1>2, WholeCell
  <1>5. /\ rest # <<>> /\ Head(rest) = text[end + 1]
        /\ Csv!Skip(1) => rest' = Left(text, end + 1)
    BY ONLY <1>2, <1>3, RestIs
  <1>6. QED
    BY <1>4, <1>5 DEF cell, text, end

(* A row with one more cell.                                               *)
LEMMA MoreCells ==
  ASSUME CsvTypes, NEW s \in Seq(CsvCells), NEW c \in 1 .. Len(s),
         Len(csvRow) = c - 1, \A k \in 1 .. c - 1 : csvRow[k] = s[k]
  PROVE  /\ Append(csvRow, s[c]) \in Seq(CsvCells) /\ Len(Append(csvRow, s[c])) = c
         /\ \A k \in 1 .. c : Append(csvRow, s[c])[k] = s[k]
  <1> DEFINE x == s[c]
  <1>1. x \in CsvCells /\ csvRow \in Seq(CsvCells) /\ Len(s) \in Nat
    BY ElementOfSeq, LenProperties DEF CsvTypes
  <1>2. x = s[c]
    OBVIOUS
  <1> HIDE DEF x
  <1>3. /\ Append(csvRow, x) \in Seq(CsvCells)
        /\ Len(Append(csvRow, x)) = Len(csvRow) + 1
        /\ \A k \in 1 .. Len(csvRow) : Append(csvRow, x)[k] = csvRow[k]
        /\ Append(csvRow, x)[Len(csvRow) + 1] = x
    BY <1>1, LongerSeq
  <1>4. Len(csvRow) + 1 = c
    BY <1>1
  <1>5. ASSUME NEW k \in 1 .. c PROVE Append(csvRow, x)[k] = s[k]
    <2>1. k \in 1 .. c - 1 \/ k = c
      BY <1>1
    <2>2. QED
      BY <1>2, <1>3, <1>4, <2>1
  <1>6. QED
    BY <1>2, <1>3, <1>4, <1>5

(* Behind a cell that is not the last stands a comma.                      *)
LEMMA CommaStep ==
  ASSUME CsvTypes, Readable(table), Csv!Next,
         NEW r \in 1 .. Len(All(table)), NEW c \in 1 .. Len(All(table)[r]),
         ReadingCsv(r, c, MarkCount(All(table)[r][c])), c # Len(All(table)[r])
  PROVE  /\ c + 1 \in 1 .. Len(All(table)[r]) /\ ReadingCsv(r, c + 1, 0)'
         /\ UNCHANGED <<table, csvVerdict>>
  <1> PICK s \in Seq(CsvCells) : s = All(table)[r]
    BY TableIs
  <1> PICK text : text = Csv!Csv(table)
    OBVIOUS
  <1> PICK end : end = Place(table, r, c, MarkCount(All(table)[r][c]))
    OBVIOUS
  <1> PICK d : d = c + 1
    OBVIOUS
  <1>1. c \in 1 .. Len(s) /\ Len(s) \in Nat /\ c # Len(s)
    BY LenProperties
  <1>2. d \in 1 .. Len(s) /\ d - 1 = c
    BY <1>1
  <1>3. text[end + 1] = "comma" /\ Place(table, r, d, 0) = end + 1
    BY PlaceEnds
  <1>4. /\ ~ inQuotes /\ Csv!Cell = s[c] /\ rest # <<>> /\ Head(rest) = "comma"
        /\ Csv!Skip(1) => rest' = Left(text, end + 1)
    BY <1>3, AtCellEnd
  <1>5. Csv!Comma
    BY <1>4, CsvBranch
  <1>6. /\ table' = table /\ csvRows' = csvRows /\ csvRow' = Append(csvRow, s[c])
        /\ csvField' = <<>> /\ wasQuoted' = FALSE /\ inQuotes' = inQuotes
        /\ csvVerdict' = csvVerdict /\ rest' = Left(text, end + 1)
    BY <1>4, <1>5 DEF Csv!Comma
  <1>7. Len(csvRow) = c - 1 /\ \A k \in 1 .. c - 1 : csvRow[k] = s[k]
    BY DEF ReadingCsv
  <1>8. Len(csvRow') = c /\ \A k \in 1 .. c : csvRow'[k] = s[k]
    BY <1>1, <1>6, <1>7, MoreCells
  <1>9. CellRead(s[d], 0)'
    <2> PICK cell \in CsvCells : cell = s[d]
      BY <1>2, ElementOfSeq
    <2>1. ~ wasQuoted' /\ ~ inQuotes' /\ csvField' = <<>>
      BY <1>4, <1>6
    <2>2. CellRead(cell, 0)'
      BY <2>1, FreshCell
    <2>3. QED
      BY <2>2
  <1>10. s = All(table')[r] /\ text = Csv!Csv(table') /\ Place(table', r, d, 0) = end + 1
    BY <1>3, <1>6
  <1>11. Len(csvRow') = d - 1 /\ \A k \in 1 .. d - 1 : csvRow'[k] = All(table')[r][k]
    BY <1>2, <1>8, <1>10
  <1>12. Len(csvRows') = r - 1 /\ \A k \in 1 .. r - 1 : csvRows'[k] = All(table')[k]
    BY <1>6 DEF ReadingCsv
  <1>13. CellRead(All(table)[r][d], 0)'
    BY <1>9, <1>10 DEF CellRead
  <1>14. rest' = Left(Csv!Csv(table'), Place(table', r, d, 0))
    BY <1>6, <1>10
  <1>15. ReadingCsv(r, d, 0)'
    BY <1>11, <1>12, <1>13, <1>14 DEF ReadingCsv
  <1>16. QED
    BY <1>2, <1>6, <1>15

(* Behind the last cell the line ends, and it is not a blank line.         *)
LEMMA NewlineStep ==
  ASSUME CsvTypes, Readable(table), Csv!Next,
         NEW r \in 1 .. Len(All(table)), NEW c \in 1 .. Len(All(table)[r]),
         ReadingCsv(r, c, MarkCount(All(table)[r][c])), c = Len(All(table)[r])
  PROVE  /\ UNCHANGED <<table, csvVerdict>>
         /\ r # Len(All(table)) =>
                r + 1 \in 1 .. Len(All(table)) /\ ReadingCsv(r + 1, 1, 0)'
         /\ r = Len(All(table)) => rest' = <<>> /\ csvRows' = All(table) /\ NothingRead'
  <1> DEFINE L == Seq(CsvCells)
  <1> PICK lines \in Seq(L) : lines = All(table)
    BY TableIs
  <1> PICK s \in L : s = All(table)[r]
    BY TableIs
  <1> PICK text \in Seq(Csv!Char) : text = Csv!Csv(table)
    BY FileLayout
  <1> PICK end : end = Place(table, r, c, MarkCount(All(table)[r][c]))
    OBVIOUS
  <1>1. c \in 1 .. Len(s) /\ Len(s) \in Nat /\ c = Len(s) /\ Visible(s) /\ s \in Seq(CsvCells)
    BY LenProperties, TableIs
  <1>2. /\ text[end + 1] = "nl" /\ end \in Nat /\ end < Len(text) /\ Len(text) \in Nat
        /\ r # Len(All(table)) => Place(table, r + 1, 1, 0) = end + 1
        /\ r = Len(All(table)) => Len(text) = end + 1
    BY PlaceEnds
  <1>3. /\ ~ inQuotes /\ Csv!Cell = s[c] /\ rest # <<>> /\ Head(rest) = "nl"
        /\ Csv!Skip(1) => rest' = Left(text, end + 1)
        /\ ~ s[c].null => wasQuoted \/ csvField # <<>>
    BY <1>2, AtCellEnd
  <1>4. Csv!Newline
    BY <1>3, CsvBranch
  <1>5. Len(csvRow) = c - 1 /\ \A k \in 1 .. c - 1 : csvRow[k] = s[k]
    BY DEF ReadingCsv
  <1>6. Csv!HasRow
    <2>1. CASE c = 1
      <3>1. ~ s[c].null
        BY <1>1, <2>1 DEF Visible
      <3>2. QED
        BY <1>3, <3>1 DEF Csv!HasRow
    <2>2. CASE c # 1
      <3>1. Len(csvRow) # 0
        BY <1>1, <1>5, <2>2
      <3>2. csvRow # <<>>
        BY <3>1, EmptySeq
      <3>3. QED
        BY <3>2 DEF Csv!HasRow
    <2>3. QED
      BY <2>1, <2>2
  <1>7. /\ table' = table /\ csvRows' = Append(csvRows, Append(csvRow, s[c]))
        /\ csvRow' = <<>> /\ csvField' = <<>> /\ wasQuoted' = FALSE /\ inQuotes' = inQuotes
        /\ csvVerdict' = csvVerdict /\ rest' = Left(text, end + 1)
    BY <1>3, <1>4, <1>6 DEF Csv!Newline, Csv!EndRow
  <1>8. Append(csvRow, s[c]) = s
    <2>1. /\ Append(csvRow, s[c]) \in Seq(CsvCells) /\ Len(Append(csvRow, s[c])) = c
          /\ \A k \in 1 .. c : Append(csvRow, s[c])[k] = s[k]
      BY <1>1, <1>5, MoreCells
    <2> DEFINE u == Append(csvRow, s[c])
    <2>2. u \in Seq(CsvCells) /\ s \in Seq(CsvCells) /\ Len(u) = Len(s)
          /\ \A k \in 1 .. Len(u) : u[k] = s[k]
      BY <1>1, <2>1
    <2> HIDE DEF u
    <2>3. u = s
      BY ONLY <2>2, SeqEqual
    <2>4. QED
      BY <2>3 DEF u
  <1>9. NothingRead'
    BY <1>3, <1>7 DEF NothingRead
  <1>10. csvRows \in Seq(L) /\ s \in L /\ Len(lines) \in Nat /\ r \in 1 .. Len(lines)
         /\ lines[r] = s
    <2>1. csvRows \in Seq(L)
      BY DEF CsvTypes
    <2>2. Len(lines) \in Nat
      BY LenProperties
    <2>3. QED
      BY <2>1, <2>2
  <1>11. Len(csvRows) = r - 1 /\ \A k \in 1 .. r - 1 : csvRows[k] = lines[k]
    BY DEF ReadingCsv
  <1> HIDE DEF L
  <1>12. /\ csvRows' \in Seq(L) /\ Len(csvRows') = r
         /\ \A k \in 1 .. r : csvRows'[k] = lines[k]
    <2>1. csvRows' = Append(csvRows, s)
      BY <1>7, <1>8
    <2>2. csvRows \in Seq(L) /\ s \in L
      BY <1>10
    <2>3. /\ Append(csvRows, s) \in Seq(L) /\ Len(Append(csvRows, s)) = Len(csvRows) + 1
          /\ \A k \in 1 .. Len(csvRows) : Append(csvRows, s)[k] = csvRows[k]
          /\ Append(csvRows, s)[Len(csvRows) + 1] = s
      BY ONLY <2>2, LongerSeq
    <2>4. Len(csvRows) + 1 = r
      BY <1>10, <1>11
    <2>5. ASSUME NEW k \in 1 .. r PROVE csvRows'[k] = lines[k]
      <3>1. k \in 1 .. r - 1 \/ k = r
        BY <1>10
      <3>2. QED
        BY <1>10, <1>11, <2>1, <2>3, <2>4, <3>1
    <2>6. QED
      BY <2>1, <2>3, <2>4, <2>5
  <1>13. ASSUME r = Len(All(table)) PROVE rest' = <<>> /\ csvRows' = All(table)
    <2>1. r = Len(lines) /\ lines \in Seq(L)
      BY <1>13
    <2>2. csvRows' = lines
      BY <1>12, <2>1, SeqEqual
    <2>3. Left(text, end + 1) = <<>>
      <3>1. end + 1 \in 0 .. Len(text) /\ end + 1 = Len(text)
        BY <1>2, <1>13
      <3>2. QED
        BY <3>1, LeftIs
    <2>4. QED
      BY <1>7, <2>2, <2>3
  <1>14. ASSUME r # Len(All(table))
         PROVE  r + 1 \in 1 .. Len(All(table)) /\ ReadingCsv(r + 1, 1, 0)'
    <2> PICK d : d = r + 1
      OBVIOUS
    <2>1. d \in 1 .. Len(All(table)) /\ d - 1 = r
      BY <1>10, <1>14
    <2> PICK t \in Seq(CsvCells) : t = All(table)[d] /\ Len(t) \in Nat \ {0}
      BY <2>1, TableIs
    <2>2. t[1] \in CsvCells
      BY ElementOfSeq
    <2> PICK cell \in CsvCells : cell = t[1]
      BY <2>2
    <2>3. CellRead(cell, 0)'
      BY <1>3, <1>7, FreshCell
    <2>4. Len(csvRow') = 1 - 1 /\ \A k \in 1 .. 1 - 1 : csvRow'[k] = All(table')[d][k]
      BY <1>7, EmptySeq
    <2>5. rest' = Left(Csv!Csv(table'), Place(table', d, 1, 0))
      BY <1>2, <1>7, <1>14
    <2>6. Len(csvRows') = d - 1 /\ \A k \in 1 .. d - 1 : csvRows'[k] = All(table')[k]
      BY <1>7, <1>12, <2>1
    <2>7. cell = All(table')[d][1]
      BY <1>7
    <2>8. CellRead(All(table)[d][1], 0)'
      BY <2>3, <2>7 DEF CellRead
    <2>9. ReadingCsv(d, 1, 0)'
      BY <2>4, <2>5, <2>6, <2>8 DEF ReadingCsv
    <2>10. QED
      BY <2>1, <2>9
  <1>15. QED
    BY <1>7, <1>9, <1>13, <1>14

(* At the end of the text the rows are there, all of the header's length.  *)
LEMMA EndStep ==
  ASSUME CsvTypes, Readable(table), Csv!Next, csvVerdict = "none",
         rest = <<>>, csvRows = All(table), NothingRead
  PROVE  /\ UNCHANGED <<table, rest>> /\ csvRows' = All(table) /\ NothingRead'
         /\ csvVerdict' = "ok"
  <1>1. Csv!End
    BY DEF Csv!Next, Csv!Quoted, Csv!Comma, Csv!Newline, Csv!Quote, Csv!Other, Csv!Reads
  <1>2. ~ Csv!HasRow
    BY DEF NothingRead, Csv!HasRow
  <1>3. /\ table' = table /\ rest' = rest /\ inQuotes' = inQuotes /\ wasQuoted' = wasQuoted
        /\ csvRows' = csvRows /\ csvRow' = csvRow /\ csvField' = csvField
    BY <1>1, <1>2 DEF Csv!End, Csv!EndRow
  <1>4. csvRows' = All(table) /\ ~ inQuotes
    BY <1>3 DEF NothingRead
  <1>5. /\ Len(All(table)) >= 1
        /\ \A k \in 1 .. Len(All(table)) : Len(All(table)[k]) = Len(All(table)[1])
        /\ DOMAIN All(table) = 1 .. Len(All(table))
    <2> DEFINE L == Seq(CsvCells)
    <2>1. All(table) \in Seq(L)
      BY TableIs
    <2> HIDE DEF L
    <2>2. DOMAIN All(table) = 1 .. Len(All(table))
      BY <2>1, LenProperties
    <2>3. QED
      BY <2>2, TableIs
  <1>6. All(table) # <<>>
    <2>1. Len(All(table)) # 0
      BY <1>5
    <2>2. QED
      BY <2>1, EmptySeq
  <1>7. ~ \E k \in DOMAIN csvRows' : Len(csvRows'[k]) # Len(csvRows'[1])
    BY <1>4, <1>5
  <1>8. csvVerdict' = "ok"
    BY <1>1, <1>4, <1>6, <1>7 DEF Csv!End
  <1>9. QED
    BY <1>3, <1>4, <1>8 DEF NothingRead

(* Where the reader begins.                                                *)
LEMMA FirstPlace ==
  ASSUME NEW t, Readable(t)
  PROVE  /\ 1 \in 1 .. Len(All(t)) /\ 1 \in 1 .. Len(All(t)[1])
         /\ All(t)[1][1] \in CsvCells /\ 0 \in 0 .. MarkCount(All(t)[1][1])
         /\ Csv!Csv(t) \in Seq(Csv!Char)
         /\ Csv!Csv(t) = Left(Csv!Csv(t), Place(t, 1, 1, 0))
  <1>1. Len(All(t)) \in Nat /\ Len(All(t)) >= 1 /\ All(t)[1] \in Seq(CsvCells)
        /\ Len(All(t)[1]) \in Nat \ {0}
    <2>1. Len(All(t)) \in Nat /\ Len(All(t)) >= 1
      BY TableIs
    <2>2. 1 \in 1 .. Len(All(t))
      BY <2>1
    <2>3. QED
      BY <2>1, <2>2, TableIs
  <1>2. 1 \in 1 .. Len(All(t)) /\ 1 \in 1 .. Len(All(t)[1])
    BY <1>1
  <1> PICK cell \in CsvCells : cell = All(t)[1][1]
    BY <1>1, <1>2, ElementOfSeq
  <1>3. Place(t, 1, 1, 0) = 0
    BY <1>2, PlaceEnds
  <1> PICK text \in Seq(Csv!Char) : text = Csv!Csv(t)
    BY FileLayout
  <1>4. Left(text, 0) = text
    <2>1. 0 \in 0 .. Len(text)
      BY LenProperties
    <2>2. QED
      BY <2>1, LeftIs
  <1>5. 0 \in 0 .. MarkCount(cell)
    BY NoneRead
  <1>6. QED
    BY <1>2, <1>3, <1>4, <1>5

(* The file is there and nothing of it is read.                            *)
NotRead ==
    /\ Readable(table) /\ rest = Csv!Csv(table)
    /\ row # <<>> => table.rows = <<row>>
    /\ csvRows = <<>> /\ NothingRead /\ csvVerdict = "none"
    /\ inQuotes \in BOOLEAN /\ wasQuoted \in BOOLEAN

LEMMA NotReadIs == NotRead => CsvTypes /\ WrittenInv
  <1> SUFFICES ASSUME NotRead PROVE CsvTypes /\ WrittenInv
    OBVIOUS
  <1> PICK t : t = table
    OBVIOUS
  <1>1. Readable(t)
    BY DEF NotRead
  <1>2. /\ 1 \in 1 .. Len(All(t)) /\ 1 \in 1 .. Len(All(t)[1])
        /\ All(t)[1][1] \in CsvCells /\ 0 \in 0 .. MarkCount(All(t)[1][1])
        /\ rest = Left(Csv!Csv(t), Place(t, 1, 1, 0)) /\ rest \in Seq(Csv!Char)
    BY <1>1, FirstPlace DEF NotRead
  <1>3. /\ Len(csvRows) = 1 - 1 /\ \A k \in 1 .. 1 - 1 : csvRows[k] = All(t)[k]
        /\ Len(csvRow) = 1 - 1 /\ \A k \in 1 .. 1 - 1 : csvRow[k] = All(t)[1][k]
        /\ Len(csvField) = 0 /\ \A k \in 1 .. 0 : csvField[k] = All(t)[1][1].text[k]
        /\ ~ inQuotes /\ ~ wasQuoted
    BY EmptySeq DEF NotRead, NothingRead
  <1>4. CellRead(All(t)[1][1], 0)
    <2> PICK cell \in CsvCells : cell = All(t)[1][1]
      BY <1>2
    <2>1. ~ Opened(cell, 0) /\ ~ Inside(cell, 0) /\ Kept(cell, 0) = 0
      BY NoneRead
    <2>2. QED
      BY <1>3, <2>1 DEF CellRead
  <1>5. ReadingCsv(1, 1, 0)
    BY <1>2, <1>3, <1>4 DEF ReadingCsv
  <1>6. WrittenInv
    BY <1>2, <1>5 DEF WrittenInv, NotRead
  <1>7. CsvTypes
    BY <1>2, EmptySeq DEF CsvTypes, NotRead, NothingRead
  <1>8. QED
    BY <1>6, <1>7

LEMMA NotReadNext == NotRead' => CsvTypes' /\ WrittenInv'
  BY NotReadIs, PTL

LEMMA WrittenStep ==
  ASSUME CsvTypes, WrittenInv, Csv!Next, row' = row
  PROVE  WrittenInv' /\ table' = table
  <1>1. Readable(table) /\ (row # <<>> => table.rows = <<row>>)
    BY DEF WrittenInv
  <1>2. csvVerdict = "none"
    BY DEF Csv!Next, Csv!Quoted, Csv!Comma, Csv!Newline, Csv!Quote, Csv!Other, Csv!End, Csv!Reads
  <1>3. CASE \E r \in 1 .. Len(All(table)) : \E c \in 1 .. Len(All(table)[r]) :
                 \E n \in 0 .. MarkCount(All(table)[r][c]) : ReadingCsv(r, c, n)
    <2> PICK r \in 1 .. Len(All(table)) : \E c \in 1 .. Len(All(table)[r]) :
                 \E n \in 0 .. MarkCount(All(table)[r][c]) : ReadingCsv(r, c, n)
      BY <1>3
    <2> PICK c \in 1 .. Len(All(table)[r]) :
                 \E n \in 0 .. MarkCount(All(table)[r][c]) : ReadingCsv(r, c, n)
      OBVIOUS
    <2> PICK n \in 0 .. MarkCount(All(table)[r][c]) : ReadingCsv(r, c, n)
      OBVIOUS
    <2>1. ASSUME UNCHANGED <<table, csvVerdict>>,
                 NEW d \in 1 .. Len(All(table)), NEW e \in 1 .. Len(All(table)[d]),
                 NEW m \in 0 .. MarkCount(All(table)[d][e]), ReadingCsv(d, e, m)'
          PROVE  WrittenInv' /\ table' = table
      <3>1. table' = table /\ csvVerdict' = "none"
        BY <1>2, <2>1
      <3>2. \E k \in 1 .. Len(All(table')) : \E b \in 1 .. Len(All(table')[k]) :
                \E a \in 0 .. MarkCount(All(table')[k][b]) : ReadingCsv(k, b, a)'
        BY <2>1, <3>1
      <3>3. QED
        BY <1>1, <3>1, <3>2 DEF WrittenInv
    <2>2. CASE n # MarkCount(All(table)[r][c])
      <3> PICK cell \in CsvCells : cell = All(table)[r][c]
        BY <1>1, TableIs
      <3>1. ReadingCsv(r, c, n + 1)' /\ UNCHANGED <<table, csvVerdict>>
        BY <1>1, <2>2, MarkStep
      <3>2. MarkCount(cell) \in Nat
        BY MarksIs
      <3>3. n + 1 \in 0 .. MarkCount(All(table)[r][c])
        BY <2>2, <3>2
      <3>4. QED
        BY <2>1, <3>1, <3>3
    <2>3. CASE n = MarkCount(All(table)[r][c]) /\ c # Len(All(table)[r])
      <3>1. /\ c + 1 \in 1 .. Len(All(table)[r]) /\ ReadingCsv(r, c + 1, 0)'
            /\ UNCHANGED <<table, csvVerdict>>
        BY <1>1, <2>3, CommaStep
      <3> PICK d \in 1 .. Len(All(table)[r]) : d = c + 1
        BY <3>1
      <3> PICK cell \in CsvCells : cell = All(table)[r][d]
        BY <1>1, TableIs
      <3>2. 0 \in 0 .. MarkCount(All(table)[r][d])
        BY NoneRead
      <3>3. ReadingCsv(r, d, 0)'
        BY <3>1
      <3>4. QED
        BY <2>1, <3>1, <3>2, <3>3
    <2>4. CASE n = MarkCount(All(table)[r][c]) /\ c = Len(All(table)[r]) /\ r # Len(All(table))
      <3>1. /\ r + 1 \in 1 .. Len(All(table)) /\ ReadingCsv(r + 1, 1, 0)'
            /\ UNCHANGED <<table, csvVerdict>>
        BY <1>1, <2>4, NewlineStep
      <3> PICK d \in 1 .. Len(All(table)) : d = r + 1
        BY <3>1
      <3>2. Len(All(table)[d]) \in Nat \ {0}
        BY <1>1, TableIs
      <3>6. 1 \in 1 .. Len(All(table)[d])
        BY ONLY <3>2
      <3> PICK e \in 1 .. Len(All(table)[d]) : e = 1
        BY <3>6
      <3> PICK cell \in CsvCells : cell = All(table)[d][e]
        BY <1>1, TableIs
      <3>3. 0 \in 0 .. MarkCount(All(table)[d][e])
        BY NoneRead
      <3>4. ReadingCsv(d, e, 0)'
        BY <3>1
      <3>5. QED
        BY <2>1, <3>1, <3>3, <3>4
    <2>5. CASE n = MarkCount(All(table)[r][c]) /\ c = Len(All(table)[r]) /\ r = Len(All(table))
      <3>1. /\ UNCHANGED <<table, csvVerdict>>
            /\ rest' = <<>> /\ csvRows' = All(table) /\ NothingRead'
        BY <1>1, <2>5, NewlineStep
      <3>2. QED
        BY <1>1, <1>2, <3>1 DEF WrittenInv
    <2>6. QED
      BY <2>2, <2>3, <2>4, <2>5
  <1>4. CASE rest = <<>> /\ csvRows = All(table) /\ NothingRead
    <2>1. /\ UNCHANGED <<table, rest>> /\ csvRows' = All(table) /\ NothingRead'
          /\ csvVerdict' = "ok"
      BY <1>1, <1>2, <1>4, EndStep
    <2>2. QED
      BY <1>1, <1>4, <2>1 DEF WrittenInv
  <1>5. QED
    BY <1>2, <1>3, <1>4 DEF WrittenInv

(* The row that was dumped is written, as it was parsed.                   *)
LEMMA WriteStep ==
  ASSUME NoLoneNull, CopyInv, CsvInv, WriteCsv
  PROVE  CsvInv'
  <1>1. /\ row # <<>> /\ verdict = "ok" /\ table = NoTable
        /\ \E h \in Headers[columns] :
              table' = [header |-> h, rows |-> <<cells>>] /\ rest' = Csv!Csv(table')
        /\ row' = row /\ csvRows' = csvRows /\ csvRow' = csvRow /\ csvField' = csvField
        /\ inQuotes' = inQuotes /\ wasQuoted' = wasQuoted /\ csvVerdict' = csvVerdict
    BY DEF WriteCsv, Written, readerVars, vars, inputVars
  <1>2. row \in Rows /\ columns = Len(row) /\ cells = row
    BY <1>1 DEF CopyInv, DumpedInv
  <1>3. csvRows = <<>> /\ NothingRead /\ csvVerdict = "none" /\ CsvTypes
    BY <1>1 DEF CsvInv
  <1> PICK h \in Headers[Len(row)] :
          table' = [header |-> h, rows |-> <<row>>] /\ rest' = Csv!Csv(table')
    BY <1>1, <1>2
  <1> PICK t : t = [header |-> h, rows |-> <<row>>]
    OBVIOUS
  <1>4. Csv!IsTable(t) /\ t.rows = <<row>> /\ t.header = h
    BY <1>2, TablesAssumption
  <1>5. \A k \in DOMAIN t.rows : Visible(t.rows[k])
    <2>1. Visible(row)
      BY <1>2 DEF NoLoneNull
    <2>2. QED
      BY <1>4, <2>1
  <1>6. Readable(t)
    BY <1>4, <1>5 DEF Readable
  <1>7. t # NoTable
    <2>1. h # <<>>
      BY <1>4 DEF Csv!IsTable
    <2>2. NoTable.header = <<>>
      BY DEF NoTable
    <2>3. QED
      BY <1>4, <2>1, <2>2
  <1>8. table' = t /\ rest' = Csv!Csv(t) /\ csvRows' = <<>> /\ NothingRead'
    BY <1>1, <1>3 DEF NothingRead
  <1>9. NotRead'
    <2>1. inQuotes' \in BOOLEAN /\ wasQuoted' \in BOOLEAN
      BY <1>1, <1>3 DEF CsvTypes
    <2>2. QED
      BY <1>1, <1>3, <1>4, <1>6, <1>8, <2>1 DEF NotRead
  <1>10. QED
    BY <1>7, <1>8, <1>9, NotReadNext DEF CsvInv

LEMMA CsvInitInv ==
  ASSUME NoLoneNull, TextInit
  PROVE  CsvInv
  <1>1. CASE /\ table = NoTable /\ rest = <<>> /\ csvRows = <<>> /\ csvRow = <<>>
             /\ csvField = <<>> /\ inQuotes = FALSE /\ wasQuoted = FALSE
             /\ csvVerdict = "none"
    <2>1. CsvTypes
      BY <1>1, EmptySeq DEF CsvTypes
    <2>2. QED
      BY <1>1, <2>1 DEF CsvInv, NothingRead
  <1>2. CASE Csv!Init /\ row = <<>>
    <2>1. /\ table \in Tables /\ rest = Csv!Csv(table) /\ csvRows = <<>> /\ csvRow = <<>>
          /\ csvField = <<>> /\ inQuotes = FALSE /\ wasQuoted = FALSE
          /\ csvVerdict = "none"
      BY <1>2 DEF Csv!Init
    <2>2. Readable(table)
      BY <2>1, TablesAssumption DEF Readable, NoLoneNull
    <2>3. table # NoTable
      <3>1. table.header # <<>>
        BY <2>2 DEF Readable, Csv!IsTable
      <3>2. NoTable.header = <<>>
        BY DEF NoTable
      <3>3. QED
        BY <3>1, <3>2
    <2>4. NotRead
      BY <1>2, <2>1, <2>2 DEF NotRead, NothingRead
    <2>5. QED
      BY <2>3, <2>4, NotReadIs DEF CsvInv
  <1>3. QED
    BY <1>1, <1>2 DEF TextInit

LEMMA CsvStepInv ==
  ASSUME NoLoneNull, CopyInv, CsvInv, [TextNext]_<<vars, csvVars>>
  PROVE  CsvInv'
  <1>1. CASE UNCHANGED csvVars /\ row' = row
    <2>1. /\ table' = table /\ rest' = rest /\ csvRows' = csvRows /\ csvRow' = csvRow
          /\ csvField' = csvField /\ inQuotes' = inQuotes /\ wasQuoted' = wasQuoted
          /\ csvVerdict' = csvVerdict /\ row' = row
      BY <1>1 DEF csvVars, readerVars
    <2>2. CsvTypes'
      BY <2>1 DEF CsvInv, CsvTypes
    <2>3. NothingRead' <=> NothingRead
      BY <2>1 DEF NothingRead
    <2>4. ASSUME table # NoTable PROVE WrittenInv'
      <3>1. WrittenInv
        BY <2>4 DEF CsvInv
      <3>2. \A r, c, n : ReadingCsv(r, c, n) => ReadingCsv(r, c, n)'
        BY <2>1 DEF ReadingCsv, CellRead
      <3>3. QED
        BY <2>1, <2>3, <3>1, <3>2 DEF WrittenInv
    <2>5. QED
      BY <2>1, <2>2, <2>3, <2>4 DEF CsvInv
  <1>2. CASE WriteCsv
    BY <1>2, WriteStep
  <1>3. CASE Written /\ Csv!Next /\ UNCHANGED vars
    <2>1. row' = row /\ table # NoTable
      BY <1>3 DEF Written, vars, inputVars
    <2>2. CsvTypes /\ WrittenInv
      BY <2>1 DEF CsvInv
    <2>3. CsvTypes'
      BY <1>3, <2>2, CsvTypeStep
    <2>4. WrittenInv' /\ table' = table
      BY <1>3, <2>1, <2>2, WrittenStep
    <2>5. QED
      BY <2>1, <2>3, <2>4 DEF CsvInv
  <1>4. CASE Next /\ UNCHANGED csvVars
    <2>1. row' = row
      BY <1>4 DEF Next, Strip, Delimiter, NullMark, EscapedChar, PlainChar, LineEnd,
                  FieldFails, inputVars
    <2>2. QED
      BY <1>1, <1>4, <2>1
  <1>5. CASE UNCHANGED <<vars, csvVars>>
    <2>1. row' = row /\ UNCHANGED csvVars
      BY <1>5 DEF vars, inputVars
    <2>2. QED
      BY <1>1, <2>1
  <1>6. QED
    BY <1>2, <1>3, <1>4, <1>5 DEF TextNext

LEMMA CsvHolds ==
  ASSUME NoLoneNull
  PROVE  TextSpec => []CsvInv
  <1>1. TextInit => CsvInv
    BY CsvInitInv
  <1>2. CopyInv /\ CsvInv /\ [TextNext]_<<vars, csvVars>> => CsvInv'
    BY CsvStepInv
  <1>3. QED
    BY <1>1, <1>2, CopyHolds, PTL DEF TextSpec

(* Every table, of any number of columns and rows and with any text, is    *)
(* what read_csv reads from the file write_csv_batch wrote: NULL and the   *)
(* empty string are told apart, and a quote, a comma or a line end inside  *)
(* a text stays inside.  A NULL alone in its row is a blank line and is    *)
(* lost; every other table comes back.                                     *)
THEOREM CsvCorrect ==
  ASSUME NoLoneNull
  PROVE  TextSpec => []CsvRoundTrip
  <1>1. CsvInv => CsvRoundTrip
    BY DEF CsvInv, WrittenInv, All, CsvRoundTrip, Csv!RoundTrip
  <1>2. QED
    BY <1>1, CsvHolds, PTL

(* A row that the server dumped, that parse_line read from its line and    *)
(* that went into a csv file is the row that is read from the file.        *)
THEOREM SurviveCorrect ==
  ASSUME NoLoneNull
  PROVE  TextSpec => []RowsSurvive
  <1>1. CopyInv /\ CsvInv => RowsSurvive
    <2> SUFFICES ASSUME CopyInv, CsvInv, csvVerdict # "none", row # <<>>
                 PROVE  Tail(csvRows) = <<row>>
      BY DEF RowsSurvive
    <2>1. WrittenInv
      BY DEF CsvInv
    <2>2. table.rows = <<row>> /\ csvRows = All(table)
      BY <2>1 DEF WrittenInv
    <2>3. csvRows = <<table.header>> \o <<row>>
      BY <2>2 DEF All
    <2> PICK one : one = <<table.header>>
      OBVIOUS
    <2> PICK two : two = <<row>>
      OBVIOUS
    <2> DEFINE L == {table.header, row}
    <2>4. one \in Seq(L) /\ two \in Seq(L) /\ Len(one) = 1 /\ Len(two) = 1 /\ two # <<>>
      BY Single, EmptySeq
    <2> HIDE DEF L
    <2>5. Tail(one \o two) = two
      BY ONLY <2>4, TailOfCons
    <2>6. QED
      BY <2>3, <2>5
  <1>2. QED
    BY <1>1, CopyHolds, CsvHolds, PTL

(* Neither parser leaves its types: the parser's index stays within one of *)
(* its line, it has no more cells than columns, no half of a surrogate     *)
(* pair is in a cell, and the csv reader never is inside quotes it did not *)
(* note.                                                                   *)
THEOREM TextTypesCorrect ==
  ASSUME NoLoneNull
  PROVE  TextSpec => []TextTypeOK
  <1>1. CopyInv /\ CsvInv => TextTypeOK
    <2> SUFFICES ASSUME CopyInv, CsvInv PROVE TextTypeOK
      OBVIOUS
    <2>1. TypeOK /\ CsvTypes
      BY DEF CopyInv, CsvInv
    <2>2. csvVerdict \in {"none", "ok"}
      BY DEF CsvInv, WrittenInv
    <2>3. NothingRead => (inQuotes => wasQuoted)
      BY DEF NothingRead
    <2>4. \A r, c, n : ReadingCsv(r, c, n) => (inQuotes => wasQuoted)
      BY DEF ReadingCsv, CellRead, Inside, Opened
    <2>5. inQuotes => wasQuoted
      BY <2>3, <2>4 DEF CsvInv, WrittenInv
    <2>6. QED
      BY <2>1, <2>2, <2>5 DEF TextTypeOK, Csv!TypeOK, CsvTypes
  <1>2. QED
    BY <1>1, CopyHolds, CsvHolds, PTL
=============================================================================

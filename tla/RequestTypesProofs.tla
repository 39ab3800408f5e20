-------------------------- MODULE RequestTypesProofs --------------------------
(***************************************************************************)
(* What the parts of a request are made of, however they were made and     *)
(* changed, for any letters, ids, namespaces, types and attributes and for *)
(* texts of any length.                                                    *)
(***************************************************************************)
EXTENDS RequestTypes, SequenceTheorems, WellFoundedInduction, TLAPS

(***************************************************************************)
(* First, texts: what the text of an identifier is read as, and that what  *)
(* is shown of an identifier is read as it again, for every text, by       *)
(* induction on its length. Facts about an operator are stated of the      *)
(* function it is defined by, point by point, so that induction is over a  *)
(* set of points.                                                          *)
(***************************************************************************)

(***************************************************************************)
(* Induction, for a set in place of a predicate.                           *)
(***************************************************************************)
LEMMA Induction ==
    ASSUME NEW S, 0 \in S, \A n \in Nat : n \in S => n + 1 \in S
    PROVE  Nat \subseteq S
<1> DEFINE R == OpToRel(<, Nat)
           T == Nat \ S
<1> SUFFICES ASSUME T # {} PROVE FALSE
  OBVIOUS
<1>1. IsWellFoundedOn(R, Nat)
  BY NatLessThanWellFounded
<1>2. T \subseteq Nat
  OBVIOUS
<1> HIDE DEF R, T
<1>3. PICK x \in T : \A y \in T : ~(<<y, x>> \in R)
  BY <1>1, <1>2, WFMin
<1>4. x # 0 /\ x \in Nat
  BY <1>2 DEF T
<1>5. x - 1 \in Nat /\ x - 1 < x /\ (x - 1) + 1 = x
  BY <1>4
<1>6. <<x - 1, x>> \in R
  BY <1>4, <1>5 DEF R, OpToRel
<1>7. x - 1 \in S
  BY <1>3, <1>5, <1>6 DEF T
<1> QED BY <1>4, <1>5, <1>7 DEF T

\* Two functions that go on in the same way.
InStep(f, g, m, n) == \A i \in m..n : f[i - 1] = g[i - 1] => f[i] = g[i]

LEMMA Agree ==
    ASSUME NEW m \in Nat, NEW n \in Nat, NEW f, NEW g, f[m] = g[m],
           NEW k, k = m + 1, InStep(f, g, k, n)
    PROVE  \A i \in m..n : f[i] = g[i]
<1> DEFINE S == { i \in Nat : f[m + i] = g[m + i] \/ m + i > n }
<1>1. 0 \in S
  OBVIOUS
<1>2. ASSUME NEW i \in Nat, i \in S PROVE i + 1 \in S
  <2>1. CASE m + (i + 1) > n
    BY <2>1
  <2>2. CASE ~(m + (i + 1) > n)
    <3>1. m + (i + 1) \in (m + 1)..n /\ (m + (i + 1)) - 1 = m + i /\ ~(m + i > n)
      BY <2>2
    <3>2. f[m + i] = g[m + i]
      BY <1>2, <3>1
    <3>3. f[m + (i + 1)] = g[m + (i + 1)]
      BY <3>1, <3>2 DEF InStep
    <3> QED BY <3>3
  <2> QED BY <2>1, <2>2
<1> HIDE DEF S
<1>3. Nat \subseteq S
  BY <1>1, <1>2, Induction
<1>4. ASSUME NEW i \in m..n PROVE f[i] = g[i]
  <2>1. i - m \in Nat /\ m + (i - m) = i /\ ~(i > n)
    OBVIOUS
  <2>2. i - m \in S
    BY <1>3, <2>1
  <2> QED BY <2>1, <2>2 DEF S
<1> QED BY <1>4

LEMMA AgreeAll ==
    ASSUME NEW n \in Nat, NEW f, NEW g, f[0] = g[0], InStep(f, g, 1, n)
    PROVE  \A i \in 0..n : f[i] = g[i]
<1>1. 0 \in Nat /\ 1 = 0 + 1
  OBVIOUS
<1> QED BY <1>1, Agree

\* Texts and lists, by what is appended.
LEMMA Appending ==
    ASSUME NEW A, NEW P, <<>> \in P,
           \A s \in Seq(A), x \in A : s \in P => Append(s, x) \in P
    PROVE  Seq(A) \subseteq P
<1> DEFINE S == { n \in Nat : \A s \in Seq(A) : Len(s) = n => s \in P }
<1>1. 0 \in S
  BY EmptySeq
<1>2. ASSUME NEW n \in Nat, n \in S PROVE n + 1 \in S
  <2> SUFFICES ASSUME NEW s \in Seq(A), Len(s) = n + 1 PROVE s \in P
    OBVIOUS
  <2>1. PICK t \in Seq(A), x \in A : s = Append(t, x)
    BY SequenceEmptyOrAppend, EmptySeq
  <2>2. Len(t) = n
    BY <2>1, AppendProperties, LenProperties
  <2> QED BY <1>2, <2>1, <2>2
<1> HIDE DEF S
<1>3. Nat \subseteq S
  BY <1>1, <1>2, Induction
<1> QED BY <1>3, LenProperties DEF S

\* A function defined step by step on 0..n.
Scans(f, n, V, a, step) ==
    f \in [0..n -> V] /\ f[0] = a /\ \A i \in 1..n : f[i] = step[i][f[i - 1]]

LEMMA Recursion ==
    ASSUME NEW n \in Nat, NEW V, NEW a \in V, NEW step \in [1..n -> [V -> V]]
    PROVE  \E f : Scans(f, n, V, a, step)
<1> DEFINE Good(f, m) == f[0] = a /\ \A i \in 1..n : i <= m => f[i] = step[i][f[i - 1]]
           S == { m \in Nat : \E f \in [0..n -> V] : Good(f, m) }
<1>1. 0 \in S
  <2> DEFINE f == [i \in 0..n |-> a]
  <2>1. f \in [0..n -> V] /\ Good(f, 0)
    OBVIOUS
  <2> QED BY <2>1
<1>2. ASSUME NEW m \in Nat, m \in S PROVE m + 1 \in S
  <2>1. PICK f \in [0..n -> V] : Good(f, m)
    BY <1>2
  <2> DEFINE g == [f EXCEPT ![m + 1] = step[m + 1][f[m]]]
  <2>2. CASE m + 1 \in 1..n
    <3>1. m \in 0..n
      BY <2>2
    <3>2. step[m + 1][f[m]] \in V
      BY <2>2, <3>1, <2>1
    <3>3. g \in [0..n -> V] /\ g[0] = a
      BY <2>1, <2>2, <3>2
    <3>4. ASSUME NEW i \in 1..n, i <= m + 1 PROVE g[i] = step[i][g[i - 1]]
      <4>1. i - 1 \in 0..n /\ i \in 0..n /\ i - 1 # m + 1
        BY <3>4
      <4>2. g[i - 1] = f[i - 1]
        BY <4>1
      <4>3. CASE i = m + 1
        <5>1. i - 1 = m
          BY <4>3
        <5>2. g[i] = step[m + 1][f[m]]
          BY <4>1, <4>3
        <5> QED BY <4>2, <4>3, <5>1, <5>2
      <4>4. CASE i # m + 1
        <5>1. g[i] = f[i] /\ i <= m
          BY <3>4, <4>1, <4>4
        <5> QED BY <2>1, <4>2, <5>1
      <4> QED BY <4>3, <4>4
    <3>5. Good(g, m + 1)
      BY <3>3, <3>4
    <3> HIDE DEF Good, g
    <3> QED BY <3>3, <3>5
  <2>3. CASE m + 1 \notin 1..n
    <3>1. Good(f, m + 1)
      BY <2>1, <2>3
    <3> HIDE DEF Good
    <3> QED BY <3>1
  <2> QED BY <2>2, <2>3
<1> HIDE DEF S
<1>3. n \in S
  BY <1>1, <1>2, Induction
<1> QED BY <1>3 DEF S, Scans

----------------------------------------------------------------------------
(***************************************************************************)
(* Flattened lists.                                                        *)
(***************************************************************************)
LEMMA FlattenScans ==
    ASSUME NEW A, NEW ss \in Seq(Seq(A)), ss # <<>>
    PROVE  \E f : /\ f \in [0..Len(ss) -> Seq(A)] /\ f[0] = <<>>
                  /\ \A i \in 1..Len(ss) : f[i] = f[i - 1] \o ss[i]
                  /\ FlattenSeq(ss) = f[Len(ss)]
<1> DEFINE n == Len(ss)
           V == Seq(A)
           step == [i \in 1..n |-> [s \in V |-> s \o ss[i]]]
           Eq(h) == h = [i \in 1..n |-> IF i = 1 THEN ss[i] ELSE h[i - 1] \o ss[i]]
           c == CHOOSE h : Eq(h)
<1>1. n \in Nat /\ n # 0 /\ \A i \in 1..n : ss[i] \in V
  BY EmptySeq, ElementOfSeq
<1>2. FlattenSeq(ss) = c[n]
  BY <1>1 DEF FlattenSeq
<1> HIDE DEF n
<1>3. step \in [1..n -> [V -> V]] /\ <<>> \in V
  BY <1>1, EmptySeq
<1>4. PICK f : Scans(f, n, V, <<>>, step)
  <2> HIDE DEF step, V
  <2> QED BY <1>1, <1>3, Recursion
<1>5. f \in [0..n -> V] /\ f[0] = <<>>
  BY <1>4 DEF Scans
<1>6. ASSUME NEW i \in 1..n PROVE f[i] = f[i-1] \o ss[i]
  <2>1. f[i - 1] \in V
    BY <1>1, <1>5
  <2> QED BY <1>4, <2>1 DEF Scans
<1>7. f[1] = ss[1]
  <2>1. 1 \in 1..n /\ 1 - 1 = 0
    BY <1>1
  <2>2. f[1] = <<>> \o ss[1]
    BY <2>1, <1>5, <1>6
  <2> QED BY <1>1, <2>1, <2>2, ConcatEmptySeq
<1> DEFINE g == [i \in 1..n |-> f[i]]
<1>8. Eq(g)
  <2>1. ASSUME NEW i \in 1..n PROVE g[i] = IF i = 1 THEN ss[i] ELSE g[i-1] \o ss[i]
    <3>1. CASE i = 1
      BY <1>7, <3>1
    <3>2. CASE i # 1
      <4>1. i - 1 \in 1..n
        BY <1>1, <3>2
      <4>2. g[i - 1] = f[i - 1] /\ g[i] = f[i]
        BY <4>1
      <4> HIDE DEF g
      <4> QED BY <1>6, <3>2, <4>2
    <3> QED BY <3>1, <3>2
  <2> QED BY <2>1, Zenon
<1>9. Eq(c)
  <2> HIDE DEF Eq
  <2> QED BY <1>8
<1> HIDE DEF c
<1>10. ASSUME NEW i \in 1..n PROVE c[i] = IF i = 1 THEN ss[i] ELSE c[i-1] \o ss[i]
  BY <1>9, Zenon
<1>11. \A i \in 1..n : c[i] = f[i]
  <2>1. ASSUME NEW i \in 2..n, c[i - 1] = f[i - 1] PROVE c[i] = f[i]
    <3>1. i \in 1..n /\ i # 1
      BY <1>1
    <3>2. c[i] = c[i - 1] \o ss[i]
      BY <3>1, <1>10
    <3> QED BY <2>1, <3>1, <3>2, <1>6
  <2>2. c[1] = f[1]
    <3>1. 1 \in 1..n
      BY <1>1
    <3>2. c[1] = IF 1 = 1 THEN ss[1] ELSE c[1-1] \o ss[1]
      BY <3>1, <1>10
    <3> QED BY <3>2, <1>7, Zenon
  <2>3. InStep(c, f, 2, n)
    BY <2>1 DEF InStep
  <2> QED BY <1>1, <2>1, <2>2, <2>3, Agree
<1>12. c[n] = f[n]
  BY <1>1, <1>11
<1> QED BY <1>2, <1>5, <1>6, <1>12 DEF n

LEMMA FlattenEmpty == FlattenSeq(<<>>) = <<>>
  BY DEF FlattenSeq

LEMMA FlattenType ==
    ASSUME NEW A, NEW ss \in Seq(Seq(A))
    PROVE  FlattenSeq(ss) \in Seq(A)
<1>1. CASE ss = <<>>
  BY <1>1, FlattenEmpty, EmptySeq
<1>2. CASE ss # <<>>
  <2>1. PICK f : f \in [0..Len(ss) -> Seq(A)] /\ FlattenSeq(ss) = f[Len(ss)]
    BY <1>2, FlattenScans
  <2> QED BY <2>1, LenProperties
<1> QED BY <1>1, <1>2

LEMMA FlattenAppend ==
    ASSUME NEW A, NEW ss \in Seq(Seq(A)), NEW s \in Seq(A)
    PROVE  FlattenSeq(Append(ss, s)) = FlattenSeq(ss) \o s
<1> DEFINE n == Len(ss)
           tt == Append(ss, s)
<1>1. n \in Nat /\ tt \in Seq(Seq(A)) /\ tt # <<>> /\ Len(tt) = n + 1
  BY AppendProperties, LenProperties
<1>2. (\A i \in 1..n : tt[i] = ss[i]) /\ tt[n + 1] = s
  BY AppendProperties
<1> HIDE DEF tt
<1>3. PICK g : /\ g \in [0..(n + 1) -> Seq(A)] /\ g[0] = <<>>
               /\ \A i \in 1..(n + 1) : g[i] = g[i - 1] \o tt[i]
               /\ FlattenSeq(tt) = g[n + 1]
  BY <1>1, FlattenScans
<1>4. FlattenSeq(ss) = g[n]
  <2>1. CASE ss = <<>>
    BY <1>3, <2>1, FlattenEmpty, EmptySeq
  <2>2. CASE ss # <<>>
    <3>1. PICK f : /\ f \in [0..n -> Seq(A)] /\ f[0] = <<>>
                   /\ \A i \in 1..n : f[i] = f[i - 1] \o ss[i]
                   /\ FlattenSeq(ss) = f[n]
      BY <2>2, FlattenScans
    <3> HIDE DEF n
    <3>2. ASSUME NEW i \in 1..n, f[i - 1] = g[i - 1] PROVE f[i] = g[i]
      <4>1. i \in 1..(n + 1)
        BY <1>1
      <4>2. g[i] = g[i - 1] \o tt[i]
        BY <1>3, <4>1
      <4> QED BY <1>2, <3>1, <3>2, <4>2
    <3>3. InStep(f, g, 1, n)
      BY <3>2 DEF InStep
    <3>4. f[0] = g[0] /\ n \in Nat
      BY <1>1, <1>3, <3>1
    <3>5. \A i \in 0..n : f[i] = g[i]
      BY <3>3, <3>4, AgreeAll
    <3> QED BY <1>1, <3>1, <3>5
  <2> QED BY <2>1, <2>2
<1>5. g[n + 1] = g[n] \o s
  <2>1. n + 1 \in 1..(n + 1) /\ (n + 1) - 1 = n
    BY <1>1
  <2> QED BY <1>2, <1>3, <2>1
<1> QED BY <1>3, <1>4, <1>5 DEF tt

----------------------------------------------------------------------------
(***************************************************************************)
(* The parts of a text between separators.                                 *)
(***************************************************************************)
Lists(A) == { ps \in Seq(Seq(A)) : ps # <<>> }

\* The parts of a text that goes on with x.
Cut(ps, x, c) == IF x = c THEN Append(ps, <<>>) ELSE Append(Front(ps), Append(Last(ps), x))

LEMMA ListParts ==
    ASSUME NEW B, NEW ps \in Seq(B), ps # <<>>
    PROVE  /\ Front(ps) \in Seq(B) /\ Last(ps) \in B /\ ps = Append(Front(ps), Last(ps))
           /\ Len(Front(ps)) = Len(ps) - 1
<1>1. PICK qs \in Seq(B), q \in B : ps = Append(qs, q)
  BY SequenceEmptyOrAppend
<1>2. Len(qs) \in Nat /\ Len(ps) = Len(qs) + 1 /\ ps[Len(qs) + 1] = q /\ ps \in Seq(B)
  BY <1>1, AppendProperties, LenProperties
<1>3. Last(ps) = q
  BY <1>2 DEF Last
<1>4. Front(ps) = qs
  <2>1. Front(ps) = SubSeq(ps, 1, Len(qs))
    BY <1>2 DEF Front
  <2>2. \A i \in 1..Len(qs) : ps[i] = qs[i]
    BY <1>1, AppendProperties
  <2> DEFINE fs == SubSeq(ps, 1, Len(qs))
  <2>3. \A i \in 1..Len(qs) : ps[i] \in B
    BY <2>2, ElementOfSeq
  <2>4. fs \in Seq(B) /\ Len(fs) = Len(qs) /\ \A i \in 1..Len(qs) : fs[i] = ps[i]
    BY <1>2, <2>3, SubSeqProperties
  <2> HIDE DEF fs
  <2>5. fs = qs
    BY <2>2, <2>4, SeqEqual
  <2> QED BY <2>1, <2>5 DEF fs
<1> QED BY <1>1, <1>2, <1>3, <1>4

LEMMA FrontLastAppend ==
    ASSUME NEW B, NEW qs \in Seq(B), NEW q \in B
    PROVE  Front(Append(qs, q)) = qs /\ Last(Append(qs, q)) = q
<1>1. Append(qs, q) \in Seq(B) /\ Append(qs, q) # <<>>
  BY AppendProperties
<1> DEFINE ps == Append(qs, q)
<1> HIDE DEF ps
<1>2. Front(ps) \in Seq(B) /\ Last(ps) \in B /\ ps = Append(Front(ps), Last(ps))
  BY <1>1, ListParts DEF ps
<1>3. Append(qs, q) = Append(Front(ps), Last(ps))
  BY <1>2 DEF ps
<1> QED BY <1>2, <1>3, AppendInjective DEF ps

LEMMA CutType ==
    ASSUME NEW A, NEW ps \in Lists(A), NEW x \in A, NEW c
    PROVE  Cut(ps, x, c) \in Lists(A)
<1>1. ps \in Seq(Seq(A)) /\ ps # <<>>
  BY DEF Lists
<1>2. Front(ps) \in Seq(Seq(A)) /\ Last(ps) \in Seq(A)
  BY <1>1, ListParts
<1>3. Append(Last(ps), x) \in Seq(A) /\ <<>> \in Seq(A)
  BY <1>2, AppendProperties, EmptySeq
<1>4. CASE x = c
  <2>1. Append(ps, <<>>) \in Seq(Seq(A)) /\ Append(ps, <<>>) # <<>>
    BY <1>1, <1>3, AppendProperties
  <2> QED BY <1>4, <2>1 DEF Cut, Lists
<1>5. CASE x # c
  <2> DEFINE y == Append(Last(ps), x)
             B == Seq(A)
  <2>1. y \in B /\ Front(ps) \in Seq(B)
    BY <1>2, <1>3
  <2> HIDE DEF y, B
  <2>2. Append(Front(ps), y) \in Seq(B) /\ Append(Front(ps), y) # <<>>
    BY <2>1, AppendProperties
  <2> QED BY <1>5, <2>2 DEF Cut, Lists, y, B
<1> QED BY <1>4, <1>5

SplitRun(f, n, A, t, c) ==
    /\ f \in [0..n -> Lists(A)] /\ f[0] = << <<>> >>
    /\ \A i \in 1..n : f[i] = Cut(f[i - 1], t[i], c)
    /\ SplitBy(t, c) = f[n]

LEMMA SplitScans ==
    ASSUME NEW A, NEW t \in Seq(A), NEW c
    PROVE  \E f : SplitRun(f, Len(t), A, t, c)
<1> DEFINE n == Len(t)
           V == Lists(A)
           step == [i \in 1..n |-> [ps \in V |-> Cut(ps, t[i], c)]]
           Eq(h) == h = [i \in 0..n |->
                          IF i = 0 THEN << <<>> >>
                          ELSE IF t[i] = c THEN Append(h[i - 1], <<>>)
                          ELSE Append(Front(h[i - 1]), Append(Last(h[i - 1]), t[i]))]
           g == CHOOSE h : Eq(h)
<1>1. n \in Nat /\ \A i \in 1..n : t[i] \in A
  BY LenProperties, ElementOfSeq
<1>2. SplitBy(t, c) = g[n]
  BY DEF SplitBy
<1> HIDE DEF n
<1>3. step \in [1..n -> [V -> V]]
  <2>1. \A i \in 1..n, ps \in V : Cut(ps, t[i], c) \in V
    BY <1>1, CutType
  <2> HIDE DEF V
  <2> QED BY <2>1
<1>4. << <<>> >> \in V
  <2>1. <<>> \in Seq(Seq(A)) /\ <<>> \in Seq(A)
    BY EmptySeq
  <2>2. Append(<<>>, <<>>) \in Seq(Seq(A)) /\ Append(<<>>, <<>>) # <<>>
    BY <2>1, AppendProperties
  <2>3. Append(<<>>, <<>>) = << <<>> >>
    OBVIOUS
  <2> QED BY <2>2, <2>3 DEF Lists
<1>5. PICK f : Scans(f, n, V, << <<>> >>, step)
  <2> DEFINE a == << <<>> >>
  <2> HIDE DEF step, V, a
  <2>1. \E f : Scans(f, n, V, a, step)
    BY <1>1, <1>3, <1>4, Recursion DEF a
  <2> QED BY <2>1 DEF a
<1>6. f \in [0..n -> V] /\ f[0] = << <<>> >>
  BY <1>5 DEF Scans
<1>7. ASSUME NEW i \in 1..n PROVE f[i] = Cut(f[i - 1], t[i], c)
  <2> HIDE DEF V
  <2>1. f[i - 1] \in V
    BY <1>1, <1>6
  <2> QED BY <1>5, <2>1 DEF Scans
<1>8. Eq(f)
  <2> DEFINE e(i) == IF i = 0 THEN << <<>> >>
                     ELSE IF t[i] = c THEN Append(f[i - 1], <<>>)
                     ELSE Append(Front(f[i - 1]), Append(Last(f[i - 1]), t[i]))
  <2>1. ASSUME NEW i \in 0..n PROVE f[i] = e(i)
    <3>1. CASE i = 0
      BY <1>6, <3>1
    <3>2. CASE i # 0
      <4>1. i \in 1..n
        BY <1>1, <3>2
      <4> QED BY <1>7, <3>2, <4>1, Zenon DEF Cut
    <3> QED BY <3>1, <3>2
  <2> HIDE DEF e
  <2>2. f = [i \in 0..n |-> e(i)]
    BY <1>6, <2>1
  <2> QED BY <2>2 DEF e
<1>9. Eq(g)
  <2> HIDE DEF Eq
  <2> QED BY <1>8
<1> HIDE DEF g
<1>10. g[0] = << <<>> >>
  BY <1>1, <1>9
<1>11. ASSUME NEW i \in 1..n PROVE g[i] = Cut(g[i - 1], t[i], c)
  <2>1. i \in 0..n /\ i # 0
    BY <1>1
  <2>2. g[i] = IF i = 0 THEN << <<>> >>
               ELSE IF t[i] = c THEN Append(g[i - 1], <<>>)
               ELSE Append(Front(g[i - 1]), Append(Last(g[i - 1]), t[i]))
    BY <1>9, <2>1, Zenon
  <2> QED BY <2>1, <2>2, Zenon DEF Cut
<1>12. \A i \in 0..n : f[i] = g[i]
  <2>1. InStep(f, g, 1, n)
    BY <1>7, <1>11 DEF InStep
  <2>2. f[0] = g[0] /\ n \in Nat /\ 1 = 0 + 1
    BY <1>1, <1>6, <1>10
  <2> QED BY <2>1, <2>2, Agree
<1> QED BY <1>1, <1>2, <1>6, <1>7, <1>12 DEF n, SplitRun

LEMMA SplitEmpty ==
    ASSUME NEW c
    PROVE  SplitBy(<<>>, c) = << <<>> >>
<1>1. <<>> \in Seq({}) /\ Len(<<>>) = 0
  BY EmptySeq
<1> QED BY <1>1, SplitScans DEF SplitRun

LEMMA SplitType ==
    ASSUME NEW A, NEW t \in Seq(A), NEW c
    PROVE  SplitBy(t, c) \in Seq(Seq(A)) /\ SplitBy(t, c) # <<>>
<1>1. PICK f : f \in [0..Len(t) -> Lists(A)] /\ SplitBy(t, c) = f[Len(t)]
  BY SplitScans DEF SplitRun
<1>2. SplitBy(t, c) \in Lists(A)
  BY <1>1, LenProperties
<1> QED BY <1>2 DEF Lists

LEMMA SplitAppend ==
    ASSUME NEW A, NEW t \in Seq(A), NEW x \in A, NEW c
    PROVE  SplitBy(Append(t, x), c) = Cut(SplitBy(t, c), x, c)
<1> DEFINE n == Len(t)
           u == Append(t, x)
<1>1. n \in Nat /\ u \in Seq(A) /\ Len(u) = n + 1
  BY AppendProperties, LenProperties
<1>2. (\A i \in 1..n : u[i] = t[i]) /\ u[n + 1] = x
  BY AppendProperties
<1> HIDE DEF u
<1>3. PICK f : SplitRun(f, n, A, t, c)
  BY SplitScans
<1>4. PICK g : SplitRun(g, n + 1, A, u, c)
  BY <1>1, SplitScans
<1> HIDE DEF n
<1>5. InStep(f, g, 1, n)
  <2> SUFFICES ASSUME NEW i \in 1..n, f[i - 1] = g[i - 1] PROVE f[i] = g[i]
    BY DEF InStep
  <2>1. i \in 1..(n + 1)
    BY <1>1
  <2> QED BY <1>2, <1>3, <1>4, <2>1 DEF SplitRun
<1>6. f[0] = g[0] /\ n \in Nat /\ 1 = 0 + 1
  BY <1>1, <1>3, <1>4 DEF SplitRun
<1>7. \A i \in 0..n : f[i] = g[i]
  BY <1>5, <1>6, Agree
<1>8. g[n + 1] = Cut(g[n], u[n + 1], c) /\ f[n] = g[n]
  <2>1. n + 1 \in 1..(n + 1) /\ (n + 1) - 1 = n /\ n \in 0..n
    BY <1>1
  <2> QED BY <1>4, <1>7, <2>1 DEF SplitRun
<1> QED BY <1>2, <1>3, <1>4, <1>8 DEF u, SplitRun

----------------------------------------------------------------------------
(***************************************************************************)
(* What a reader of a text knows after each character.                     *)
(***************************************************************************)
QuotingStates == {"plain", "quoted", "escaped"}

QuotingRun(f, n, t) ==
    /\ f \in [0..n -> QuotingStates] /\ f[0] = "plain"
    /\ \A i \in 1..n : f[i] = AfterChar(f[i - 1], t[i])

LEMMA QuotingRuns ==
    ASSUME NEW A, NEW t \in Seq(A)
    PROVE  QuotingRun(Quoting(t), Len(t), t)
<1> DEFINE n == Len(t)
           V == QuotingStates
           step == [i \in 1..n |-> [q \in V |-> AfterChar(q, t[i])]]
           Eq(h) == h = [i \in 0..n |-> IF i = 0 THEN "plain" ELSE AfterChar(h[i - 1], t[i])]
           g == CHOOSE h : Eq(h)
<1>1. n \in Nat
  BY LenProperties
<1>2. Quoting(t) = g
  BY DEF Quoting
<1> HIDE DEF n
<1>3. step \in [1..n -> [V -> V]] /\ "plain" \in V
  <2>1. \A i \in 1..n, q \in V : AfterChar(q, t[i]) \in V
    BY DEF AfterChar, QuotingStates
  <2>2. "plain" \in V
    BY DEF QuotingStates
  <2> QED BY <2>1, <2>2
<1>4. PICK f : Scans(f, n, V, "plain", step)
  <2> HIDE DEF step, V
  <2> QED BY <1>1, <1>3, Recursion
<1>5. f \in [0..n -> V] /\ f[0] = "plain"
  BY <1>4 DEF Scans
<1>6. ASSUME NEW i \in 1..n PROVE f[i] = AfterChar(f[i - 1], t[i])
  <2> HIDE DEF V
  <2>1. f[i - 1] \in V
    BY <1>1, <1>5
  <2> QED BY <1>4, <2>1 DEF Scans
<1>7. Eq(f)
  <2> DEFINE e(i) == IF i = 0 THEN "plain" ELSE AfterChar(f[i - 1], t[i])
  <2>1. ASSUME NEW i \in 0..n PROVE f[i] = e(i)
    <3>1. CASE i = 0
      BY <1>5, <3>1
    <3>2. CASE i # 0
      <4>1. i \in 1..n
        BY <1>1, <3>2
      <4> QED BY <1>6, <3>2, <4>1, Zenon
    <3> QED BY <3>1, <3>2
  <2> HIDE DEF e
  <2>2. f = [i \in 0..n |-> e(i)]
    BY <1>5, <2>1
  <2> QED BY <2>2 DEF e
<1>8. Eq(g)
  <2> HIDE DEF Eq
  <2> QED BY <1>7
<1> HIDE DEF g
<1>9. g[0] = "plain"
  BY <1>1, <1>8
<1>10. ASSUME NEW i \in 1..n PROVE g[i] = AfterChar(g[i - 1], t[i])
  <2>1. i \in 0..n /\ i # 0
    BY <1>1
  <2> QED BY <1>8, <2>1, Zenon
<1>11. \A i \in 0..n : f[i] = g[i]
  <2>1. InStep(f, g, 1, n)
    BY <1>6, <1>10 DEF InStep
  <2>2. f[0] = g[0] /\ n \in Nat /\ 1 = 0 + 1
    BY <1>1, <1>5, <1>9
  <2> QED BY <2>1, <2>2, Agree
<1>12. g \in [0..n -> V]
  <2>1. DOMAIN g = 0..n /\ g = [i \in 0..n |-> g[i]]
    BY <1>8
  <2> HIDE DEF V
  <2> QED BY <1>5, <1>11, <2>1
<1> QED BY <1>2, <1>9, <1>10, <1>12 DEF n, QuotingRun

EscapesRun(f, n, t) ==
    /\ f \in [0..n -> BOOLEAN] /\ f[0] = FALSE
    /\ \A i \in 1..n : f[i] = (t[i] = "\\" /\ ~f[i - 1])

LEMMA EscapesRuns ==
    ASSUME NEW A, NEW t \in Seq(A)
    PROVE  EscapesRun(Escapes(t), Len(t), t)
<1> DEFINE n == Len(t)
           V == BOOLEAN
           a == FALSE
           step == [i \in 1..n |-> [q \in V |-> t[i] = "\\" /\ ~q]]
           Eq(h) == h = [i \in 0..n |-> i > 0 /\ t[i] = "\\" /\ ~h[i - 1]]
           g == CHOOSE h : Eq(h)
<1>1. n \in Nat
  BY LenProperties
<1>2. Escapes(t) = g
  BY DEF Escapes
<1> HIDE DEF n
<1>3. step \in [1..n -> [V -> V]] /\ a \in V
  OBVIOUS
<1>4. PICK f : Scans(f, n, V, a, step)
  <2> HIDE DEF step, V, a
  <2> QED BY <1>1, <1>3, Recursion
<1>5. f \in [0..n -> V] /\ f[0] = a
  BY <1>4 DEF Scans
<1>6. ASSUME NEW i \in 1..n PROVE f[i] = (t[i] = "\\" /\ ~f[i - 1])
  <2>1. f[i - 1] \in V
    <3> HIDE DEF V
    <3> QED BY <1>1, <1>5
  <2>2. f[i] = step[i][f[i - 1]]
    <3> HIDE DEF step
    <3> QED BY <1>4 DEF Scans
  <2> QED BY <2>1, <2>2
<1>7. Eq(f)
  <2> DEFINE e(i) == i > 0 /\ t[i] = "\\" /\ ~f[i - 1]
  <2>1. ASSUME NEW i \in 0..n PROVE f[i] = e(i)
    <3>1. CASE i = 0
      BY <1>5, <3>1
    <3>2. CASE i # 0
      <4>1. i \in 1..n /\ i > 0
        BY <1>1, <3>2
      <4> QED BY <1>6, <4>1, Zenon
    <3> QED BY <3>1, <3>2
  <2> HIDE DEF e
  <2>2. f = [i \in 0..n |-> e(i)]
    BY <1>5, <2>1
  <2> QED BY <2>2 DEF e
<1>8. Eq(g)
  <2> HIDE DEF Eq
  <2> QED BY <1>7
<1> HIDE DEF g
<1>9. g[0] = FALSE
  BY <1>1, <1>8
<1>10. ASSUME NEW i \in 1..n PROVE g[i] = (t[i] = "\\" /\ ~g[i - 1])
  <2>1. i \in 0..n /\ i > 0
    BY <1>1
  <2>2. g[i] = (i > 0 /\ t[i] = "\\" /\ ~g[i - 1])
    BY <1>8, <2>1, Zenon
  <2> QED BY <2>1, <2>2, Zenon
<1>11. \A i \in 0..n : f[i] = g[i]
  <2>1. InStep(f, g, 1, n)
    <3> SUFFICES ASSUME NEW i \in 1..n, f[i - 1] = g[i - 1] PROVE f[i] = g[i]
      BY DEF InStep
    <3> QED BY <1>6, <1>10, Zenon
  <2>2. f[0] = g[0] /\ n \in Nat /\ 1 = 0 + 1
    BY <1>1, <1>5, <1>9
  <2> QED BY <2>1, <2>2, Agree
<1>12. g \in [0..n -> V]
  <2>1. DOMAIN g = 0..n /\ g = [i \in 0..n |-> g[i]]
    BY <1>8
  <2> HIDE DEF V
  <2> QED BY <1>5, <1>11, <2>1
<1> QED BY <1>2, <1>9, <1>10, <1>12 DEF n, EscapesRun

----------------------------------------------------------------------------
(***************************************************************************)
(* Texts.                                                                  *)
(***************************************************************************)
LEMMA MarksAreChars == \A x \in Marks \cup Kinds : x \in Chars
  BY DEF Chars

LEMMA ConcatAppend ==
    ASSUME NEW A, NEW s \in Seq(A), NEW t \in Seq(A), NEW x \in A
    PROVE  s \o Append(t, x) = Append(s \o t, x)
<1>1. Append(t, x) = t \o <<x>> /\ s \o t \in Seq(A) /\ <<x>> \in Seq(A)
  BY AppendIsConcat, ConcatProperties
<1>2. (s \o t) \o <<x>> = s \o (t \o <<x>>)
  BY <1>1, ConcatAssociative
<1>3. Append(s \o t, x) = (s \o t) \o <<x>>
  BY <1>1, AppendIsConcat
<1> QED BY <1>1, <1>2, <1>3

\* Lists made from others, element by element, the second from one more element.
Extends(g, f, n, B, y) ==
    /\ f = [i \in 1..n |-> f[i]] /\ g = [i \in 1..(n + 1) |-> g[i]]
    /\ \A i \in 1..n : f[i] \in B /\ g[i] = f[i]
    /\ y \in B /\ g[n + 1] = y

LEMMA MapAppend ==
    ASSUME NEW n \in Nat, NEW B, NEW f, NEW g, NEW y, Extends(g, f, n, B, y)
    PROVE  f \in Seq(B) /\ g = Append(f, y)
<1>1. f \in Seq(B) /\ Len(f) = n
  <2>1. f \in [1..n -> B]
    BY DEF Extends
  <2> QED BY <2>1
<1>2. g \in [1..(n + 1) -> B]
  <2>1. ASSUME NEW i \in 1..(n + 1) PROVE g[i] \in B
    <3>1. i \in 1..n \/ i = n + 1
      OBVIOUS
    <3> QED BY <3>1 DEF Extends
  <2> QED BY <2>1 DEF Extends
<1>3. g \in Seq(B) /\ Len(g) = n + 1
  BY <1>2
<1>4. y \in B
  BY DEF Extends
<1> DEFINE h == Append(f, y)
<1>5. h \in Seq(B) /\ Len(h) = n + 1 /\ (\A i \in 1..n : h[i] = f[i]) /\ h[n + 1] = y
  BY <1>1, <1>4, AppendProperties
<1> HIDE DEF h
<1>6. ASSUME NEW i \in 1..(n + 1) PROVE g[i] = h[i]
  <2>1. CASE i \in 1..n
    BY <1>5, <2>1 DEF Extends
  <2>2. CASE i \notin 1..n
    <3>1. i = n + 1
      BY <2>2
    <3> QED BY <1>5, <3>1 DEF Extends
  <2> QED BY <2>1, <2>2
<1>7. g = h
  BY <1>3, <1>5, <1>6, SeqEqual
<1> QED BY <1>1, <1>7 DEF h

LEMMA EscapeEmpty == Escape(<<>>) = <<>>
<1>1. [i \in DOMAIN <<>> |-> IF <<>>[i] \in {"\"", "\\"} THEN <<"\\", <<>>[i]>> ELSE <<(<<>>[i])>>] = <<>>
  OBVIOUS
<1> QED BY <1>1, FlattenEmpty DEF Escape

EscapeChar(x) == IF x \in {"\"", "\\"} THEN <<"\\", x>> ELSE <<x>>

LEMMA EscapeCharType == \A x \in Chars : EscapeChar(x) \in Seq(Chars)
<1>1. "\\" \in Chars
  BY MarksAreChars DEF Marks
<1>2. ASSUME NEW x \in Chars PROVE <<x>> \in Seq(Chars) /\ <<"\\", x>> \in Seq(Chars)
  BY <1>1
<1> QED BY <1>2 DEF EscapeChar

LEMMA EscapeAppend ==
    ASSUME NEW id \in Seq(Chars), NEW x \in Chars
    PROVE  Escape(id) \in Seq(Chars) /\ Escape(Append(id, x)) = Escape(id) \o EscapeChar(x)
<1> DEFINE f == [i \in DOMAIN id |-> EscapeChar(id[i])]
           g == [i \in DOMAIN Append(id, x) |-> EscapeChar(Append(id, x)[i])]
           B == Seq(Chars)
<1>1. Escape(id) = FlattenSeq(f) /\ Escape(Append(id, x)) = FlattenSeq(g)
  BY DEF Escape, EscapeChar
<1>2. DOMAIN id = 1..Len(id) /\ DOMAIN Append(id, x) = 1..(Len(id) + 1) /\ Len(id) \in Nat
  BY AppendProperties, LenProperties
<1>3. \A i \in 1..Len(id) : id[i] \in Chars /\ f[i] = EscapeChar(id[i]) /\ g[i] = EscapeChar(id[i])
  BY <1>2, ElementOfSeq, AppendProperties
<1>4. g[Len(id) + 1] = EscapeChar(x) /\ EscapeChar(x) \in B
  BY <1>2, EscapeCharType, AppendProperties
<1>5. \A i \in 1..Len(id) : f[i] \in B /\ g[i] = f[i]
  BY <1>3, EscapeCharType
<1>6. f = [i \in 1..Len(id) |-> f[i]] /\ g = [i \in 1..(Len(id) + 1) |-> g[i]]
  BY <1>2
<1> HIDE DEF f, g, B
<1>7. Extends(g, f, Len(id), B, EscapeChar(x))
  BY <1>4, <1>5, <1>6 DEF Extends
<1>8. f \in Seq(B) /\ g = Append(f, EscapeChar(x))
  BY <1>2, <1>7, MapAppend
<1>9. FlattenSeq(f) \in Seq(Chars) /\ FlattenSeq(g) = FlattenSeq(f) \o EscapeChar(x)
  BY <1>4, <1>8, FlattenType, FlattenAppend DEF B
<1> QED BY <1>1, <1>9

LEMMA EscapeType == \A id \in Seq(Chars) : Escape(id) \in Seq(Chars)
<1>1. "\\" \in Chars
  BY MarksAreChars DEF Marks
<1> QED BY <1>1, EscapeAppend

\* Whether the character after a text is hidden by a backslash.
Hidden(body) == Escapes(body)[Len(body)]

LEMMA UnescapeEmpty == Unescape(<<>>) = <<>> /\ Hidden(<<>>) = FALSE
<1> DEFINE e == Escapes(<<>>)
<1>1. [i \in DOMAIN <<>> |-> IF e[i] THEN <<>> ELSE <<(<<>>[i])>>] = <<>>
  OBVIOUS
<1>2. Unescape(<<>>) = FlattenSeq([i \in DOMAIN <<>> |-> IF e[i] THEN <<>> ELSE <<(<<>>[i])>>])
  BY DEF Unescape
<1>3. Unescape(<<>>) = <<>>
  BY <1>1, <1>2, FlattenEmpty
<1>4. <<>> \in Seq({}) /\ Len(<<>>) = 0
  BY EmptySeq
<1>5. EscapesRun(e, 0, <<>>)
  BY <1>4, EscapesRuns
<1> QED BY <1>3, <1>4, <1>5 DEF EscapesRun, Hidden

LEMMA EscapesAppend ==
    ASSUME NEW A, NEW t \in Seq(A), NEW x \in A
    PROVE  /\ \A i \in 0..Len(t) : Escapes(Append(t, x))[i] = Escapes(t)[i]
           /\ Escapes(Append(t, x))[Len(t) + 1] = (x = "\\" /\ ~Hidden(t))
           /\ Hidden(t) \in BOOLEAN
<1> DEFINE n == Len(t)
           u == Append(t, x)
           f == Escapes(t)
           g == Escapes(u)
<1>1. n \in Nat /\ u \in Seq(A) /\ Len(u) = n + 1
  BY AppendProperties, LenProperties
<1>2. (\A i \in 1..n : u[i] = t[i]) /\ u[n + 1] = x
  BY AppendProperties
<1> HIDE DEF u
<1>3. EscapesRun(f, n, t)
  BY EscapesRuns
<1>4. EscapesRun(g, n + 1, u)
  BY <1>1, EscapesRuns
<1> HIDE DEF n, f, g
<1>5. InStep(f, g, 1, n)
  <2> SUFFICES ASSUME NEW i \in 1..n, f[i - 1] = g[i - 1] PROVE f[i] = g[i]
    BY DEF InStep
  <2>1. i \in 1..(n + 1)
    BY <1>1
  <2>2. f[i] = (t[i] = "\\" /\ ~f[i - 1])
    BY <1>3 DEF EscapesRun
  <2>3. g[i] = (u[i] = "\\" /\ ~g[i - 1])
    BY <1>4, <2>1 DEF EscapesRun
  <2>4. u[i] = t[i]
    BY <1>2
  <2> QED BY <2>2, <2>3, <2>4, Zenon
<1>6. f[0] = g[0] /\ n \in Nat /\ 1 = 0 + 1
  BY <1>1, <1>3, <1>4 DEF EscapesRun
<1>7. \A i \in 0..n : f[i] = g[i]
  BY <1>5, <1>6, Agree
<1>8. n + 1 \in 1..(n + 1) /\ (n + 1) - 1 = n /\ n \in 0..n
  BY <1>1
<1>9. g[n + 1] = (u[n + 1] = "\\" /\ ~g[n])
  BY <1>4, <1>8 DEF EscapesRun
<1>10. f[n] = g[n]
  BY <1>7, <1>8
<1>11. g[n + 1] = (x = "\\" /\ ~f[n])
  BY <1>2, <1>9, <1>10, Zenon
<1>12. f[n] \in BOOLEAN
  BY <1>3, <1>8 DEF EscapesRun
<1> QED BY <1>7, <1>11, <1>12, Zenon DEF u, f, g, n, Hidden

LEMMA UnescapeAppend ==
    ASSUME NEW body \in Seq(Chars), NEW x \in Chars
    PROVE  /\ Unescape(body) \in Seq(Chars)
           /\ Unescape(Append(body, x)) =
                 IF x = "\\" /\ ~Hidden(body) THEN Unescape(body) ELSE Append(Unescape(body), x)
           /\ Hidden(Append(body, x)) = (x = "\\" /\ ~Hidden(body))
<1> DEFINE n == Len(body)
           u == Append(body, x)
           d == Escapes(body)
           e == Escapes(u)
           f == [i \in DOMAIN body |-> IF d[i] THEN <<>> ELSE <<body[i]>>]
           g == [i \in DOMAIN u |-> IF e[i] THEN <<>> ELSE <<u[i]>>]
           y == IF x = "\\" /\ ~Hidden(body) THEN <<>> ELSE <<x>>
           B == Seq(Chars)
<1>1. Unescape(body) = FlattenSeq(f) /\ Unescape(u) = FlattenSeq(g)
  BY DEF Unescape
<1>2. n \in Nat /\ u \in Seq(Chars) /\ Len(u) = n + 1 /\ DOMAIN body = 1..n /\ DOMAIN u = 1..(n + 1)
  BY AppendProperties, LenProperties
<1>3. (\A i \in 1..n : u[i] = body[i] /\ body[i] \in Chars) /\ u[n + 1] = x
  BY AppendProperties, ElementOfSeq
<1>4. (\A i \in 0..n : e[i] = d[i]) /\ e[n + 1] = (x = "\\" /\ ~Hidden(body))
  BY EscapesAppend
<1>5. Hidden(u) = (x = "\\" /\ ~Hidden(body))
  BY <1>2, <1>4, Zenon DEF Hidden
<1> HIDE DEF n, u, d, e
<1>6. y \in B
  BY EmptySeq
<1>7. g[n + 1] = y
  <2>1. n + 1 \in DOMAIN u
    BY <1>2
  <2>2. g[n + 1] = IF e[n + 1] THEN <<>> ELSE <<x>>
    BY <1>3, <2>1
  <2> HIDE DEF g
  <2> QED BY <1>4, <2>2, Zenon
<1>8. ASSUME NEW i \in 1..n PROVE f[i] \in B /\ g[i] = f[i]
  <2>1. i \in DOMAIN u /\ i \in DOMAIN body /\ e[i] = d[i]
    BY <1>2, <1>4
  <2>2. <<>> \in B /\ <<body[i]>> \in B
    BY <1>3, EmptySeq
  <2>3. f[i] = IF d[i] THEN <<>> ELSE <<body[i]>>
    BY <2>1, Zenon
  <2>4. g[i] = IF e[i] THEN <<>> ELSE <<u[i]>>
    BY <2>1, Zenon
  <2> HIDE DEF f, g, B
  <2>5. g[i] = f[i]
    BY <1>3, <2>1, <2>3, <2>4, Zenon
  <2> QED BY <2>2, <2>3, <2>5, Zenon
<1>9. f = [i \in 1..n |-> f[i]] /\ g = [i \in 1..(n + 1) |-> g[i]]
  BY <1>2
<1> HIDE DEF f, g, y, B
<1>10. f \in Seq(B) /\ g = Append(f, y)
  <2>1. Extends(g, f, n, B, y)
    BY <1>6, <1>7, <1>8, <1>9 DEF Extends
  <2> QED BY <1>2, <2>1, MapAppend
<1>11. FlattenSeq(f) \in Seq(Chars) /\ FlattenSeq(g) = FlattenSeq(f) \o y
  BY <1>6, <1>10, FlattenType, FlattenAppend DEF B
<1>12. FlattenSeq(g) = IF x = "\\" /\ ~Hidden(body) THEN FlattenSeq(f) ELSE Append(FlattenSeq(f), x)
  <2>1. FlattenSeq(f) \o <<>> = FlattenSeq(f) /\ FlattenSeq(f) \o <<x>> = Append(FlattenSeq(f), x)
    BY <1>11, ConcatEmptySeq, AppendIsConcat
  <2> QED BY <1>11, <2>1, Zenon DEF y
<1> QED BY <1>1, <1>5, <1>11, <1>12, Zenon DEF u

LEMMA UnescapeType == \A body \in Seq(Chars) : Unescape(body) \in Seq(Chars)
<1>1. "\\" \in Chars
  BY MarksAreChars DEF Marks
<1> QED BY <1>1, UnescapeAppend

\* Escapes are undone, and an escaped text leaves nothing hidden.
LEMMA UnescapeEscape ==
    \A id \in Seq(Chars) : Unescape(Escape(id)) = id /\ Hidden(Escape(id)) = FALSE
<1> DEFINE P == { id \in Seq(Chars) : Unescape(Escape(id)) = id /\ Hidden(Escape(id)) = FALSE }
<1>1. <<>> \in P
  BY EscapeEmpty, UnescapeEmpty, EmptySeq
<1>2. ASSUME NEW id \in Seq(Chars), NEW x \in Chars, id \in P PROVE Append(id, x) \in P
  <2> DEFINE b == Escape(id)
             v == Append(id, x)
  <2>1. b \in Seq(Chars) /\ Unescape(b) = id /\ Hidden(b) = FALSE
    BY <1>2, EscapeType
  <2>2. "\\" \in Chars /\ Escape(v) = b \o EscapeChar(x) /\ v \in Seq(Chars)
    BY EscapeAppend, MarksAreChars, AppendProperties DEF Marks
  <2> HIDE DEF b, v
  <2>3. CASE x \in {"\"", "\\"}
    <3> DEFINE c == Append(b, "\\")
    <3>1. c \in Seq(Chars)
      BY <2>1, <2>2, AppendProperties
    <3>2. Unescape(c) = id /\ Hidden(c) = TRUE
      BY <2>1, <2>2, UnescapeAppend
    <3> HIDE DEF c
    <3>3. Unescape(Append(c, x)) = v /\ Hidden(Append(c, x)) = FALSE
      BY <3>1, <3>2, UnescapeAppend DEF v
    <3>4. b \o EscapeChar(x) = Append(c, x)
      <4>1. EscapeChar(x) = Append(<<"\\">>, x) /\ <<"\\">> \in Seq(Chars)
        <5>1. EscapeChar(x) = <<"\\", x>>
          BY <2>3 DEF EscapeChar
        <5>2. <<"\\", x>> = Append(<<"\\">>, x)
          OBVIOUS
        <5>3. <<"\\">> \in Seq(Chars)
          BY <2>2
        <5> QED BY <5>1, <5>2, <5>3
      <4>2. b \o Append(<<"\\">>, x) = Append(b \o <<"\\">>, x)
        BY <2>1, <4>1, ConcatAppend
      <4>3. b \o <<"\\">> = c
        BY <2>1, <2>2, AppendIsConcat DEF c
      <4> QED BY <4>1, <4>2, <4>3
    <3> QED BY <2>2, <3>3, <3>4 DEF v
  <2>4. CASE x \notin {"\"", "\\"}
    <3>1. b \o EscapeChar(x) = Append(b, x)
      BY <2>1, <2>4, AppendIsConcat DEF EscapeChar
    <3>2. Unescape(Append(b, x)) = v /\ Hidden(Append(b, x)) = FALSE
      BY <2>1, <2>4, UnescapeAppend DEF v
    <3> QED BY <2>2, <3>1, <3>2 DEF v
  <2> QED BY <2>3, <2>4
<1> HIDE DEF P
<1>3. Seq(Chars) \subseteq P
  BY <1>1, <1>2, Appending
<1> QED BY <1>3 DEF P

----------------------------------------------------------------------------
(***************************************************************************)
(* Joined and split type names.                                            *)
(***************************************************************************)
Joint == <<"::">>

LEMMA JointType == Joint \in Seq(Chars) /\ "::" \in Chars /\ Len(Joint) = 1 /\ Joint[1] = "::"
<1>1. "::" \in Chars
  BY MarksAreChars DEF Marks
<1> QED BY <1>1 DEF Joint

LEMMA JoinEmpty == Join(<<>>) = <<>>
<1>1. [i \in DOMAIN <<>> |-> IF i = 1 THEN <<>>[i] ELSE <<"::">> \o <<>>[i]] = <<>>
  OBVIOUS
<1> QED BY <1>1, FlattenEmpty DEF Join

LEMMA JoinAppend ==
    ASSUME NEW ts \in Seq(Seq(Chars)), NEW w \in Seq(Chars)
    PROVE  /\ Join(ts) \in Seq(Chars)
           /\ Join(Append(ts, w)) = IF ts = <<>> THEN w ELSE Join(ts) \o (Joint \o w)
<1> DEFINE n == Len(ts)
           us == Append(ts, w)
           f == [i \in DOMAIN ts |-> IF i = 1 THEN ts[i] ELSE Joint \o ts[i]]
           g == [i \in DOMAIN us |-> IF i = 1 THEN us[i] ELSE Joint \o us[i]]
           y == IF ts = <<>> THEN w ELSE Joint \o w
           B == Seq(Chars)
<1>1. Join(ts) = FlattenSeq(f) /\ Join(us) = FlattenSeq(g)
  BY DEF Join, Joint
<1>2. n \in Nat /\ DOMAIN ts = 1..n /\ DOMAIN us = 1..(n + 1) /\ (ts = <<>> <=> n = 0)
  BY AppendProperties, LenProperties, EmptySeq
<1>3. (\A i \in 1..n : us[i] = ts[i] /\ ts[i] \in B) /\ us[n + 1] = w
  BY AppendProperties, ElementOfSeq
<1>4. \A s \in B : Joint \o s \in B
  BY JointType, ConcatProperties
<1> HIDE DEF n, us, B
<1>5. y \in B
  BY <1>4 DEF B
<1>6. g[n + 1] = y
  BY <1>2, <1>3
<1>7. ASSUME NEW i \in 1..n PROVE f[i] \in B /\ g[i] = f[i]
  <2>1. i \in DOMAIN us /\ i \in DOMAIN ts
    BY <1>2
  <2>2. us[i] = ts[i] /\ ts[i] \in B /\ Joint \o ts[i] \in B
    BY <1>3, <1>4
  <2>3. f[i] = IF i = 1 THEN ts[i] ELSE Joint \o ts[i]
    BY <2>1, Zenon
  <2>4. g[i] = IF i = 1 THEN us[i] ELSE Joint \o us[i]
    BY <2>1, Zenon
  <2> HIDE DEF f, g
  <2> QED BY <2>2, <2>3, <2>4, Zenon
<1>8. f = [i \in 1..n |-> f[i]] /\ g = [i \in 1..(n + 1) |-> g[i]]
  BY <1>2
<1> HIDE DEF f, g, y
<1>9. f \in Seq(B) /\ g = Append(f, y)
  <2>1. Extends(g, f, n, B, y)
    BY <1>5, <1>6, <1>7, <1>8 DEF Extends
  <2> QED BY <1>2, <2>1, MapAppend
<1>10. FlattenSeq(f) \in Seq(Chars) /\ FlattenSeq(g) = FlattenSeq(f) \o y
  BY <1>5, <1>9, FlattenType, FlattenAppend DEF B
<1>11. ts = <<>> => FlattenSeq(f) \o w = w
  BY <1>1, JoinEmpty, ConcatEmptySeq
<1> QED BY <1>1, <1>10, <1>11, Zenon DEF us, y

LEMMA JoinType == \A ts \in Seq(Seq(Chars)) : Join(ts) \in Seq(Chars)
  BY JoinAppend, EmptySeq

LEMMA JoinOne == \A w \in Seq(Chars) : Join(<<w>>) = w
<1>1. ASSUME NEW w \in Seq(Chars) PROVE Join(<<w>>) = w
  <2>1. <<>> \in Seq(Seq(Chars)) /\ Append(<<>>, w) = <<w>>
    BY EmptySeq
  <2> QED BY <2>1, JoinAppend
<1> QED BY <1>1

\* A text is its parts, joined.
LEMMA JoinSplit == \A t \in Seq(Chars) : Join(SplitBy(t, "::")) = t
<1> DEFINE P == { t \in Seq(Chars) : Join(SplitBy(t, "::")) = t }
<1>1. <<>> \in P
  <2>1. <<>> \in Seq(Chars)
    BY EmptySeq
  <2> QED BY <2>1, SplitEmpty, JoinOne
<1>2. ASSUME NEW t \in Seq(Chars), NEW x \in Chars, t \in P PROVE Append(t, x) \in P
  <2> DEFINE ps == SplitBy(t, "::")
             u == Append(t, x)
  <2>1. ps \in Seq(Seq(Chars)) /\ ps # <<>> /\ Join(ps) = t /\ u \in Seq(Chars)
    BY <1>2, SplitType, AppendProperties
  <2>2. SplitBy(u, "::") = Cut(ps, x, "::")
    BY SplitAppend
  <2> HIDE DEF ps, u
  <2>3. CASE x = "::"
    <3>1. SplitBy(u, "::") = Append(ps, <<>>)
      BY <2>2, <2>3 DEF Cut
    <3>2. <<>> \in Seq(Chars) /\ Joint \o <<>> = Joint
      BY EmptySeq, JointType, ConcatEmptySeq
    <3>3. Join(Append(ps, <<>>)) = t \o Joint
      BY <2>1, <3>2, JoinAppend
    <3>4. t \o Joint = u
      BY <2>3, AppendIsConcat DEF u, Joint
    <3> QED BY <2>1, <3>1, <3>3, <3>4 DEF u
  <2>4. CASE x # "::"
    <3> DEFINE fr == Front(ps)
               la == Last(ps)
               lx == Append(la, x)
    <3>1. SplitBy(u, "::") = Append(fr, lx)
      BY <2>2, <2>4 DEF Cut
    <3> DEFINE B == Seq(Chars)
    <3>2. fr \in Seq(B) /\ la \in B /\ ps = Append(fr, la)
      <4>1. ps \in Seq(B)
        BY <2>1
      <4> HIDE DEF B
      <4> QED BY <2>1, <4>1, ListParts
    <3>3. lx \in B
      BY <3>2, AppendProperties
    <3> HIDE DEF fr, la, lx
    <3>4. Join(Append(fr, lx)) = IF fr = <<>> THEN lx ELSE Join(fr) \o (Joint \o lx)
      BY <3>2, <3>3, JoinAppend
    <3>5. t = IF fr = <<>> THEN la ELSE Join(fr) \o (Joint \o la)
      BY <2>1, <3>2, JoinAppend
    <3>6. Join(fr) \in Seq(Chars) /\ Joint \o la \in Seq(Chars)
      BY <3>2, JoinType, JointType, ConcatProperties
    <3>7. Joint \o lx = Append(Joint \o la, x)
      BY <3>2, JointType, ConcatAppend DEF lx
    <3>8. Join(fr) \o (Joint \o lx) = Append(Join(fr) \o (Joint \o la), x)
      BY <3>6, <3>7, ConcatAppend
    <3>9. Join(Append(fr, lx)) = u
      BY <3>4, <3>5, <3>8 DEF lx, u
    <3> QED BY <2>1, <3>1, <3>9 DEF u
  <2> QED BY <2>3, <2>4
<1> HIDE DEF P
<1>3. Seq(Chars) \subseteq P
  BY <1>1, <1>2, Appending
<1> QED BY <1>3 DEF P

LEMMA HasAppend ==
    ASSUME NEW A, NEW t \in Seq(A), NEW x \in A, NEW cs
    PROVE  Has(Append(t, x), cs) <=> Has(t, cs) \/ x \in cs
<1> DEFINE n == Len(t)
           u == Append(t, x)
<1>1. n \in Nat /\ DOMAIN t = 1..n /\ DOMAIN u = 1..(n + 1)
  BY AppendProperties, LenProperties
<1>2. (\A i \in 1..n : u[i] = t[i]) /\ u[n + 1] = x
  BY AppendProperties
<1> HIDE DEF n, u
<1>3. Has(u, cs) <=> Has(t, cs) \/ x \in cs
  BY <1>1, <1>2 DEF Has
<1> QED BY <1>3 DEF u

LEMMA HasConcat ==
    ASSUME NEW A, NEW s \in Seq(A), NEW t \in Seq(A), NEW cs
    PROVE  Has(s \o t, cs) <=> Has(s, cs) \/ Has(t, cs)
<1> DEFINE m == Len(s)
           n == Len(t)
           u == s \o t
<1>1. m \in Nat /\ n \in Nat /\ DOMAIN s = 1..m /\ DOMAIN t = 1..n /\ DOMAIN u = 1..(m + n)
  BY ConcatProperties, LenProperties
<1>2. \A i \in 1..(m + n) : u[i] = IF i <= m THEN s[i] ELSE t[i - m]
  BY ConcatProperties
<1> HIDE DEF m, n, u
<1>3. \A i \in 1..m : i \in 1..(m + n) /\ u[i] = s[i]
  BY <1>1, <1>2
<1>4. \A i \in 1..n : i + m \in 1..(m + n) /\ u[i + m] = t[i]
  BY <1>1, <1>2
<1>5. \A i \in 1..(m + n) : i \in 1..m \/ (i - m \in 1..n /\ u[i] = t[i - m])
  BY <1>1, <1>2
<1>6. Has(u, cs) <=> Has(s, cs) \/ Has(t, cs)
  BY <1>1, <1>3, <1>4, <1>5 DEF Has
<1> QED BY <1>6 DEF u

\* A text without the separator goes on with the last part.
GoesOn(t, v, c) == SplitBy(t \o v, c) = Append(Front(SplitBy(t, c)), Last(SplitBy(t, c)) \o v)

LEMMA SplitGoesOn ==
    ASSUME NEW A, NEW t \in Seq(A), NEW c, NEW v \in Seq(A), ~Has(v, {c})
    PROVE  GoesOn(t, v, c)
<1> DEFINE ps == SplitBy(t, c)
           B == Seq(A)
           fr == Front(ps)
           la == Last(ps)
           P == { w \in Seq(A) : ~Has(w, {c}) => SplitBy(t \o w, c) = Append(fr, la \o w) }
<1>1. fr \in Seq(B) /\ la \in B /\ ps = Append(fr, la)
  <2>1. ps \in Seq(B) /\ ps # <<>>
    BY SplitType
  <2> HIDE DEF ps, B
  <2> QED BY <2>1, ListParts
<1> HIDE DEF fr, la
<1>2. <<>> \in P
  BY <1>1, EmptySeq, ConcatEmptySeq
<1>3. ASSUME NEW w \in Seq(A), NEW x \in A, w \in P PROVE Append(w, x) \in P
  <2> DEFINE wx == Append(w, x)
  <2>1. wx \in Seq(A)
    BY AppendProperties
  <2> SUFFICES ASSUME ~Has(wx, {c}) PROVE SplitBy(t \o wx, c) = Append(fr, la \o wx)
    BY <2>1
  <2>2. ~Has(w, {c}) /\ x # c
    BY HasAppend
  <2>3. SplitBy(t \o w, c) = Append(fr, la \o w)
    BY <1>3, <2>2
  <2>4. t \o w \in Seq(A) /\ la \o w \in B
    BY <1>1, ConcatProperties
  <2>5. t \o wx = Append(t \o w, x) /\ la \o wx = Append(la \o w, x)
    BY <1>1, ConcatAppend
  <2>6. SplitBy(t \o wx, c) = Cut(SplitBy(t \o w, c), x, c)
    BY <2>4, <2>5, SplitAppend
  <2>7. Front(Append(fr, la \o w)) = fr /\ Last(Append(fr, la \o w)) = la \o w
    <3> DEFINE q == la \o w
    <3> HIDE DEF q, B
    <3> QED BY <1>1, <2>4, FrontLastAppend DEF q
  <2> QED BY <2>2, <2>3, <2>5, <2>6, <2>7 DEF Cut
<1> HIDE DEF P
<1>4. Seq(A) \subseteq P
  BY <1>2, <1>3, Appending
<1> QED BY <1>4 DEF P, fr, la, ps, GoesOn

LEMMA SplitNone ==
    ASSUME NEW A, NEW w \in Seq(A), NEW c, ~Has(w, {c})
    PROVE  SplitBy(w, c) = <<w>>
<1> DEFINE e == <<>>
<1>1. e \in Seq(A) /\ e \o w = w
  BY EmptySeq, ConcatEmptySeq
<1>2. SplitBy(e, c) = <<e>>
  BY SplitEmpty
<1>3. Front(<<e>>) = <<>> /\ Last(<<e>>) = e
  BY DEF Front, Last
<1> HIDE DEF e
<1>4. GoesOn(e, w, c)
  BY <1>1, SplitGoesOn
<1>5. SplitBy(w, c) = Append(<<>>, w)
  BY <1>1, <1>2, <1>3, <1>4 DEF GoesOn
<1> QED BY <1>5

\* After a separator a new part begins.
Begins(t, w, c) == SplitBy(Append(t, c) \o w, c) = Append(SplitBy(t, c), w)

LEMMA SplitLast ==
    ASSUME NEW A, NEW t \in Seq(A), NEW c \in A, NEW w \in Seq(A), ~Has(w, {c})
    PROVE  Begins(t, w, c)
<1> DEFINE ps == SplitBy(t, c)
           u == Append(t, c)
           B == Seq(A)
           e == <<>>
<1>1. ps \in Seq(B) /\ u \in Seq(A) /\ e \in B /\ e \o w = w
  BY SplitType, AppendProperties, EmptySeq, ConcatEmptySeq
<1>2. SplitBy(u, c) = Append(ps, e)
  BY SplitAppend DEF Cut
<1>3. Front(Append(ps, e)) = ps /\ Last(Append(ps, e)) = e
  <2> HIDE DEF ps, B, e
  <2> QED BY <1>1, FrontLastAppend
<1>4. GoesOn(u, w, c)
  <2> HIDE DEF u
  <2> QED BY <1>1, SplitGoesOn
<1> QED BY <1>1, <1>2, <1>3, <1>4 DEF GoesOn, Begins, u

\* A namespace, however it is spelled, is followed by the kind.
Heads(ns) == IF ns = <<>> THEN <<>> ELSE SplitBy(Join(ns), "::")

TypeOf(kind, ns) == Join(Append(ns, <<kind>>))

LEMMA KindText ==
    ASSUME TextConstants, NEW kind \in Kinds
    PROVE  <<kind>> \in Seq(Chars) /\ ~Has(<<kind>>, Marks)
<1>1. kind \in Chars /\ kind \notin Marks
  BY DEF Kinds, Marks, Chars
<1> QED BY <1>1 DEF Has

LEMMA SplitTyped ==
    ASSUME TextConstants, NEW kind \in Kinds, NEW ns \in Seq(Seq(Chars))
    PROVE  /\ TypeOf(kind, ns) \in Seq(Chars)
           /\ Heads(ns) \in Seq(Seq(Chars))
           /\ SplitBy(TypeOf(kind, ns), "::") = Append(Heads(ns), <<kind>>)
<1> DEFINE k == <<kind>>
           n == Join(ns)
           c == "::"
           B == Seq(Chars)
<1>1. k \in Seq(Chars) /\ ~Has(k, {c}) /\ c \in Chars
  <2>1. c \in Marks
    BY DEF Marks
  <2> QED BY <2>1, KindText, MarksAreChars DEF Has
<1>2. TypeOf(kind, ns) = IF ns = <<>> THEN k ELSE n \o (Joint \o k)
  BY <1>1, JoinAppend DEF TypeOf
<1>3. n \in Seq(Chars)
  BY JoinType
<1>4. SplitBy(k, c) = <<k>>
  BY <1>1, SplitNone
<1>5. SplitBy(Append(n, c) \o k, c) = Append(SplitBy(n, c), k)
  <2>1. Begins(n, k, c)
    <3> HIDE DEF k, n, c
    <3> QED BY <1>1, <1>3, SplitLast
  <2> QED BY <2>1 DEF Begins
<1>6. n \o (Joint \o k) = Append(n, c) \o k
  <2>1. n \o (Joint \o k) = (n \o Joint) \o k
    BY <1>1, <1>3, JointType, ConcatAssociative
  <2>2. n \o Joint = Append(n, c)
    BY <1>1, <1>3, AppendIsConcat DEF Joint
  <2> QED BY <2>1, <2>2
<1>7. TypeOf(kind, ns) \in Seq(Chars)
  <2>1. Joint \o k \in Seq(Chars) /\ n \o (Joint \o k) \in Seq(Chars)
    BY <1>1, <1>3, JointType, ConcatProperties
  <2> QED BY <1>1, <1>2, <2>1
<1>8. Heads(ns) \in Seq(B)
  <2>1. SplitBy(n, c) \in Seq(B) /\ <<>> \in Seq(B)
    BY <1>3, SplitType, EmptySeq
  <2> QED BY <2>1 DEF Heads
<1>9. ns = <<>> => SplitBy(TypeOf(kind, ns), c) = Append(Heads(ns), k)
  <2>1. ns = <<>> => SplitBy(TypeOf(kind, ns), c) = <<k>> /\ Heads(ns) = <<>>
    BY <1>2, <1>4 DEF Heads
  <2>2. Append(<<>>, k) = <<k>>
    OBVIOUS
  <2> QED BY <2>1, <2>2
<1>10. ns # <<>> => SplitBy(TypeOf(kind, ns), c) = Append(Heads(ns), k)
  BY <1>2, <1>5, <1>6 DEF Heads
<1> QED BY <1>7, <1>8, <1>9, <1>10

\* A segment of a list of parts.
SomePart(ps, cs) == \E w \in Range(ps) : Has(w, cs)

LEMMA SomePartAppend ==
    ASSUME NEW B, NEW qs \in Seq(B), NEW q \in B, NEW cs
    PROVE  SomePart(Append(qs, q), cs) <=> SomePart(qs, cs) \/ Has(q, cs)
<1> DEFINE n == Len(qs)
           ps == Append(qs, q)
<1>1. n \in Nat /\ DOMAIN qs = 1..n /\ DOMAIN ps = 1..(n + 1)
  BY AppendProperties, LenProperties
<1>2. (\A i \in 1..n : ps[i] = qs[i]) /\ ps[n + 1] = q
  BY AppendProperties
<1> HIDE DEF n, ps
<1>3. SomePart(ps, cs) <=> SomePart(qs, cs) \/ Has(q, cs)
  BY <1>1, <1>2 DEF SomePart, Range
<1> QED BY <1>3 DEF ps

\* Every character but the separator is in some part.
LEMMA SplitKeeps ==
    ASSUME NEW c, NEW cs, c \notin cs
    PROVE  \A t \in Seq(Chars) : Has(t, cs) => SomePart(SplitBy(t, c), cs)
<1> DEFINE P == { t \in Seq(Chars) : Has(t, cs) => SomePart(SplitBy(t, c), cs) }
           B == Seq(Chars)
<1>1. <<>> \in P
  BY EmptySeq DEF Has
<1>2. ASSUME NEW t \in Seq(Chars), NEW x \in Chars, t \in P PROVE Append(t, x) \in P
  <2> DEFINE ps == SplitBy(t, c)
             u == Append(t, x)
  <2>1. ps \in Seq(B) /\ ps # <<>> /\ u \in Seq(Chars) /\ SplitBy(u, c) = Cut(ps, x, c)
    BY SplitType, AppendProperties, SplitAppend
  <2>2. Has(u, cs) <=> Has(t, cs) \/ x \in cs
    BY HasAppend
  <2>3. Has(t, cs) => SomePart(ps, cs)
    BY <1>2
  <2> SUFFICES ASSUME Has(u, cs) PROVE SomePart(SplitBy(u, c), cs)
    BY <2>1
  <2> HIDE DEF ps, u
  <2>4. CASE x = c
    <3>1. SomePart(ps, cs) /\ SplitBy(u, c) = Append(ps, <<>>) /\ <<>> \in B
      BY <2>1, <2>2, <2>3, <2>4, EmptySeq DEF Cut
    <3> HIDE DEF B
    <3> QED BY <2>1, <3>1, SomePartAppend
  <2>5. CASE x # c
    <3> DEFINE fr == Front(ps)
               la == Last(ps)
               lx == Append(la, x)
    <3>1. SplitBy(u, c) = Append(fr, lx)
      BY <2>1, <2>5 DEF Cut
    <3>2. fr \in Seq(B) /\ la \in B /\ ps = Append(fr, la)
      <4> HIDE DEF B
      <4> QED BY <2>1, ListParts
    <3>3. lx \in B /\ (Has(lx, cs) <=> Has(la, cs) \/ x \in cs)
      BY <3>2, AppendProperties, HasAppend
    <3> HIDE DEF fr, la, lx, B
    <3>4. SomePart(ps, cs) <=> SomePart(fr, cs) \/ Has(la, cs)
      BY <3>2, SomePartAppend
    <3>5. SomePart(Append(fr, lx), cs) <=> SomePart(fr, cs) \/ Has(lx, cs)
      BY <3>2, <3>3, SomePartAppend
    <3> QED BY <2>2, <2>3, <3>1, <3>3, <3>4, <3>5
  <2> QED BY <2>4, <2>5
<1> HIDE DEF P
<1>3. Seq(Chars) \subseteq P
  BY <1>1, <1>2, Appending
<1> QED BY <1>3 DEF P

\* A type name is made of words and separators.
LEMMA TypeNameChars ==
    ASSUME NEW t \in Seq(Chars), IsTypeName(t)
    PROVE  t # <<>> /\ ~Has(t, Marks \ {"::"})
<1>1. \A w \in Range(SplitBy(t, "::")) : w # <<>> /\ ~Has(w, Marks)
  BY DEF IsTypeName, IsWord
<1>2. t # <<>>
  <2> SUFFICES ASSUME t = <<>> PROVE FALSE
    OBVIOUS
  <2>1. SplitBy(t, "::") = << <<>> >>
    BY SplitEmpty
  <2>2. <<>> \in Range(SplitBy(t, "::"))
    BY <2>1 DEF Range
  <2> QED BY <1>1, <2>2
<1>3. ~SomePart(SplitBy(t, "::"), Marks \ {"::"})
  BY <1>1 DEF SomePart, Has
<1>4. Has(t, Marks \ {"::"}) => SomePart(SplitBy(t, "::"), Marks \ {"::"})
  <2> DEFINE cs == Marks \ {"::"}
  <2>1. "::" \notin cs
    OBVIOUS
  <2> HIDE DEF cs
  <2> QED BY <2>1, SplitKeeps DEF cs
<1> QED BY <1>2, <1>3, <1>4

----------------------------------------------------------------------------
LEMMA MinIn ==
    ASSUME NEW S \in SUBSET Nat, S # {}
    PROVE  Min(S) \in S /\ \A y \in S : Min(S) <= y
<1>1. IsWellFoundedOn(OpToRel(<, Nat), Nat)
  BY NatLessThanWellFounded
<1>2. PICK x \in S : \A y \in S : ~(<<y, x>> \in OpToRel(<, Nat))
  BY <1>1, WFMin
<1>3. \A y \in S : x <= y
  <2> SUFFICES ASSUME NEW y \in S, ~(x <= y) PROVE FALSE
    OBVIOUS
  <2>1. y < x /\ x \in Nat /\ y \in Nat
    OBVIOUS
  <2> QED BY <1>2, <2>1 DEF OpToRel
<1>4. \E z \in S : \A y \in S : z =< y
  BY <1>3
<1> QED BY <1>4 DEF Min

LEMMA MaxIn ==
    ASSUME NEW n \in Nat, NEW S \in SUBSET (1..n), S # {}
    PROVE  Max(S) \in S /\ \A y \in S : y <= Max(S)
<1> DEFINE T == { i \in Nat : \A y \in S : y <= i }
<1>1. n \in T
  OBVIOUS
<1>2. T \in SUBSET Nat /\ T # {}
  BY <1>1
<1> DEFINE m == Min(T)
<1>3. m \in T /\ \A y \in T : m <= y
  BY <1>2, MinIn
<1> HIDE DEF m
<1>4. m \in S
  <2> SUFFICES ASSUME m \notin S PROVE FALSE
    OBVIOUS
  <2>1. PICK z : z \in S
    OBVIOUS
  <2>2. m \in Nat /\ m >= 1
    BY <1>3, <2>1
  <2>3. \A y \in S : y <= m - 1
    BY <1>3, <2>2
  <2>4. m - 1 \in T
    BY <2>2, <2>3
  <2> QED BY <1>3, <2>2, <2>4
<1>5. \E x \in S : \A y \in S : x >= y
  BY <1>3, <1>4
<1>6. Max(S) \in S /\ \A y \in S : Max(S) >= y
  BY <1>5 DEF Max
<1> QED BY <1>6

\* A text within a text.
LEMMA Within ==
    ASSUME NEW A, NEW t \in Seq(A), NEW i \in 1..(Len(t) + 1), NEW j \in 0..Len(t), i <= j + 1
    PROVE  /\ SubSeq(t, i, j) \in Seq(A)
           /\ Len(SubSeq(t, i, j)) = j - i + 1
           /\ \A k \in 1..(j - i + 1) : SubSeq(t, i, j)[k] = t[i + k - 1]
<1>1. Len(t) \in Nat /\ \A k \in 1..Len(t) : t[k] \in A
  BY LenProperties, ElementOfSeq
<1>2. \A k \in i..j : t[k] \in A
  BY <1>1
<1>3. i \in Int /\ j \in Int
  BY <1>1
<1> QED BY <1>1, <1>2, <1>3, SubSeqProperties

LEMMA Positions ==
    ASSUME NEW t \in Texts
    PROVE  Len(t) \in Nat /\ DOMAIN t = 1..Len(t) /\ \A i \in 1..Len(t) : i \in Nat
<1>1. Len(t) \in Nat /\ DOMAIN t = 1..Len(t)
  BY LenProperties DEF Texts
<1> QED BY <1>1

LEMMA TrimIs ==
    ASSUME NEW t \in Texts
    PROVE  \/ Trim(t) = <<>> /\ \A i \in DOMAIN t : t[i] = " "
           \/ \E i \in DOMAIN t, j \in DOMAIN t :
                 /\ i <= j /\ t[i] # " " /\ t[j] # " " /\ Trim(t) = SubSeq(t, i, j)
                 /\ \A k \in DOMAIN t : t[k] # " " => i <= k /\ k <= j
<1> DEFINE kept == DOMAIN t \ At(t, " ")
<1>1. Trim(t) = IF kept = {} THEN <<>> ELSE SubSeq(t, Min(kept), Max(kept))
  BY DEF Trim
<1>2. Len(t) \in Nat /\ DOMAIN t = 1..Len(t) /\ kept \in SUBSET (1..Len(t)) /\ kept \in SUBSET Nat
  <2>1. kept \subseteq DOMAIN t
    OBVIOUS
  <2> HIDE DEF kept
  <2> QED BY <2>1, Positions
<1>3. \A i \in DOMAIN t : i \in kept <=> t[i] # " "
  BY DEF At
<1>4. CASE kept = {}
  BY <1>1, <1>3, <1>4
<1>5. CASE kept # {}
  <2> DEFINE i == Min(kept)
             j == Max(kept)
  <2> HIDE DEF kept
  <2>1. i \in kept /\ (\A y \in kept : i <= y) /\ j \in kept /\ (\A y \in kept : y <= j)
    BY <1>2, <1>5, MinIn, MaxIn
  <2>2. Trim(t) = SubSeq(t, i, j)
    BY <1>1, <1>5
  <2> HIDE DEF i, j
  <2>3. i \in DOMAIN t /\ j \in DOMAIN t /\ i <= j /\ t[i] # " " /\ t[j] # " "
    BY <1>2, <1>3, <2>1
  <2>4. \A k \in DOMAIN t : t[k] # " " => i <= k /\ k <= j
    BY <1>3, <2>1
  <2> QED BY <2>2, <2>3, <2>4
<1> QED BY <1>4, <1>5

\* No space at the ends.
Trimmed(t) == t = <<>> \/ (t[1] # " " /\ t[Len(t)] # " ")

LEMMA TrimType ==
    ASSUME NEW t \in Texts
    PROVE  Trim(t) \in Texts /\ Trimmed(Trim(t))
<1>1. CASE Trim(t) = <<>>
  BY <1>1, EmptySeq DEF Texts, Trimmed
<1>2. CASE Trim(t) # <<>>
  <2>1. PICK i \in DOMAIN t, j \in DOMAIN t :
           i <= j /\ t[i] # " " /\ t[j] # " " /\ Trim(t) = SubSeq(t, i, j)
    BY <1>2, TrimIs
  <2> DEFINE u == SubSeq(t, i, j)
  <2>2. i \in 1..(Len(t) + 1) /\ j \in 0..Len(t) /\ i <= j + 1 /\ i \in Nat /\ j \in Nat
    <3>1. Len(t) \in Nat /\ i \in 1..Len(t) /\ j \in 1..Len(t)
      BY Positions
    <3> DEFINE n == Len(t)
    <3>2. n \in Nat /\ i \in 1..n /\ j \in 1..n /\ i <= j
      BY <2>1, <3>1
    <3> HIDE DEF n, u
    <3>3. i \in 1..(n + 1) /\ j \in 0..n /\ i <= j + 1 /\ i \in Nat /\ j \in Nat
      BY <3>2
    <3> QED BY <3>3 DEF n
  <2>3. u \in Texts /\ Len(u) = j - i + 1 /\ \A k \in 1..(j - i + 1) : u[k] = t[i + k - 1]
    BY <2>2, Within DEF Texts
  <2> HIDE DEF u
  <2>4. 1 \in 1..(j - i + 1) /\ j - i + 1 \in 1..(j - i + 1) /\ i + 1 - 1 = i /\ i + (j - i + 1) - 1 = j
    <3>1. i \in Nat /\ j \in Nat /\ i <= j
      BY <2>1, <2>2
    <3> QED BY <3>1
  <2>5. u[1] = t[i] /\ u[j - i + 1] = t[j]
    BY <2>3, <2>4
  <2>6. Trimmed(u)
    BY <2>1, <2>3, <2>5 DEF Trimmed
  <2> QED BY <2>1, <2>3, <2>6 DEF u
<1> QED BY <1>1, <1>2

LEMMA TrimTrimmed ==
    ASSUME NEW t \in Texts, Trimmed(t)
    PROVE  Trim(t) = t
<1>1. CASE t = <<>>
  BY <1>1 DEF Trim, At
<1>2. CASE t # <<>>
  <2>1. Len(t) \in Nat /\ DOMAIN t = 1..Len(t) /\ 1 \in DOMAIN t /\ Len(t) \in DOMAIN t
    BY <1>2, LenProperties, EmptySeq DEF Texts
  <2>2. t[1] # " " /\ t[Len(t)] # " "
    BY <1>2 DEF Trimmed
  <2>3. PICK i \in DOMAIN t, j \in DOMAIN t :
           Trim(t) = SubSeq(t, i, j) /\ \A k \in DOMAIN t : t[k] # " " => i <= k /\ k <= j
    BY <2>1, <2>2, TrimIs
  <2>4. i = 1 /\ j = Len(t)
    <3>1. i <= 1 /\ Len(t) <= j
      BY <2>1, <2>2, <2>3
    <3>2. Len(t) \in Nat /\ i \in 1..Len(t) /\ j \in 1..Len(t)
      BY <2>1
    <3> QED BY <3>1, <3>2
  <2> DEFINE n == Len(t)
             u == SubSeq(t, 1, n)
  <2>5. u \in Texts /\ Len(u) = n /\ \A k \in 1..n : u[k] = t[k]
    <3>1. 1 \in 1..(n + 1) /\ n \in 0..n /\ 1 <= n + 1 /\ n - 1 + 1 = n /\ \A k \in 1..n : 1 + k - 1 = k
      BY <2>1
    <3> QED BY <3>1, Within DEF Texts
  <2>6. u = t
    <3> HIDE DEF u
    <3> QED BY <2>1, <2>5, SeqEqual DEF Texts
  <2> QED BY <2>3, <2>4, <2>6
<1> QED BY <1>1, <1>2

LEMMA TrimTrim ==
    ASSUME NEW t \in Texts
    PROVE  Trim(Trim(t)) = Trim(t)
  BY TrimType, TrimTrimmed

(***************************************************************************)
(* A UID in normal form: a type name, the separator and a literal.         *)
(***************************************************************************)
Shown(s, tn, e) ==
    /\ s \in Texts /\ Len(s) = Len(tn) + Len(e) + 3
    /\ \A i \in 1..Len(tn) : s[i] = tn[i]
    /\ s[Len(tn) + 1] = "::" /\ s[Len(tn) + 2] = "\""
    /\ \A i \in 1..Len(e) : s[Len(tn) + 2 + i] = e[i]
    /\ s[Len(tn) + Len(e) + 3] = "\""

LEMMA ShowIs ==
    ASSUME NEW tn \in Texts, NEW id \in Texts
    PROVE  Show(Uid(tn, id)) = ((tn \o <<"::", "\"">>) \o Escape(id)) \o <<"\"">>
<1>1. Join(SplitBy(tn, "::")) = tn
  BY JoinSplit DEF Texts
<1> QED BY <1>1 DEF Show, Uid

\* One text after another.
Concats(u, s, m, t, n) ==
    /\ Len(u) = m + n
    /\ \A i \in 1..m : u[i] = s[i]
    /\ \A i \in 1..n : u[m + i] = t[i]

LEMMA Concat ==
    ASSUME NEW A, NEW s \in Seq(A), NEW t \in Seq(A)
    PROVE  /\ s \o t \in Seq(A) /\ Len(s) \in Nat /\ Len(t) \in Nat
           /\ Concats(s \o t, s, Len(s), t, Len(t))
<1> DEFINE m == Len(s)
           n == Len(t)
           u == s \o t
<1>1. m \in Nat /\ n \in Nat
  BY LenProperties
<1>2. u \in Seq(A) /\ Len(u) = m + n /\ \A i \in 1..(m + n) : u[i] = IF i <= m THEN s[i] ELSE t[i - m]
  BY ConcatProperties
<1> HIDE DEF m, n, u
<1>3. \A i \in 1..m : u[i] = s[i]
  <2> SUFFICES ASSUME NEW i \in 1..m PROVE u[i] = s[i]
    OBVIOUS
  <2>1. i \in 1..(m + n) /\ i <= m
    BY <1>1
  <2> QED BY <1>2, <2>1
<1>4. \A i \in 1..n : u[m + i] = t[i]
  <2> SUFFICES ASSUME NEW i \in 1..n PROVE u[m + i] = t[i]
    OBVIOUS
  <2>1. m + i \in 1..(m + n) /\ ~(m + i <= m) /\ (m + i) - m = i
    BY <1>1
  <2> QED BY <1>2, <2>1
<1> QED BY <1>1, <1>2, <1>3, <1>4 DEF m, n, u, Concats

LEMMA Quotes ==
    /\ <<"::", "\"">> \in Texts /\ <<"\"">> \in Texts
    /\ Len(<<"::", "\"">>) = 2 /\ Len(<<"\"">>) = 1
    /\ <<"::", "\"">>[1] = "::" /\ <<"::", "\"">>[2] = "\"" /\ <<"\"">>[1] = "\""
<1> DEFINE c == "::"
           q == "\""
<1>1. c \in Chars /\ q \in Chars
  BY MarksAreChars DEF Marks
<1> HIDE DEF c, q
<1>2. <<c, q>> \in Seq(Chars) /\ <<q>> \in Seq(Chars)
  BY <1>1
<1>3. /\ Len(<<c, q>>) = 2 /\ Len(<<q>>) = 1
      /\ <<c, q>>[1] = c /\ <<c, q>>[2] = q /\ <<q>>[1] = q
  OBVIOUS
<1> QED BY <1>2, <1>3 DEF c, q, Texts

LEMMA ShowShown ==
    ASSUME NEW tn \in Texts, NEW id \in Texts
    PROVE  Shown(Show(Uid(tn, id)), tn, Escape(id))
<1> DEFINE e == Escape(id)
           j == <<"::", "\"">>
           q == <<"\"">>
           m == Len(tn)
           n == Len(e)
           a == tn \o j
           b == a \o e
           s == b \o q
<1>1. e \in Texts
  BY EscapeType DEF Texts
<1>2. j \in Texts /\ q \in Texts /\ Len(j) = 2 /\ Len(q) = 1 /\ j[1] = "::" /\ j[2] = "\"" /\ q[1] = "\""
  BY Quotes
<1>3. Show(Uid(tn, id)) = s
  BY ShowIs
<1> HIDE DEF e, j, q
<1>4. a \in Texts /\ m \in Nat /\ Concats(a, tn, m, j, 2)
  BY <1>2, Concat DEF Texts
<1> HIDE DEF a
<1>5. b \in Texts /\ n \in Nat /\ Concats(b, a, m + 2, e, n)
  <2>1. Len(a) = m + 2
    BY <1>4 DEF Concats
  <2> QED BY <1>1, <1>4, <2>1, Concat DEF Texts
<1> HIDE DEF b, m, n
<1>6. s \in Texts /\ Concats(s, b, (m + 2) + n, q, 1)
  <2>1. Len(b) = (m + 2) + n
    BY <1>5 DEF Concats
  <2> QED BY <1>2, <1>5, <2>1, Concat DEF Texts
<1> HIDE DEF s
<1>7. Len(s) = m + n + 3
  BY <1>4, <1>5, <1>6 DEF Concats
<1>8. \A i \in 1..(m + 2) : s[i] = a[i]
  <2> SUFFICES ASSUME NEW i \in 1..(m + 2) PROVE s[i] = a[i]
    OBVIOUS
  <2>1. i \in 1..((m + 2) + n)
    BY <1>4, <1>5
  <2> QED BY <1>5, <1>6, <2>1 DEF Concats
<1>9. ASSUME NEW i \in 1..m PROVE s[i] = tn[i]
  <2>1. i \in 1..(m + 2)
    BY <1>4
  <2> QED BY <1>4, <1>8, <2>1 DEF Concats
<1>10. s[m + 1] = "::" /\ s[m + 2] = "\""
  <2>1. m + 1 \in 1..(m + 2) /\ m + 2 \in 1..(m + 2) /\ 1 \in 1..2 /\ 2 \in 1..2
    BY <1>4
  <2> QED BY <1>2, <1>4, <1>8, <2>1 DEF Concats
<1>11. ASSUME NEW i \in 1..n PROVE s[m + 2 + i] = e[i]
  <2>1. m + 2 + i \in 1..((m + 2) + n)
    BY <1>4, <1>5
  <2> QED BY <1>5, <1>6, <2>1 DEF Concats
<1>12. s[m + n + 3] = "\""
  <2>1. 1 \in 1..1 /\ ((m + 2) + n) + 1 = m + n + 3
    BY <1>4, <1>5
  <2> QED BY <1>2, <1>6, <2>1 DEF Concats
<1>13. Shown(s, tn, e)
  BY <1>6, <1>7, <1>9, <1>10, <1>11, <1>12 DEF Shown, m, n
<1> QED BY <1>3, <1>13 DEF e

LEMMA ShownTrimmed ==
    ASSUME NEW tn \in Texts, IsTypeName(tn), NEW e \in Texts, NEW s, Shown(s, tn, e)
    PROVE  s \in Texts /\ Trim(s) = s
<1>1. tn # <<>> /\ ~Has(tn, Marks \ {"::"})
  BY TypeNameChars DEF Texts
<1> DEFINE m == Len(tn)
           n == Len(e)
<1>2. m \in Nat /\ n \in Nat /\ DOMAIN tn = 1..m
  BY Positions
<1>3. m # 0
  BY <1>1, EmptySeq DEF Texts
<1>4. 1 \in 1..m
  BY <1>2, <1>3
<1>5. tn[1] # " "
  <2>1. " " \in Marks \ {"::"}
    BY DEF Marks
  <2> QED BY <1>1, <1>2, <1>4, <2>1 DEF Has
<1>6. s \in Texts /\ s[1] # " " /\ s[Len(s)] # " "
  BY <1>4, <1>5 DEF Shown
<1> QED BY <1>6, TrimTrimmed DEF Trimmed

\* A text in a text, from an offset.
StandsAt(s, d, u) == \A k \in 1..Len(u) : s[d + k] = u[k]

LEMMA Piece ==
    ASSUME NEW A, NEW s \in Seq(A), NEW u \in Seq(A), NEW d \in Nat, StandsAt(s, d, u),
           d + Len(u) <= Len(s)
    PROVE  SubSeq(s, d + 1, d + Len(u)) = u
<1> DEFINE n == Len(u)
           i == d + 1
           j == d + n
           v == SubSeq(s, i, j)
<1>1. n \in Nat /\ Len(s) \in Nat
  BY LenProperties
<1>2. i \in 1..(Len(s) + 1) /\ j \in 0..Len(s) /\ i <= j + 1 /\ j - i + 1 = n
  BY <1>1
<1>3. v \in Seq(A) /\ Len(v) = n /\ \A k \in 1..n : v[k] = s[i + k - 1]
  BY <1>2, Within
<1> HIDE DEF v
<1>4. ASSUME NEW k \in 1..n PROVE v[k] = u[k]
  <2>1. i + k - 1 = d + k
    BY <1>1
  <2> QED BY <1>3, <2>1 DEF StandsAt, n
<1>5. v = u
  BY <1>3, <1>4, SeqEqual DEF n
<1> QED BY <1>5 DEF v

LEMMA BeforeAt ==
    ASSUME NEW A, NEW t \in Seq(A), NEW i \in 1..Len(t)
    PROVE  Before(t, i) \in Seq(A) /\ Len(Before(t, i)) = i - 1 /\ \A k \in 1..(i - 1) : Before(t, i)[k] = t[k]
<1>1. Len(t) \in Nat /\ i \in Nat
  BY LenProperties
<1>2. 1 \in 1..(Len(t) + 1) /\ i - 1 \in 0..Len(t) /\ 1 <= (i - 1) + 1 /\ (i - 1) - 1 + 1 = i - 1
  BY <1>1
<1>3. \A k \in 1..(i - 1) : 1 + k - 1 = k
  BY <1>1
<1> QED BY <1>2, <1>3, Within DEF Before

LEMMA AfterAt ==
    ASSUME NEW A, NEW t \in Seq(A), NEW i \in 1..Len(t)
    PROVE  /\ After(t, i) \in Seq(A) /\ Len(After(t, i)) = Len(t) - i
           /\ \A k \in 1..(Len(t) - i) : After(t, i)[k] = t[i + k]
<1> DEFINE n == Len(t)
<1>1. n \in Nat /\ i \in Nat
  BY LenProperties
<1>2. i + 1 \in 1..(n + 1) /\ n \in 0..n /\ i + 1 <= n + 1 /\ n - (i + 1) + 1 = n - i
  BY <1>1
<1>3. \A k \in 1..(n - i) : (i + 1) + k - 1 = i + k
  BY <1>1
<1> DEFINE v == SubSeq(t, i + 1, n)
<1>4. v \in Seq(A) /\ Len(v) = n - (i + 1) + 1 /\ \A k \in 1..(n - (i + 1) + 1) : v[k] = t[(i + 1) + k - 1]
  BY <1>2, Within
<1> HIDE DEF v, n
<1>5. v \in Seq(A) /\ Len(v) = n - i /\ \A k \in 1..(n - i) : v[k] = t[i + k]
  BY <1>2, <1>3, <1>4
<1> QED BY <1>5 DEF After, v, n

\* Before and after the separator.
Quoted(a, e) ==
    /\ a \in Texts /\ Len(a) = Len(e) + 2 /\ a[1] = "\"" /\ a[Len(e) + 2] = "\""
    /\ SubSeq(a, 2, Len(e) + 1) = e

Parted(s, k, tn, e) ==
    /\ k \in DOMAIN s /\ s[k] = "::" /\ Before(s, k) = tn
    /\ SubSeq(s, k + 2, Len(s) - 1) = e /\ Quoted(After(s, k), e)

LEMMA ShownParts ==
    ASSUME NEW tn \in Texts, NEW e \in Texts, NEW s, Shown(s, tn, e), NEW k, k = Len(tn) + 1
    PROVE  Parted(s, k, tn, e)
<1> DEFINE m == Len(tn)
           n == Len(e)
           l == Len(s)
           a == After(s, k)
<1>1. m \in Nat /\ n \in Nat /\ DOMAIN s = 1..l /\ l = m + n + 3 /\ s \in Texts /\ k = m + 1
  BY Positions DEF Shown
<1>2. /\ \A i \in 1..m : s[i] = tn[i]
      /\ s[m + 1] = "::" /\ s[m + 2] = "\""
      /\ \A i \in 1..n : s[m + 2 + i] = e[i]
      /\ s[m + n + 3] = "\""
  BY DEF Shown
<1> HIDE DEF m, n, l
<1>3. k \in 1..l /\ k \in Nat /\ l \in Nat /\ k - 1 = m /\ k + 1 = m + 2
  BY <1>1
<1>4. Before(s, k) = tn
  <2>1. StandsAt(s, 0, tn)
    <3>1. \A i \in 1..m : 0 + i = i
      BY <1>1
    <3> QED BY <1>2, <3>1 DEF StandsAt, m
  <2>2. 0 + 1 = 1 /\ 0 + m = k - 1 /\ 0 + m <= l /\ 0 \in Nat
    BY <1>1, <1>3
  <2>3. SubSeq(s, 0 + 1, 0 + m) = tn
    BY <1>1, <2>1, <2>2, Piece DEF m, l, Texts
  <2> QED BY <2>2, <2>3 DEF Before
<1>5. SubSeq(s, k + 2, l - 1) = e
  <2>1. StandsAt(s, m + 2, e)
    BY <1>2 DEF StandsAt, n
  <2>2. (m + 2) + 1 = k + 2 /\ (m + 2) + n = l - 1 /\ (m + 2) + n <= l /\ m + 2 \in Nat
    BY <1>1, <1>3
  <2>3. SubSeq(s, (m + 2) + 1, (m + 2) + n) = e
    BY <1>1, <2>1, <2>2, Piece DEF n, l, Texts
  <2> QED BY <2>2, <2>3
<1>6. a \in Texts /\ Len(a) = n + 2 /\ \A i \in 1..(n + 2) : a[i] = s[k + i]
  <2>1. l - k = n + 2
    BY <1>1, <1>3
  <2> QED BY <1>1, <1>3, <2>1, AfterAt DEF l, Texts
<1> HIDE DEF a
<1>7. a[1] = "\"" /\ a[n + 2] = "\""
  <2>1. 1 \in 1..(n + 2) /\ n + 2 \in 1..(n + 2) /\ k + 1 = m + 2 /\ k + (n + 2) = m + n + 3
    BY <1>1, <1>3
  <2> QED BY <2>1, <1>2, <1>6
<1>8. SubSeq(a, 2, n + 1) = e
  <2>1. ASSUME NEW i \in 1..n PROVE a[1 + i] = e[i]
    <3>1. 1 + i \in 1..(n + 2) /\ k + (1 + i) = m + 2 + i
      BY <1>1, <1>3
    <3> QED BY <1>2, <1>6, <3>1
  <2>2. StandsAt(a, 1, e)
    BY <2>1 DEF StandsAt, n
  <2>3. 1 + 1 = 2 /\ 1 + n = n + 1 /\ 1 + n <= Len(a) /\ 1 \in Nat
    BY <1>1, <1>6
  <2>4. SubSeq(a, 1 + 1, 1 + n) = e
    BY <1>6, <2>2, <2>3, Piece DEF n, Texts
  <2> QED BY <2>3, <2>4
<1>9. Quoted(a, e)
  BY <1>6, <1>7, <1>8 DEF Quoted, n
<1>10. k \in DOMAIN s /\ s[k] = "::"
  BY <1>1, <1>2, <1>3
<1> QED BY <1>4, <1>5, <1>9, <1>10 DEF a, l, Parted

LEMMA ShownLiteral ==
    ASSUME NEW tn \in Texts, NEW id \in Texts, NEW s, Shown(s, tn, Escape(id)), NEW k, k = Len(tn) + 1
    PROVE  IsLiteral(After(s, k))
<1> DEFINE e == Escape(id)
           n == Len(e)
           a == After(s, k)
<1>1. e \in Texts /\ Unescape(e) = id
  BY EscapeType, UnescapeEscape DEF Texts
<1>2. n \in Nat
  BY <1>1, Positions
<1> HIDE DEF e
<1>3. Parted(s, k, tn, e)
  BY <1>1, ShownParts DEF e
<1> HIDE DEF a, n
<1>4. Len(a) = n + 2 /\ a[1] = "\"" /\ a[n + 2] = "\"" /\ SubSeq(a, 2, n + 1) = e
  BY <1>3 DEF a, n, Parted, Quoted
<1>5. n + 2 >= 2 /\ (n + 2) - 1 = n + 1
  BY <1>2
<1>6. Len(a) >= 2 /\ a[Len(a)] = "\"" /\ Len(a) - 1 = n + 1
  BY <1>4, <1>5
<1>7. IsLiteral(a)
  <2>1. SubSeq(a, 2, Len(a) - 1) = e
    BY <1>4, <1>6
  <2>2. Escape(Unescape(e)) = e
    BY <1>1 DEF e
  <2> QED BY <1>4, <1>6, <2>1, <2>2, Zenon DEF IsLiteral
<1> QED BY <1>7 DEF a

\* No other separator parts a type name from a literal.
LEMMA ShownOnce ==
    ASSUME NEW tn \in Texts, IsTypeName(tn), NEW e \in Texts, NEW s, Shown(s, tn, e),
           NEW j \in At(s, "::"), IsTypeName(Before(s, j)), IsLiteral(After(s, j))
    PROVE  j = Len(tn) + 1
<1> DEFINE m == Len(tn)
           n == Len(e)
           l == Len(s)
<1>1. m \in Nat /\ n \in Nat /\ l = m + n + 3 /\ s \in Texts /\ DOMAIN s = 1..l /\ DOMAIN tn = 1..m
  BY Positions DEF Shown
<1>2. /\ \A i \in 1..m : s[i] = tn[i]
      /\ s[m + 1] = "::" /\ s[m + 2] = "\""
  BY DEF Shown
<1>3. j \in 1..l /\ s[j] = "::"
  BY <1>1 DEF At
<1>4. "\"" \in Marks \ {"::"}
  BY DEF Marks
<1>5. ~Has(tn, Marks \ {"::"})
  BY TypeNameChars DEF Texts
<1>6. ~(j > m + 1)
  <2> SUFFICES ASSUME j > m + 1 PROVE FALSE
    OBVIOUS
  <2> DEFINE b == Before(s, j)
  <2>1. b \in Texts /\ Len(b) = j - 1 /\ \A i \in 1..(j - 1) : b[i] = s[i]
    BY <1>1, <1>3, BeforeAt DEF Texts
  <2>2. ~Has(b, Marks \ {"::"})
    BY <2>1, TypeNameChars DEF Texts
  <2> HIDE DEF b, m, n, l
  <2>3. DOMAIN b = 1..(j - 1)
    BY <2>1, Positions
  <2>4. j # m + 2
    BY <1>2, <1>3
  <2>5. m + 2 \in 1..(j - 1)
    BY <1>1, <1>3, <2>4
  <2>6. b[m + 2] = "\""
    BY <1>2, <2>1, <2>5
  <2> QED BY <1>4, <2>2, <2>3, <2>5, <2>6 DEF Has
<1>7. ~(j < m + 1)
  <2> SUFFICES ASSUME j < m + 1 PROVE FALSE
    OBVIOUS
  <2> DEFINE a == After(s, j)
  <2>1. Len(a) = l - j /\ (\A i \in 1..(l - j) : a[i] = s[j + i]) /\ a[1] = "\""
    BY <1>1, <1>3, AfterAt DEF Texts, IsLiteral
  <2> HIDE DEF a, m, n, l
  <2>2. 1 \in 1..(l - j)
    BY <1>1, <1>3
  <2>3. s[j + 1] = "\""
    BY <2>1, <2>2
  <2>4. j + 1 # m + 1
    BY <1>2, <2>3
  <2>5. j + 1 \in 1..m
    BY <1>1, <1>3, <2>4
  <2>6. tn[j + 1] = "\"" /\ j + 1 \in DOMAIN tn
    BY <1>1, <1>2, <2>3, <2>5
  <2> QED BY <1>4, <1>5, <2>6 DEF Has
<1>8. j \in Nat
  BY <1>1, <1>3
<1> QED BY <1>1, <1>6, <1>7, <1>8

LEMMA ShownUid ==
    ASSUME NEW tn \in Texts, IsTypeName(tn), NEW id \in Texts, NEW s, Shown(s, tn, Escape(id))
    PROVE  UidsIn(s) = { Uid(tn, id) }
<1> DEFINE e == Escape(id)
           k == Len(tn) + 1
<1>1. e \in Texts /\ Unescape(e) = id
  BY EscapeType, UnescapeEscape DEF Texts
<1>2. k \in At(s, "::") /\ Before(s, k) = tn /\ SubSeq(s, k + 2, Len(s) - 1) = e
  <2> HIDE DEF e, k
  <2>1. Parted(s, k, tn, e)
    BY <1>1, ShownParts DEF e, k
  <2> QED BY <2>1 DEF Parted, At
<1>3. IsLiteral(After(s, k))
  BY ShownLiteral
<1>4. ASSUME NEW j \in At(s, "::"), IsTypeName(Before(s, j)), IsLiteral(After(s, j)) PROVE j = k
  BY <1>1, <1>4, ShownOnce
<1> HIDE DEF k
<1>5. { j \in At(s, "::") : IsTypeName(Before(s, j)) /\ IsLiteral(After(s, j)) } = { k }
  BY <1>2, <1>3, <1>4
<1>6. UidsIn(s) = { Uid(Before(s, i), Unescape(SubSeq(s, i + 2, Len(s) - 1))) : i \in { k } }
  BY <1>5 DEF UidsIn
<1>7. UidsIn(s) = { Uid(Before(s, k), Unescape(SubSeq(s, k + 2, Len(s) - 1))) }
  BY <1>6
<1> QED BY <1>1, <1>2, <1>7

LEMMA UidType ==
    ASSUME NEW tn \in Texts, NEW id \in Texts
    PROVE  Uid(tn, id) \in Uids /\ Uid(tn, id).type # <<>>
<1>1. SplitBy(tn, "::") \in Seq(Texts) /\ SplitBy(tn, "::") # <<>>
  BY SplitType DEF Texts
<1> QED BY <1>1 DEF Uid, Uids

\* What is shown is read as it was.
LEMMA ShownRead ==
    ASSUME NEW tn \in Texts, IsTypeName(tn), NEW id \in Texts, id # <<>>,
           NEW s, Shown(s, tn, Escape(id))
    PROVE  Trim(s) = s /\ Parts(s) = Uid(tn, id)
<1>1. Escape(id) \in Texts
  BY EscapeType DEF Texts
<1>2. Trim(s) = s
  BY <1>1, ShownTrimmed
<1> DEFINE u == Uid(tn, id)
<1>3. UidsIn(s) = { u }
  BY ShownUid
<1>4. u.id # <<>>
  BY DEF Uid
<1> HIDE DEF u
<1>5. UidsIn(s) # {} /\ (CHOOSE v \in UidsIn(s) : TRUE) = u
  BY <1>3
<1>6. Parts(s) = u
  BY <1>4, <1>5 DEF Parts
<1> QED BY <1>2, <1>6 DEF u

----------------------------------------------------------------------------
(***************************************************************************)
(* Made values.                                                            *)
(***************************************************************************)
LEMMA NewIdType ==
    ASSUME TextConstants, NEW kind \in Kinds, NEW id \in Texts, NEW ns \in Seq(Texts)
    PROVE  \/ NewId(kind, id, ns) = Refused /\ (id = <<>> \/ ~IsTypeName(TypeOf(kind, ns)))
           \/ /\ id # <<>> /\ IsTypeName(TypeOf(kind, ns))
              /\ NewId(kind, id, ns) = [id |-> id, namespace |-> ns, uid |-> Uid(TypeOf(kind, ns), id)]
              /\ NewId(kind, id, ns) \in QualifiedIds /\ NewId(kind, id, ns) # Refused
<1> DEFINE tn == TypeOf(kind, ns)
           r == [id |-> id, namespace |-> ns, uid |-> Uid(tn, id)]
<1>1. tn \in Texts
  BY SplitTyped DEF Texts
<1>2. NewId(kind, id, ns) = IF id = <<>> \/ ~IsTypeName(tn) THEN Refused ELSE r
  BY DEF NewId, TypeOf
<1> HIDE DEF tn
<1>3. Uid(tn, id) \in Uids
  BY <1>1, UidType
<1>4. r \in QualifiedIds /\ r # Refused
  <2>1. r \in QualifiedIds
    BY <1>3 DEF QualifiedIds
  <2> QED BY <2>1 DEF TextConstants
<1> HIDE DEF r
<1>5. CASE id = <<>> \/ ~IsTypeName(tn)
  BY <1>2, <1>5 DEF tn
<1>6. CASE ~(id = <<>> \/ ~IsTypeName(tn))
  BY <1>2, <1>4, <1>6 DEF tn, r
<1> QED BY <1>5, <1>6

\* A name of a kind that was made.
IsOf(kind, r) ==
    /\ r \in QualifiedIds /\ r # Refused
    /\ r.id # <<>> /\ IsTypeName(TypeOf(kind, r.namespace))
    /\ r.uid = Uid(TypeOf(kind, r.namespace), r.id)

LEMMA NewIdIs ==
    ASSUME TextConstants, NEW kind \in Kinds, NEW id \in Texts, NEW ns \in Seq(Texts),
           NEW r, r = NewId(kind, id, ns), r # Refused
    PROVE  IsOf(kind, r) /\ r.id = id /\ r.namespace = ns
<1>1. /\ id # <<>> /\ IsTypeName(TypeOf(kind, ns)) /\ r \in QualifiedIds
      /\ r = [id |-> id, namespace |-> ns, uid |-> Uid(TypeOf(kind, ns), id)]
  BY NewIdType
<1>2. r.id = id /\ r.namespace = ns /\ r.uid = Uid(TypeOf(kind, ns), id)
  BY <1>1
<1> QED BY <1>1, <1>2 DEF IsOf

LEMMA IsNewId ==
    ASSUME TextConstants, NEW kind \in Kinds, NEW r, IsOf(kind, r)
    PROVE  r.id \in Texts /\ r.namespace \in Seq(Texts) /\ r = NewId(kind, r.id, r.namespace)
<1>1. r.id \in Texts /\ r.namespace \in Seq(Texts)
      /\ r = [id |-> r.id, namespace |-> r.namespace, uid |-> r.uid]
  BY DEF IsOf, QualifiedIds
<1>2. NewId(kind, r.id, r.namespace) =
         [id |-> r.id, namespace |-> r.namespace, uid |-> Uid(TypeOf(kind, r.namespace), r.id)]
  BY <1>1, NewIdType DEF IsOf
<1> QED BY <1>1, <1>2 DEF IsOf

\* The id in normal form names the same entity.
LEMMA IdOfUid ==
    ASSUME TextConstants, NEW kind \in Kinds, NEW r, IsOf(kind, r)
    PROVE  IdOf(kind, r.uid) # Refused /\ IdOf(kind, r.uid).uid = r.uid /\ IsOf(kind, IdOf(kind, r.uid))
<1> DEFINE ns == r.namespace
           id == r.id
           tn == TypeOf(kind, ns)
           ts == SplitBy(tn, "::")
<1>1. id \in Texts /\ ns \in Seq(Texts)
  BY IsNewId
<1>2. tn \in Texts /\ Heads(ns) \in Seq(Texts) /\ ts = Append(Heads(ns), <<kind>>)
  BY <1>1, SplitTyped DEF Texts
<1>3. <<kind>> \in Texts
  BY KindText DEF Texts
<1>4. r.uid = Uid(tn, id) /\ IsTypeName(tn) /\ id # <<>>
  BY DEF IsOf
<1>5. r.uid.type = ts /\ r.uid.id = id /\ r.uid \in Uids
  BY <1>1, <1>2, <1>4, UidType DEF Uid
<1>6. Join(ts) = tn
  BY <1>2, JoinSplit DEF Texts
<1> HIDE DEF id, tn, ts, ns
<1> DEFINE h == Heads(ns)
<1>7. Front(ts) = h /\ Last(ts) = <<kind>> /\ ts # <<>>
  <2> HIDE DEF h
  <2> DEFINE w == <<kind>>
  <2> HIDE DEF w
  <2>1. Append(h, w) # <<>> /\ Front(Append(h, w)) = h /\ Last(Append(h, w)) = w
    BY <1>2, <1>3, FrontLastAppend, AppendProperties DEF h, w
  <2> QED BY <1>2, <2>1 DEF h, w
<1>8. TypeOf(kind, h) = tn
  BY <1>2, <1>6 DEF TypeOf
<1>9. r.uid # Refused
  BY <1>5 DEF TextConstants
<1>10. IdOf(kind, r.uid) = NewId(kind, id, h)
  BY <1>5, <1>7, <1>9 DEF IdOf
<1> DEFINE n == NewId(kind, id, h)
<1>11. n = [id |-> id, namespace |-> h, uid |-> Uid(tn, id)] /\ n # Refused
  BY <1>1, <1>2, <1>4, <1>8, NewIdType
<1>12. IsOf(kind, n)
  BY <1>1, <1>2, <1>11, NewIdIs
<1>13. n.uid = Uid(tn, id)
  BY <1>11
<1> QED BY <1>4, <1>10, <1>11, <1>12, <1>13

LEMMA NameReadsBack ==
    ASSUME TextConstants, NEW kind \in Kinds, NEW r, IsOf(kind, r)
    PROVE  /\ Trim(Show(r.uid)) = Show(r.uid)
           /\ IdFrom(kind, Show(r.uid)) # Refused /\ IdFrom(kind, Show(r.uid)).uid = r.uid
           /\ IsOf(kind, IdFrom(kind, Show(r.uid)))
<1> DEFINE tn == TypeOf(kind, r.namespace)
           s == Show(r.uid)
<1>1. r.id \in Texts /\ r.namespace \in Seq(Texts)
  BY IsNewId
<1>2. tn \in Texts
  BY <1>1, SplitTyped DEF Texts
<1>3. r.uid = Uid(tn, r.id) /\ IsTypeName(tn) /\ r.id # <<>>
  BY DEF IsOf
<1>4. Shown(s, tn, Escape(r.id))
  BY <1>1, <1>2, <1>3, ShowShown
<1>5. Trim(s) = s /\ Parts(s) = r.uid
  BY <1>1, <1>2, <1>3, <1>4, ShownRead
<1>6. IdFrom(kind, s) = IdOf(kind, r.uid)
  BY <1>5 DEF IdFrom
<1> QED BY <1>5, <1>6, IdOfUid

(***************************************************************************)
(* Brackets outside of quotes.                                             *)
(***************************************************************************)
Brackets == {"[", "]"}
State(t) == Quoting(t)[Len(t)]
Openings(t) == { i \in At(t, "[") \cup At(t, "]") : Quoting(t)[i - 1] = "plain" }

LEMMA PairAppend == ASSUME NEW A, NEW c \in A, NEW x \in A PROVE Append(<<c>>, x) = <<c, x>>
<1> DEFINE s == <<c>>
<1>1. s \in Seq(A) /\ Len(s) = 1 /\ s[1] = c
  OBVIOUS
<1> HIDE DEF s
<1> DEFINE u == Append(s, x)
           v == <<c, x>>
<1>2. u \in Seq(A) /\ Len(u) = Len(s) + 1 /\ (\A i \in 1..Len(s) : u[i] = s[i]) /\ u[Len(s) + 1] = x
  BY <1>1, AppendProperties
<1>3. v \in Seq(A) /\ Len(v) = 2 /\ v[1] = c /\ v[2] = x
  OBVIOUS
<1> HIDE DEF u, v
<1>4. 1 + 1 = 2 /\ 1 \in 1..1
  OBVIOUS
<1>5. Len(u) = 2 /\ u[1] = c /\ u[2] = x
  BY <1>1, <1>2, <1>4
<1>6. \A i \in 1..2 : u[i] = v[i]
  BY <1>3, <1>5
<1>7. u = v
  BY <1>2, <1>3, <1>5, <1>6, SeqEqual
<1> QED BY <1>7 DEF u, v, s

LEMMA QuotingAppend ==
    ASSUME NEW A, NEW t \in Seq(A), NEW x \in A
    PROVE  /\ \A i \in 0..Len(t) : Quoting(Append(t, x))[i] = Quoting(t)[i]
           /\ State(Append(t, x)) = AfterChar(State(t), x)
           /\ State(t) \in QuotingStates
<1> DEFINE n == Len(t)
           u == Append(t, x)
           f == Quoting(t)
           g == Quoting(u)
<1>1. n \in Nat /\ u \in Seq(A) /\ Len(u) = n + 1
  BY AppendProperties, LenProperties
<1>2. (\A i \in 1..n : u[i] = t[i]) /\ u[n + 1] = x
  BY AppendProperties
<1>3. QuotingRun(f, n, t)
  BY QuotingRuns
<1>4. QuotingRun(g, n + 1, u)
  BY <1>1, QuotingRuns
<1> HIDE DEF n, u, f, g
<1>5. InStep(f, g, 1, n)
  <2> SUFFICES ASSUME NEW i \in 1..n, f[i - 1] = g[i - 1] PROVE f[i] = g[i]
    BY DEF InStep
  <2>1. i \in 1..(n + 1)
    BY <1>1
  <2>2. f[i] = AfterChar(f[i - 1], t[i])
    BY <1>3 DEF QuotingRun
  <2>3. g[i] = AfterChar(g[i - 1], u[i])
    BY <1>4, <2>1 DEF QuotingRun
  <2>4. u[i] = t[i]
    BY <1>2
  <2> QED BY <2>2, <2>3, <2>4
<1>6. f[0] = g[0] /\ n \in Nat /\ 0 \in Nat /\ 1 = 0 + 1
  BY <1>1, <1>3, <1>4 DEF QuotingRun
<1>7. \A i \in 0..n : f[i] = g[i]
  BY <1>5, <1>6, AgreeAll
<1>8. n + 1 \in 1..(n + 1) /\ (n + 1) - 1 = n /\ n \in 0..n
  BY <1>1
<1>9. g[n + 1] = AfterChar(g[n], u[n + 1])
  BY <1>4, <1>8 DEF QuotingRun
<1>10. f[n] = g[n] /\ f[n] \in QuotingStates
  BY <1>3, <1>7, <1>8 DEF QuotingRun
<1>11. State(u) = AfterChar(State(t), x)
  BY <1>1, <1>2, <1>9, <1>10 DEF State, f, g, n
<1> QED BY <1>7, <1>10, <1>11 DEF u, f, g, n, State

LEMMA OpeningsAppend ==
    ASSUME NEW A, NEW t \in Seq(A), NEW x \in A
    PROVE  Openings(Append(t, x)) =
              Openings(t) \cup (IF x \in Brackets /\ State(t) = "plain" THEN { Len(t) + 1 } ELSE {})
<1> DEFINE n == Len(t)
           u == Append(t, x)
           f == Quoting(t)
           g == Quoting(u)
<1>1. n \in Nat /\ DOMAIN t = 1..n /\ DOMAIN u = 1..(n + 1)
  BY AppendProperties, LenProperties
<1>2. (\A i \in 1..n : u[i] = t[i]) /\ u[n + 1] = x
  BY AppendProperties
<1>3. \A i \in 0..n : g[i] = f[i]
  BY QuotingAppend
<1>4. State(t) = f[n]
  BY DEF State
<1> HIDE DEF n, u, f, g
<1>5. Openings(t) = { i \in 1..n : t[i] \in Brackets /\ f[i - 1] = "plain" }
  BY <1>1 DEF Openings, At, Brackets, f
<1>6. Openings(u) = { i \in 1..(n + 1) : u[i] \in Brackets /\ g[i - 1] = "plain" }
  BY <1>1 DEF Openings, At, Brackets, g
<1>7. ASSUME NEW i \in 1..n PROVE (u[i] \in Brackets /\ g[i - 1] = "plain") <=> (t[i] \in Brackets /\ f[i - 1] = "plain")
  <2>1. i - 1 \in 0..n
    BY <1>1
  <2> QED BY <1>2, <1>3, <2>1
<1>8. (u[n + 1] \in Brackets /\ g[(n + 1) - 1] = "plain") <=> (x \in Brackets /\ State(t) = "plain")
  <2>1. (n + 1) - 1 = n /\ n \in 0..n
    BY <1>1
  <2> QED BY <1>2, <1>3, <1>4, <2>1
<1>9. ASSUME NEW i PROVE i \in 1..(n + 1) <=> i \in 1..n \/ i = n + 1
  BY <1>1
<1>10. Openings(u) = Openings(t) \cup (IF x \in Brackets /\ State(t) = "plain" THEN { n + 1 } ELSE {})
  BY <1>5, <1>6, <1>7, <1>8, <1>9
<1> QED BY <1>10 DEF u, n

\* No bracket outside of quotes, and the state at the end.
Quiet(t, q) == Openings(t) = {} /\ State(t) = q

LEMMA QuietEmpty == Quiet(<<>>, "plain")
<1> DEFINE t == <<>>
<1>1. t \in Seq(Chars) /\ Len(t) = 0 /\ DOMAIN t = {}
  BY EmptySeq
<1> HIDE DEF t
<1>2. QuotingRun(Quoting(t), 0, t)
  BY <1>1, QuotingRuns
<1>3. Quoting(t)[0] = "plain"
  BY <1>2 DEF QuotingRun
<1>4. Quiet(t, "plain")
  BY <1>1, <1>3 DEF Quiet, State, Openings, At
<1> QED BY <1>4 DEF t

LEMMA QuietStep ==
    ASSUME NEW A, NEW t \in Seq(A), NEW x \in A, NEW q, Quiet(t, q), ~(x \in Brackets /\ q = "plain")
    PROVE  Quiet(Append(t, x), AfterChar(q, x))
<1>1. Openings(t) = {} /\ State(t) = q
  BY DEF Quiet
<1>2. Openings(Append(t, x)) = {}
  BY <1>1, OpeningsAppend
<1>3. State(Append(t, x)) = AfterChar(q, x)
  BY <1>1, QuotingAppend
<1> QED BY <1>2, <1>3 DEF Quiet

LEMMA QuietPlain ==
    \A t \in Seq(Chars) : ~Has(t, Brackets \cup {"\""}) => Quiet(t, "plain")
<1> DEFINE cs == Brackets \cup {"\""}
           P == { t \in Seq(Chars) : ~Has(t, cs) => Quiet(t, "plain") }
<1>1. <<>> \in P
  BY QuietEmpty, EmptySeq
<1>2. ASSUME NEW t \in Seq(Chars), NEW x \in Chars, t \in P PROVE Append(t, x) \in P
  <2>1. Append(t, x) \in Seq(Chars)
    BY AppendProperties
  <2> SUFFICES ASSUME ~Has(Append(t, x), cs) PROVE Quiet(Append(t, x), "plain")
    BY <2>1
  <2>2. ~Has(t, cs) /\ x \notin cs
    BY HasAppend
  <2>3. AfterChar("plain", x) = "plain"
    BY <2>2 DEF AfterChar
  <2>4. Quiet(t, "plain") /\ ~(x \in Brackets /\ "plain" = "plain")
    BY <1>2, <2>2
  <2> QED BY <2>3, <2>4, QuietStep
<1> HIDE DEF P
<1>3. Seq(Chars) \subseteq P
  BY <1>1, <1>2, Appending
<1> QED BY <1>3 DEF P

LEMMA QuietEscape ==
    ASSUME NEW t \in Seq(Chars), Quiet(t, "quoted")
    PROVE  \A id \in Seq(Chars) : Quiet(t \o Escape(id), "quoted")
<1> DEFINE P == { id \in Seq(Chars) : Quiet(t \o Escape(id), "quoted") }
<1>1. <<>> \in P
  BY EscapeEmpty, ConcatEmptySeq, EmptySeq
<1>2. ASSUME NEW id \in Seq(Chars), NEW x \in Chars, id \in P PROVE Append(id, x) \in P
  <2> DEFINE e == Escape(id)
             b == t \o e
  <2>1. e \in Seq(Chars) /\ b \in Seq(Chars) /\ Append(id, x) \in Seq(Chars)
    BY EscapeType, ConcatProperties, AppendProperties
  <2>2. Escape(Append(id, x)) = e \o EscapeChar(x) /\ EscapeChar(x) \in Seq(Chars)
    BY EscapeAppend, EscapeCharType
  <2>3. t \o (e \o EscapeChar(x)) = b \o EscapeChar(x)
    BY <2>1, <2>2, ConcatAssociative
  <2>4. Quiet(b, "quoted")
    BY <1>2
  <2> HIDE DEF e, b
  <2>5. Quiet(b \o EscapeChar(x), "quoted")
    <3>1. CASE x \in {"\"", "\\"}
      <4> DEFINE q == "\\"
                 c == Append(b, q)
      <4>1. q \in Chars /\ c \in Seq(Chars)
        BY <2>1, MarksAreChars, AppendProperties DEF Marks
      <4>2. AfterChar("quoted", q) = "escaped" /\ AfterChar("escaped", x) = "quoted"
        BY DEF AfterChar
      <4>3. Quiet(c, "escaped")
        <5>1. ~(q \in Brackets /\ "quoted" = "plain")
          OBVIOUS
        <5> HIDE DEF q
        <5> QED BY <2>1, <2>4, <4>1, <4>2, <5>1, QuietStep
      <4> HIDE DEF c, q
      <4>4. Quiet(Append(c, x), "quoted")
        <5>1. ~(x \in Brackets /\ "escaped" = "plain")
          OBVIOUS
        <5> QED BY <4>1, <4>2, <4>3, <5>1, QuietStep
      <4>5. b \o EscapeChar(x) = Append(c, x)
        <5>1. EscapeChar(x) = <<q, x>>
          BY <3>1, Zenon DEF EscapeChar, q
        <5>5. <<q>> \in Seq(Chars)
          BY <4>1
        <5>2. <<q, x>> = Append(<<q>>, x)
          OBVIOUS
        <5>3. b \o Append(<<q>>, x) = Append(b \o <<q>>, x)
          BY <2>1, <5>5, ConcatAppend
        <5>4. b \o <<q>> = c
          BY <2>1, <4>1, AppendIsConcat DEF c
        <5> QED BY <5>1, <5>2, <5>3, <5>4
      <4> QED BY <4>4, <4>5
    <3>2. CASE x \notin {"\"", "\\"}
      <4>1. AfterChar("quoted", x) = "quoted"
        BY <3>2 DEF AfterChar
      <4>2. b \o EscapeChar(x) = Append(b, x)
        BY <2>1, <3>2, AppendIsConcat DEF EscapeChar
      <4>3. ~(x \in Brackets /\ "quoted" = "plain")
        OBVIOUS
      <4> QED BY <2>1, <2>4, <4>1, <4>2, <4>3, QuietStep
    <3> QED BY <3>1, <3>2
  <2> QED BY <2>1, <2>2, <2>3, <2>5 DEF e, b
<1> HIDE DEF P
<1>3. Seq(Chars) \subseteq P
  BY <1>1, <1>2, Appending
<1> QED BY <1>3 DEF P

\* Whatever the id holds, it is not taken for groups.
LEMMA ShowQuiet ==
    ASSUME NEW tn \in Texts, IsTypeName(tn), NEW id \in Texts
    PROVE  Quiet(Show(Uid(tn, id)), "plain")
<1> DEFINE c == "::"
           q == "\""
           e == Escape(id)
           a == Append(tn, c)
           b == Append(a, q)
           d == b \o e
<1>1. c \in Chars /\ q \in Chars /\ e \in Seq(Chars) /\ tn \in Seq(Chars)
  BY MarksAreChars, EscapeType DEF Marks, Texts
<1>2. ~Has(tn, Marks \ {"::"})
  BY TypeNameChars DEF Texts
<1>3. ~Has(a, Brackets \cup {"\""})
  <2>1. Brackets \cup {"\""} \subseteq Marks \ {"::"} /\ c \notin Brackets \cup {"\""}
    BY DEF Brackets, Marks
  <2>2. ~Has(tn, Brackets \cup {"\""})
    BY <1>2, <2>1 DEF Has
  <2> QED BY <1>1, <2>1, <2>2, HasAppend
<1>4. ~(q \in Brackets /\ "plain" = "plain") /\ ~(q \in Brackets /\ "quoted" = "plain")
      /\ AfterChar("plain", q) = "quoted" /\ AfterChar("quoted", q) = "plain"
  BY DEF Brackets, AfterChar
<1>5. a \o <<q>> = tn \o <<c, q>>
  <2>1. <<c>> \in Seq(Chars) /\ <<q>> \in Seq(Chars)
    <3> HIDE DEF c, q
    <3> QED BY <1>1
  <2> HIDE DEF c, q
  <2>2. <<c>> \o <<q>> = <<c, q>>
    <3>1. Append(<<c>>, q) = <<c, q>>
      BY <1>1, PairAppend
    <3> QED BY <1>1, <2>1, <3>1, AppendIsConcat
  <2>3. a = tn \o <<c>>
    BY <1>1, AppendIsConcat
  <2>4. (tn \o <<c>>) \o <<q>> = tn \o (<<c>> \o <<q>>)
    BY <1>1, <2>1, ConcatAssociative
  <2> QED BY <2>2, <2>3, <2>4
<1>6. Show(Uid(tn, id)) = ((tn \o <<c, q>>) \o e) \o <<q>>
  BY ShowIs
<1> HIDE DEF c, q, e
<1>7. a \in Seq(Chars) /\ b \in Seq(Chars) /\ d \in Seq(Chars)
  <2>1. a \in Seq(Chars)
    BY <1>1, AppendProperties
  <2>2. b \in Seq(Chars)
    BY <1>1, <2>1, AppendProperties
  <2> QED BY <1>1, <2>1, <2>2, ConcatProperties
<1>8. Quiet(a, "plain")
  BY <1>3, <1>7, QuietPlain
<1>9. Show(Uid(tn, id)) = Append(d, q)
  <2>1. b = a \o <<q>>
    BY <1>1, <1>7, AppendIsConcat
  <2>2. d \o <<q>> = Append(d, q)
    BY <1>1, <1>7, AppendIsConcat
  <2> QED BY <1>5, <1>6, <2>1, <2>2
<1>10. Quiet(b, "quoted")
  <2> HIDE DEF a
  <2> QED BY <1>1, <1>4, <1>7, <1>8, QuietStep
<1> HIDE DEF a, b
<1>11. Quiet(d, "quoted")
  BY <1>1, <1>7, <1>10, QuietEscape DEF e, Texts
<1> HIDE DEF d
<1>12. Quiet(Append(d, q), "plain")
  BY <1>1, <1>4, <1>7, <1>11, QuietStep
<1> QED BY <1>9, <1>12

(***************************************************************************)
(* What is read is of its type.                                            *)
(***************************************************************************)
LEMMA SubText ==
    ASSUME NEW t \in Texts, NEW i \in Nat, i >= 1, NEW j \in Int, j <= Len(t)
    PROVE  SubSeq(t, i, j) \in Texts
<1> DEFINE n == Len(t)
<1>1. n \in Nat /\ \A k \in 1..n : t[k] \in Chars
  BY LenProperties, ElementOfSeq DEF Texts
<1>2. \A k \in i..j : k \in 1..n
  BY <1>1
<1>3. \A k \in i..j : t[k] \in Chars
  BY <1>1, <1>2
<1>4. i \in Int
  OBVIOUS
<1> QED BY <1>3, <1>4, SubSeqProperties DEF Texts

LEMMA AroundText ==
    ASSUME NEW t \in Texts, NEW c, NEW i \in At(t, c)
    PROVE  Before(t, i) \in Texts /\ After(t, i) \in Texts /\ i \in 1..Len(t)
<1>1. i \in 1..Len(t)
  BY Positions DEF At
<1> QED BY <1>1, BeforeAt, AfterAt DEF Texts

LEMMA UidsInType ==
    ASSUME NEW t \in Texts, NEW u \in UidsIn(t)
    PROVE  u \in Uids /\ u.type # <<>>
<1>1. PICK i \in At(t, "::") : /\ IsLiteral(After(t, i))
                               /\ u = Uid(Before(t, i), Unescape(SubSeq(t, i + 2, Len(t) - 1)))
  BY DEF UidsIn
<1>2. Before(t, i) \in Texts /\ i \in 1..Len(t) /\ Len(t) \in Nat
  BY AroundText, Positions
<1> DEFINE b == SubSeq(t, i + 2, Len(t) - 1)
<1>3. b \in Texts
  <2>1. i + 2 \in Nat /\ i + 2 >= 1 /\ Len(t) - 1 \in Int /\ Len(t) - 1 <= Len(t)
    BY <1>2
  <2> QED BY <2>1, SubText
<1> HIDE DEF b
<1>4. Unescape(b) \in Texts
  BY <1>3, UnescapeType DEF Texts
<1> QED BY <1>1, <1>2, <1>4, UidType DEF b

LEMMA SeparatorAt ==
    ASSUME NEW t \in Texts, Has(t, {"::"})
    PROVE  Separator(t) \in At(t, "::") /\ \A i \in At(t, "::") : i <= Separator(t)
<1>1. Len(t) \in Nat /\ At(t, "::") \in SUBSET (1..Len(t)) /\ At(t, "::") # {}
  <2>1. DOMAIN t = 1..Len(t) /\ Len(t) \in Nat
    BY Positions
  <2>2. At(t, "::") \subseteq DOMAIN t /\ At(t, "::") # {}
    BY DEF At, Has
  <2> QED BY <2>1, <2>2
<1> QED BY <1>1, MaxIn DEF Separator

LEMMA PartsType ==
    ASSUME NEW t \in Texts
    PROVE  Parts(t) = Refused \/ Parts(t) \in Uids
<1>1. CASE UidsIn(t) # {}
  <2>1. PICK u \in UidsIn(t) : u = CHOOSE v \in UidsIn(t) : TRUE
    BY <1>1
  <2>2. Parts(t) = IF u.id = <<>> THEN Refused ELSE u
    BY <1>1, <2>1 DEF Parts
  <2> QED BY <2>2, UidsInType
<1>2. CASE UidsIn(t) = {} /\ ~Has(t, {"::"})
  <2>1. Parts(t) = IF t = <<>> \/ Has(t, {"\"", "\\"}) THEN Refused ELSE [type |-> <<>>, id |-> t]
    BY <1>2 DEF Parts
  <2>2. [type |-> <<>>, id |-> t] \in Uids
    BY EmptySeq DEF Uids
  <2> QED BY <2>1, <2>2
<1>3. CASE UidsIn(t) = {} /\ Has(t, {"::"})
  <2> DEFINE b == Before(t, Separator(t))
             a == After(t, Separator(t))
  <2>1. Parts(t) = Shorthand(b, a)
    BY <1>3 DEF Parts
  <2>2. b \in Texts /\ a \in Texts
    BY <1>3, SeparatorAt, AroundText
  <2> HIDE DEF a, b
  <2>3. Shorthand(b, a) = Refused \/ Shorthand(b, a) = Uid(b, a)
    BY DEF Shorthand
  <2> QED BY <2>1, <2>2, <2>3, UidType
<1> QED BY <1>1, <1>2, <1>3

LEMMA IdOfIs ==
    ASSUME TextConstants, NEW kind \in Kinds, NEW parts, parts = Refused \/ parts \in Uids
    PROVE  IdOf(kind, parts) = Refused \/ IsOf(kind, IdOf(kind, parts))
<1> SUFFICES ASSUME parts \in Uids, IdOf(kind, parts) # Refused, parts # Refused
             PROVE  IsOf(kind, IdOf(kind, parts))
  BY DEF IdOf
<1> DEFINE ns == IF parts.type = <<>> THEN <<>> ELSE Front(parts.type)
<1>1. IdOf(kind, parts) = NewId(kind, parts.id, ns)
  BY DEF IdOf
<1>2. parts.id \in Texts /\ parts.type \in Seq(Texts)
  BY DEF Uids
<1>3. ns \in Seq(Texts)
  BY <1>2, ListParts, EmptySeq
<1> HIDE DEF ns
<1> QED BY <1>1, <1>2, <1>3, NewIdIs

LEMMA IdFromIs ==
    ASSUME TextConstants, NEW kind \in Kinds, NEW t \in Texts
    PROVE  IdFrom(kind, t) = Refused \/ IsOf(kind, IdFrom(kind, t))
  BY TrimType, PartsType, IdOfIs DEF IdFrom

\* Parts of a text, each trimmed.
LEMMA TrimmedParts ==
    ASSUME NEW t \in Texts, NEW c
    PROVE  [i \in DOMAIN SplitBy(t, c) |-> Trim(SplitBy(t, c)[i])] \in Seq(Texts)
<1> DEFINE ps == SplitBy(t, c)
<1>1. ps \in Seq(Texts)
  BY SplitType DEF Texts
<1> HIDE DEF ps
<1>2. Len(ps) \in Nat /\ DOMAIN ps = 1..Len(ps) /\ \A i \in 1..Len(ps) : ps[i] \in Texts
  BY <1>1, LenProperties, ElementOfSeq
<1>3. \A i \in 1..Len(ps) : Trim(ps[i]) \in Texts
  BY <1>2, TrimType
<1>4. [i \in 1..Len(ps) |-> Trim(ps[i])] \in Seq(Texts)
  BY <1>2, <1>3, SeqDef
<1> QED BY <1>2, <1>4 DEF ps

LEMMA GroupListType ==
    ASSUME NEW t \in Texts
    PROVE  GroupList(t) = Refused \/ GroupList(t) \in Seq(Texts)
  BY TrimmedParts, EmptySeq DEF GroupList

LEMMA OpeningsIn ==
    ASSUME NEW t \in Texts
    PROVE  Openings(t) \in SUBSET (1..Len(t)) /\ Openings(t) \in SUBSET Nat
<1>1. DOMAIN t = 1..Len(t) /\ Len(t) \in Nat
  BY Positions
<1>2. Openings(t) \subseteq DOMAIN t
  BY DEF Openings, At
<1> QED BY <1>1, <1>2

LEMMA UserAndGroupsType ==
    ASSUME NEW t \in Texts
    PROVE  UserAndGroups(t) = Refused \/ UserAndGroups(t) \in Splits
<1> DEFINE input == Trim(t)
           found == Openings(input)
           start == Min(found)
           list == GroupList(SubSeq(input, start + 1, Len(input) - 1))
<1>1. input \in Texts
  BY TrimType
<1>2. \/ found = {} /\ UserAndGroups(t) = [name |-> input, groups |-> <<>>]
      \/ UserAndGroups(t) = Refused
      \/ /\ found # {} /\ list # Refused
         /\ UserAndGroups(t) = [name |-> Trim(Before(input, start)), groups |-> list]
  BY DEF UserAndGroups, Openings
<1> HIDE DEF input, found
<1>3. CASE UserAndGroups(t) = [name |-> input, groups |-> <<>>]
  BY <1>1, <1>3, EmptySeq DEF Splits
<1>4. CASE found # {} /\ list # Refused
           /\ UserAndGroups(t) = [name |-> Trim(Before(input, start)), groups |-> list]
  <2>1. start \in 1..Len(input) /\ Len(input) \in Nat
    BY <1>1, <1>4, OpeningsIn, MinIn, Positions DEF found
  <2> HIDE DEF start
  <2>2. Before(input, start) \in Texts
    BY <1>1, <2>1, BeforeAt DEF Texts
  <2>3. SubSeq(input, start + 1, Len(input) - 1) \in Texts
    <3>1. start + 1 \in Nat /\ start + 1 >= 1 /\ Len(input) - 1 \in Int /\ Len(input) - 1 <= Len(input)
      BY <2>1
    <3> QED BY <1>1, <3>1, SubText
  <2>4. list \in Seq(Texts)
    BY <1>4, <2>3, GroupListType
  <2>5. Trim(Before(input, start)) \in Texts
    BY <2>2, TrimType
  <2> HIDE DEF list
  <2> QED BY <1>4, <2>4, <2>5 DEF Splits
<1> QED BY <1>2, <1>3, <1>4

----------------------------------------------------------------------------
(***************************************************************************)
(* Users: of a name and of groups of its namespace.                        *)
(***************************************************************************)
IsUser(v) ==
    /\ v \in Users /\ v # Refused /\ IsOf("User", v.user)
    /\ \A i \in DOMAIN v.groups : IsOf("Group", v.groups[i]) /\ v.groups[i].namespace = v.user.namespace

Together(u, gs, n) == \A i \in 1..n : IsOf("Group", gs[i]) /\ gs[i].namespace = u.namespace

LEMMA UserIs ==
    ASSUME TextConstants, NEW u, IsOf("User", u), NEW n \in Nat, NEW gs, Together(u, gs, n),
           NEW v, v = [user |-> u, groups |-> [i \in 1..n |-> gs[i]]]
    PROVE  IsUser(v)
<1>0. \A i \in 1..n : IsOf("Group", gs[i]) /\ gs[i].namespace = u.namespace
  BY DEF Together
<1> DEFINE ms == [i \in 1..n |-> gs[i]]
<1>1. \A i \in 1..n : gs[i] \in QualifiedIds
  BY <1>0 DEF IsOf
<1>2. ms \in Seq(QualifiedIds) /\ DOMAIN ms = 1..n /\ \A i \in 1..n : ms[i] = gs[i]
  BY <1>1, SeqDef
<1> HIDE DEF ms
<1>3. u \in QualifiedIds
  BY DEF IsOf
<1>4. v \in Users /\ v.user = u /\ v.groups = ms
  BY <1>2, <1>3 DEF ms, Users
<1>5. v # Refused
  BY <1>4 DEF TextConstants
<1> QED BY <1>0, <1>2, <1>4, <1>5 DEF IsUser

LEMMA NewUserIs ==
    ASSUME TextConstants, NEW id \in Texts, NEW groups \in Seq(Texts), NEW ns \in Seq(Texts)
    PROVE  NewUser(id, groups, ns) = Refused \/ IsUser(NewUser(id, groups, ns))
<1> DEFINE u == NewId("User", id, ns)
           made == [i \in DOMAIN groups |-> NewGroup(groups[i], ns)]
           n == Len(groups)
<1> SUFFICES ASSUME u # Refused, \A i \in DOMAIN made : made[i] # Refused,
                    NewUser(id, groups, ns) = [user |-> u, groups |-> made]
             PROVE  IsUser(NewUser(id, groups, ns))
  BY DEF NewUser
<1>1. n \in Nat /\ DOMAIN groups = 1..n /\ \A i \in 1..n : groups[i] \in Texts
  BY LenProperties, ElementOfSeq
<1>2. made = [i \in 1..n |-> made[i]] /\ DOMAIN made = 1..n
  BY <1>1
<1>3. "User" \in Kinds /\ "Group" \in Kinds
  BY DEF Kinds
<1>4. IsOf("User", u) /\ u.namespace = ns
  BY <1>3, NewIdIs
<1>5. ASSUME NEW i \in 1..n PROVE IsOf("Group", made[i]) /\ made[i].namespace = ns
  <2>1. made[i] = NewId("Group", groups[i], ns) /\ made[i] # Refused
    BY <1>1, <1>5 DEF NewGroup
  <2> HIDE DEF made
  <2> QED BY <1>1, <1>3, <2>1, NewIdIs
<1> DEFINE v == NewUser(id, groups, ns)
<1>6. v = [user |-> u, groups |-> [i \in 1..n |-> made[i]]]
  BY <1>2
<1> HIDE DEF u, made, n, v
<1>7. Together(u, made, n)
  BY <1>4, <1>5 DEF Together
<1>8. IsUser(v)
  BY <1>1, <1>4, <1>6, <1>7, UserIs
<1> QED BY <1>8 DEF v

LEMMA UserOfIs ==
    ASSUME TextConstants, NEW name, name = Refused \/ IsOf("User", name), NEW groups \in Seq(Texts)
    PROVE  UserOf(name, groups) = Refused \/ IsUser(UserOf(name, groups))
<1>1. CASE name = Refused
  BY <1>1 DEF UserOf
<1>2. CASE name # Refused
  <2>1. name.id \in Texts /\ name.namespace \in Seq(Texts)
    BY <1>2, IsNewId DEF Kinds
  <2>2. UserOf(name, groups) = NewUser(name.id, groups, name.namespace)
    BY <1>2 DEF UserOf
  <2> QED BY <2>1, <2>2, NewUserIs
<1> QED BY <1>1, <1>2

LEMMA UserFromIs ==
    ASSUME TextConstants, NEW t \in Texts
    PROVE  UserFrom(t) = Refused \/ IsUser(UserFrom(t))
<1> DEFINE split == UserAndGroups(t)
<1>1. split = Refused \/ split \in Splits
  BY UserAndGroupsType
<1>2. UserFrom(t) = IF split = Refused THEN Refused
                    ELSE UserOf(IdFrom("User", split.name), split.groups)
  BY DEF UserFrom
<1> HIDE DEF split
<1>3. CASE split = Refused
  BY <1>2, <1>3
<1>4. CASE split # Refused
  <2>1. split.name \in Texts /\ split.groups \in Seq(Texts)
    BY <1>1, <1>4 DEF Splits
  <2>2. IdFrom("User", split.name) = Refused \/ IsOf("User", IdFrom("User", split.name))
    BY <2>1, IdFromIs DEF Kinds
  <2> QED BY <1>2, <1>4, <2>1, <2>2, UserOfIs
<1> QED BY <1>3, <1>4

LEMMA UserReadsBack ==
    ASSUME TextConstants, NEW r, IsOf("User", r)
    PROVE  /\ UserFrom(Show(r.uid)) # Refused
           /\ UserFrom(Show(r.uid)).user.uid = r.uid /\ UserFrom(Show(r.uid)).groups = <<>>
<1> DEFINE s == Show(r.uid)
           name == IdFrom("User", s)
           tn == TypeOf("User", r.namespace)
           split == [name |-> s, groups |-> <<>>]
<1>1. "User" \in Kinds
  BY DEF Kinds
<1>2. r.id \in Texts /\ r.namespace \in Seq(Texts) /\ tn \in Texts
  BY <1>1, IsNewId, SplitTyped DEF Texts
<1>3. r.uid = Uid(tn, r.id) /\ IsTypeName(tn)
  BY DEF IsOf
<1>4. Trim(s) = s /\ name # Refused /\ name.uid = r.uid /\ IsOf("User", name)
  BY <1>1, NameReadsBack
<1>5. Openings(s) = {} /\ s \in Texts
  BY <1>2, <1>3, ShowQuiet, ShowShown DEF Quiet, Shown
<1> HIDE DEF s, name
<1>6. UserAndGroups(s) = split
  BY <1>4, <1>5 DEF UserAndGroups, Openings
<1>7. split # Refused /\ split.name = s /\ split.groups = <<>>
  <2>1. split \in Splits
    BY <1>5, EmptySeq DEF Splits
  <2> QED BY <2>1 DEF TextConstants
<1> HIDE DEF split
<1>8. UserFrom(s) = UserOf(name, <<>>)
  BY <1>6, <1>7 DEF UserFrom, name
<1> DEFINE v == [user |-> name, groups |-> <<>>]
<1>9. UserOf(name, <<>>) = v
  <2>1. name = NewId("User", name.id, name.namespace)
    BY <1>1, <1>4, IsNewId
  <2>2. [i \in DOMAIN <<>> |-> NewGroup(<<>>[i], name.namespace)] = <<>>
    OBVIOUS
  <2>3. NewUser(name.id, <<>>, name.namespace) = v
    BY <1>4, <2>1, <2>2 DEF NewUser
  <2> QED BY <1>4, <2>3 DEF UserOf
<1>10. v \in Users
  BY <1>4, EmptySeq DEF Users, IsOf
<1>11. v # Refused /\ v.user = name /\ v.groups = <<>>
  BY <1>10 DEF TextConstants
<1> QED BY <1>4, <1>8, <1>9, <1>11 DEF s

\* A user and its groups are in one namespace.
LEMMA UserNamespace ==
    ASSUME TextConstants, NEW v, IsUser(v), NEW i \in DOMAIN v.groups
    PROVE  Front(v.groups[i].uid.type) = Front(v.user.uid.type)
<1> DEFINE ns == v.user.namespace
<1>1. ASSUME NEW kind \in Kinds, NEW r, IsOf(kind, r), r.namespace = ns
      PROVE  Front(r.uid.type) = Heads(ns)
  <2>1. r.namespace \in Seq(Texts) /\ r.id \in Texts
    BY <1>1, IsNewId
  <2>2. r.uid.type = SplitBy(TypeOf(kind, ns), "::")
    BY <1>1 DEF IsOf, Uid
  <2> HIDE DEF ns
  <2>3. Heads(ns) \in Seq(Texts) /\ r.uid.type = Append(Heads(ns), <<kind>>)
    BY <1>1, <2>1, <2>2, SplitTyped DEF Texts
  <2>4. <<kind>> \in Texts
    BY KindText DEF Texts
  <2> DEFINE h == Heads(ns)
             w == <<kind>>
  <2> HIDE DEF h, w
  <2>5. Front(Append(h, w)) = h
    BY <2>3, <2>4, FrontLastAppend DEF h, w
  <2> QED BY <2>3, <2>5 DEF h, w
<1>2. "User" \in Kinds /\ "Group" \in Kinds
  BY DEF Kinds
<1>3. IsOf("User", v.user) /\ IsOf("Group", v.groups[i]) /\ v.groups[i].namespace = ns
  BY DEF IsUser
<1> HIDE DEF ns
<1>4. v.user.namespace = ns
  BY DEF ns
<1> QED BY <1>1, <1>2, <1>3, <1>4

----------------------------------------------------------------------------
IsResource(r) ==
    /\ r = [kind |-> r.kind, id |-> r.id, attrs |-> r.attrs, uid |-> r.uid]
    /\ r.kind \in Texts /\ r.id \in Texts /\ r.id # <<>> /\ IsTypeName(r.kind)
    /\ r.uid = Uid(r.kind, r.id)

LEMMA NewResourceIs ==
    ASSUME TextConstants, NEW kind \in Texts, NEW id \in Texts
    PROVE  \/ NewResource(kind, id) = Refused /\ (id = <<>> \/ ~IsTypeName(kind))
           \/ /\ id # <<>> /\ IsTypeName(kind) /\ NewResource(kind, id) # Refused
              /\ NewResource(kind, id) = [kind |-> kind, id |-> id, attrs |-> <<>>, uid |-> Uid(kind, id)]
              /\ IsResource(NewResource(kind, id))
<1> DEFINE r == [kind |-> kind, id |-> id, attrs |-> <<>>, uid |-> Uid(kind, id)]
<1>1. NewResource(kind, id) = IF id = <<>> \/ ~IsTypeName(kind) THEN Refused ELSE r
  BY DEF NewResource
<1>2. r \in Resources
  BY UidType DEF Resources
<1>3. r # Refused
  BY <1>2 DEF TextConstants
<1>4. id # <<>> /\ IsTypeName(kind) => IsResource(r)
  <2>1. r.kind = kind /\ r.id = id /\ r.attrs = <<>> /\ r.uid = Uid(kind, id)
    OBVIOUS
  <2> QED BY <2>1 DEF IsResource
<1> HIDE DEF r
<1> QED BY <1>1, <1>3, <1>4 DEF r

LEMMA ResourceReadsBack ==
    ASSUME TextConstants, NEW r, IsResource(r)
    PROVE  ResourceFrom(Show(r.uid)) = [r EXCEPT !.attrs = <<>>]
<1> DEFINE s == Show(r.uid)
           u == r.uid
<1>1. /\ r.kind \in Texts /\ r.id \in Texts /\ r.id # <<>> /\ IsTypeName(r.kind)
      /\ u = Uid(r.kind, r.id)
  BY DEF IsResource
<1>2. Trim(s) = s /\ Parts(s) = u
  BY <1>1, ShowShown, ShownRead
<1>3. u \in Uids /\ u.type # <<>> /\ u.id = r.id /\ Join(u.type) = r.kind
  BY <1>1, UidType, JoinSplit DEF Uid, Texts
<1>4. u # Refused
  BY <1>3 DEF TextConstants
<1>5. ResourceFrom(s) = NewResource(r.kind, r.id)
  BY <1>2, <1>3, <1>4 DEF ResourceFrom, ResourceOf
<1>6. NewResource(r.kind, r.id) = [kind |-> r.kind, id |-> r.id, attrs |-> <<>>, uid |-> u]
  BY <1>1, NewResourceIs
<1>7. [r EXCEPT !.attrs = <<>>] = [kind |-> r.kind, id |-> r.id, attrs |-> <<>>, uid |-> u]
  BY DEF IsResource
<1> QED BY <1>5, <1>6, <1>7

----------------------------------------------------------------------------
(***************************************************************************)
(* Quotes and brackets of a text that goes on, and of one with spaces      *)
(* around it.                                                              *)
(***************************************************************************)
LEMMA BeforeQuoting ==
    ASSUME NEW t \in Texts, NEW i \in 1..Len(t)
    PROVE  /\ \A k \in 0..(i - 1) : Quoting(Before(t, i))[k] = Quoting(t)[k]
           /\ State(Before(t, i)) = Quoting(t)[i - 1]
           /\ Openings(Before(t, i)) = { k \in Openings(t) : k < i }
<1> DEFINE n == Len(t)
           b == Before(t, i)
           f == Quoting(b)
           g == Quoting(t)
           m == i - 1
<1>1. n \in Nat /\ DOMAIN t = 1..n
  BY Positions
<1>2. b \in Texts /\ Len(b) = m /\ \A k \in 1..m : b[k] = t[k]
  BY BeforeAt DEF Texts
<1>3. QuotingRun(f, m, b) /\ QuotingRun(g, n, t)
  BY <1>2, QuotingRuns DEF Texts
<1>4. DOMAIN b = 1..m
  BY <1>2, LenProperties DEF Texts
<1> HIDE DEF n, b, f, g
<1>5. m \in Nat /\ \A k \in 1..m : k \in 1..n
  BY <1>1 DEF n
<1> HIDE DEF m
<1>6. InStep(f, g, 1, m)
  <2> SUFFICES ASSUME NEW k \in 1..m, f[k - 1] = g[k - 1] PROVE f[k] = g[k]
    BY DEF InStep
  <2>1. f[k] = AfterChar(f[k - 1], b[k]) /\ g[k] = AfterChar(g[k - 1], t[k])
    BY <1>3, <1>5 DEF QuotingRun
  <2> QED BY <1>2, <2>1
<1>7. f[0] = g[0]
  BY <1>3 DEF QuotingRun
<1>8. \A k \in 0..m : f[k] = g[k]
  BY <1>5, <1>6, <1>7, AgreeAll
<1>9. m \in 0..m /\ \A k \in 1..m : k - 1 \in 0..m
  BY <1>5
<1>10. Openings(b) = { k \in 1..m : b[k] \in Brackets /\ f[k - 1] = "plain" }
  BY <1>4 DEF Openings, At, Brackets, f
<1>11. Openings(t) = { k \in 1..n : t[k] \in Brackets /\ g[k - 1] = "plain" }
  BY <1>1 DEF Openings, At, Brackets, g
<1>12. \A k : k \in 1..m <=> k \in 1..n /\ k < i
  BY <1>1 DEF m, n
<1>13. Openings(b) = { k \in Openings(t) : k < i }
  BY <1>2, <1>8, <1>9, <1>10, <1>11, <1>12
<1>14. State(b) = g[m]
  BY <1>2, <1>8, <1>9 DEF State, f
<1> QED BY <1>8, <1>13, <1>14 DEF b, f, g, m

\* Without quotes every bracket counts.
LEMMA Unquoted ==
    \A t \in Seq(Chars) :
        ~Has(t, {"\""}) => State(t) = "plain" /\ (Openings(t) = {} => ~Has(t, Brackets))
<1> DEFINE q == {"\""}
           P == { t \in Seq(Chars) : ~Has(t, q) => State(t) = "plain" /\ (Openings(t) = {} => ~Has(t, Brackets)) }
<1>1. <<>> \in P
  <2>1. State(<<>>) = "plain"
    BY QuietEmpty DEF Quiet
  <2>2. ~Has(<<>>, Brackets)
    BY DEF Has
  <2> QED BY <2>1, <2>2, EmptySeq
<1>2. ASSUME NEW t \in Seq(Chars), NEW x \in Chars, t \in P PROVE Append(t, x) \in P
  <2> DEFINE u == Append(t, x)
  <2>1. u \in Seq(Chars)
    BY AppendProperties
  <2>2. Has(u, q) <=> Has(t, q) \/ x \in q
    BY HasAppend
  <2>3. Has(u, Brackets) <=> Has(t, Brackets) \/ x \in Brackets
    BY HasAppend
  <2>4. State(u) = AfterChar(State(t), x)
    BY QuotingAppend
  <2>5. Openings(u) = Openings(t) \cup (IF x \in Brackets /\ State(t) = "plain" THEN { Len(t) + 1 } ELSE {})
    BY OpeningsAppend
  <2> HIDE DEF u
  <2> SUFFICES ASSUME ~Has(u, q)
               PROVE  State(u) = "plain" /\ (Openings(u) = {} => ~Has(u, Brackets))
    BY <2>1 DEF u
  <2>6. State(t) = "plain" /\ (Openings(t) = {} => ~Has(t, Brackets)) /\ x # "\""
    BY <1>2, <2>2
  <2>7. State(u) = "plain"
    BY <2>4, <2>6 DEF AfterChar
  <2>8. Openings(u) = {} => Openings(t) = {} /\ x \notin Brackets
    BY <2>5, <2>6
  <2> QED BY <2>3, <2>6, <2>7, <2>8
<1> HIDE DEF P
<1>3. Seq(Chars) \subseteq P
  BY <1>1, <1>2, Appending
<1> QED BY <1>3 DEF P

\* What goes before in plain state without brackets changes nothing.
LEMMA QuietBefore ==
    ASSUME NEW a \in Seq(Chars), Quiet(a, "plain"), NEW q
    PROVE  \A b \in Seq(Chars) : Quiet(b, q) => Quiet(a \o b, q)
<1> DEFINE P == { b \in Seq(Chars) : State(a \o b) = State(b) /\ (Openings(b) = {} => Openings(a \o b) = {}) }
<1>1. <<>> \in P
  <2>1. a \o <<>> = a
    BY ConcatEmptySeq
  <2>2. State(<<>>) = "plain"
    BY QuietEmpty DEF Quiet
  <2>3. State(a) = "plain" /\ Openings(a) = {}
    BY DEF Quiet
  <2> QED BY <2>1, <2>2, <2>3, EmptySeq
<1>2. ASSUME NEW b \in Seq(Chars), NEW x \in Chars, b \in P PROVE Append(b, x) \in P
  <2> DEFINE c == a \o b
             u == Append(b, x)
  <2>1. c \in Seq(Chars) /\ u \in Seq(Chars)
    BY ConcatProperties, AppendProperties
  <2>2. a \o u = Append(c, x)
    BY ConcatAppend
  <2>3. State(c) = State(b) /\ (Openings(b) = {} => Openings(c) = {})
    BY <1>2
  <2> HIDE DEF c
  <2>4. State(Append(c, x)) = AfterChar(State(c), x) /\ State(u) = AfterChar(State(b), x)
    BY <2>1, QuotingAppend
  <2>5. Openings(Append(c, x)) = Openings(c) \cup (IF x \in Brackets /\ State(c) = "plain" THEN { Len(c) + 1 } ELSE {})
    BY <2>1, OpeningsAppend
  <2>6. Openings(u) = Openings(b) \cup (IF x \in Brackets /\ State(b) = "plain" THEN { Len(b) + 1 } ELSE {})
    BY OpeningsAppend
  <2> HIDE DEF u
  <2>7. Openings(u) = {} => Openings(Append(c, x)) = {}
    BY <2>3, <2>5, <2>6
  <2> QED BY <2>1, <2>2, <2>3, <2>4, <2>7 DEF u
<1> HIDE DEF P
<1>3. Seq(Chars) \subseteq P
  BY <1>1, <1>2, Appending
<1> QED BY <1>3 DEF P, Quiet

LEMMA Glue ==
    ASSUME NEW A, NEW t \in Seq(A), NEW c \in 0..Len(t), NEW b \in 0..c
    PROVE  /\ SubSeq(t, 1, c) = SubSeq(t, 1, b) \o SubSeq(t, b + 1, c)
           /\ SubSeq(t, 1, b) \in Seq(A) /\ SubSeq(t, b + 1, c) \in Seq(A)
<1> DEFINE n == Len(t)
           w == SubSeq(t, 1, c)
           u == SubSeq(t, 1, b)
           v == SubSeq(t, b + 1, c)
           uv == u \o v
<1>1. n \in Nat /\ c \in Nat /\ b \in Nat /\ b <= c /\ c <= n
  <2>1. n \in Nat
    BY LenProperties
  <2> HIDE DEF n
  <2> QED BY <2>1 DEF n
<1>2. /\ 1 \in 1..(n + 1) /\ 1 <= c + 1 /\ 1 <= b + 1 /\ b \in 0..n /\ b + 1 \in 1..(n + 1) /\ b + 1 <= c + 1
      /\ c - 1 + 1 = c /\ b - 1 + 1 = b /\ c - (b + 1) + 1 = c - b
  <2> HIDE DEF n
  <2> QED BY <1>1
<1>3. w \in Seq(A) /\ Len(w) = c /\ \A k \in 1..c : w[k] = t[1 + k - 1]
  BY <1>2, Within
<1>4. u \in Seq(A) /\ Len(u) = b /\ \A k \in 1..b : u[k] = t[1 + k - 1]
  BY <1>2, Within
<1>5. v \in Seq(A) /\ Len(v) = c - b /\ \A k \in 1..(c - b) : v[k] = t[b + 1 + k - 1]
  BY <1>2, Within
<1> HIDE DEF n, w, u, v
<1>6. uv \in Seq(A) /\ Concats(uv, u, b, v, c - b)
  BY <1>4, <1>5, Concat
<1> HIDE DEF uv
<1>7. Len(uv) = c /\ (\A k \in 1..b : uv[k] = u[k]) /\ \A k \in 1..(c - b) : uv[b + k] = v[k]
  <2>1. b + (c - b) = c
    BY <1>1
  <2> QED BY <1>6, <2>1 DEF Concats
<1>8. ASSUME NEW k \in 1..c PROVE w[k] = uv[k]
  <2>1. CASE k \in 1..b
    BY <1>3, <1>4, <1>7, <2>1
  <2>2. CASE k \notin 1..b
    <3>1. k - b \in 1..(c - b) /\ b + (k - b) = k /\ b + 1 + (k - b) - 1 = 1 + k - 1
      BY <1>1, <2>2
    <3> QED BY <1>3, <1>5, <1>7, <3>1
  <2> QED BY <2>1, <2>2
<1>9. w = uv
  BY <1>3, <1>6, <1>7, <1>8, SeqEqual
<1> QED BY <1>4, <1>5, <1>9 DEF w, uv, u, v

Spaces(a) == \A k \in DOMAIN a : a[k] = " "
Padded(t, a, u, c) == a \in Texts /\ c \in Texts /\ Spaces(a) /\ Spaces(c) /\ t = (a \o u) \o c

LEMMA TrimPads ==
    ASSUME NEW t \in Texts
    PROVE  \E a, c : Padded(t, a, Trim(t), c)
<1> DEFINE n == Len(t)
<1>1. n \in Nat /\ DOMAIN t = 1..n /\ \A k \in 1..n : k \in Nat
  BY Positions
<1>2. CASE Trim(t) = <<>> /\ \A i \in DOMAIN t : t[i] = " "
  <2>1. <<>> \in Texts /\ Spaces(<<>>) /\ Spaces(t)
    <3>1. <<>> \in Texts
      BY EmptySeq DEF Texts
    <3>2. Spaces(t)
      BY <1>2 DEF Spaces
    <3>3. Spaces(<<>>)
      <4> DEFINE e == <<>>
      <4>1. DOMAIN e = {}
        OBVIOUS
      <4> HIDE DEF e
      <4>2. Spaces(e)
        BY <4>1 DEF Spaces
      <4> QED BY <4>2 DEF e
    <3> QED BY <3>1, <3>2, <3>3
  <2>2. t = (<<>> \o <<>>) \o t
    BY ConcatEmptySeq, EmptySeq DEF Texts
  <2>3. Padded(t, <<>>, Trim(t), t)
    BY <1>2, <2>1, <2>2 DEF Padded
  <2> QED BY <2>3
<1>3. ASSUME NEW i \in DOMAIN t, NEW j \in DOMAIN t, i <= j, Trim(t) = SubSeq(t, i, j),
             \A k \in DOMAIN t : t[k] # " " => i <= k /\ k <= j
      PROVE  \E a, c : Padded(t, a, Trim(t), c)
  <2> DEFINE b == i - 1
             a == SubSeq(t, 1, b)
             u == SubSeq(t, i, j)
             c == SubSeq(t, j + 1, n)
             w == SubSeq(t, 1, j)
             v == SubSeq(t, 1, n)
  <2> HIDE DEF n
  <2>0. n \in Nat /\ i \in 1..n /\ j \in 1..n /\ i <= j /\ b = i - 1
    BY <1>1, <1>3
  <2> HIDE DEF b
  <2>1. /\ b \in 0..j /\ b + 1 = i /\ n \in 0..n /\ j \in 0..n /\ i \in Nat /\ j \in Nat
        /\ 1 \in 1..(n + 1) /\ b \in 0..n /\ 1 <= b + 1 /\ j + 1 \in 1..(n + 1) /\ j + 1 <= n + 1
        /\ b - 1 + 1 = b /\ n - (j + 1) + 1 = n - j
    BY <2>0
  <2>2. v = w \o c /\ w \in Seq(Chars) /\ c \in Seq(Chars)
    BY <2>1, Glue DEF Texts, n
  <2>3. w = a \o u /\ a \in Seq(Chars) /\ u \in Seq(Chars)
    <3> HIDE DEF b
    <3> DEFINE s == SubSeq(t, b + 1, j)
    <3>1. w = a \o s /\ a \in Seq(Chars) /\ s \in Seq(Chars)
      BY <2>1, Glue DEF Texts, n
    <3> QED BY <2>1, <3>1
  <2>4. v = t
    <3>1. \A k \in 1..n : 1 + k - 1 = k
      BY <1>1
    <3>2. 1 <= n + 1 /\ n - 1 + 1 = n
      BY <1>1
    <3>3. v \in Seq(Chars) /\ Len(v) = n - 1 + 1 /\ \A k \in 1..(n - 1 + 1) : v[k] = t[1 + k - 1]
      BY <2>1, <3>2, Within DEF Texts, n
    <3> HIDE DEF v
    <3> QED BY <3>1, <3>2, <3>3, SeqEqual DEF Texts, n
  <2>5. Spaces(a)
    <3>1. Len(a) = b /\ \A k \in 1..b : a[k] = t[1 + k - 1]
      <4>1. Len(a) = b - 1 + 1 /\ \A k \in 1..(b - 1 + 1) : a[k] = t[1 + k - 1]
        BY <2>1, Within DEF Texts, n
      <4> HIDE DEF a, b
      <4> QED BY <2>1, <4>1
    <3>2. DOMAIN a = 1..Len(a)
      BY <2>3, LenProperties
    <3> HIDE DEF a
    <3> SUFFICES ASSUME NEW k \in 1..b PROVE a[k] = " "
      BY <3>1, <3>2 DEF Spaces
    <3>3. k \in 1..n /\ k < i /\ 1 + k - 1 = k /\ k \in Nat
      BY <2>0
    <3>4. ~(i <= k)
      BY <2>1, <3>3
    <3> QED BY <1>1, <1>3, <3>1, <3>3, <3>4
  <2>6. Spaces(c)
    <3>1. Len(c) = n - j /\ \A k \in 1..(n - j) : c[k] = t[j + 1 + k - 1]
      <4>1. Len(c) = n - (j + 1) + 1 /\ \A k \in 1..(n - (j + 1) + 1) : c[k] = t[j + 1 + k - 1]
        BY <2>1, Within DEF Texts, n
      <4> HIDE DEF c
      <4> QED BY <2>1, <4>1
    <3>2. DOMAIN c = 1..Len(c)
      BY <2>2, LenProperties
    <3> HIDE DEF c
    <3> SUFFICES ASSUME NEW k \in 1..(n - j) PROVE c[k] = " "
      BY <3>1, <3>2 DEF Spaces
    <3>3. j + k \in 1..n /\ ~(j + k <= j) /\ j + 1 + k - 1 = j + k
      BY <2>0
    <3> QED BY <1>1, <1>3, <3>1, <3>3
  <2> HIDE DEF a, c, u, w, v
  <2>7. Padded(t, a, u, c)
    BY <2>2, <2>3, <2>4, <2>5, <2>6 DEF Padded, Texts
  <2>8. u = Trim(t)
    BY <1>3 DEF u
  <2> QED BY <2>7, <2>8
<1> QED BY <1>2, <1>3, TrimIs

LEMMA SpacesHave ==
    ASSUME NEW a \in Texts, Spaces(a), NEW cs, " " \notin cs
    PROVE  ~Has(a, cs)
  BY DEF Spaces, Has

LEMMA HasTrim ==
    ASSUME NEW t \in Texts, NEW cs, " " \notin cs
    PROVE  Has(Trim(t), cs) <=> Has(t, cs)
<1> DEFINE u == Trim(t)
<1>1. PICK a, c : Padded(t, a, u, c)
  BY TrimPads
<1>2. u \in Texts
  BY TrimType
<1> HIDE DEF u
<1> DEFINE w == a \o u
<1>3. a \in Texts /\ c \in Texts /\ Spaces(a) /\ Spaces(c) /\ t = w \o c
  BY <1>1 DEF Padded
<1>4. ~Has(a, cs) /\ ~Has(c, cs)
  BY <1>3, SpacesHave
<1>5. w \in Seq(Chars) /\ (Has(w, cs) <=> Has(a, cs) \/ Has(u, cs))
  BY <1>2, <1>3, HasConcat, ConcatProperties DEF Texts
<1> HIDE DEF w
<1>6. Has(w \o c, cs) <=> Has(w, cs) \/ Has(c, cs)
  BY <1>3, <1>5, HasConcat DEF Texts
<1> QED BY <1>3, <1>4, <1>5, <1>6 DEF u

LEMMA QuietTrim ==
    ASSUME NEW t \in Texts, Quiet(Trim(t), "plain")
    PROVE  Quiet(t, "plain")
<1> DEFINE u == Trim(t)
           p == "plain"
<1>1. PICK a, c : Padded(t, a, u, c)
  BY TrimPads
<1>2. u \in Seq(Chars) /\ Quiet(u, p)
  BY TrimType DEF Texts
<1> HIDE DEF u
<1> DEFINE w == a \o u
<1>3. a \in Seq(Chars) /\ c \in Seq(Chars) /\ Spaces(a) /\ Spaces(c) /\ t = w \o c
  BY <1>1 DEF Padded, Texts
<1>4. Quiet(a, p) /\ Quiet(c, p)
  <2> DEFINE cs == Brackets \cup {"\""}
  <2>1. " " \notin cs
    BY DEF Brackets
  <2> HIDE DEF cs
  <2>2. ~Has(a, cs) /\ ~Has(c, cs)
    BY <1>3, <2>1, SpacesHave DEF Texts
  <2> QED BY <1>3, <2>2, QuietPlain DEF cs
<1>5. w \in Seq(Chars) /\ Quiet(w, p)
  BY <1>2, <1>3, <1>4, QuietBefore, ConcatProperties
<1> HIDE DEF w
<1>6. Quiet(w \o c, p)
  BY <1>3, <1>4, <1>5, QuietBefore
<1> QED BY <1>3, <1>6 DEF p

----------------------------------------------------------------------------

(***************************************************************************)
(* The names of a text, one by one.                                        *)
(***************************************************************************)
NamesOf(t) == Unqualified(t) \cup Qualified(t)

Body(rest) == SubSeq(rest, 2, Len(rest) - 1)

PlainName(t, n) == Bare(t) /\ ~Has(t, {"::"}) /\ n = [type |-> <<>>, id |-> t, bare |-> TRUE]

BareName(t, i, n) ==
    /\ i \in At(t, "::") /\ IsTypeName(Before(t, i))
    /\ Bare(After(t, i)) /\ ~Has(After(t, i), {"::"})
    /\ n = [type |-> SplitBy(Before(t, i), "::"), id |-> After(t, i), bare |-> TRUE]

QuotedName(t, i, n) ==
    /\ i \in At(t, "::") /\ IsTypeName(Before(t, i))
    /\ IsLiteral(After(t, i)) /\ Len(After(t, i)) > 2
    /\ n = [type |-> SplitBy(Before(t, i), "::"), id |-> Unescape(Body(After(t, i))), bare |-> FALSE]

IsName(t, n) == PlainName(t, n) \/ \E i : BareName(t, i, n) \/ QuotedName(t, i, n)

\* A literal after a type is the identifier in normal form.
LEMMA LiteralIsShown ==
    ASSUME NEW t \in Texts, NEW i \in At(t, "::"), IsLiteral(After(t, i)),
           NEW tn, tn = Before(t, i), NEW id, id = Unescape(Body(After(t, i)))
    PROVE  /\ tn \in Texts /\ id \in Texts /\ Shown(t, tn, Escape(id))
           /\ i = Len(tn) + 1 /\ Len(After(t, i)) = Len(Escape(id)) + 2
           /\ Body(After(t, i)) = SubSeq(t, i + 2, Len(t) - 1)
<1> DEFINE n == Len(t)
           rest == After(t, i)
           m == Len(rest)
           body == Body(rest)
           e == Escape(id)
<1>1. n \in Nat /\ i \in 1..n /\ t[i] = "::" /\ i \in Nat
  BY Positions DEF At
<1>2. tn \in Texts /\ Len(tn) = i - 1 /\ \A k \in 1..(i - 1) : tn[k] = t[k]
  BY <1>1, BeforeAt DEF Texts
<1>3. rest \in Texts /\ m = n - i /\ \A k \in 1..(n - i) : rest[k] = t[i + k]
  BY <1>1, AfterAt DEF Texts
<1>4. m >= 2 /\ rest[1] = "\"" /\ rest[m] = "\"" /\ Escape(Unescape(body)) = body
  BY DEF IsLiteral, Body
<1>a. n \in Nat /\ i \in 1..n /\ m = n - i /\ m >= 2 /\ m \in Nat
  <2>1. m \in Nat
    BY <1>3, LenProperties DEF Texts
  <2> HIDE DEF m, n
  <2> QED BY <1>1, <1>3, <1>4, <2>1
<1>5. /\ body \in Texts /\ Len(body) = m - 2
      /\ \A k \in 1..(m - 2) : body[k] = rest[k + 1]
  <2> HIDE DEF rest, m, n
  <2>1. m \in Nat /\ 2 \in 1..(m + 1) /\ m - 1 \in 0..m /\ 2 <= (m - 1) + 1 /\ (m - 1) - 2 + 1 = m - 2
    BY <1>a
  <2> DEFINE b == SubSeq(rest, 2, m - 1)
  <2>2. /\ b \in Seq(Chars) /\ Len(b) = (m - 1) - 2 + 1
        /\ \A k \in 1..((m - 1) - 2 + 1) : b[k] = rest[2 + k - 1]
    BY <1>3, <2>1, Within DEF Texts, m
  <2>3. body = b
    BY DEF Body, m
  <2>4. \A k \in 1..(m - 2) : 2 + k - 1 = k + 1
    BY <2>1
  <2> HIDE DEF b, body
  <2> QED BY <2>1, <2>2, <2>3, <2>4 DEF Texts
<1>6. id \in Texts /\ e = body
  BY <1>4, <1>5, UnescapeType DEF Texts
<1>7. SubSeq(t, i + 2, n - 1) = body
  <2>1. i + 1 \in Nat /\ (i + 1) + 1 = i + 2 /\ (i + 1) + Len(body) = n - 1 /\ n - 1 <= n
    BY <1>1, <1>3, <1>5
  <2>2. StandsAt(t, i + 1, body)
    <3> SUFFICES ASSUME NEW k \in 1..Len(body) PROVE t[(i + 1) + k] = body[k]
      BY DEF StandsAt
    <3>1. k \in 1..(m - 2) /\ k + 1 \in 1..(n - i) /\ i + (k + 1) = (i + 1) + k
      BY <1>1, <1>3, <1>5
    <3> QED BY <1>3, <1>5, <3>1
  <2> HIDE DEF body, n
  <2>3. SubSeq(t, (i + 1) + 1, (i + 1) + Len(body)) = body
    BY <1>5, <2>1, <2>2, Piece DEF Texts, n
  <2> QED BY <2>1, <2>3
<1> HIDE DEF rest, body, e, m, n
<1>8. Shown(t, tn, e)
  <2>1. Len(tn) + 1 = i /\ Len(tn) + 2 = i + 1 /\ Len(e) = m - 2 /\ Len(tn) + Len(e) + 3 = n
    BY <1>1, <1>2, <1>3, <1>5, <1>6
  <2>2. t[i + 1] = "\""
    <3>1. 1 \in 1..(n - i)
      BY <1>a
    <3> QED BY <1>3, <1>4, <3>1
  <2>3. t[n] = "\""
    <3>1. m \in 1..(n - i) /\ i + m = n
      BY <1>a
    <3> QED BY <1>3, <1>4, <3>1
  <2>4. ASSUME NEW k \in 1..Len(e) PROVE t[Len(tn) + 2 + k] = e[k]
    <3>1. k \in 1..(m - 2) /\ k + 1 \in 1..(n - i) /\ i + (k + 1) = Len(tn) + 2 + k
      BY <1>1, <1>2, <1>3, <2>1
    <3>2. e[k] = rest[k + 1]
      BY <1>5, <1>6, <3>1
    <3> QED BY <1>3, <3>1, <3>2
  <2>5. \A k \in 1..Len(tn) : t[k] = tn[k]
    BY <1>2
  <2> QED BY <1>1, <2>1, <2>2, <2>3, <2>4, <2>5 DEF Shown, n
<1>9. Len(tn) + 1 = i /\ m = Len(e) + 2
  BY <1>1, <1>2, <1>3, <1>5, <1>6
<1> QED BY <1>2, <1>6, <1>7, <1>8, <1>9 DEF rest, body, e, m, n

\* There is one text in normal form.
LEMMA ShownIsShow ==
    ASSUME NEW tn \in Texts, NEW id \in Texts, NEW s, Shown(s, tn, Escape(id))
    PROVE  s = Show(Uid(tn, id))
<1> DEFINE e == Escape(id)
           u == Show(Uid(tn, id))
           n == Len(tn)
           k == Len(e)
<1>1. Shown(u, tn, e)
  BY ShowShown
<1>2. n \in Nat /\ k \in Nat
  BY EscapeType, LenProperties DEF Texts
<1> HIDE DEF e, u
<1>3. /\ s \in Texts /\ u \in Texts /\ Len(s) = n + k + 3 /\ Len(u) = n + k + 3
  BY <1>1 DEF Shown, e
<1>4. ASSUME NEW i \in 1..(n + k + 3) PROVE s[i] = u[i]
  <2>1. CASE i \in 1..n
    BY <1>1, <2>1 DEF Shown, e
  <2>2. CASE i = n + 1
    BY <1>1, <2>2 DEF Shown, e
  <2>3. CASE i = n + 2
    BY <1>1, <2>3 DEF Shown, e
  <2>4. CASE i = n + k + 3
    BY <1>1, <2>4 DEF Shown, e
  <2>5. CASE i > n + 2 /\ i < n + k + 3
    <3>1. i - (n + 2) \in 1..k /\ n + 2 + (i - (n + 2)) = i
      BY <1>2, <2>5
    <3> QED BY <1>1, <3>1 DEF Shown, e
  <2> QED BY <1>2, <2>1, <2>2, <2>3, <2>4, <2>5
<1>5. s = u
  BY <1>3, <1>4, SeqEqual DEF Texts
<1> QED BY <1>5 DEF u

\* What a quoted name reads as.
LEMMA QuotedRead ==
    ASSUME NEW t \in Texts, NEW i, NEW n, QuotedName(t, i, n)
    PROVE  /\ n.id \in Texts /\ n.id # <<>> /\ Before(t, i) \in Texts
           /\ Parts(t) = Uid(Before(t, i), n.id) /\ Quiet(t, "plain")
<1> DEFINE tn == Before(t, i)
           id == Unescape(Body(After(t, i)))
<1>1. i \in At(t, "::") /\ IsTypeName(tn) /\ IsLiteral(After(t, i)) /\ Len(After(t, i)) > 2 /\ n.id = id
  BY DEF QuotedName
<1>2. tn \in Texts /\ id \in Texts /\ Shown(t, tn, Escape(id)) /\ Len(After(t, i)) = Len(Escape(id)) + 2
  BY <1>1, LiteralIsShown
<1> HIDE DEF tn, id
<1>3. id # <<>>
  <2>1. Len(<<>>) = 0
    OBVIOUS
  <2> QED BY <1>1, <1>2, <2>1, EscapeEmpty
<1>4. Parts(t) = Uid(tn, id)
  BY <1>1, <1>2, <1>3, ShownRead
<1>5. t = Show(Uid(tn, id))
  BY <1>2, ShownIsShow
<1>6. Quiet(t, "plain")
  BY <1>1, <1>2, <1>5, ShowQuiet
<1> QED BY <1>1, <1>2, <1>3, <1>4, <1>6 DEF tn

\* Where a literal is, a text ends with a quote.
LEMMA NoLiteral ==
    ASSUME NEW t \in Texts, NEW i \in At(t, "::"), Bare(After(t, i))
    PROVE  UidsIn(t) = {}
<1> SUFFICES ASSUME UidsIn(t) # {} PROVE FALSE
  OBVIOUS
<1>1. PICK j \in At(t, "::") : IsLiteral(After(t, j))
  BY DEF UidsIn
<1> DEFINE rest == After(t, i)
           tn == Before(t, j)
           e == Escape(Unescape(Body(After(t, j))))
<1>2. Shown(t, tn, e)
  BY <1>1, LiteralIsShown
<1>3. rest \in Texts /\ Len(rest) = Len(t) - i /\ (\A k \in 1..(Len(t) - i) : rest[k] = t[i + k]) /\ i \in 1..Len(t)
  BY AfterAt, Positions DEF At, Texts
<1>4. rest # <<>> /\ ~Has(rest, {"\"", "\\"})
  BY DEF Bare
<1>5. t[Len(t)] = "\""
  BY <1>2 DEF Shown
<1> HIDE DEF rest, e, tn
<1> DEFINE n == Len(t)
           m == Len(rest)
<1>6. n \in Nat /\ m \in Nat /\ m # 0 /\ DOMAIN rest = 1..m
  BY <1>3, <1>4, LenProperties, EmptySeq DEF Texts
<1>7. m \in 1..(n - i) /\ i + m = n /\ m \in 1..m
  <2>1. m = n - i /\ i \in 1..n
    BY <1>3
  <2> HIDE DEF n, m
  <2> QED BY <1>6, <2>1
<1>8. rest[m] = "\""
  BY <1>3, <1>5, <1>7
<1> QED BY <1>4, <1>6, <1>7, <1>8 DEF Has

\* The last separator is where a bare id begins.
LEMMA BareAtLast ==
    ASSUME NEW t \in Texts, NEW i \in At(t, "::"), ~Has(After(t, i), {"::"})
    PROVE  i = Separator(t) /\ Has(t, {"::"})
<1>1. Has(t, {"::"})
  BY DEF Has, At
<1> DEFINE s == Separator(t)
           n == Len(t)
           rest == After(t, i)
<1>2. s \in At(t, "::") /\ i <= s
  BY <1>1, SeparatorAt
<1>3. n \in Nat /\ i \in 1..n /\ s \in 1..n /\ t[s] = "::"
  BY <1>2, Positions DEF At
<1>4. rest \in Texts /\ Len(rest) = n - i /\ \A k \in 1..(n - i) : rest[k] = t[i + k]
  BY <1>3, AfterAt DEF Texts
<1>5. DOMAIN rest = 1..(n - i)
  BY <1>4, LenProperties DEF Texts
<1> HIDE DEF s, n, rest
<1>6. CASE i < s
  <2>1. s - i \in 1..(n - i) /\ i + (s - i) = s
    BY <1>3, <1>6
  <2>2. rest[s - i] = "::"
    BY <1>3, <1>4, <2>1
  <2> QED BY <1>5, <2>1, <2>2 DEF Has, rest
<1> QED BY <1>1, <1>2, <1>3, <1>6 DEF s

LEMMA NothingAfterLast ==
    ASSUME NEW t \in Texts, Has(t, {"::"})
    PROVE  ~Has(After(t, Separator(t)), {"::"})
<1> DEFINE s == Separator(t)
           n == Len(t)
           rest == After(t, s)
<1>1. s \in At(t, "::") /\ \A i \in At(t, "::") : i <= s
  BY SeparatorAt
<1>2. n \in Nat /\ s \in 1..n /\ DOMAIN t = 1..n
  BY <1>1, Positions DEF At
<1>3. rest \in Texts /\ Len(rest) = n - s /\ \A k \in 1..(n - s) : rest[k] = t[s + k]
  BY <1>2, AfterAt DEF Texts
<1>4. DOMAIN rest = 1..(n - s)
  BY <1>3, LenProperties DEF Texts
<1> HIDE DEF s, n, rest
<1>5. ASSUME NEW k \in DOMAIN rest, rest[k] = "::" PROVE FALSE
  <2>1. s + k \in 1..n /\ s + k > s
    BY <1>2, <1>4
  <2>2. t[s + k] = "::"
    BY <1>3, <1>4, <1>5
  <2>3. s + k \in At(t, "::")
    BY <1>2, <2>1, <2>2 DEF At
  <2> QED BY <1>1, <1>2, <1>4, <2>1, <2>3
<1> QED BY <1>5 DEF Has, rest, s

\* The characters of a text are those of its parts.
LEMMA AroundChars ==
    ASSUME NEW t \in Texts, NEW i \in At(t, "::"), NEW cs, "::" \notin cs
    PROVE  Has(t, cs) <=> Has(Before(t, i), cs) \/ Has(After(t, i), cs)
<1> DEFINE n == Len(t)
           a == Before(t, i)
           b == After(t, i)
<1>1. n \in Nat /\ i \in 1..n /\ t[i] = "::" /\ DOMAIN t = 1..n
  BY Positions DEF At
<1>2. a \in Texts /\ Len(a) = i - 1 /\ \A k \in 1..(i - 1) : a[k] = t[k]
  BY <1>1, BeforeAt DEF Texts
<1>3. b \in Texts /\ Len(b) = n - i /\ \A k \in 1..(n - i) : b[k] = t[i + k]
  BY <1>1, AfterAt DEF Texts
<1>4. DOMAIN a = 1..(i - 1) /\ DOMAIN b = 1..(n - i)
  BY <1>2, <1>3, LenProperties DEF Texts
<1> HIDE DEF n, a, b
<1>5. ASSUME NEW k \in 1..n, t[k] \in cs PROVE Has(a, cs) \/ Has(b, cs)
  <2>1. k # i
    BY <1>1, <1>5
  <2>2. CASE k < i
    <3>1. k \in 1..(i - 1)
      BY <1>1, <2>2
    <3> QED BY <1>2, <1>4, <1>5, <3>1 DEF Has
  <2>3. CASE k > i
    <3>1. k - i \in 1..(n - i) /\ i + (k - i) = k
      BY <1>1, <2>3
    <3> QED BY <1>3, <1>4, <1>5, <3>1 DEF Has
  <2> QED BY <1>1, <2>1, <2>2, <2>3
<1>6. ASSUME NEW k \in 1..(i - 1), a[k] \in cs PROVE Has(t, cs)
  <2>1. k \in 1..n
    BY <1>1
  <2> QED BY <1>1, <1>2, <1>6, <2>1 DEF Has
<1>7. ASSUME NEW k \in 1..(n - i), b[k] \in cs PROVE Has(t, cs)
  <2>1. i + k \in 1..n
    BY <1>1
  <2> QED BY <1>1, <1>3, <1>7, <2>1 DEF Has
<1>8. Has(t, cs) => Has(a, cs) \/ Has(b, cs)
  BY <1>1, <1>5 DEF Has
<1>9. Has(a, cs) \/ Has(b, cs) => Has(t, cs)
  BY <1>4, <1>6, <1>7 DEF Has
<1> QED BY <1>8, <1>9 DEF a, b

LEMMA PlainRead ==
    ASSUME NEW t \in Texts, Bare(t), ~Has(t, {"::"})
    PROVE  Parts(t) = [type |-> <<>>, id |-> t] /\ t # <<>>
<1>1. At(t, "::") = {}
  BY DEF At, Has
<1>2. UidsIn(t) = {}
  BY <1>1 DEF UidsIn
<1>3. t # <<>> /\ ~Has(t, {"\"", "\\"})
  BY DEF Bare
<1> QED BY <1>2, <1>3 DEF Parts

LEMMA BareRead ==
    ASSUME NEW t \in Texts, NEW i, NEW n, BareName(t, i, n)
    PROVE  /\ n.id \in Texts /\ n.id # <<>> /\ Before(t, i) \in Texts
           /\ Parts(t) = Uid(Before(t, i), n.id)
           /\ ~Has(t, {"\""}) /\ (Has(t, Brackets) <=> Has(n.id, Brackets))
<1> DEFINE tn == Before(t, i)
           id == After(t, i)
<1>1. i \in At(t, "::") /\ IsTypeName(tn) /\ Bare(id) /\ ~Has(id, {"::"}) /\ n.id = id
  BY DEF BareName
<1>2. tn \in Texts /\ id \in Texts
  BY <1>1, AroundText
<1>3. UidsIn(t) = {}
  BY <1>1, NoLiteral
<1>4. i = Separator(t) /\ Has(t, {"::"})
  BY <1>1, BareAtLast
<1>5. id # <<>> /\ ~Has(id, {"\"", "\\"})
  BY <1>1 DEF Bare
<1>6. Parts(t) = Shorthand(tn, id)
  BY <1>3, <1>4 DEF Parts
<1>7. Parts(t) = Uid(tn, id)
  BY <1>1, <1>5, <1>6 DEF Shorthand
<1>8. ~Has(tn, {"\""}) /\ ~Has(tn, Brackets)
  BY <1>1, <1>2, TypeNameChars DEF Has, Marks, Brackets, Texts
<1>9. ~Has(id, {"\""})
  BY <1>5 DEF Has
<1> HIDE DEF tn, id
<1> DEFINE q == {"\""}
           br == Brackets
<1>10. "::" \notin q /\ "::" \notin br
  BY DEF Brackets
<1> HIDE DEF q, br
<1>11. Has(t, q) <=> Has(tn, q) \/ Has(id, q)
  BY <1>1, <1>10, AroundChars DEF tn, id
<1>12. Has(t, br) <=> Has(tn, br) \/ Has(id, br)
  BY <1>1, <1>10, AroundChars DEF tn, id
<1> QED BY <1>1, <1>2, <1>5, <1>7, <1>8, <1>9, <1>11, <1>12 DEF q, br, tn

LEMMA NamesAre ==
    ASSUME NEW t \in Texts, NEW n
    PROVE  n \in NamesOf(t) <=> IsName(t, n)
<1>1. n \in Unqualified(t) <=> PlainName(t, n)
  BY DEF Unqualified, PlainName
<1> DEFINE AllAt(i) ==
             LET type == SplitBy(Before(t, i), "::")
                 rest == After(t, i)
             IN  IF Bare(rest) /\ ~Has(rest, {"::"})
                 THEN { [type |-> type, id |-> rest, bare |-> TRUE] }
                 ELSE { [type |-> type, id |-> Unescape(SubSeq(rest, 2, Len(rest) - 1)), bare |-> FALSE] :
                           x \in { y \in {1} : IsLiteral(rest) /\ Len(rest) > 2 } }
           Ok(i) == i \in At(t, "::") /\ IsTypeName(Before(t, i))
<1>2. n \in Qualified(t) <=> \E i : Ok(i) /\ n \in AllAt(i)
  BY DEF Qualified
<1>3. ASSUME NEW i, Ok(i) PROVE n \in AllAt(i) <=> BareName(t, i, n) \/ QuotedName(t, i, n)
  <2>1. CASE Bare(After(t, i)) /\ ~Has(After(t, i), {"::"})
    <3>1. n \in AllAt(i) <=> BareName(t, i, n)
      BY <1>3, <2>1 DEF BareName
    <3>2. ~QuotedName(t, i, n)
      <4> SUFFICES ASSUME QuotedName(t, i, n) PROVE FALSE
        OBVIOUS
      <4> DEFINE r == After(t, i)
      <4>1. IsLiteral(r)
        BY DEF QuotedName
      <4>2. r[1] = "\"" /\ r # <<>>
        BY <4>1, <2>1 DEF IsLiteral, Bare
      <4>3. 1 \in DOMAIN r
        <5>1. r \in Texts /\ Len(r) >= 2
          BY <1>3, <4>1, AroundText DEF IsLiteral
        <5> HIDE DEF r
        <5>2. DOMAIN r = 1..Len(r) /\ Len(r) \in Nat
          BY <5>1, Positions
        <5> QED BY <5>1, <5>2
      <4> QED BY <2>1, <4>2, <4>3 DEF Bare, Has
    <3> QED BY <3>1, <3>2
  <2>2. CASE ~(Bare(After(t, i)) /\ ~Has(After(t, i), {"::"}))
    <3>1. ~BareName(t, i, n)
      BY <2>2 DEF BareName
    <3>2. n \in AllAt(i) <=> QuotedName(t, i, n)
      BY <1>3, <2>2 DEF QuotedName, Body
    <3> QED BY <3>1, <3>2
  <2> QED BY <2>1, <2>2
<1>4. \A i : BareName(t, i, n) \/ QuotedName(t, i, n) => Ok(i)
  BY DEF BareName, QuotedName
<1> HIDE DEF AllAt, Ok
<1> QED BY <1>1, <1>2, <1>3, <1>4 DEF NamesOf, IsName

\* What is known of a text with a name.
Reads(t, n) ==
    /\ n.id \in Texts /\ n.id # <<>>
    /\ Parts(t) = [type |-> n.type, id |-> n.id]
    /\ n.type = <<>> \/ \E tn \in Texts : IsTypeName(tn) /\ n.type = SplitBy(tn, "::")
    /\ n.bare => ~Has(t, {"\""}) /\ (Has(t, Brackets) <=> Has(n.id, Brackets))
    /\ ~n.bare => Quiet(t, "plain")

LEMMA NameRead ==
    ASSUME NEW t \in Texts, NEW n, IsName(t, n)
    PROVE  Reads(t, n)
<1>1. CASE PlainName(t, n)
  <2>1. Bare(t) /\ ~Has(t, {"::"}) /\ n.type = <<>> /\ n.id = t /\ n.bare = TRUE
    BY <1>1 DEF PlainName
  <2>2. Parts(t) = [type |-> <<>>, id |-> t] /\ t # <<>>
    BY <2>1, PlainRead
  <2>3. ~Has(t, {"\""})
    BY <2>1 DEF Bare, Has
  <2> QED BY <2>1, <2>2, <2>3 DEF Reads
<1>2. ASSUME NEW i, BareName(t, i, n) PROVE Reads(t, n)
  <2>1. /\ IsTypeName(Before(t, i)) /\ n.type = SplitBy(Before(t, i), "::") /\ n.bare = TRUE
    BY <1>2 DEF BareName
  <2>2. /\ n.id \in Texts /\ n.id # <<>> /\ Before(t, i) \in Texts
        /\ Parts(t) = Uid(Before(t, i), n.id)
        /\ ~Has(t, {"\""}) /\ (Has(t, Brackets) <=> Has(n.id, Brackets))
    BY <1>2, BareRead
  <2>3. Parts(t) = [type |-> n.type, id |-> n.id]
    BY <2>1, <2>2 DEF Uid
  <2> QED BY <2>1, <2>2, <2>3 DEF Reads
<1>3. ASSUME NEW i, QuotedName(t, i, n) PROVE Reads(t, n)
  <2>1. /\ IsTypeName(Before(t, i)) /\ n.type = SplitBy(Before(t, i), "::") /\ n.bare = FALSE
    BY <1>3 DEF QuotedName
  <2>2. /\ n.id \in Texts /\ n.id # <<>> /\ Before(t, i) \in Texts
        /\ Parts(t) = Uid(Before(t, i), n.id) /\ Quiet(t, "plain")
    BY <1>3, QuotedRead
  <2>3. Parts(t) = [type |-> n.type, id |-> n.id]
    BY <2>1, <2>2 DEF Uid
  <2> QED BY <2>1, <2>2, <2>3 DEF Reads
<1> QED BY <1>1, <1>2, <1>3 DEF IsName

\* A text with parts has a name.
LEMMA NameThere ==
    ASSUME NEW t \in Texts, Parts(t) # Refused
    PROVE  \E n : IsName(t, n)
<1>1. CASE UidsIn(t) # {}
  <2> DEFINE uid == CHOOSE u \in UidsIn(t) : TRUE
  <2>1. Parts(t) = IF uid.id = <<>> THEN Refused ELSE uid
    BY <1>1 DEF Parts
  <2>2. uid.id # <<>> /\ uid \in UidsIn(t)
    BY <1>1, <2>1
  <2> HIDE DEF uid
  <2>3. PICK j \in At(t, "::") : /\ IsTypeName(Before(t, j)) /\ IsLiteral(After(t, j))
                                 /\ uid = Uid(Before(t, j), Unescape(SubSeq(t, j + 2, Len(t) - 1)))
    BY <2>2 DEF UidsIn
  <2> DEFINE id == Unescape(Body(After(t, j)))
             e == Escape(id)
             m == Len(After(t, j))
  <2>4. /\ id \in Texts /\ m = Len(e) + 2 /\ Body(After(t, j)) = SubSeq(t, j + 2, Len(t) - 1)
    BY <2>3, LiteralIsShown
  <2>5. uid.id = id
    BY <2>3, <2>4 DEF Uid
  <2>6. e # <<>>
    <3>1. Unescape(e) = id
      BY <2>4, UnescapeEscape DEF Texts
    <3> HIDE DEF id, e
    <3> QED BY <2>2, <2>5, <3>1, UnescapeEmpty
  <2>7. e \in Seq(Chars)
    BY <2>4, EscapeType DEF Texts
  <2> HIDE DEF id, e, m
  <2>8. Len(e) \in Nat /\ Len(e) # 0
    BY <2>6, <2>7, LenProperties, EmptySeq
  <2>9. m > 2
    BY <2>4, <2>8
  <2> DEFINE n == [type |-> SplitBy(Before(t, j), "::"), id |-> Unescape(Body(After(t, j))), bare |-> FALSE]
  <2>10. QuotedName(t, j, n)
    BY <2>3, <2>9 DEF QuotedName, m
  <2> QED BY <2>10 DEF IsName
<1>2. CASE UidsIn(t) = {} /\ ~Has(t, {"::"})
  <2>1. Parts(t) = IF t = <<>> \/ Has(t, {"\"", "\\"}) THEN Refused ELSE [type |-> <<>>, id |-> t]
    BY <1>2 DEF Parts
  <2>2. Bare(t)
    BY <2>1 DEF Bare
  <2>3. PlainName(t, [type |-> <<>>, id |-> t, bare |-> TRUE])
    BY <1>2, <2>2 DEF PlainName
  <2> QED BY <2>3 DEF IsName
<1>3. CASE UidsIn(t) = {} /\ Has(t, {"::"})
  <2> DEFINE s == Separator(t)
             n == [type |-> SplitBy(Before(t, s), "::"), id |-> After(t, s), bare |-> TRUE]
  <2>1. Parts(t) = Shorthand(Before(t, s), After(t, s))
    BY <1>3 DEF Parts
  <2>2. IsTypeName(Before(t, s)) /\ Bare(After(t, s))
    BY <2>1 DEF Shorthand, Bare
  <2>3. s \in At(t, "::") /\ ~Has(After(t, s), {"::"})
    BY <1>3, SeparatorAt, NothingAfterLast
  <2>4. BareName(t, s, n)
    BY <2>2, <2>3 DEF BareName
  <2> QED BY <2>4 DEF IsName
<1> QED BY <1>1, <1>2, <1>3

\* The namespace of a type: what any kind may follow.
IsNamespace(ns) ==
    /\ ns \in Seq(Texts)
    /\ \A kind \in Kinds :
          /\ TypeOf(kind, ns) \in Texts /\ IsTypeName(TypeOf(kind, ns))
          /\ SplitBy(TypeOf(kind, ns), "::") = Append(ns, <<kind>>)

LEMMA Namespaced ==
    ASSUME TextConstants, NEW tn \in Texts, IsTypeName(tn), NEW kind \in Kinds,
           NEW ts, ts = SplitBy(tn, "::"), Last(ts) = <<kind>>, NEW ns, ns = Front(ts)
    PROVE  IsNamespace(ns) /\ TypeOf(kind, ns) = tn /\ ts = Append(ns, <<kind>>)
<1> DEFINE k == <<kind>>
           n == Len(ns)
<1>1. ts \in Seq(Texts) /\ ts # <<>> /\ k \in Texts
  BY SplitType, KindText DEF Texts
<1>2. ns \in Seq(Texts) /\ ts = Append(ns, k)
  BY <1>1, ListParts
<1>3. TypeOf(kind, ns) = tn
  BY <1>2, JoinSplit DEF TypeOf, Texts
<1>4. Heads(ns) = ns
  <2> DEFINE h == Heads(ns)
  <2>1. h \in Seq(Texts) /\ ts = Append(h, k)
    BY <1>2, <1>3, SplitTyped DEF Texts
  <2> HIDE DEF h, k
  <2>2. Append(h, k) = Append(ns, k)
    BY <1>2, <2>1
  <2>3. h = ns
    <3>1. Front(Append(h, k)) = h /\ Front(Append(ns, k)) = ns
      BY <1>1, <1>2, <2>1, FrontLastAppend
    <3> QED BY <2>2, <3>1
  <2> QED BY <2>3 DEF h
<1>5. ASSUME NEW i \in 1..n PROVE IsWord(ns[i])
  <2> HIDE DEF k
  <2>1. ts[i] = ns[i] /\ i \in DOMAIN ts
    <3>1. DOMAIN ts = 1..(n + 1) /\ \A j \in 1..n : ts[j] = ns[j]
      <4>1. Len(ts) = n + 1 /\ \A j \in 1..n : ts[j] = ns[j]
        BY <1>1, <1>2, AppendProperties
      <4>2. DOMAIN ts = 1..Len(ts)
        BY <1>1, LenProperties
      <4> QED BY <4>1, <4>2
    <3>2. n \in Nat
      BY <1>2, LenProperties
    <3> HIDE DEF n
    <3>3. i \in 1..(n + 1)
      BY <3>2
    <3> QED BY <3>1, <3>3
  <2> QED BY <2>1 DEF IsTypeName, Range
<1>6. ASSUME NEW other \in Kinds
      PROVE  /\ TypeOf(other, ns) \in Texts /\ IsTypeName(TypeOf(other, ns))
             /\ SplitBy(TypeOf(other, ns), "::") = Append(ns, <<other>>)
  <2> DEFINE o == <<other>>
             p == Append(ns, o)
  <2>1. TypeOf(other, ns) \in Texts /\ SplitBy(TypeOf(other, ns), "::") = p
    BY <1>2, <1>4, SplitTyped DEF Texts
  <2>2. o \in Texts /\ IsWord(o)
    <3>1. o \in Texts /\ ~Has(o, Marks)
      BY KindText DEF Texts
    <3>2. o # <<>>
      OBVIOUS
    <3> QED BY <3>1, <3>2 DEF IsWord
  <2> HIDE DEF o
  <2>3. p \in Seq(Texts) /\ Len(p) = n + 1 /\ (\A j \in 1..n : p[j] = ns[j]) /\ p[n + 1] = o
    BY <1>2, <2>2, AppendProperties
  <2>4. DOMAIN p = 1..(n + 1) /\ n \in Nat
    <3> HIDE DEF p
    <3>1. DOMAIN p = 1..Len(p) /\ n \in Nat
      BY <1>2, <2>3, LenProperties
    <3> QED BY <2>3, <3>1
  <2> HIDE DEF p, n
  <2>5. ASSUME NEW i \in 1..(n + 1) PROVE IsWord(p[i])
    <3>1. CASE i = n + 1
      BY <2>2, <2>3, <3>1
    <3>2. CASE i # n + 1
      <4>1. i \in 1..n
        BY <2>4, <3>2
      <4> QED BY <1>5, <2>3, <4>1
    <3> QED BY <3>1, <3>2
  <2>6. IsTypeName(TypeOf(other, ns))
    BY <2>1, <2>4, <2>5 DEF IsTypeName, Range
  <2> QED BY <2>1, <2>6 DEF p, o
<1> QED BY <1>2, <1>3, <1>6 DEF IsNamespace

\* An id in a namespace is never refused.
LEMMA NewIdThere ==
    ASSUME TextConstants, NEW kind \in Kinds, NEW id \in Texts, id # <<>>, NEW ns, IsNamespace(ns)
    PROVE  /\ NewId(kind, id, ns) # Refused
           /\ NewId(kind, id, ns) = [id |-> id, namespace |-> ns, uid |-> [type |-> Append(ns, <<kind>>), id |-> id]]
           /\ IsOf(kind, NewId(kind, id, ns))
<1> DEFINE r == NewId(kind, id, ns)
<1>1. ns \in Seq(Texts) /\ IsTypeName(TypeOf(kind, ns)) /\ SplitBy(TypeOf(kind, ns), "::") = Append(ns, <<kind>>)
  BY DEF IsNamespace
<1>2. r # Refused /\ r = [id |-> id, namespace |-> ns, uid |-> Uid(TypeOf(kind, ns), id)]
  BY <1>1, NewIdType
<1>3. Uid(TypeOf(kind, ns), id) = [type |-> Append(ns, <<kind>>), id |-> id]
  BY <1>1 DEF Uid
<1>4. IsOf(kind, r)
  BY <1>1, <1>2, NewIdIs
<1> QED BY <1>2, <1>3, <1>4

\* What a name stands for, for a kind.
Stands(f, m, kind, id) ==
    IF Last(m.type) = <<kind>>
    THEN /\ f # Refused /\ f.uid = m /\ f.id = id /\ f.namespace = Front(m.type)
         /\ IsNamespace(Front(m.type)) /\ m.type = Append(Front(m.type), <<kind>>)
         /\ f = NewId(kind, id, f.namespace)
    ELSE f = Refused

LEMMA KindRead ==
    ASSUME TextConstants, NEW kind \in Kinds, NEW t \in Texts, NEW n, Reads(t, n)
    PROVE  Stands(IdOf(kind, Parts(t)), Meant(n, kind), kind, n.id)
<1> DEFINE p == Parts(t)
           m == Meant(n, kind)
           k == <<kind>>
<1>1. n.id \in Texts /\ n.id # <<>> /\ p.type = n.type /\ p.id = n.id /\ p # Refused
  <2>1. p = [type |-> n.type, id |-> n.id] /\ n.id \in Texts /\ n.id # <<>>
    BY DEF Reads
  <2>2. n.type \in Seq(Texts)
    BY EmptySeq, SplitType DEF Reads, Texts
  <2>3. p \in Uids
    BY <2>1, <2>2 DEF Uids
  <2> QED BY <2>1, <2>3 DEF TextConstants
<1>2. k \in Texts /\ IsTypeName(k) /\ SplitBy(k, "::") = <<k>>
  <2>1. k \in Texts /\ ~Has(k, Marks)
    BY KindText DEF Texts
  <2>2. k # <<>>
    OBVIOUS
  <2>3. ~Has(k, {"::"})
    BY <2>1 DEF Has, Marks
  <2> HIDE DEF k
  <2>4. SplitBy(k, "::") = <<k>>
    BY <2>1, <2>3, SplitNone DEF Texts
  <2>5. IsWord(k)
    BY <2>1, <2>2 DEF IsWord
  <2> QED BY <2>1, <2>4, <2>5 DEF IsTypeName, Range
<1>3. PICK tn \in Texts : IsTypeName(tn) /\ m.type = SplitBy(tn, "::")
  BY <1>2 DEF Reads, Meant
<1>4. m = [type |-> m.type, id |-> n.id]
  BY DEF Meant
<1>5. m.type = (IF n.type = <<>> THEN <<k>> ELSE n.type)
  BY DEF Meant
<1>6. Last(<<k>>) = k /\ Front(<<k>>) = <<>>
  <2> HIDE DEF k
  <2>1. <<k>> = Append(<<>>, k) /\ <<>> \in Seq(Texts)
    BY EmptySeq
  <2> QED BY <1>2, <2>1, FrontLastAppend
<1> HIDE DEF p, m, k
<1> DEFINE ns == Front(m.type)
<1>7. CASE Last(m.type) = k
  <2>1. IsNamespace(ns) /\ m.type = Append(ns, k)
    BY <1>3, <1>7, Namespaced DEF k
  <2>2. IdOf(kind, p) = NewId(kind, n.id, ns)
    <3>1. IF p.type = <<>> THEN ns = <<>> ELSE Last(p.type) = k /\ ns = Front(p.type)
      BY <1>1, <1>5, <1>6, <1>7
    <3> QED BY <1>1, <3>1 DEF IdOf, k
  <2> HIDE DEF ns
  <2>3. /\ NewId(kind, n.id, ns) # Refused
        /\ NewId(kind, n.id, ns) = [id |-> n.id, namespace |-> ns, uid |-> [type |-> Append(ns, k), id |-> n.id]]
    BY <1>1, <2>1, NewIdThere DEF k
  <2> DEFINE f == NewId(kind, n.id, ns)
  <2>4. f.uid = m /\ f.id = n.id /\ f.namespace = ns
    BY <1>4, <2>1, <2>3
  <2>5. Stands(f, m, kind, n.id)
    BY <1>7, <2>1, <2>3, <2>4 DEF Stands, k, ns
  <2> QED BY <2>2, <2>5 DEF p, m
<1>8. CASE Last(m.type) # k
  <2>1. p.type # <<>> /\ Last(p.type) # k
    BY <1>1, <1>5, <1>6, <1>8
  <2>2. IdOf(kind, p) = Refused
    BY <2>1 DEF IdOf, k
  <2> QED BY <1>8, <2>2 DEF Stands, k, p, m
<1> QED BY <1>7, <1>8

LEMMA NamesTrimmed ==
    ASSUME NEW t \in Texts, NEW n
    PROVE  /\ Trim(t) \in Texts /\ (n \in NamesIn(t) <=> IsName(Trim(t), n))
           /\ n \in NamesIn(t) => Reads(Trim(t), n)
  BY TrimType, NamesAre, NameRead DEF NamesIn, NamesOf

\* Of the names of a text the constructor takes the one of its kind, and there
\* is none where it refuses.
LEMMA OfKind ==
    ASSUME TextConstants, text \in Texts, NEW kind \in Kinds
    PROVE  ReadAs(kind) = IF IdFrom(kind, text) = Refused THEN {} ELSE { IdFrom(kind, text).uid }
<1> DEFINE t == Trim(text)
           f == IdFrom(kind, text)
<1>1. f = IdOf(kind, Parts(t))
  BY DEF IdFrom
<1>2. ASSUME NEW n \in NamesIn(text)
      PROVE  Stands(f, Meant(n, kind), kind, n.id)
  BY <1>1, <1>2, NamesTrimmed, KindRead
<1>3. f # Refused => \E n : n \in NamesIn(text)
  <2>1. f # Refused => Parts(t) # Refused
    BY <1>1 DEF IdOf
  <2> QED BY <2>1, NamesTrimmed, NameThere
<1> HIDE DEF f
<1>4. ASSUME NEW n \in NamesIn(text)
      PROVE  IF Last(Meant(n, kind).type) = <<kind>> THEN f # Refused /\ f.uid = Meant(n, kind) ELSE f = Refused
  BY <1>2 DEF Stands
<1>5. ReadAs(kind) = IF f = Refused THEN {} ELSE { f.uid }
  <2>1. CASE f = Refused
    BY <1>4, <2>1 DEF ReadAs
  <2>2. CASE f # Refused
    <3>1. PICK n \in NamesIn(text) : TRUE
      BY <1>3, <2>2
    <3> QED BY <1>4, <2>2, <3>1 DEF ReadAs
  <2> QED BY <2>1, <2>2
<1> QED BY <1>5 DEF f

----------------------------------------------------------------------------
(***************************************************************************)
(* The names of users, and the lists of their groups.                      *)
(***************************************************************************)
\* No part of a name is taken for groups.
LEMMA NameQuiet ==
    ASSUME NEW t \in Texts, NEW n \in NamesIn(t), n.bare => ~Has(n.id, Brackets)
    PROVE  Quiet(t, "plain")
<1> DEFINE u == Trim(t)
<1>1. u \in Texts /\ Reads(u, n)
  BY NamesTrimmed
<1> HIDE DEF u
<1>2. CASE n.bare
  <2>1. ~Has(u, {"\""}) /\ ~Has(u, Brackets)
    BY <1>1, <1>2 DEF Reads
  <2>2. ~Has(u, Brackets \cup {"\""})
    BY <2>1 DEF Has
  <2>3. Quiet(u, "plain")
    BY <1>1, <2>2, QuietPlain DEF Texts
  <2> QED BY <2>3, QuietTrim DEF u
<1>3. CASE ~n.bare
  <2>1. Quiet(u, "plain")
    BY <1>1, <1>3 DEF Reads
  <2> QED BY <2>1, QuietTrim DEF u
<1> QED BY <1>2, <1>3

\* Where no bracket begins groups, none is in a bare name.
LEMMA NameUnbracketed ==
    ASSUME NEW t \in Texts, NEW n \in NamesIn(t), Openings(t) = {}, n.bare
    PROVE  ~Has(n.id, Brackets)
<1> DEFINE u == Trim(t)
           q == {"\""}
           br == Brackets
<1>1. u \in Texts /\ Reads(u, n)
  BY NamesTrimmed
<1>2. ~Has(u, q) /\ (Has(u, br) <=> Has(n.id, br))
  BY <1>1 DEF Reads
<1>3. " " \notin q /\ " " \notin br
  BY DEF Brackets
<1> HIDE DEF q, br
<1>4. (Has(u, q) <=> Has(t, q)) /\ (Has(u, br) <=> Has(t, br))
  BY <1>3, HasTrim
<1>5. ~Has(t, br)
  BY <1>2, <1>4, Unquoted DEF Texts, q, br
<1> QED BY <1>2, <1>4, <1>5 DEF br

UserName(n) == Last(Meant(n, "User").type) = <<"User">>

LEMMA UserNamesRead ==
    ASSUME TextConstants, NEW t \in Texts, NEW n \in UserNames(t)
    PROVE  /\ Quiet(t, "plain") /\ UserName(n)
           /\ Stands(IdFrom("User", t), Meant(n, "User"), "User", n.id)
<1>1. /\ n \in NamesIn(t) /\ (n.bare => ~Has(n.id, {"[", "]"})) /\ UserName(n)
  BY DEF UserNames, UserName
<1>2. Quiet(t, "plain")
  BY <1>1, NameQuiet DEF Brackets
<1>3. Trim(t) \in Texts /\ Reads(Trim(t), n)
  BY <1>1, NamesTrimmed
<1>4. "User" \in Kinds
  BY DEF Kinds
<1>5. Stands(IdOf("User", Parts(Trim(t))), Meant(n, "User"), "User", n.id)
  BY <1>3, <1>4, KindRead
<1> QED BY <1>1, <1>2, <1>5 DEF IdFrom

LEMMA UserNameThere ==
    ASSUME TextConstants, NEW t \in Texts, Openings(t) = {}, IdFrom("User", t) # Refused
    PROVE  UserNames(t) # {}
<1>1. Parts(Trim(t)) # Refused
  BY DEF IdFrom, IdOf
<1>2. PICK n : n \in NamesIn(t)
  BY <1>1, NamesTrimmed, NameThere
<1>3. Trim(t) \in Texts /\ Reads(Trim(t), n)
  BY <1>2, NamesTrimmed
<1>4. "User" \in Kinds
  BY DEF Kinds
<1>5. Stands(IdOf("User", Parts(Trim(t))), Meant(n, "User"), "User", n.id)
  BY <1>3, <1>4, KindRead
<1>6. UserName(n)
  BY <1>5 DEF Stands, IdFrom, UserName
<1>7. n.bare => ~Has(n.id, {"[", "]"})
  BY <1>2, NameUnbracketed DEF Brackets
<1>8. n \in UserNames(t)
  BY <1>2, <1>6, <1>7 DEF UserNames, UserName
<1> QED BY <1>8

Entries(l) ==
    IF Trim(l) = <<>> THEN <<>> ELSE [k \in DOMAIN SplitBy(l, ",") |-> Trim(SplitBy(l, ",")[k])]

Listed(l) == ~Has(l, Brackets) /\ \A k \in DOMAIN Entries(l) : Entries(l)[k] # <<>>

LEMMA EntriesType ==
    ASSUME TextConstants, NEW l \in Texts
    PROVE  Entries(l) \in Seq(Texts) /\ Entries(l) # Refused
<1>1. Entries(l) \in Seq(Texts)
  BY TrimmedParts, EmptySeq DEF Entries
<1> QED BY <1>1 DEF TextConstants

LEMMA GroupListIs ==
    ASSUME NEW l \in Texts
    PROVE  GroupList(l) = IF Listed(l) THEN Entries(l) ELSE Refused
<1>1. CASE Trim(l) = <<>>
  <2>1. GroupList(l) = <<>> /\ Entries(l) = <<>>
    BY <1>1 DEF GroupList, Entries
  <2>2. ~Has(l, Brackets)
    <3> DEFINE br == Brackets
    <3>1. " " \notin br
      BY DEF Brackets
    <3>2. ~Has(Trim(l), br)
      <4> DEFINE e == <<>>
      <4>1. DOMAIN e = {}
        OBVIOUS
      <4> HIDE DEF e
      <4>2. ~Has(e, br)
        BY <4>1 DEF Has
      <4> QED BY <1>1, <4>2 DEF e
    <3> HIDE DEF br
    <3> QED BY <3>1, <3>2, HasTrim DEF br
  <2> QED BY <2>1, <2>2 DEF Listed
<1>2. CASE Trim(l) # <<>>
  <2> DEFINE names == [k \in DOMAIN SplitBy(l, ",") |-> Trim(SplitBy(l, ",")[k])]
  <2>1. Entries(l) = names
    BY <1>2 DEF Entries
  <2>2. GroupList(l) = IF Has(l, {"[", "]"}) \/ \E i \in DOMAIN names : names[i] = <<>> THEN Refused ELSE names
    BY <1>2 DEF GroupList
  <2> HIDE DEF names
  <2> QED BY <2>1, <2>2 DEF Listed, Brackets
<1> QED BY <1>1, <1>2

ListAt(t, i) == SubSeq(t, i + 1, Len(t) - 1)
Opens(t, i) == i \in At(t, "[") /\ Last(t) = "]" /\ Listed(ListAt(t, i))
Alone(n) == [name |-> Meant(n, "User"), groups |-> <<>>]
InGroups(n, gs) == [name |-> Meant(n, "User"), groups |-> gs]

LEMMA UsersReadIs ==
    ASSUME NEW t, t = Trim(text), NEW r
    PROVE  r \in UsersRead <=>
              \/ \E n \in UserNames(t) : r = Alone(n)
              \/ \E i, n : Opens(t, i) /\ n \in UserNames(Before(t, i)) /\ r = InGroups(n, Entries(ListAt(t, i)))
<1> DEFINE opens == { i \in At(t, "[") : /\ Last(t) = "]" /\ ~Has(ListAt(t, i), {"[", "]"})
                                         /\ \A k \in DOMAIN Entries(ListAt(t, i)) : Entries(ListAt(t, i))[k] # <<>> }
<1>1. UsersRead = { [name |-> Meant(n, "User"), groups |-> <<>>] : n \in UserNames(t) }
        \cup UNION { { [name |-> Meant(n, "User"), groups |-> Entries(ListAt(t, i))] : n \in UserNames(Before(t, i)) } :
                     i \in opens }
  BY DEF UsersRead, Entries, ListAt
<1>2. \A i : i \in opens <=> Opens(t, i)
  BY DEF Opens, Listed, Brackets
<1> HIDE DEF opens
<1> QED BY <1>1, <1>2 DEF Alone, InGroups

GroupUid(ns, id) == [type |-> Append(ns, <<"Group">>), id |-> id]

\* The user that is read agrees with a reading of the grammar.
Agrees(v, r) ==
    /\ v # Refused /\ v.user.uid = r.name
    /\ [i \in DOMAIN v.groups |-> v.groups[i].uid]
         = [i \in DOMAIN r.groups |-> GroupUid(Front(r.name.type), r.groups[i])]

NoneEmpty(groups) == \A i \in DOMAIN groups : groups[i] # <<>>

LEMMA NamedUser ==
    ASSUME TextConstants, NEW f, NEW m, NEW id \in Texts, id # <<>>, Last(m.type) = <<"User">>,
           Stands(f, m, "User", id),
           NEW groups \in Seq(Texts), NoneEmpty(groups)
    PROVE  Agrees(UserOf(f, groups), [name |-> m, groups |-> groups])
<1> DEFINE ns == Front(m.type)
           n == Len(groups)
           made == [i \in DOMAIN groups |-> NewGroup(groups[i], ns)]
           v == [user |-> f, groups |-> made]
<1>1. /\ f # Refused /\ f.uid = m /\ f.id = id /\ f.namespace = ns /\ IsNamespace(ns)
      /\ f = NewId("User", id, ns)
  BY DEF Stands
<1>2. n \in Nat /\ DOMAIN groups = 1..n /\ \A i \in 1..n : groups[i] \in Texts /\ groups[i] # <<>>
  BY LenProperties, ElementOfSeq DEF NoneEmpty
<1>3. "User" \in Kinds /\ "Group" \in Kinds
  BY DEF Kinds
<1> HIDE DEF ns, n
<1>4. IsOf("User", f)
  BY <1>1, <1>3, NewIdThere
<1>5. ASSUME NEW i \in 1..n
      PROVE  /\ made[i] # Refused /\ made[i].uid = GroupUid(ns, groups[i])
             /\ IsOf("Group", made[i]) /\ made[i].namespace = ns
  <2>1. made[i] = NewId("Group", groups[i], ns)
    BY <1>2 DEF NewGroup
  <2> HIDE DEF made
  <2>2. /\ NewId("Group", groups[i], ns) # Refused
        /\ NewId("Group", groups[i], ns) =
              [id |-> groups[i], namespace |-> ns, uid |-> [type |-> Append(ns, <<"Group">>), id |-> groups[i]]]
        /\ IsOf("Group", NewId("Group", groups[i], ns))
    BY <1>1, <1>2, <1>3, NewIdThere
  <2> DEFINE g == NewId("Group", groups[i], ns)
  <2>3. g = [id |-> groups[i], namespace |-> ns, uid |-> GroupUid(ns, groups[i])]
    BY <2>2 DEF GroupUid
  <2>4. made[i] = g /\ g # Refused /\ IsOf("Group", g)
    BY <2>1, <2>2
  <2> HIDE DEF g
  <2>5. g.namespace = ns /\ g.uid = GroupUid(ns, groups[i])
    BY <2>3
  <2> QED BY <2>4, <2>5
<1>6. DOMAIN made = 1..n /\ made = [i \in 1..n |-> made[i]]
  BY <1>2
<1>7. NewUser(id, groups, ns) = IF f = Refused \/ \E i \in DOMAIN made : made[i] = Refused THEN Refused ELSE v
  BY <1>1 DEF NewUser
<1>8. v = [user |-> f, groups |-> [i \in 1..n |-> made[i]]] /\ v.user = f /\ v.groups = made
  BY <1>6
<1> HIDE DEF made, v
<1>9. NewUser(id, groups, ns) = v
  BY <1>1, <1>5, <1>6, <1>7
<1>10. v # Refused
  <2>1. Together(f, made, n)
    BY <1>1, <1>5 DEF Together
  <2>2. IsUser(v)
    BY <1>2, <1>4, <1>8, <2>1, UserIs
  <2> QED BY <2>2 DEF IsUser
<1>11. UserOf(f, groups) = v
  BY <1>1, <1>9 DEF UserOf
<1>12. [i \in DOMAIN made |-> made[i].uid] = [i \in DOMAIN groups |-> GroupUid(ns, groups[i])]
  BY <1>2, <1>5, <1>6
<1> DEFINE r == [name |-> m, groups |-> groups]
<1>13. r.name = m /\ r.groups = groups
  OBVIOUS
<1> HIDE DEF r
<1>14. Agrees(v, r)
  BY <1>1, <1>8, <1>10, <1>12, <1>13 DEF Agrees, ns
<1> QED BY <1>11, <1>14 DEF r

LEMMA NameId ==
    ASSUME NEW t \in Texts, NEW n \in UserNames(t)
    PROVE  n.id \in Texts /\ n.id # <<>>
<1>1. n \in NamesIn(t)
  BY DEF UserNames
<1>2. Reads(Trim(t), n)
  BY <1>1, NamesTrimmed
<1> QED BY <1>2 DEF Reads

LEMMA NameAgrees ==
    ASSUME TextConstants, NEW t \in Texts, NEW n \in UserNames(t), NEW groups \in Seq(Texts), NoneEmpty(groups)
    PROVE  Agrees(UserOf(IdFrom("User", t), groups), InGroups(n, groups))
<1>1. n.id \in Texts /\ n.id # <<>>
  BY NameId
<1>2. UserName(n) /\ Stands(IdFrom("User", t), Meant(n, "User"), "User", n.id)
  BY UserNamesRead
<1> QED BY <1>1, <1>2, NamedUser DEF UserName, InGroups

LEMMA NoGroups == <<>> \in Seq(Texts) /\ NoneEmpty(<<>>)
<1> DEFINE e == <<>>
<1>1. DOMAIN e = {} /\ e \in Seq(Texts)
  BY EmptySeq
<1> HIDE DEF e
<1>2. NoneEmpty(e)
  BY <1>1 DEF NoneEmpty
<1> QED BY <1>1, <1>2 DEF e

\* A bracket after a name opens the groups.
LEMMA OpensAfterName ==
    ASSUME TextConstants, NEW t \in Texts, NEW i, Opens(t, i), NEW n \in UserNames(Before(t, i))
    PROVE  i \in Openings(t) /\ Before(t, i) \in Texts /\ \A k \in Openings(t) : ~(k < i)
<1>1. i \in At(t, "[")
  BY DEF Opens
<1>2. Before(t, i) \in Texts /\ i \in 1..Len(t)
  BY <1>1, AroundText
<1>3. Quiet(Before(t, i), "plain")
  BY <1>2, UserNamesRead
<1>4. /\ State(Before(t, i)) = Quoting(t)[i - 1]
      /\ Openings(Before(t, i)) = { k \in Openings(t) : k < i }
  BY <1>2, BeforeQuoting
<1>5. i \in Openings(t)
  BY <1>1, <1>3, <1>4 DEF Quiet, Openings
<1> QED BY <1>2, <1>3, <1>4, <1>5 DEF Quiet

LEMMA UserAlone ==
    ASSUME TextConstants, text \in Texts, Openings(Trim(text)) = {}
    PROVE  /\ \A r \in UsersRead : Agrees(UserFrom(text), r)
           /\ UserFrom(text) # Refused => UsersRead # {}
<1> DEFINE t == Trim(text)
           split == [name |-> t, groups |-> <<>>]
           f == IdFrom("User", t)
<1>1. t \in Texts
  BY TrimType
<1>2. UserAndGroups(text) = split
  BY DEF UserAndGroups, Openings
<1>3. split # Refused
  <2>1. <<>> \in Seq(Texts)
    BY EmptySeq
  <2> HIDE DEF t
  <2>2. split \in Splits
    BY <1>1, <2>1 DEF Splits
  <2> QED BY <2>2 DEF TextConstants
<1>4. UserFrom(text) = UserOf(f, <<>>)
  BY <1>2, <1>3 DEF UserFrom
<1> HIDE DEF f, t, split
<1>5. ASSUME NEW r \in UsersRead PROVE Agrees(UserFrom(text), r)
  <2>1. CASE \E n \in UserNames(t) : r = Alone(n)
    <3>1. PICK n \in UserNames(t) : r = Alone(n)
      BY <2>1
    <3>2. Agrees(UserOf(f, <<>>), InGroups(n, <<>>))
      BY <1>1, NoGroups, NameAgrees DEF f
    <3> QED BY <1>4, <3>1, <3>2 DEF Alone, InGroups
  <2>2. ASSUME NEW i, NEW n, Opens(t, i), n \in UserNames(Before(t, i)) PROVE FALSE
    BY <1>1, <2>2, OpensAfterName DEF t
  <2> QED BY <1>5, <2>1, <2>2, UsersReadIs DEF t
<1>6. ASSUME UserFrom(text) # Refused PROVE UsersRead # {}
  <2>1. f # Refused
    BY <1>4, <1>6 DEF UserOf
  <2>2. PICK n : n \in UserNames(t)
    BY <1>1, <2>1, UserNameThere DEF f, t
  <2>3. Alone(n) \in UsersRead
    BY <2>2, UsersReadIs DEF t
  <2> QED BY <2>3
<1> QED BY <1>5, <1>6

LEMMA UserWithGroups ==
    ASSUME TextConstants, text \in Texts, Openings(Trim(text)) # {}
    PROVE  /\ \A r \in UsersRead : Agrees(UserFrom(text), r)
           /\ UserFrom(text) # Refused => UsersRead # {}
<1> DEFINE t == Trim(text)
           found == Openings(t)
           start == Min(found)
           name == Before(t, start)
           l == ListAt(t, start)
           f == IdFrom("User", name)
<1>1. t \in Texts
  BY TrimType
<1>2. /\ UserAndGroups(text) =
           IF t[start] = "]" \/ Last(t) # "]" \/ GroupList(l) = Refused THEN Refused
           ELSE [name |-> Trim(name), groups |-> GroupList(l)]
  BY DEF UserAndGroups, Openings, ListAt
<1>3. start \in found /\ (\A k \in found : start <= k) /\ found \subseteq Nat
  BY <1>1, MinIn, OpeningsIn
<1>4. start \in 1..Len(t) /\ start \in At(t, "[") \cup At(t, "]")
  BY <1>1, <1>3, OpeningsIn DEF Openings
<1>5. name \in Texts
  BY <1>1, <1>4, BeforeAt DEF Texts
<1>6. l \in Texts
  <2>1. Len(t) \in Nat
    BY <1>1, Positions
  <2>2. start + 1 \in Nat /\ start + 1 >= 1 /\ Len(t) - 1 \in Int /\ Len(t) - 1 <= Len(t)
    BY <1>4, <2>1
  <2> HIDE DEF start, t
  <2> QED BY <1>1, <2>2, SubText DEF ListAt
<1>7. Openings(name) = {}
  <2>1. Openings(name) = { k \in found : k < start }
    BY <1>1, <1>4, BeforeQuoting
  <2> HIDE DEF found, start, name
  <2>2. \A k \in found : ~(k < start)
    BY <1>3
  <2> QED BY <2>1, <2>2
<1>8. Entries(l) \in Seq(Texts) /\ Entries(l) # Refused
  BY <1>6, EntriesType
<1>9. IdFrom("User", Trim(name)) = f
  BY <1>5, TrimTrim DEF IdFrom
<1>10. UserAndGroups(text) =
          IF t[start] = "[" /\ Last(t) = "]" /\ Listed(l)
          THEN [name |-> Trim(name), groups |-> Entries(l)] ELSE Refused
  <2>1. GroupList(l) = IF Listed(l) THEN Entries(l) ELSE Refused
    BY <1>6, GroupListIs
  <2>2. t[start] = "]" <=> ~(t[start] = "[")
    BY <1>4 DEF At
  <2> HIDE DEF t, start, l, name
  <2> QED BY <1>2, <1>8, <2>1, <2>2
<1>11. Opens(t, start) <=> t[start] = "[" /\ Last(t) = "]" /\ Listed(l)
  <2>1. start \in At(t, "[") <=> t[start] = "["
    BY <1>1, <1>4, Positions DEF At
  <2> QED BY <2>1 DEF Opens
<1> HIDE DEF start, t, found, l, name, f
<1>12. ASSUME Opens(t, start)
       PROVE  UserFrom(text) = UserOf(f, Entries(l)) /\ NoneEmpty(Entries(l))
  <2> DEFINE split == [name |-> Trim(name), groups |-> Entries(l)]
  <2>1. UserAndGroups(text) = split
    BY <1>10, <1>11, <1>12
  <2>2. split # Refused
    BY <1>5, <1>8, TrimType DEF Splits, TextConstants
  <2>3. UserFrom(text) = UserOf(f, Entries(l))
    BY <1>9, <2>1, <2>2 DEF UserFrom
  <2>4. NoneEmpty(Entries(l))
    BY <1>11, <1>12 DEF Listed, NoneEmpty
  <2> QED BY <2>3, <2>4
<1>13. ASSUME NEW r \in UsersRead PROVE Agrees(UserFrom(text), r)
  <2>1. ASSUME NEW n \in UserNames(t) PROVE FALSE
    BY <1>1, <2>1, UserNamesRead DEF Quiet, found, t
  <2>2. ASSUME NEW i, NEW n, Opens(t, i), n \in UserNames(Before(t, i)), r = InGroups(n, Entries(ListAt(t, i)))
        PROVE  Agrees(UserFrom(text), r)
    <3>1. i \in found /\ \A k \in found : ~(k < i)
      BY <1>1, <2>2, OpensAfterName DEF found
    <3>2. i = start
      <4>1. start <= i /\ ~(start < i) /\ i \in Nat /\ start \in Nat
        BY <1>3, <3>1
      <4> QED BY <4>1
    <3>3. UserFrom(text) = UserOf(f, Entries(l)) /\ NoneEmpty(Entries(l))
      BY <1>12, <2>2, <3>2
    <3>4. n \in UserNames(name) /\ r = InGroups(n, Entries(l))
      BY <2>2, <3>2 DEF name, l
    <3> QED BY <1>5, <1>8, <3>3, <3>4, NameAgrees DEF f
  <2> QED BY <1>13, <2>1, <2>2, UsersReadIs DEF t
<1>14. ASSUME UserFrom(text) # Refused PROVE UsersRead # {}
  <2>1. UserAndGroups(text) # Refused
    BY <1>14 DEF UserFrom
  <2>2. Opens(t, start)
    BY <1>10, <1>11, <2>1
  <2>3. f # Refused
    BY <1>12, <1>14, <2>2 DEF UserOf
  <2>4. PICK n : n \in UserNames(name)
    BY <1>5, <1>7, <2>3, UserNameThere DEF f
  <2>5. InGroups(n, Entries(l)) \in UsersRead
    BY <2>2, <2>4, UsersReadIs DEF t, name, l
  <2> QED BY <2>5
<1> QED BY <1>13, <1>14

LEMMA UsersReadAs ==
    ASSUME TextConstants, text \in Texts
    PROVE  UsersAsGrammar
<1> DEFINE v == UserFrom(text)
<1>1. /\ \A r \in UsersRead : Agrees(v, r)
      /\ v # Refused => UsersRead # {}
  BY UserAlone, UserWithGroups
<1> HIDE DEF v
<1>2. (v = Refused) = (UsersRead = {})
  BY <1>1 DEF Agrees
<1>3. ASSUME NEW r \in UsersRead
      PROVE  /\ v.user.uid = r.name
             /\ [i \in DOMAIN v.groups |-> v.groups[i].uid]
                  = [i \in DOMAIN r.groups |-> [type |-> Append(Front(r.name.type), <<"Group">>), id |-> r.groups[i]]]
  BY <1>1 DEF Agrees, GroupUid
<1> QED BY <1>2, <1>3 DEF UsersAsGrammar, v

LEMMA NamesReadAs ==
    ASSUME TextConstants, text \in Texts
    PROVE  NamesAsGrammar
<1> DEFINE t == Trim(text)
           p == Parts(t)
           read == ResourceFrom(text)
           typeds == { [type |-> n.type, id |-> n.id] : n \in { m \in NamesIn(text) : m.type # <<>> } }
<1>1. /\ ReadAs("Group") = IF GroupFrom(text) = Refused THEN {} ELSE { GroupFrom(text).uid }
      /\ ReadAs("Action") = IF ActionFrom(text) = Refused THEN {} ELSE { ActionFrom(text).uid }
  <2>1. "Group" \in Kinds /\ "Action" \in Kinds
    BY DEF Kinds
  <2> QED BY <2>1, OfKind DEF GroupFrom, ActionFrom
<1>2. read = ResourceOf(p) /\ t \in Texts
  BY TrimType DEF ResourceFrom
<1>3. ASSUME NEW n \in NamesIn(text)
      PROVE  IF n.type = <<>> THEN read = Refused ELSE read # Refused /\ read.uid = [type |-> n.type, id |-> n.id]
  <2>1. Reads(t, n)
    BY <1>3, NamesTrimmed
  <2> HIDE DEF t
  <2>2. /\ p = [type |-> n.type, id |-> n.id] /\ n.id \in Texts /\ n.id # <<>>
        /\ n.type = <<>> \/ \E tn \in Texts : IsTypeName(tn) /\ n.type = SplitBy(tn, "::")
    BY <2>1 DEF Reads
  <2>3. p # Refused
    <3>1. n.type \in Seq(Texts)
      BY <2>2, EmptySeq, SplitType DEF Texts
    <3>2. p \in Uids
      BY <2>2, <3>1 DEF Uids
    <3> QED BY <3>2 DEF TextConstants
  <2> HIDE DEF p
  <2>4. CASE n.type = <<>>
    BY <1>2, <2>2, <2>3, <2>4 DEF ResourceOf
  <2>5. CASE n.type # <<>>
    <3>1. PICK tn \in Texts : IsTypeName(tn) /\ n.type = SplitBy(tn, "::")
      BY <2>2, <2>5
    <3>2. Join(n.type) = tn
      BY <3>1, JoinSplit DEF Texts
    <3>3. read = NewResource(tn, n.id)
      BY <1>2, <2>2, <2>3, <2>5, <3>2 DEF ResourceOf
    <3>4. /\ NewResource(tn, n.id) # Refused
          /\ NewResource(tn, n.id) = [kind |-> tn, id |-> n.id, attrs |-> <<>>, uid |-> Uid(tn, n.id)]
      BY <2>2, <3>1, NewResourceIs
    <3> QED BY <2>5, <3>1, <3>3, <3>4 DEF Uid
  <2> QED BY <2>4, <2>5
<1>4. ASSUME read # Refused PROVE \E n : n \in NamesIn(text)
  <2>1. p # Refused
    BY <1>2, <1>4 DEF ResourceOf
  <2> QED BY <1>2, <2>1, NamesTrimmed, NameThere
<1> HIDE DEF read
<1>5. IF read = Refused THEN typeds = {} ELSE typeds = { read.uid }
  <2>1. CASE read = Refused
    BY <1>3, <2>1
  <2>2. CASE read # Refused
    <3>1. PICK n \in NamesIn(text) : TRUE
      BY <1>4, <2>2
    <3> QED BY <1>3, <2>2, <3>1
  <2> QED BY <2>1, <2>2
<1> QED BY <1>1, <1>5 DEF NamesAsGrammar, read

LEMMA ReadAsGrammarHolds ==
    ASSUME TextConstants, text \in Texts
    PROVE  ReadAsGrammar
  BY UsersReadAs, NamesReadAs DEF ReadAsGrammar

----------------------------------------------------------------------------
(***************************************************************************)
(* What every call leaves: a text, a value that a constructor would make   *)
(* of its own parts, and the outcome of the constructor of the last id.    *)
(***************************************************************************)
ValidAttrs(attrs) == \A n \in DOMAIN attrs : IsValid(attrs[n])

MadeOf(sort, x) ==
    /\ sort \in {"Group", "Action"} => IsOf(sort, x)
    /\ sort = "User" => IsUser(x)
    /\ sort = "Resource" => IsResource(x) /\ ValidAttrs(x.attrs)

Made(v) == \E sort, x : v = [sort |-> sort, it |-> x] /\ MadeOf(sort, x)

Outcome(made) == IF made = Refused THEN Refused ELSE made.uid

Tried(l) ==
    \E kind \in Kinds, id \in Texts, ns \in Seq(Texts) :
        l = [kind |-> kind, id |-> id, namespace |-> ns, uid |-> Outcome(NewId(kind, id, ns))]

Inv ==
    /\ text \in Texts
    /\ value = None \/ Made(value)
    /\ last = None \/ Tried(last)

\* The value that is held.
LEMMA Held ==
    ASSUME Inv, NEW sort, Is(sort)
    PROVE  value = [sort |-> sort, it |-> value.it] /\ MadeOf(sort, value.it)
<1>1. PICK s, x : value = [sort |-> s, it |-> x] /\ MadeOf(s, x)
  BY DEF Inv, Is, Made
<1>2. s = sort /\ value.it = x
  BY <1>1 DEF Is
<1> QED BY <1>1, <1>2

----------------------------------------------------------------------------
(***************************************************************************)
(* Reading JSON.                                                           *)
(***************************************************************************)
JsonNames == [id : Texts, namespace : Seq(Texts)]
JsonUsers == [id : JsonNames, groups : Seq(JsonNames)]

LEMMA UserFromJsonIs ==
    ASSUME NEW json \in JsonUsers
    PROVE  UserFromJson(json) = Refused \/ IsUser(UserFromJson(json))
<1> DEFINE u == IdFromJson("User", json.id)
           made == [i \in DOMAIN json.groups |-> IdFromJson("Group", json.groups[i])]
           n == Len(json.groups)
           v == UserFromJson(json)
<1> SUFFICES ASSUME v # Refused PROVE IsUser(v)
  OBVIOUS
<1>1. v = [user |-> u, groups |-> made] /\ u # Refused /\ \A i \in DOMAIN made : made[i] # Refused
  BY DEF UserFromJson, UserFromJsonUnchecked
<1>2. \A i \in DOMAIN json.groups : json.groups[i].namespace = json.id.namespace
  BY DEF UserFromJson
<1>3. json.groups \in Seq(JsonNames) /\ json.id.id \in Texts /\ json.id.namespace \in Seq(Texts)
  BY DEF JsonUsers, JsonNames
<1>4. n \in Nat /\ DOMAIN json.groups = 1..n
  BY <1>3, LenProperties
<1>5. ASSUME NEW i \in 1..n PROVE json.groups[i].id \in Texts /\ json.groups[i].namespace \in Seq(Texts)
  <2>1. json.groups[i] \in JsonNames
    BY <1>3, ElementOfSeq
  <2> QED BY <2>1 DEF JsonNames
<1>6. "User" \in Kinds /\ "Group" \in Kinds
  BY DEF Kinds
<1>7. IsOf("User", u) /\ u.namespace = json.id.namespace
  BY <1>1, <1>3, <1>6, NewIdIs, TextConstants DEF IdFromJson
<1>8. ASSUME NEW i \in 1..n PROVE IsOf("Group", made[i]) /\ made[i].namespace = u.namespace
  <2>1. made[i] = NewId("Group", json.groups[i].id, json.groups[i].namespace) /\ made[i] # Refused
    BY <1>1, <1>4 DEF IdFromJson
  <2>2. json.groups[i].namespace = json.id.namespace
    BY <1>2, <1>4
  <2> HIDE DEF made, u
  <2> QED BY <1>5, <1>6, <1>7, <2>1, <2>2, NewIdIs, TextConstants
<1>9. made = [i \in 1..n |-> made[i]]
  BY <1>4
<1> HIDE DEF u, made, n, v
<1>10. Together(u, made, n)
  BY <1>8 DEF Together
<1>11. v = [user |-> u, groups |-> [i \in 1..n |-> made[i]]]
  BY <1>1, <1>9
<1> QED BY <1>4, <1>7, <1>10, <1>11, UserIs, TextConstants

LEMMA ResourceFromJsonIs ==
    ASSUME NEW json, json.kind \in Texts, json.id \in Texts
    PROVE  \/ ResourceFromJson(json) = Refused
           \/ IsResource(ResourceFromJson(json)) /\ ValidAttrs(ResourceFromJson(json).attrs)
<1> DEFINE made == NewResource(json.kind, json.id)
           r == [made EXCEPT !.attrs = json.attrs]
<1> SUFFICES ASSUME made # Refused, ValidAttrs(json.attrs) PROVE IsResource(r) /\ ValidAttrs(r.attrs)
  BY DEF ResourceFromJson, ValidAttrs
<1>1. /\ json.id # <<>> /\ IsTypeName(json.kind)
      /\ made = [kind |-> json.kind, id |-> json.id, attrs |-> <<>>, uid |-> Uid(json.kind, json.id)]
  BY NewResourceIs, TextConstants
<1> HIDE DEF made
<1>2. r = [kind |-> json.kind, id |-> json.id, attrs |-> json.attrs, uid |-> Uid(json.kind, json.id)]
  BY <1>1
<1> HIDE DEF r
<1>3. r.kind = json.kind /\ r.id = json.id /\ r.attrs = json.attrs /\ r.uid = Uid(json.kind, json.id)
  BY <1>2
<1> QED BY <1>1, <1>2, <1>3 DEF IsResource

LEMMA AttrsChanged ==
    ASSUME NEW r, IsResource(r), NEW attrs
    PROVE  IsResource([r EXCEPT !.attrs = attrs]) /\ [r EXCEPT !.attrs = attrs].attrs = attrs
<1> DEFINE s == [kind |-> r.kind, id |-> r.id, attrs |-> attrs, uid |-> r.uid]
<1>1. r = [kind |-> r.kind, id |-> r.id, attrs |-> r.attrs, uid |-> r.uid]
  BY DEF IsResource
<1>2. [r EXCEPT !.attrs = attrs] = s
  BY <1>1
<1>3. s.kind = r.kind /\ s.id = r.id /\ s.attrs = attrs /\ s.uid = r.uid
  OBVIOUS
<1> HIDE DEF s
<1>4. IsResource(s)
  <2>1. s = [kind |-> s.kind, id |-> s.id, attrs |-> s.attrs, uid |-> s.uid]
    BY <1>3 DEF s
  <2> QED BY <1>3, <2>1 DEF IsResource
<1> QED BY <1>2, <1>3, <1>4

LEMMA InsertValid ==
    ASSUME NEW attrs, ValidAttrs(attrs), NEW name, NEW v, IsValid(v)
    PROVE  ValidAttrs(Insert(attrs, name, v))
BY DEF Insert, ValidAttrs

----------------------------------------------------------------------------
(***************************************************************************)
(* The calls.                                                              *)
(***************************************************************************)
\* A call that returns a value of a sort, or none.
LEMMA ResultMade ==
    ASSUME NEW sort, NEW made, Result(sort, made), made = Refused \/ MadeOf(sort, made)
    PROVE  value' = None \/ Made(value')
  BY DEF Result, Made

LEMMA AttemptTried ==
    ASSUME NEW kind \in Kinds, NEW id \in Ids, NEW ns \in Namespaces, Attempt(kind, id, ns)
    PROVE  Tried(last')
<1>1. id \in Texts /\ ns \in Seq(Texts)
  BY RequestConstants DEF Texts
<1>2. last' = [kind |-> kind, id |-> id, namespace |-> ns, uid |-> Outcome(NewId(kind, id, ns))]
  BY DEF Attempt, Outcome
<1> QED BY <1>1, <1>2 DEF Tried

LEMMA NameMade ==
    ASSUME NEW kind \in {"Group", "Action"}, NEW r, r = Refused \/ IsOf(kind, r)
    PROVE  r = Refused \/ MadeOf(kind, r)
  BY DEF MadeOf

LEMMA UserMade ==
    ASSUME NEW v, v = Refused \/ IsUser(v)
    PROVE  v = Refused \/ MadeOf("User", v)
  BY DEF MadeOf

LEMMA ResourceMade ==
    ASSUME NEW r, r = Refused \/ (IsResource(r) /\ ValidAttrs(r.attrs))
    PROVE  r = Refused \/ MadeOf("Resource", r)
  BY DEF MadeOf

LEMMA NewResourceMade ==
    ASSUME NEW kind \in Texts, NEW id \in Texts
    PROVE  NewResource(kind, id) = Refused \/ MadeOf("Resource", NewResource(kind, id))
<1>1. NewResource(kind, id) = Refused \/ (IsResource(NewResource(kind, id)) /\ NewResource(kind, id).attrs = <<>>)
  BY NewResourceIs, TextConstants
<1>2. ValidAttrs(<<>>)
  BY DEF ValidAttrs
<1> QED BY <1>1, <1>2, ResourceMade

LEMMA ResourceFromMade ==
    ASSUME NEW t \in Texts
    PROVE  ResourceFrom(t) = Refused \/ MadeOf("Resource", ResourceFrom(t))
<1> DEFINE parts == Parts(Trim(t))
<1>1. parts = Refused \/ parts \in Uids
  BY TrimType, PartsType
<1>2. ResourceFrom(t) = ResourceOf(parts)
  BY DEF ResourceFrom
<1> HIDE DEF parts
<1>3. ResourceOf(parts) = Refused
      \/ (parts # Refused /\ ResourceOf(parts) = NewResource(Join(parts.type), parts.id))
  BY DEF ResourceOf
<1>4. parts # Refused => Join(parts.type) \in Texts /\ parts.id \in Texts
  BY <1>1, JoinType DEF Uids, Texts
<1> QED BY <1>2, <1>3, <1>4, NewResourceMade

LEMMA FromStrMade ==
    ASSUME NEW sort \in Kinds \cup {"Resource"}, NEW t \in Texts
    PROVE  FromStr(sort, t) = Refused \/ MadeOf(sort, FromStr(sort, t))
<1>1. CASE sort = "User"
  <2>1. FromStr(sort, t) = UserFrom(t)
    BY <1>1 DEF FromStr
  <2> QED BY <1>1, <2>1, UserFromIs, UserMade, TextConstants
<1>2. CASE sort \in {"Group", "Action"}
  <2>1. FromStr(sort, t) = IdFrom(sort, t) /\ sort \in Kinds
    BY <1>2 DEF FromStr, Kinds
  <2> QED BY <1>2, <2>1, IdFromIs, NameMade, TextConstants
<1>3. CASE sort = "Resource"
  <2>1. FromStr(sort, t) = ResourceFrom(t)
    BY <1>3 DEF FromStr
  <2> QED BY <1>3, <2>1, ResourceFromMade
<1> QED BY <1>1, <1>2, <1>3 DEF Kinds

\* A call that changes attributes of a resource.
LEMMA ResourceChanged ==
    ASSUME Inv, Is("Resource"), NEW attrs, ValidAttrs(attrs),
           value' = [value EXCEPT !.it.attrs = attrs]
    PROVE  Made(value')
<1> DEFINE r == value.it
<1>1. value = [sort |-> "Resource", it |-> r] /\ IsResource(r)
  BY Held DEF MadeOf
<1> HIDE DEF r
<1>2. value' = [sort |-> "Resource", it |-> [r EXCEPT !.attrs = attrs]]
  BY <1>1
<1>3. MadeOf("Resource", [r EXCEPT !.attrs = attrs])
  BY <1>1, AttrsChanged DEF MadeOf
<1> QED BY <1>2, <1>3 DEF Made

LEMMA GivenTexts ==
    ASSUME NEW id \in Ids, NEW ns \in Namespaces
    PROVE  id \in Texts /\ ns \in Seq(Texts)
  BY RequestConstants DEF Texts

LEMMA BoundedIn ==
    ASSUME NEW S, NEW T, S \subseteq T, NEW n \in Nat
    PROVE  BoundedSeq(S, n) \subseteq Seq(T)
<1>1. ASSUME NEW s \in BoundedSeq(S, n) PROVE s \in Seq(T)
  <2>1. PICK m \in 0..n : s \in [1..m -> S]
    BY <1>1 DEF BoundedSeq, SeqOf
  <2>2. s \in [1..m -> T] /\ m \in Nat
    BY <2>1
  <2> QED BY <2>2, SeqDef
<1> QED BY <1>1

LEMMA Step ==
    ASSUME Inv, [Next]_vars
    PROVE  Inv'
<1> USE TextConstants
<1>0. text \in Texts /\ (value = None \/ Made(value)) /\ (last = None \/ Tried(last))
  BY DEF Inv
<1>a. ASSUME Idle PROVE text' \in Texts
  BY <1>0, <1>a DEF Idle, textVars
<1>1. ASSUME NEW c \in Chars, TypeText(c) PROVE Inv'
  <2>1. text' \in Texts
    BY <1>0, <1>1, AppendProperties DEF TypeText, Type, Texts
  <2> QED BY <1>0, <1>1, <2>1 DEF TypeText, Inv
<1>2. ASSUME NEW sort \in Kinds \cup {"Resource"}, ReadText(sort) PROVE Inv'
  <2>1. PICK made : made = FromStr(sort, text) /\ Result(sort, made)
    BY <1>2 DEF ReadText
  <2>2. value' = None \/ Made(value')
    BY <1>0, <2>1, FromStrMade, ResultMade
  <2>3. text' \in Texts /\ last' = None
    BY <1>2, EmptySeq DEF ReadText, Clear, Texts
  <2> QED BY <2>2, <2>3 DEF Inv
<1>3. ASSUME NEW id \in Ids, NEW namespace \in Namespaces, NEW groups \in GroupLists,
             MakeUser(id, groups, namespace)
      PROVE  Inv'
  <2>1. groups \in Seq(Texts)
    BY RequestConstants, BoundedIn DEF GroupLists, Texts
  <2>2. PICK made : made = NewUser(id, groups, namespace) /\ Result("User", made)
    BY <1>3 DEF MakeUser
  <2>3. made = Refused \/ MadeOf("User", made)
    BY <2>1, <2>2, GivenTexts, NewUserIs, UserMade
  <2>4. value' = None \/ Made(value')
    BY <2>2, <2>3, ResultMade
  <2>5. Tried(last')
    BY <1>3, AttemptTried DEF MakeUser, Kinds
  <2> QED BY <1>a, <1>3, <2>4, <2>5 DEF MakeUser, Inv
<1>4. ASSUME NEW id \in Ids, NEW namespace \in Namespaces, NEW kind \in {"Group", "Action"},
             MakeName(kind, id, namespace)
      PROVE  Inv'
  <2>1. kind \in Kinds
    BY DEF Kinds
  <2>2. PICK made : made = NewId(kind, id, namespace) /\ Result(kind, made)
    BY <1>4 DEF MakeName
  <2>3. made = Refused \/ MadeOf(kind, made)
    BY <2>1, <2>2, GivenTexts, NewIdIs, NameMade
  <2>4. value' = None \/ Made(value')
    BY <2>2, <2>3, ResultMade
  <2>5. Tried(last')
    BY <1>4, <2>1, AttemptTried DEF MakeName
  <2> QED BY <1>a, <1>4, <2>4, <2>5 DEF MakeName, Inv
<1>5. ASSUME NEW name \in Names, NEW groups \in BoundedSeq(Names, 1),
             ReadUser([id |-> name, groups |-> groups])
      PROVE  Inv'
  <2>1. Names \subseteq JsonNames
    BY RequestConstants DEF Names, JsonNames, Texts
  <2>2. groups \in Seq(JsonNames)
    BY <2>1, BoundedIn
  <2> DEFINE json == [id |-> name, groups |-> groups]
  <2>3. json \in JsonUsers
    BY <2>1, <2>2 DEF JsonUsers
  <2> HIDE DEF json
  <2>4. ReadUser(json)
    BY <1>5 DEF json
  <2>5. PICK made : made = UserFromJson(json) /\ Result("User", made)
    BY <2>4 DEF ReadUser
  <2>6. made = Refused \/ MadeOf("User", made)
    BY <2>3, <2>5, UserFromJsonIs, UserMade
  <2>7. value' = None \/ Made(value')
    BY <2>5, <2>6, ResultMade
  <2> QED BY <1>a, <2>4, <2>7 DEF ReadUser, Inv
<1>6. ASSUME NEW type \in Types, NEW id \in Ids, MakeResource(type, id) PROVE Inv'
  <2>1. type \in Texts /\ id \in Texts
    BY RequestConstants DEF Texts
  <2>2. PICK made : made = NewResource(type, id) /\ Result("Resource", made)
    BY <1>6 DEF MakeResource
  <2>3. value' = None \/ Made(value')
    BY <2>1, <2>2, NewResourceMade, ResultMade
  <2> QED BY <1>a, <1>6, <2>3 DEF MakeResource, Inv
<1>7. ASSUME NEW type \in Types, NEW id \in Ids, NEW attrs \in Attributes,
             ReadResource([kind |-> type, id |-> id, attrs |-> attrs])
      PROVE  Inv'
  <2> DEFINE json == [kind |-> type, id |-> id, attrs |-> attrs]
  <2>1. json.kind \in Texts /\ json.id \in Texts
    BY RequestConstants DEF Texts
  <2> HIDE DEF json
  <2>2. ReadResource(json)
    BY <1>7 DEF json
  <2>3. PICK made : made = ResourceFromJson(json) /\ Result("Resource", made)
    BY <2>2 DEF ReadResource
  <2>4. made = Refused \/ MadeOf("Resource", made)
    BY <2>1, <2>3, ResourceFromJsonIs, ResourceMade
  <2>5. value' = None \/ Made(value')
    BY <2>3, <2>4, ResultMade
  <2> QED BY <1>a, <2>2, <2>5 DEF ReadResource, Inv
<1>8. CASE MakeContext
  <2>1. PICK made : made = <<>> /\ Result("Context", made)
    BY <1>8 DEF MakeContext
  <2>2. MadeOf("Context", made)
    BY DEF MadeOf
  <2>3. value' = None \/ Made(value')
    BY <2>1, <2>2, ResultMade
  <2> QED BY <1>a, <1>8, <2>3 DEF MakeContext, Inv
<1>9. ASSUME NEW name, RemoveAttr(name) PROVE Inv'
  <2>1. PICK attrs : /\ attrs = [n \in DOMAIN value.it.attrs \ {name} |-> value.it.attrs[n]]
                     /\ Is("Resource") /\ value' = [value EXCEPT !.it.attrs = attrs]
    BY <1>9 DEF RemoveAttr
  <2>2. ValidAttrs(value.it.attrs)
    BY <2>1, Held DEF MadeOf
  <2>3. ValidAttrs(attrs)
    BY <2>1, <2>2 DEF ValidAttrs
  <2>4. Made(value')
    BY <2>1, <2>3, ResourceChanged
  <2> QED BY <1>0, <1>9, <2>4 DEF RemoveAttr, Inv, textVars
<1>10. ASSUME NEW name, NEW v, SetAttr(name, v) PROVE Inv'
  <2>1. PICK attrs : /\ attrs = Insert(value.it.attrs, name, v)
                     /\ Is("Resource") /\ IsValid(v) /\ value' = [value EXCEPT !.it.attrs = attrs]
    BY <1>10 DEF SetAttr
  <2>2. ValidAttrs(value.it.attrs)
    BY <2>1, Held DEF MadeOf
  <2>3. ValidAttrs(attrs)
    BY <2>1, <2>2, InsertValid
  <2>4. Made(value')
    BY <2>1, <2>3, ResourceChanged
  <2> QED BY <1>0, <1>10, <2>4 DEF SetAttr, Inv, textVars
<1>11. ASSUME NEW name, NEW v, SetContext(name, v) PROVE Inv'
  <2>1. Is("Context") /\ value' = [value EXCEPT !.it = Insert(value.it, name, v)]
    BY <1>11 DEF SetContext
  <2>2. value = [sort |-> "Context", it |-> value.it]
    BY <2>1, Held
  <2>3. value' = [sort |-> "Context", it |-> Insert(value.it, name, v)]
    BY <2>1, <2>2
  <2>4. MadeOf("Context", Insert(value.it, name, v))
    BY DEF MadeOf
  <2>5. Made(value')
    BY <2>3, <2>4 DEF Made
  <2> QED BY <1>0, <1>11, <2>5 DEF SetContext, Inv, textVars
<1>12. CASE Drop
  BY <1>0, <1>12 DEF Drop, Inv, textVars
<1>13. CASE UNCHANGED vars
  BY <1>0, <1>13 DEF vars, Inv, textVars
<1> QED BY <1>1, <1>2, <1>3, <1>4, <1>5, <1>6, <1>7, <1>8, <1>9, <1>10, <1>11, <1>12, <1>13 DEF Next

LEMMA InitInv == Init => Inv
  BY IdentifierConstants DEF Init, TextInit, Inv, Texts

\* Whatever a request is made of is made as its constructors make it.
THEOREM InvHolds == Spec => []Inv
  BY InitInv, Step, PTL DEF Spec

\* A text, whatever quotes, escapes, brackets and separators it is made of, is
\* read exactly as the grammar of Identifiers says, in which quotes in a group
\* belong to its id, in one way or in none (split_user_and_groups,
\* split_string_into_cedar_parts, FromStr of User, Group, Action and Resource).
THEOREM GrammarFollowed == Spec => []ReadAsGrammar
<1>1. Inv => ReadAsGrammar
  BY ReadAsGrammarHolds, TextConstants DEF Inv
<1> QED BY <1>1, InvHolds, PTL

\* A user is in groups of its own namespace only, however it was made or read
\* (User::new, User::deserialize, User::from_str).
THEOREM GroupsStayInNamespace == Spec => []GroupsInUsersNamespace
<1>1. Inv => GroupsInUsersNamespace
  <2> SUFFICES ASSUME Inv, Is("User"), NEW i \in DOMAIN value.it.groups
               PROVE  Front(value.it.groups[i].uid.type) = Front(value.it.user.uid.type)
    BY DEF GroupsInUsersNamespace
  <2>1. IsUser(value.it)
    BY Held DEF MadeOf
  <2> QED BY <2>1, UserNamespace, TextConstants
<1> QED BY <1>1, InvHolds, PTL

\* A listing by names and a request by values name the same entity and refuse
\* the same names (typed_entity_uid, QualifiedId::new).
THEOREM NamesMatchValues == Spec => []NamesAndValuesAgree
<1>1. Inv => NamesAndValuesAgree
  <2> SUFFICES ASSUME Inv, last # None
               PROVE  TypedEntityUid(last.kind, last.id, last.namespace) = last.uid
    BY DEF NamesAndValuesAgree
  <2>1. PICK kind \in Kinds, id \in Texts, ns \in Seq(Texts) :
           last = [kind |-> kind, id |-> id, namespace |-> ns, uid |-> Outcome(NewId(kind, id, ns))]
    BY DEF Inv, Tried
  <2>2. last.kind = kind /\ last.id = id /\ last.namespace = ns /\ last.uid = Outcome(NewId(kind, id, ns))
    BY <2>1
  <2> DEFINE type == IF ns = <<>> THEN <<kind>> ELSE Join(ns) \o <<"::", kind>>
             tn == TypeOf(kind, ns)
  <2>3. type = tn
    <3> DEFINE c == "::"
               k == <<kind>>
    <3>1. k \in Texts /\ c \in Chars /\ kind \in Chars
      BY KindText, JointType, MarksAreChars, TextConstants DEF Texts
    <3>2. tn = IF ns = <<>> THEN k ELSE Join(ns) \o (Joint \o k)
      BY <3>1, JoinAppend DEF TypeOf, Texts
    <3>3. Joint \o k = <<c, kind>>
      <4>1. Joint \o k = Append(Joint, kind)
        BY <3>1, JointType, AppendIsConcat
      <4>2. Joint = <<c>>
        BY DEF Joint
      <4> HIDE DEF c
      <4> QED BY <3>1, <4>1, <4>2, PairAppend
    <3> QED BY <3>2, <3>3
  <2>4. TypedEntityUid(kind, id, ns) = IF id = <<>> \/ ~IsTypeName(tn) THEN Refused ELSE Uid(tn, id)
    BY <2>3 DEF TypedEntityUid
  <2> HIDE DEF tn
  <2>5. Outcome(NewId(kind, id, ns)) = IF id = <<>> \/ ~IsTypeName(tn) THEN Refused ELSE Uid(tn, id)
    BY NewIdType, TextConstants DEF Outcome, tn
  <2> QED BY <2>2, <2>4, <2>5
<1> QED BY <1>1, InvHolds, PTL

\* Cedar sees a resource under the id of its UID and with the attributes it was
\* given, however an attribute id was set, removed or sent (Resource::cedar_attr).
THEOREM IdCanonical == Spec => []CanonicalId
<1>1. Inv => CanonicalId
  <2> SUFFICES ASSUME Inv, Is("Resource")
               PROVE  CanonicalId
    BY DEF CanonicalId
  <2> DEFINE r == value.it
  <2>1. IsResource(r) /\ ValidAttrs(r.attrs)
    BY Held DEF MadeOf
  <2> HIDE DEF r
  <2> DEFINE sent == Expressions(r.attrs)
  <2>2. DOMAIN sent = DOMAIN r.attrs /\ \A n \in DOMAIN r.attrs : sent[n] = ToExpression(r.attrs[n])
    BY DEF Expressions
  <2>3. CedarAttr(r) = [n \in DOMAIN sent \cup {"id"} |-> IF n = "id" THEN Identity(r.id) ELSE sent[n]]
    BY DEF CedarAttr, Insert
  <2>4. r.uid.id = r.id
    BY <2>1 DEF IsResource, Uid
  <2>5. /\ CedarAttr(r)["id"] = Identity(r.uid.id)
        /\ DOMAIN CedarAttr(r) = DOMAIN r.attrs \cup {"id"}
        /\ \A n \in DOMAIN CedarAttr(r) \ {"id"} : CedarAttr(r)[n] = ToExpression(r.attrs[n])
    BY <2>2, <2>3, <2>4
  <2> QED BY <2>1, <2>5 DEF CanonicalId, ValidAttrs, r
<1> QED BY <1>1, InvHolds, PTL

LEMMA UserJsonReadsBack ==
    ASSUME NEW v, IsUser(v)
    PROVE  UserFromJson(UserToJson(v)) = v
<1> DEFINE n == Len(v.groups)
           json == UserToJson(v)
           made == [i \in DOMAIN json.groups |-> IdFromJson("Group", json.groups[i])]
<1>1. /\ v = [user |-> v.user, groups |-> v.groups] /\ v.groups \in Seq(QualifiedIds)
      /\ IsOf("User", v.user)
      /\ \A i \in DOMAIN v.groups : IsOf("Group", v.groups[i]) /\ v.groups[i].namespace = v.user.namespace
  BY DEF IsUser, Users
<1>2. "User" \in Kinds /\ "Group" \in Kinds
  BY DEF Kinds
<1>3. json.id = IdToJson(v.user) /\ json.groups = [i \in DOMAIN v.groups |-> IdToJson(v.groups[i])]
  BY DEF UserToJson
<1> HIDE DEF json
<1>4. IdFromJson("User", json.id) = v.user /\ json.id.namespace = v.user.namespace
  BY <1>1, <1>2, <1>3, IsNewId, TextConstants DEF IdFromJson, IdToJson
<1>5. ASSUME NEW i \in DOMAIN v.groups
      PROVE  IdFromJson("Group", json.groups[i]) = v.groups[i] /\ json.groups[i].namespace = v.groups[i].namespace
  <2>1. json.groups[i] = IdToJson(v.groups[i])
    BY <1>3
  <2> QED BY <1>1, <1>2, <2>1, IsNewId, TextConstants DEF IdFromJson, IdToJson
<1>6. DOMAIN json.groups = DOMAIN v.groups
  BY <1>3
<1>7. made = v.groups
  <2>1. v.groups = [i \in DOMAIN v.groups |-> v.groups[i]]
    BY <1>1, LenProperties
  <2>2. made = [i \in DOMAIN v.groups |-> v.groups[i]]
    BY <1>5, <1>6
  <2> QED BY <2>1, <2>2
<1>8. v.user # Refused /\ \A i \in DOMAIN made : made[i] # Refused
  BY <1>1, <1>7 DEF IsOf
<1>9. UserFromJsonUnchecked(json) = [user |-> v.user, groups |-> v.groups]
  BY <1>4, <1>7, <1>8 DEF UserFromJsonUnchecked
<1>10. \A i \in DOMAIN json.groups : json.groups[i].namespace = json.id.namespace
  BY <1>1, <1>4, <1>5, <1>6
<1>11. UserFromJson(json) = v
  BY <1>1, <1>9, <1>10 DEF UserFromJson
<1> QED BY <1>11 DEF json

LEMMA ResourceJsonReadsBack ==
    ASSUME NEW r, IsResource(r), ValidAttrs(r.attrs)
    PROVE  ResourceFromJson(ResourceToJson(r)) = r
<1> DEFINE json == ResourceToJson(r)
<1>1. json.kind = r.kind /\ json.id = r.id /\ json.attrs = r.attrs
  BY DEF ResourceToJson
<1>2. /\ r.kind \in Texts /\ r.id \in Texts /\ r.id # <<>> /\ IsTypeName(r.kind) /\ r.uid = Uid(r.kind, r.id)
      /\ r = [kind |-> r.kind, id |-> r.id, attrs |-> r.attrs, uid |-> r.uid]
  BY DEF IsResource
<1> HIDE DEF json
<1> DEFINE made == NewResource(r.kind, r.id)
<1>3. made # Refused /\ made = [kind |-> r.kind, id |-> r.id, attrs |-> <<>>, uid |-> r.uid]
  BY <1>2, NewResourceIs, TextConstants
<1> HIDE DEF made
<1>4. [made EXCEPT !.attrs = r.attrs] = r
  BY <1>2, <1>3
<1>5. ResourceFromJson(json) = [made EXCEPT !.attrs = r.attrs]
  BY <1>1, <1>3 DEF ResourceFromJson, ValidAttrs, made
<1> QED BY <1>4, <1>5 DEF json

\* What is displayed, and what is written as JSON, is read as the same entity:
\* no id, with whatever quotes, escapes and brackets, is read as another or as
\* a user with groups (Display, FromStr, Serialize and Deserialize).
THEOREM RenderingsReadBack == Spec => []ReadsBack
<1>1. Inv => ReadsBack
  <2> SUFFICES ASSUME Inv PROVE ReadsBack
    OBVIOUS
  <2> DEFINE x == value.it
  <2>1. ASSUME NEW kind \in {"Group", "Action"}, Is(kind)
        PROVE  /\ IdFrom(kind, Show(x.uid)) # Refused /\ IdFrom(kind, Show(x.uid)).uid = x.uid
               /\ IdFromJson(kind, IdToJson(x)) = x
    <3>1. IsOf(kind, x) /\ kind \in Kinds
      BY <2>1, Held DEF MadeOf, Kinds
    <3> HIDE DEF x
    <3>2. IdFromJson(kind, IdToJson(x)) = x
      BY <3>1, IsNewId, TextConstants DEF IdFromJson, IdToJson
    <3> QED BY <3>1, <3>2, NameReadsBack, TextConstants
  <2>2. ASSUME Is("User")
        PROVE  /\ UserFrom(Show(x.user.uid)) # Refused
               /\ UserFrom(Show(x.user.uid)).user.uid = x.user.uid
               /\ UserFrom(Show(x.user.uid)).groups = <<>>
               /\ UserFromJson(UserToJson(x)) = x
    <3>1. IsUser(x)
      BY <2>2, Held DEF MadeOf
    <3> HIDE DEF x
    <3>2. IsOf("User", x.user)
      BY <3>1 DEF IsUser
    <3> QED BY <3>1, <3>2, UserReadsBack, UserJsonReadsBack, TextConstants
  <2>3. ASSUME Is("Resource")
        PROVE  /\ ResourceFrom(Show(x.uid)) = [x EXCEPT !.attrs = <<>>]
               /\ ResourceFromJson(ResourceToJson(x)) = x
    <3>1. IsResource(x) /\ ValidAttrs(x.attrs)
      BY <2>3, Held DEF MadeOf
    <3> HIDE DEF x
    <3> QED BY <3>1, ResourceReadsBack, ResourceJsonReadsBack, TextConstants
  <2> QED BY <2>1, <2>2, <2>3 DEF ReadsBack
<1> QED BY <1>1, InvHolds, PTL
=============================================================================

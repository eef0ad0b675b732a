---------------------------- MODULE SequenceFacts ----------------------------
(***************************************************************************)
(* What FlattenSeq of SequencesExt returns, for any sequences: the modules *)
(* use it to take some of a sequence, each place giving what it leaves.    *)
(***************************************************************************)
EXTENDS Naturals, Sequences, SequencesExt, SequenceTheorems, WellFoundedInduction, TLAPS

LEMMA LeastNatural ==
    ASSUME NEW T \in SUBSET Nat, T # {}
    PROVE  \E n \in T : \A k \in T : n <= k
<1>1. PICK n \in T : \A k \in T : ~(<<k, n>> \in OpToRel(<, Nat))
  BY NatLessThanWellFounded, WFMin
<1>2. \A k \in T : ~(k < n)
  BY <1>1 DEF OpToRel
<1> QED BY <1>2

\* A set of naturals that holds zero and what follows each of its own is all of them.
LEMMA NaturalsReached ==
    ASSUME NEW T \in SUBSET Nat, 0 \in T, \A n \in T : n + 1 \in T
    PROVE  T = Nat
<1> SUFFICES ASSUME Nat \ T # {} PROVE FALSE
  OBVIOUS
<1>1. PICK n \in Nat \ T : \A k \in Nat \ T : n <= k
  BY LeastNatural
<1>2. n # 0 /\ n - 1 \in Nat /\ ~(n <= n - 1)
  BY <1>1
<1>3. n - 1 \in T
  BY <1>1, <1>2
<1>4. n - 1 + 1 \in T
  BY <1>3
<1> QED BY <1>1, <1>4

------------------------------------------------------------------------------
(* The prefixes a sequence of sequences is flattened through.              *)

\* g holds the flattenings of the first parts of ss.
Flattens(g, ss, n) ==
    \A i \in 1..n : g[i] = IF i = 1 THEN ss[i] ELSE g[i - 1] \o ss[i]

LEMMA FlatteningsAgree ==
    ASSUME NEW ss, NEW n \in Nat, NEW f, NEW g, Flattens(f, ss, n), Flattens(g, ss, n)
    PROVE  \A i \in 1..n : f[i] = g[i]
<1> SUFFICES ASSUME \E i \in 1..n : f[i] # g[i] PROVE FALSE
  OBVIOUS
<1> DEFINE T == {i \in 1..n : f[i] # g[i]}
<1>0. T \in SUBSET Nat /\ T # {}
  OBVIOUS
<1>1. PICK i \in T : \A k \in T : i <= k
  BY <1>0, LeastNatural
<1>2. i \in 1..n /\ f[i] # g[i]
  BY <1>1
<1>3. i # 1
  BY <1>2 DEF Flattens
<1>4. i - 1 \in 1..n /\ ~(i <= i - 1)
  BY <1>2, <1>3
<1>5. f[i - 1] = g[i - 1]
  BY <1>1, <1>4
<1> QED BY <1>2, <1>3, <1>5 DEF Flattens

LEMMA FlatteningsBe ==
    ASSUME NEW S, NEW ss \in Seq(Seq(S))
    PROVE  \E g : g \in [1..Len(ss) -> Seq(S)] /\ Flattens(g, ss, Len(ss))
<1> DEFINE T == {n \in Nat : n <= Len(ss) => \E g \in [1..n -> Seq(S)] : Flattens(g, ss, n)}
<1>0. Len(ss) \in Nat /\ \A i \in 1..Len(ss) : ss[i] \in Seq(S)
  OBVIOUS
<1>1. 0 \in T
  <2>1. [i \in 1..0 |-> <<>>] \in [1..0 -> Seq(S)] /\ 1..0 = {}
    OBVIOUS
  <2> QED BY <2>1 DEF Flattens
<1>2. ASSUME NEW n \in T PROVE n + 1 \in T
  <2> SUFFICES ASSUME n + 1 <= Len(ss) PROVE \E g \in [1..n + 1 -> Seq(S)] : Flattens(g, ss, n + 1)
    OBVIOUS
  <2>1. n \in Nat /\ n <= Len(ss) /\ n + 1 \in 1..Len(ss)
    BY <1>0
  <2>2. PICK f \in [1..n -> Seq(S)] : Flattens(f, ss, n)
    BY <2>1
  <2> DEFINE top == IF n = 0 THEN ss[1] ELSE f[n] \o ss[n + 1]
             g == [i \in 1..n + 1 |-> IF i = n + 1 THEN top ELSE f[i]]
  <2>3. top \in Seq(S)
    <3>1. CASE n = 0
      BY <1>0, <2>1, <3>1
    <3>2. CASE n # 0
      <4>1. n \in 1..n
        BY <2>1, <3>2
      <4>2. f[n] \in Seq(S) /\ ss[n + 1] \in Seq(S)
        BY <1>0, <2>1, <4>1
      <4> QED BY <3>2, <4>2
    <3> QED BY <3>1, <3>2
  <2> HIDE DEF top
  <2>4. g \in [1..n + 1 -> Seq(S)]
    BY <2>1, <2>3
  <2>5. Flattens(g, ss, n + 1)
    <3> SUFFICES ASSUME NEW i \in 1..n + 1
                 PROVE  g[i] = IF i = 1 THEN ss[i] ELSE g[i - 1] \o ss[i]
      BY DEF Flattens
    <3>1. CASE i = n + 1
      <4>1. g[i] = top
        BY <3>1
      <4>2. CASE n = 0
        BY <3>1, <4>1, <4>2 DEF top
      <4>3. CASE n # 0
        <5>1. i # 1 /\ i - 1 = n /\ n \in 1..n + 1 /\ n # n + 1
          BY <2>1, <3>1, <4>3
        <5>2. g[i - 1] = f[n]
          BY <5>1
        <5> QED BY <3>1, <4>1, <4>3, <5>1, <5>2 DEF top
      <4> QED BY <4>2, <4>3
    <3>2. CASE i # n + 1
      <4>1. i \in 1..n /\ g[i] = f[i]
        BY <2>1, <3>2
      <4>2. i # 1 => i - 1 \in 1..n + 1 /\ i - 1 # n + 1
        BY <2>1, <4>1
      <4>3. i # 1 => g[i - 1] = f[i - 1]
        BY <4>2
      <4> QED BY <2>2, <4>1, <4>3 DEF Flattens
    <3> QED BY <3>1, <3>2
  <2> QED BY <2>4, <2>5
<1> HIDE DEF T
<1>3. T \in SUBSET Nat
  BY DEF T
<1>4. Len(ss) \in T
  BY <1>0, <1>1, <1>2, <1>3, NaturalsReached
<1> QED BY <1>0, <1>4 DEF T

LEMMA FlatIsLast ==
    ASSUME NEW S, NEW ss \in Seq(Seq(S)), NEW g, ss # <<>>, Flattens(g, ss, Len(ss))
    PROVE  FlattenSeq(ss) = g[Len(ss)]
<1> DEFINE IsF(f) == f = [i \in 1..Len(ss) |-> IF i = 1 THEN ss[i] ELSE f[i - 1] \o ss[i]]
           flatten == CHOOSE f : IsF(f)
<1>0. Len(ss) \in Nat /\ Len(ss) # 0 /\ Len(ss) \in 1..Len(ss)
  OBVIOUS
<1>1. PICK h \in [1..Len(ss) -> Seq(S)] : Flattens(h, ss, Len(ss))
  BY FlatteningsBe
<1>2. IsF(h)
  BY <1>1 DEF Flattens
<1>3. IsF(flatten)
  BY <1>2
<1> HIDE DEF flatten
<1>4. Flattens(flatten, ss, Len(ss))
  <2> DEFINE b(i) == IF i = 1 THEN ss[i] ELSE flatten[i - 1] \o ss[i]
             a == [i \in 1..Len(ss) |-> b(i)]
  <2>1. flatten = a
    BY <1>3
  <2>2. \A i \in 1..Len(ss) : a[i] = b(i)
    BY Zenon
  <2> HIDE DEF a
  <2> QED BY <2>1, <2>2 DEF Flattens
<1>5. FlattenSeq(ss) = flatten[Len(ss)]
  BY <1>0, Zenon DEF FlattenSeq, flatten
<1>6. flatten[Len(ss)] = g[Len(ss)]
  BY <1>0, <1>4, FlatteningsAgree
<1> QED BY <1>5, <1>6

\* What is flattened is a sequence of what the parts hold, and a further part comes last.
LEMMA FlatNone == FlattenSeq(<<>>) = <<>>
BY DEF FlattenSeq

LEMMA FlatTyped ==
    ASSUME NEW S, NEW ss \in Seq(Seq(S))
    PROVE  FlattenSeq(ss) \in Seq(S)
<1>1. CASE ss = <<>>
  <2>1. <<>> \in Seq(S)
    OBVIOUS
  <2> QED BY <1>1, <2>1, FlatNone
<1>2. CASE ss # <<>>
  <2>1. PICK g \in [1..Len(ss) -> Seq(S)] : Flattens(g, ss, Len(ss))
    BY FlatteningsBe
  <2>2. Len(ss) \in 1..Len(ss)
    BY <1>2
  <2> QED BY SMTT(30), <1>2, <2>1, <2>2, FlatIsLast
<1> QED BY <1>1, <1>2

LEMMA FlatAppend ==
    ASSUME NEW S, NEW ss \in Seq(Seq(S)), NEW s \in Seq(S)
    PROVE  FlattenSeq(Append(ss, s)) = FlattenSeq(ss) \o s
<1> DEFINE tt == Append(ss, s)
           n == Len(ss)
<1>1. tt \in Seq(Seq(S)) /\ tt # <<>> /\ n \in Nat /\ Len(tt) = n + 1
      /\ tt[n + 1] = s /\ \A i \in 1..n : tt[i] = ss[i]
  <2>1. ss \in Seq(Seq(S)) /\ s \in Seq(S)
    OBVIOUS
  <2>2. Append(ss, s) \in Seq(Seq(S)) /\ Append(ss, s) # <<>> /\ Len(Append(ss, s)) = Len(ss) + 1
        /\ Append(ss, s)[Len(ss) + 1] = s /\ \A i \in 1..Len(ss) : Append(ss, s)[i] = ss[i]
    BY <2>1, AppendProperties
  <2> QED BY <2>2
<1>2. PICK g \in [1..n + 1 -> Seq(S)] : Flattens(g, tt, n + 1)
  BY ZenonT(30), <1>1, FlatteningsBe
<1>3. FlattenSeq(tt) = g[n + 1]
  BY <1>1, <1>2, FlatIsLast
<1>4. PICK k \in 1..n + 1 : k = n + 1
  BY <1>1
<1>a. g[k] = IF k = 1 THEN tt[k] ELSE g[k - 1] \o tt[k]
  <2>1. Flattens(g, tt, n + 1)
    BY <1>2
  <2> HIDE DEF tt
  <2> QED BY <2>1 DEF Flattens
<1>5. CASE ss = <<>>
  <2>1. n = 0 /\ k = 1
    BY <1>4, <1>5
  <2>2. FlattenSeq(ss) = <<>> /\ <<>> \o s = s
    BY <1>5, FlatNone
  <2> HIDE DEF tt, n
  <2> QED BY <1>1, <1>3, <1>4, <1>a, <2>1, <2>2 DEF tt
<1>6. CASE ss # <<>>
  <2>1. n # 0 /\ k # 1 /\ k - 1 = n
    BY <1>1, <1>4, <1>6
  <2>2. Flattens(g, ss, n)
    <3> SUFFICES ASSUME NEW i \in 1..n PROVE g[i] = IF i = 1 THEN ss[i] ELSE g[i - 1] \o ss[i]
      BY DEF Flattens
    <3>1. i \in 1..n + 1 /\ tt[i] = ss[i]
      BY <1>1
    <3> HIDE DEF tt, n
    <3> QED BY <1>2, <3>1 DEF Flattens
  <2>3. FlattenSeq(ss) = g[n]
    BY <1>6, <2>2, FlatIsLast
  <2>4. g[k] = g[n] \o s
    BY <1>1, <1>4, <1>a, <2>1
  <2> HIDE DEF tt, n
  <2> QED BY <1>3, <1>4, <2>3, <2>4 DEF tt
<1> QED BY <1>5, <1>6

------------------------------------------------------------------------------
(* Some of a sequence: every place of it gives one element or none.        *)

Taking(S) == {ss \in Seq(Seq(S)) : \A i \in 1..Len(ss) : Len(ss[i]) <= 1}

\* g is the place every element of s comes from: none is left out, the order is the same.
PlacedBy(g, s, ss) ==
    /\ g \in [1..Len(s) -> 1..Len(ss)]
    /\ \A k \in 1..Len(s) : ss[g[k]] = <<s[k]>>
    /\ \A i \in 1..Len(ss) : ss[i] # <<>> => \E k \in 1..Len(s) : g[k] = i
    /\ \A k, l \in 1..Len(s) : k < l => g[k] < g[l]

LEMMA TakingOneMore ==
    ASSUME NEW S, NEW ss \in Taking(S), NEW t \in Seq(S), NEW s \in Seq(S), NEW g,
           Len(t) <= 1, PlacedBy(g, s, ss)
    PROVE  \E h : PlacedBy(h, s \o t, Append(ss, t))
<1> DEFINE tt == Append(ss, t)
<1>1. /\ Len(ss) \in Nat /\ Len(tt) = Len(ss) + 1 /\ tt[Len(ss) + 1] = t
      /\ \A i \in 1..Len(ss) : tt[i] = ss[i]
  <2>1. ss \in Seq(Seq(S))
    BY DEF Taking
  <2> QED BY <2>1, AppendProperties
<1>2. Len(s) \in Nat /\ g \in [1..Len(s) -> 1..Len(ss)]
  BY DEF PlacedBy
<1> HIDE DEF tt
<1>3. CASE t = <<>>
  <2>1. s \o t = s
    BY <1>3
  <2>2. g \in [1..Len(s) -> 1..Len(tt)]
    BY <1>1, <1>2
  <2>3. \A k \in 1..Len(s) : g[k] \in 1..Len(ss) /\ tt[g[k]] = <<s[k]>>
    BY <1>1, <1>2 DEF PlacedBy
  <2>4. \A i \in 1..Len(tt) : tt[i] # <<>> => \E k \in 1..Len(s) : g[k] = i
    BY <1>1, <1>3 DEF PlacedBy
  <2>5. PlacedBy(g, s, tt)
    BY <2>2, <2>3, <2>4 DEF PlacedBy
  <2> QED BY <2>1, <2>5 DEF tt
<1>4. CASE t # <<>>
  <2>1. PICK x \in S : t = <<x>>
    <3>1. PICK k \in Nat : k = Len(t) /\ k # 0
      BY <1>4, EmptySeq
    <3>2. Len(t) = 1
      BY <3>1
    <3>3. t[1] \in S /\ <<t[1]>> \in Seq(S) /\ Len(<<t[1]>>) = 1 /\ <<t[1]>>[1] = t[1]
      BY <3>2
    <3>4. \A i \in 1..Len(t) : t[i] = <<t[1]>>[i]
      BY <3>2, <3>3
    <3>5. t = <<t[1]>>
      BY <3>2, <3>3, <3>4, SeqEqual
    <3> QED BY <3>3, <3>5
  <2> DEFINE n == Len(s) + 1
             u == s \o t
             h == [k \in 1..n |-> IF k = n THEN Len(ss) + 1 ELSE g[k]]
  <2>2. u \in Seq(S) /\ Len(u) = n /\ u[n] = x /\ \A k \in 1..Len(s) : u[k] = s[k]
    BY <1>2, <2>1
  <2> HIDE DEF u
  <2>3. ASSUME NEW k \in 1..n, k # n PROVE k \in 1..Len(s)
    BY <1>2, <2>3
  <2>b. n \in 1..n /\ \A k \in 1..Len(s) : k \in 1..n /\ k # n
    BY <1>2
  <2>4. h[n] = Len(ss) + 1 /\ \A k \in 1..Len(s) : h[k] = g[k] /\ h[k] \in 1..Len(ss)
    BY <1>2, <2>b
  <2>5. h \in [1..Len(u) -> 1..Len(tt)]
    BY <1>1, <1>2, <2>2, <2>3, <2>4
  <2> HIDE DEF h
  <2>6. \A k \in 1..Len(u) : tt[h[k]] = <<u[k]>>
    <3>1. tt[h[n]] = <<u[n]>>
      BY <1>1, <2>1, <2>2, <2>4
    <3>2. ASSUME NEW k \in 1..Len(s) PROVE tt[h[k]] = <<u[k]>>
      <4>1. tt[h[k]] = ss[g[k]]
        BY <1>1, <2>4
      <4>2. ss[g[k]] = <<s[k]>>
        BY DEF PlacedBy
      <4> QED BY <2>2, <4>1, <4>2
    <3> QED BY <2>2, <2>3, <3>1, <3>2
  <2>7. ASSUME NEW i \in 1..Len(tt), tt[i] # <<>> PROVE \E k \in 1..Len(u) : h[k] = i
    <3>1. CASE i = Len(ss) + 1
      <4>1. n \in 1..Len(u)
        BY <1>2, <2>2
      <4> QED BY <2>4, <3>1, <4>1
    <3>2. CASE i # Len(ss) + 1
      <4>1. i \in 1..Len(ss) /\ ss[i] # <<>>
        BY <1>1, <2>7, <3>2
      <4>2. PICK k \in 1..Len(s) : g[k] = i
        BY <4>1 DEF PlacedBy
      <4>3. k \in 1..Len(u)
        BY <1>2, <2>2
      <4> QED BY <2>4, <4>2, <4>3
    <3> QED BY <3>1, <3>2
  <2>8. ASSUME NEW k \in 1..Len(u), NEW l \in 1..Len(u), k < l PROVE h[k] < h[l]
    <3>0. k # n
      BY <1>2, <2>2, <2>8
    <3>1. k \in 1..Len(s) /\ h[k] = g[k] /\ g[k] \in 1..Len(ss)
      BY <1>2, <2>2, <2>3, <2>4, <3>0
    <3>2. CASE l = n
      BY <1>1, <2>4, <3>1, <3>2
    <3>3. CASE l # n
      <4>1. l \in 1..Len(s) /\ h[l] = g[l]
        BY <2>2, <2>3, <2>4, <3>3
      <4> QED BY <2>8, <3>1, <4>1 DEF PlacedBy
    <3> QED BY <3>2, <3>3
  <2>9. PlacedBy(h, u, tt)
    BY <2>5, <2>6, <2>7, <2>8 DEF PlacedBy
  <2> QED BY <2>9 DEF tt, u
<1> QED BY <1>3, <1>4

\* The last part of a sequence, and what comes before it.
LEMMA LastApart ==
    ASSUME NEW S, NEW ss \in Seq(S), NEW n \in Nat, Len(ss) = n + 1
    PROVE  \E rr \in Seq(S), x \in S :
              /\ ss = Append(rr, x) /\ Len(rr) = n /\ x = ss[n + 1] /\ \A i \in 1..n : rr[i] = ss[i]
<1> DEFINE rr == [i \in 1..n |-> ss[i]]
           x == ss[n + 1]
<1>1. \A i \in 1..n + 1 : ss[i] \in S
  OBVIOUS
<1>2. n + 1 \in 1..n + 1 /\ \A i \in 1..n : i \in 1..n + 1
  OBVIOUS
<1>3. rr \in Seq(S) /\ x \in S /\ Len(rr) = n
  BY <1>1, <1>2
<1>4. \A i \in 1..n : rr[i] = ss[i]
  OBVIOUS
<1>5. /\ Append(rr, x) \in Seq(S) /\ Len(Append(rr, x)) = n + 1
      /\ Append(rr, x)[n + 1] = x /\ \A i \in 1..n : Append(rr, x)[i] = rr[i]
  BY <1>3, AppendProperties
<1> HIDE DEF rr
<1>6. ss = Append(rr, x)
  <2>1. \A i \in 1..n + 1 : ss[i] = Append(rr, x)[i]
    BY <1>4, <1>5
  <2> QED BY <1>5, <2>1, SeqEqual
<1> QED BY <1>3, <1>4, <1>6

LEMMA Takes ==
    ASSUME NEW S, NEW ss \in Taking(S)
    PROVE  /\ FlattenSeq(ss) \in Seq(S)
           /\ \E g : PlacedBy(g, FlattenSeq(ss), ss)
           /\ Len(FlattenSeq(ss)) <= Len(ss)
           /\ (\E i \in 1..Len(ss) : ss[i] = <<>>) => Len(FlattenSeq(ss)) < Len(ss)
<1> DEFINE T == {n \in Nat : \A tt \in Taking(S) : Len(tt) = n =>
                    /\ \E g : PlacedBy(g, FlattenSeq(tt), tt)
                    /\ Len(FlattenSeq(tt)) <= n
                    /\ (\E i \in 1..n : tt[i] = <<>>) => Len(FlattenSeq(tt)) < n}
<1>1. 0 \in T
  <2> SUFFICES ASSUME NEW tt \in Taking(S), Len(tt) = 0
               PROVE  /\ \E g : PlacedBy(g, FlattenSeq(tt), tt)
                      /\ Len(FlattenSeq(tt)) <= 0
                      /\ 1..0 = {}
    OBVIOUS
  <2>1. tt = <<>> /\ FlattenSeq(tt) = <<>>
    BY FlatNone DEF Taking
  <2>2. PlacedBy([i \in 1..0 |-> 0], <<>>, <<>>)
    BY DEF PlacedBy
  <2> QED BY <2>1, <2>2
<1>2. ASSUME NEW n \in T PROVE n + 1 \in T
  <2> SUFFICES ASSUME NEW tt \in Taking(S), Len(tt) = n + 1
               PROVE  /\ \E g : PlacedBy(g, FlattenSeq(tt), tt)
                      /\ Len(FlattenSeq(tt)) <= n + 1
                      /\ (\E i \in 1..n + 1 : tt[i] = <<>>) => Len(FlattenSeq(tt)) < n + 1
    OBVIOUS
  <2>1. n \in Nat /\ tt \in Seq(Seq(S)) /\ \A i \in 1..Len(tt) : Len(tt[i]) <= 1
    BY DEF Taking
  <2>2. PICK rr \in Seq(Seq(S)), t \in Seq(S) :
           /\ tt = Append(rr, t) /\ Len(rr) = n /\ t = tt[n + 1] /\ \A i \in 1..n : rr[i] = tt[i]
    BY <2>1, LastApart
  <2>3. rr \in Taking(S) /\ Len(t) <= 1
    BY <2>1, <2>2 DEF Taking
  <2>4. /\ \E g : PlacedBy(g, FlattenSeq(rr), rr)
        /\ Len(FlattenSeq(rr)) <= n
        /\ (\E i \in 1..n : rr[i] = <<>>) => Len(FlattenSeq(rr)) < n
    BY <2>2, <2>3
  <2> HIDE DEF T
  <2>5. FlattenSeq(tt) = FlattenSeq(rr) \o t /\ FlattenSeq(rr) \in Seq(S)
    BY <2>2, FlatAppend, FlatTyped
  <2>6. \E g : PlacedBy(g, FlattenSeq(tt), tt)
    BY <2>2, <2>3, <2>4, <2>5, TakingOneMore
  <2>a. PICK k \in Nat, m \in Nat : k = Len(t) /\ m = Len(FlattenSeq(rr))
    BY <2>5
  <2>b. k <= 1 /\ (t = <<>> => k = 0)
    BY <2>3, <2>a
  <2>7. Len(FlattenSeq(tt)) = m + k
    BY <2>5, <2>a
  <2>8. ASSUME NEW i \in 1..n + 1, tt[i] = <<>> PROVE Len(FlattenSeq(tt)) < n + 1
    <3>1. CASE i = n + 1
      BY <2>1, <2>2, <2>4, <2>7, <2>a, <2>b, <2>8, <3>1
    <3>2. CASE i # n + 1
      <4>1. i \in 1..n /\ rr[i] = <<>>
        BY <2>1, <2>2, <2>8, <3>2
      <4> QED BY SMTT(30), <2>1, <2>4, <2>7, <2>a, <2>b, <4>1
    <3> QED BY <3>1, <3>2
  <2> QED BY <2>1, <2>4, <2>6, <2>7, <2>a, <2>b, <2>8
<1>3. T \in SUBSET Nat
  OBVIOUS
<1>4. Len(ss) \in Nat /\ ss \in Seq(Seq(S))
  BY DEF Taking
<1> HIDE DEF T
<1>5. Len(ss) \in T
  BY <1>1, <1>2, <1>3, <1>4, NaturalsReached
<1> QED BY <1>4, <1>5, FlatTyped DEF T

------------------------------------------------------------------------------
(* A sequence taken element by element.                                    *)

\* A set of sequences that holds the empty one and what is appended to each of its own is
\* all of them.
LEMMA SequencesReached ==
    ASSUME NEW S, NEW T \in SUBSET Seq(S), <<>> \in T, \A s \in T, x \in S : Append(s, x) \in T
    PROVE  T = Seq(S)
<1> DEFINE N == {n \in Nat : \A s \in Seq(S) : Len(s) = n => s \in T}
<1>1. 0 \in N
  BY EmptySeq
<1>2. ASSUME NEW n \in N PROVE n + 1 \in N
  <2> SUFFICES ASSUME NEW s \in Seq(S), Len(s) = n + 1 PROVE s \in T
    OBVIOUS
  <2>0. n \in Nat
    OBVIOUS
  <2>1. PICK r \in Seq(S), x \in S :
           s = Append(r, x) /\ Len(r) = n /\ x = s[n + 1] /\ \A i \in 1..n : r[i] = s[i]
    BY <2>0, LastApart
  <2> QED BY <2>1
<1>3. N \in SUBSET Nat
  OBVIOUS
<1> HIDE DEF N
<1>4. N = Nat
  BY <1>1, <1>2, <1>3, NaturalsReached
<1>5. ASSUME NEW s \in Seq(S) PROVE s \in T
  <2>1. Len(s) \in Nat
    OBVIOUS
  <2> QED BY <1>4, <2>1 DEF N
<1> QED BY <1>5

\* What f gives for each element of s, one after the other.
Each(s, f) == FlattenSeq([i \in DOMAIN s |-> f[s[i]]])

LEMMA EachTyped ==
    ASSUME NEW S, NEW R, NEW f \in [S -> Seq(R)], NEW s \in Seq(S)
    PROVE  Each(s, f) \in Seq(R) /\ [i \in DOMAIN s |-> f[s[i]]] \in Seq(Seq(R))
<1>1. [i \in DOMAIN s |-> f[s[i]]] \in Seq(Seq(R))
  <2>1. Len(s) \in Nat /\ DOMAIN s = 1..Len(s) /\ \A i \in 1..Len(s) : s[i] \in S
    OBVIOUS
  <2>2. [i \in 1..Len(s) |-> f[s[i]]] \in [1..Len(s) -> Seq(R)]
    BY <2>1
  <2> QED BY <2>1, <2>2
<1> QED BY <1>1, FlatTyped DEF Each

LEMMA EachNone ==
    ASSUME NEW f
    PROVE  Each(<<>>, f) = <<>>
<1>1. [i \in DOMAIN <<>> |-> f[<<>>[i]]] = <<>>
  OBVIOUS
<1> QED BY <1>1, FlatNone DEF Each

LEMMA EachAppend ==
    ASSUME NEW S, NEW R, NEW f \in [S -> Seq(R)], NEW s \in Seq(S), NEW x \in S
    PROVE  Each(Append(s, x), f) = Each(s, f) \o f[x]
<1> DEFINE t == Append(s, x)
           n == Len(s)
           a == [i \in DOMAIN s |-> f[s[i]]]
           b == [i \in DOMAIN t |-> f[t[i]]]
<1>1. n \in Nat /\ t \in Seq(S) /\ Len(t) = n + 1 /\ t[n + 1] = x /\ \A i \in 1..n : t[i] = s[i]
  BY AppendProperties
<1>2. DOMAIN s = 1..n /\ DOMAIN t = 1..n + 1
  BY <1>1
<1> HIDE DEF t
<1>3. a \in Seq(Seq(R)) /\ b \in Seq(Seq(R)) /\ f[x] \in Seq(R)
  <2>1. a \in Seq(Seq(R))
    BY SMTT(30), EachTyped
  <2>2. b \in Seq(Seq(R))
    BY <1>1, EachTyped
  <2> QED BY <2>1, <2>2
<1>4. Len(a) = n /\ Len(b) = n + 1 /\ (\A i \in 1..n : a[i] = f[s[i]]) /\ \A i \in 1..n + 1 : b[i] = f[t[i]]
  BY <1>1, <1>2
<1> HIDE DEF a, b
<1>5. /\ Append(a, f[x]) \in Seq(Seq(R)) /\ Len(Append(a, f[x])) = n + 1
      /\ Append(a, f[x])[n + 1] = f[x] /\ \A i \in 1..n : Append(a, f[x])[i] = a[i]
  BY <1>3, <1>4, AppendProperties
<1>6. b = Append(a, f[x])
  <2>1. ASSUME NEW i \in 1..n + 1 PROVE b[i] = Append(a, f[x])[i]
    <3>1. CASE i = n + 1
      BY <1>1, <1>4, <1>5, <3>1
    <3>2. CASE i # n + 1
      <4>1. i \in 1..n
        BY <1>1, <3>2
      <4> QED BY <1>1, <1>4, <1>5, <4>1
    <3> QED BY <3>1, <3>2
  <2> QED BY <1>3, <1>4, <1>5, <2>1, SeqEqual
<1>7. FlattenSeq(b) = FlattenSeq(a) \o f[x]
  BY <1>3, <1>6, FlatAppend
<1> QED BY <1>7 DEF Each, a, b, t

\* Of a sequence those not in out.
Sparing(S, out) == [x \in S |-> IF x \in out THEN <<>> ELSE <<x>>]

LEMMA SparingTyped ==
    ASSUME NEW S, NEW out
    PROVE  Sparing(S, out) \in [S -> Seq(S)]
BY DEF Sparing

LEMMA SparesNone ==
    ASSUME NEW S, NEW out, NEW s \in Seq(S), \A i \in 1..Len(s) : s[i] \notin out
    PROVE  Each(s, Sparing(S, out)) = s
<1> DEFINE T == {t \in Seq(S) : (\A i \in 1..Len(t) : t[i] \notin out) => Each(t, Sparing(S, out)) = t}
<1>1. T \in SUBSET Seq(S) /\ <<>> \in T
  BY EachNone
<1>2. ASSUME NEW t \in T, NEW x \in S PROVE Append(t, x) \in T
  <2>1. /\ t \in Seq(S) /\ Len(t) \in Nat
        /\ Append(t, x) \in Seq(S) /\ Len(Append(t, x)) = Len(t) + 1
        /\ Append(t, x)[Len(t) + 1] = x /\ \A i \in 1..Len(t) : Append(t, x)[i] = t[i]
    BY AppendProperties
  <2>2. SUFFICES ASSUME \A i \in 1..Len(Append(t, x)) : Append(t, x)[i] \notin out
                 PROVE  Each(Append(t, x), Sparing(S, out)) = Append(t, x)
    BY <2>1
  <2>3. x \notin out
    <3>1. Len(t) + 1 \in 1..Len(Append(t, x))
      BY <2>1
    <3> QED BY <2>1, <2>2, <3>1
  <2>4. \A i \in 1..Len(t) : t[i] \notin out
    <3>1. \A i \in 1..Len(t) : i \in 1..Len(Append(t, x))
      BY <2>1
    <3> QED BY <2>1, <2>2, <3>1
  <2>5. Each(t, Sparing(S, out)) = t
    BY <2>4
  <2>6. Sparing(S, out)[x] = <<x>>
    BY <2>3 DEF Sparing
  <2>7. Each(Append(t, x), Sparing(S, out)) = Each(t, Sparing(S, out)) \o Sparing(S, out)[x]
    <3>1. Sparing(S, out) \in [S -> Seq(S)]
      BY SparingTyped
    <3>a. t \in Seq(S)
      OBVIOUS
    <3> HIDE DEF T
    <3>2. ASSUME NEW R, NEW g \in [S -> Seq(R)] PROVE Each(Append(t, x), g) = Each(t, g) \o g[x]
      BY <3>a, EachAppend, Zenon
    <3> QED BY <3>1, <3>2
  <2>8. t \o <<x>> = Append(t, x)
    BY <2>1
  <2> QED BY <2>1, <2>5, <2>6, <2>7, <2>8
<1> HIDE DEF T
<1>3. T = Seq(S)
  BY <1>1, <1>2, SequencesReached
<1> QED BY <1>3 DEF T

\* What gives nothing is not missed.
LEMMA SparesWhatGivesNone ==
    ASSUME NEW S, NEW R, NEW f \in [S -> Seq(R)], NEW out, NEW s \in Seq(S),
           \A x \in S : x \in out => f[x] = <<>>
    PROVE  Each(Each(s, Sparing(S, out)), f) = Each(s, f)
<1> DEFINE h == Sparing(S, out)
           T == {t \in Seq(S) : Each(Each(t, h), f) = Each(t, f)}
<1>0. h \in [S -> Seq(S)]
  BY SparingTyped
<1>1. T \in SUBSET Seq(S) /\ <<>> \in T
  BY EachNone
<1>2. ASSUME NEW t \in T, NEW x \in S PROVE Append(t, x) \in T
  <2> HIDE DEF h
  <2>1. t \in Seq(S) /\ Append(t, x) \in Seq(S) /\ Each(t, h) \in Seq(S) /\ Each(t, f) \in Seq(R)
    <3>1. t \in Seq(S) /\ Append(t, x) \in Seq(S)
      OBVIOUS
    <3>2. Each(t, h) \in Seq(S)
      BY <1>0, <3>1, EachTyped
    <3>3. Each(t, f) \in Seq(R)
      BY <3>1, EachTyped
    <3> QED BY <3>1, <3>2, <3>3
  <2>2. Each(Append(t, x), h) = Each(t, h) \o h[x] /\ Each(Append(t, x), f) = Each(t, f) \o f[x]
    <3>a. t \in Seq(S)
      OBVIOUS
    <3> HIDE DEF T
    <3>0. ASSUME NEW Q, NEW g \in [S -> Seq(Q)] PROVE Each(Append(t, x), g) = Each(t, g) \o g[x]
      BY <3>a, EachAppend, Zenon
    <3>1. Each(Append(t, x), h) = Each(t, h) \o h[x]
      BY <1>0, <3>0
    <3>2. Each(Append(t, x), f) = Each(t, f) \o f[x]
      BY <2>1, EachAppend
    <3> QED BY <3>1, <3>2
  <2>3. CASE x \in out
    <3>1. h[x] = <<>> /\ f[x] = <<>>
      BY <2>3 DEF h, Sparing
    <3>2. Each(Append(t, x), h) = Each(t, h) /\ Each(Append(t, x), f) = Each(t, f)
      BY <2>1, <2>2, <3>1
    <3> QED BY <2>1, <3>2
  <2>4. CASE x \notin out
    <3>1. h[x] = <<x>>
      BY <2>4 DEF h, Sparing
    <3>2. Each(Append(t, x), h) = Append(Each(t, h), x)
      BY <2>1, <2>2, <3>1
    <3>3. Each(Append(Each(t, h), x), f) = Each(Each(t, h), f) \o f[x]
      BY ZenonT(30), <2>1, EachAppend
    <3> QED BY <2>1, <2>2, <3>2, <3>3
  <2> QED BY <2>3, <2>4
<1> HIDE DEF T
<1>3. T = Seq(S)
  BY <1>1, <1>2, SequencesReached
<1> QED BY <1>3 DEF T

\* Where each element gives one or none, what is given is what some element gives, in order.
Choosing(S, R) == {f \in [S -> Seq(R)] : \A x \in S : Len(f[x]) <= 1}

LEMMA EachTakes ==
    ASSUME NEW S, NEW R, NEW f \in Choosing(S, R), NEW s \in Seq(S)
    PROVE  /\ Each(s, f) \in Seq(R) /\ Len(Each(s, f)) <= Len(s)
           /\ (\E i \in 1..Len(s) : f[s[i]] = <<>>) => Len(Each(s, f)) < Len(s)
           /\ \E g \in [1..Len(Each(s, f)) -> 1..Len(s)] :
                 /\ \A k \in 1..Len(Each(s, f)) : f[s[g[k]]] = <<Each(s, f)[k]>>
                 /\ \A i \in 1..Len(s) : f[s[i]] # <<>> => \E k \in 1..Len(Each(s, f)) : g[k] = i
                 /\ \A k, l \in 1..Len(Each(s, f)) : k < l => g[k] < g[l]
<1> DEFINE a == [i \in DOMAIN s |-> f[s[i]]]
<1>0. f \in [S -> Seq(R)] /\ \A x \in S : Len(f[x]) <= 1
  BY DEF Choosing
<1>1. a \in Seq(Seq(R)) /\ Len(s) \in Nat /\ DOMAIN s = 1..Len(s)
  BY <1>0, EachTyped
<1>2. Len(a) = Len(s) /\ \A i \in 1..Len(s) : a[i] = f[s[i]] /\ s[i] \in S
  BY <1>1
<1>3. Each(s, f) = FlattenSeq(a)
  BY DEF Each
<1> HIDE DEF a
<1>4. a \in Taking(R)
  BY <1>0, <1>1, <1>2 DEF Taking
<1>5. /\ FlattenSeq(a) \in Seq(R) /\ Len(FlattenSeq(a)) <= Len(a)
      /\ (\E i \in 1..Len(a) : a[i] = <<>>) => Len(FlattenSeq(a)) < Len(a)
      /\ \E g : PlacedBy(g, FlattenSeq(a), a)
  BY <1>4, Takes
<1>6. PICK g : PlacedBy(g, FlattenSeq(a), a)
  BY <1>5
<1>7. /\ g \in [1..Len(Each(s, f)) -> 1..Len(s)]
      /\ \A k \in 1..Len(Each(s, f)) : a[g[k]] = <<Each(s, f)[k]>>
      /\ \A i \in 1..Len(s) : a[i] # <<>> => \E k \in 1..Len(Each(s, f)) : g[k] = i
      /\ \A k, l \in 1..Len(Each(s, f)) : k < l => g[k] < g[l]
  BY <1>2, <1>3, <1>6 DEF PlacedBy
<1>8. \A k \in 1..Len(Each(s, f)) : f[s[g[k]]] = <<Each(s, f)[k]>>
  BY <1>2, <1>7
<1>9. \A i \in 1..Len(s) : f[s[i]] # <<>> => \E k \in 1..Len(Each(s, f)) : g[k] = i
  BY <1>2, <1>7
<1>10. /\ Each(s, f) \in Seq(R) /\ Len(Each(s, f)) <= Len(s)
       /\ (\E i \in 1..Len(s) : f[s[i]] = <<>>) => Len(Each(s, f)) < Len(s)
  BY <1>2, <1>3, <1>5
<1> QED BY <1>7, <1>8, <1>9, <1>10

LEMMA EachHas ==
    ASSUME NEW S, NEW R, NEW f \in Choosing(S, R), NEW s \in Seq(S), NEW y
    PROVE  y \in ToSet(Each(s, f)) <=> \E x \in ToSet(s) : f[x] = <<y>>
<1> DEFINE e == Each(s, f)
<1>1. /\ e \in Seq(R)
      /\ \E g \in [1..Len(e) -> 1..Len(s)] :
            /\ \A k \in 1..Len(e) : f[s[g[k]]] = <<e[k]>>
            /\ \A i \in 1..Len(s) : f[s[i]] # <<>> => \E k \in 1..Len(e) : g[k] = i
            /\ \A k, l \in 1..Len(e) : k < l => g[k] < g[l]
  BY EachTakes, Zenon
<1>2. PICK g \in [1..Len(e) -> 1..Len(s)] :
         /\ \A k \in 1..Len(e) : f[s[g[k]]] = <<e[k]>>
         /\ \A i \in 1..Len(s) : f[s[i]] # <<>> => \E k \in 1..Len(e) : g[k] = i
  BY <1>1
<1> HIDE DEF e
<1>3. ToSet(s) = {s[i] : i \in 1..Len(s)} /\ ToSet(e) = {e[k] : k \in 1..Len(e)}
  BY <1>1 DEF ToSet
<1>4. ASSUME y \in ToSet(e) PROVE \E x \in ToSet(s) : f[x] = <<y>>
  <2>1. PICK k \in 1..Len(e) : y = e[k]
    BY <1>3, <1>4
  <2>2. g[k] \in 1..Len(s) /\ f[s[g[k]]] = <<y>>
    BY <1>2, <2>1
  <2> QED BY <1>3, <2>2
<1>5. ASSUME NEW x \in ToSet(s), f[x] = <<y>> PROVE y \in ToSet(e)
  <2>1. PICK i \in 1..Len(s) : x = s[i]
    BY <1>3
  <2>a. <<y>> # <<>>
    <3>1. Len(<<y>>) = 1 /\ Len(<<>>) = 0
      OBVIOUS
    <3> QED BY <3>1
  <2>2. f[s[i]] # <<>>
    BY <1>5, <2>1, <2>a
  <2>3. PICK k \in 1..Len(e) : g[k] = i
    BY <1>2, <2>2
  <2>4. <<e[k]>> = <<y>>
    BY <1>2, <1>5, <2>1, <2>3
  <2>5. e[k] = y
    BY <2>4
  <2> QED BY <1>3, <2>5
<1> QED BY <1>4, <1>5 DEF e

LEMMA Spares ==
    ASSUME NEW S, NEW out, NEW s \in Seq(S)
    PROVE  Each(s, Sparing(S, out)) \in Seq(S) /\ ToSet(Each(s, Sparing(S, out))) = ToSet(s) \ out
<1> DEFINE f == Sparing(S, out)
<1>1. f \in [S -> Seq(S)] /\ \A x \in S : f[x] = IF x \in out THEN <<>> ELSE <<x>>
  BY SparingTyped DEF Sparing
<1> HIDE DEF f
<1>2. ASSUME NEW x \in S PROVE Len(f[x]) <= 1
  <2>1. Len(<<>>) = 0 /\ Len(<<x>>) = 1
    OBVIOUS
  <2>2. f[x] = <<>> \/ f[x] = <<x>>
    BY <1>1
  <2>3. CASE f[x] = <<>>
    BY <2>1, <2>3
  <2>4. CASE f[x] = <<x>>
    BY <2>1, <2>4
  <2> QED BY <2>2, <2>3, <2>4
<1>a. \A x \in S : Len(f[x]) <= 1
  BY <1>2
<1>b. f \in Choosing(S, S)
  BY <1>1, <1>a DEF Choosing
<1>3. Each(s, f) \in Seq(S)
  BY <1>1, EachTyped, Zenon
<1>4. ASSUME NEW x \in ToSet(s), NEW y PROVE (f[x] = <<y>>) <=> (x \notin out /\ x = y)
  <2>1. x \in S
    BY DEF ToSet
  <2>2. <<y>> # <<>> /\ (<<x>> = <<y>> => x = y)
    <3>1. Len(<<y>>) = 1 /\ Len(<<>>) = 0 /\ <<x>>[1] = x /\ <<y>>[1] = y
      OBVIOUS
    <3> QED BY <3>1
  <2>3. CASE x \in out
    BY <1>1, <2>1, <2>2, <2>3
  <2>4. CASE x \notin out
    <3>1. f[x] = <<x>>
      BY <1>1, <2>1, <2>4
    <3> QED BY <2>2, <2>4, <3>1
  <2> QED BY <2>3, <2>4
<1>5. ASSUME NEW y PROVE y \in ToSet(Each(s, f)) <=> y \in ToSet(s) \ out
  <2>1. y \in ToSet(Each(s, f)) <=> \E x \in ToSet(s) : f[x] = <<y>>
    BY <1>b, EachHas
  <2> QED BY <1>4, <2>1
<1>6. ToSet(Each(s, f)) = ToSet(s) \ out
  BY <1>5
<1> QED BY <1>3, <1>6 DEF f
==============================================================================

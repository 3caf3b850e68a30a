--------------------------- MODULE DataInduction ---------------------------
(***************************************************************************)
(* Induction over numbers, sequences and finite sets, for what the models  *)
(* compute from data: on sets and not on predicates, from the well-founded *)
(* order of finite sets.  And what FlattenSeq makes of longer sequences,   *)
(* the sums of sizes over a set, and the ends of sequences.                *)
(***************************************************************************)
EXTENDS Integers, FiniteSetsExt, SequencesExt, FiniteSetTheorems,
        SequenceTheorems, WellFoundedInduction, TLAPS

\* Induction over the numbers: a set that holds 0 and with every number the next
\* holds them all.
LEMMA EveryNumber ==
    ASSUME NEW T, 0 \in T, \A n \in Nat : n \in T => n + 1 \in T
    PROVE  \A n \in Nat : n \in T
<1> SUFFICES ASSUME NEW b \in Nat, b \notin T PROVE FALSE
  OBVIOUS
<1> DEFINE C == {n \in Nat : n \notin T}
           I == {0 .. n : n \in C}
           R == StrictSubsetOrdering(Nat)
<1>1. I \subseteq FiniteSubsetsOf(Nat) /\ I # {}
  <2>1. \A n \in Nat : IsFiniteSet(0 .. n) /\ 0 .. n \subseteq Nat
    BY FS_Interval
  <2> QED BY <2>1 DEF FiniteSubsetsOf
<1>2. IsWellFoundedOn(R, FiniteSubsetsOf(Nat))
  BY FS_StrictSubsetOrderingWellFounded
<1>3. PICK x \in I : \A y \in I : <<y, x>> \notin R
  <2> HIDE DEF I, R
  <2> QED BY <1>1, <1>2, WFMin
<1>4. PICK n \in C : x = 0 .. n OBVIOUS
<1>5. n \in Nat /\ n # 0 /\ n - 1 \in C OBVIOUS
<1>6. 0 .. n - 1 \in I BY <1>5
<1>7. /\ 0 .. n - 1 \subseteq 0 .. n /\ 0 .. n - 1 # 0 .. n
      /\ 0 .. n \subseteq Nat
  BY <1>5
<1>8. <<0 .. n - 1, 0 .. n>> \in R BY <1>7 DEF StrictSubsetOrdering
<1> QED BY <1>3, <1>4, <1>6, <1>8

\* A finite set of numbers has a greatest one.
LEMMA GreatestNumber ==
    ASSUME NEW S, S # {}, S \subseteq Nat, IsFiniteSet(S)
    PROVE  Max(S) \in S /\ \A x \in S : x <= Max(S)
<1> DEFINE Topped(V) == \E m \in V : \A x \in V : m >= x
           Of(n) == {V \in SUBSET Nat : IsFiniteSet(V) /\ Cardinality(V) = n}
           T == {n \in Nat : \A V \in Of(n) : V # {} => Topped(V)}
<1>1. 0 \in T
  <2>1. \A V \in Of(0) : V = {} BY FS_EmptySet
  <2> QED BY <2>1
<1>2. ASSUME NEW n \in Nat, n \in T PROVE n + 1 \in T
  <2> SUFFICES ASSUME NEW V \in Of(n + 1), V # {} PROVE Topped(V)
    OBVIOUS
  <2>1. PICK v \in V : TRUE OBVIOUS
  <2>2. V \ {v} \in Of(n)
    <3>1. /\ IsFiniteSet(V \ {v})
          /\ Cardinality(V \ {v}) = Cardinality(V) - 1
      BY <2>1, FS_RemoveElement
    <3> QED BY <3>1
  <2>3. CASE V \ {v} = {} BY <2>1, <2>3
  <2>4. CASE V \ {v} # {}
    <3>1. PICK m \in V \ {v} : \A x \in V \ {v} : m >= x BY <1>2, <2>2, <2>4
    <3>2. CASE m >= v BY <3>1, <3>2
    <3>3. CASE ~(m >= v)
      <4>1. v \in Nat /\ m \in Nat BY <2>1
      <4>2. \A x \in V : x \in Nat /\ v >= x BY <3>1, <3>3, <4>1
      <4> QED BY <2>1, <4>2
    <3> QED BY <3>2, <3>3
  <2> QED BY <2>3, <2>4
<1>3. Cardinality(S) \in Nat BY FS_CardinalityType
<1>4. Cardinality(S) \in T
  <2> HIDE DEF T
  <2> QED BY <1>1, <1>2, <1>3, EveryNumber
<1>5. Topped(S) BY <1>3, <1>4
<1>6. Max(S) \in S /\ \A x \in S : Max(S) >= x BY <1>5 DEF Max
<1> QED BY <1>6

-----------------------------------------------------------------------------
\* Induction over the sequences: a set that holds the empty one and with every
\* sequence its extensions holds them all.
LEMMA EverySequence ==
    ASSUME NEW S, NEW T, <<>> \in T,
           \A s \in Seq(S), e \in S : s \in T => Append(s, e) \in T
    PROVE  \A s \in Seq(S) : s \in T
<1> DEFINE U == {n \in Nat : \A s \in Seq(S) : Len(s) = n => s \in T}
<1>1. 0 \in U
  <2>1. \A s \in Seq(S) : Len(s) = 0 => s = <<>> BY EmptySeq
  <2> QED BY <2>1
<1>2. ASSUME NEW n \in Nat, n \in U PROVE n + 1 \in U
  <2> SUFFICES ASSUME NEW s \in Seq(S), Len(s) = n + 1 PROVE s \in T
    OBVIOUS
  <2>1. s # <<>> BY EmptySeq
  <2>2. PICK t \in Seq(S), e \in S : s = Append(t, e)
    BY <2>1, SequenceEmptyOrAppend
  <2>3. Len(t) \in Nat /\ Len(s) = Len(t) + 1
    BY <2>2, AppendProperties, LenProperties
  <2>4. t \in T BY <1>2, <2>3
  <2> QED BY <2>2, <2>4
<1>3. \A n \in Nat : n \in U
  <2> HIDE DEF U
  <2> QED BY <1>1, <1>2, EveryNumber
<1>4. \A s \in Seq(S) : Len(s) \in Nat BY LenProperties
<1> QED BY <1>3, <1>4

\* A concatenation is extended at its end.
LEMMA ConcatThenAppend ==
    ASSUME NEW S, NEW s \in Seq(S), NEW t \in Seq(S), NEW e \in S
    PROVE  s \o Append(t, e) = Append(s \o t, e)
<1>1. <<e>> \in Seq(S) OBVIOUS
<1>2. Append(t, e) = t \o <<e>> BY AppendIsConcat
<1>3. s \o t \in Seq(S) BY ConcatProperties
<1>4. Append(s \o t, e) = (s \o t) \o <<e>> BY <1>3, AppendIsConcat
<1> QED BY <1>1, <1>2, <1>4, ConcatAssociative

-----------------------------------------------------------------------------
\* FlattenSeq joins its sequences from the left
LEMMA FlattenFromLeft ==
    ASSUME NEW S, NEW ss \in Seq(S), ss # <<>>
    PROVE  \E f : /\ FlattenSeq(ss) = f[Len(ss)] /\ f[1] = ss[1]
                  /\ \A i \in 2 .. Len(ss) : f[i] = f[i - 1] \o ss[i]
<1> DEFINE n == Len(ss)
           Step(g, i) == IF i = 1 THEN ss[i] ELSE g[i - 1] \o ss[i]
           F == CHOOSE f : f = [i \in 1 .. n |-> Step(f, i)]
<1>1. n \in Nat \ {0} BY EmptySeq
<1>2. \E f : f = [i \in 1 .. n |-> Step(f, i)]
  <2> DEFINE Filled(m) == \E f : f = [i \in 1 .. m |-> Step(f, i)]
             T == {m \in Nat : Filled(m)}
  <2>1. Filled(0)
    <3>1. <<>> = [i \in 1 .. 0 |-> Step(<<>>, i)] OBVIOUS
    <3> QED BY <3>1
  <2>2. ASSUME NEW m \in Nat, Filled(m) PROVE Filled(m + 1)
    <3>1. PICK h : h = [i \in 1 .. m |-> Step(h, i)] BY <2>2
    <3> DEFINE g == [i \in 1 .. m + 1 |->
                        IF i = m + 1 THEN Step(h, i) ELSE h[i]]
    <3>2. \A i \in 1 .. m + 1 : Step(g, i) = Step(h, i)
      <4>1. ASSUME NEW i \in 1 .. m + 1, i # 1 PROVE g[i - 1] = h[i - 1]
        BY <4>1
      <4> QED BY <4>1
    <3>3. \A i \in 1 .. m + 1 : g[i] = Step(h, i)
      <4>1. \A i \in 1 .. m : h[i] = Step(h, i) BY ONLY <3>1, Zenon
      <4>2. \A i \in 1 .. m + 1 : i = m + 1 \/ i \in 1 .. m OBVIOUS
      <4> HIDE DEF Step
      <4>3. \A i \in 1 .. m + 1 : g[i] = IF i = m + 1 THEN Step(h, i) ELSE h[i]
        OBVIOUS
      <4> QED BY ONLY <4>1, <4>2, <4>3, Zenon
    <3>4. g = [i \in 1 .. m + 1 |-> Step(g, i)]
      <4>1. g = [i \in 1 .. m + 1 |-> g[i]] OBVIOUS
      <4>2. \A i \in 1 .. m + 1 : g[i] = Step(g, i) BY <3>2, <3>3, Zenon
      <4> HIDE DEF Step, g
      <4> QED BY ONLY <4>1, <4>2
    <3> HIDE DEF g
    <3> QED BY <3>4
  <2>3. n \in T
    <3> HIDE DEF Filled
    <3>1. 0 \in T /\ \A m \in Nat : m \in T => m + 1 \in T BY <2>1, <2>2, SMTT(60)
    <3> HIDE DEF T
    <3> QED BY <1>1, <3>1, EveryNumber
  <2> QED BY <2>3
<1>3. F = [i \in 1 .. n |-> Step(F, i)] BY <1>2
<1>4. FlattenSeq(ss) = F[n] BY <1>1 DEF FlattenSeq
<1> HIDE DEF F
<1>5. \A i \in 1 .. n : F[i] = Step(F, i) BY ONLY <1>3, Zenon
<1>6. 1 \in 1 .. n BY <1>1
<1>7. F[1] = ss[1] BY <1>5, <1>6
<1>8. \A i \in 2 .. n : F[i] = F[i - 1] \o ss[i]
  <2>1. \A i \in 2 .. n : i \in 1 .. n /\ i # 1 BY <1>1
  <2> QED BY <1>5, <2>1
<1> QED BY <1>4, <1>7, <1>8

\* so what is joined to them comes last.
LEMMA FlattenAppend ==
    ASSUME NEW S, NEW ss \in Seq(S), NEW s \in S
    PROVE  FlattenSeq(Append(ss, s))
           = IF ss = <<>> THEN s ELSE FlattenSeq(ss) \o s
<1> DEFINE tt == Append(ss, s)
           n == Len(ss)
<1>1. /\ tt \in Seq(S) /\ tt # <<>> /\ Len(tt) = n + 1 /\ tt[n + 1] = s
      /\ \A i \in 1 .. n : tt[i] = ss[i]
  BY AppendProperties
<1>2. n \in Nat /\ (ss # <<>> <=> n > 0) BY EmptySeq, LenProperties
<1>3. PICK g : /\ FlattenSeq(tt) = g[n + 1] /\ g[1] = tt[1]
               /\ \A i \in 2 .. n + 1 : g[i] = g[i - 1] \o tt[i]
  <2> HIDE DEF tt, n
  <2>1. PICK g : /\ FlattenSeq(tt) = g[Len(tt)] /\ g[1] = tt[1]
                 /\ \A i \in 2 .. Len(tt) : g[i] = g[i - 1] \o tt[i]
    BY <1>1, FlattenFromLeft
  <2> QED BY <1>1, <2>1
<1> HIDE DEF tt
<1>4. CASE ss = <<>>
  <2>1. n = 0 BY <1>2, <1>4
  <2> QED BY <1>1, <1>3, <1>4, <2>1 DEF tt
<1>5. CASE ss # <<>>
  <2>1. PICK f : /\ FlattenSeq(ss) = f[n] /\ f[1] = ss[1]
                 /\ \A i \in 2 .. n : f[i] = f[i - 1] \o ss[i]
    BY <1>5, FlattenFromLeft
  <2> DEFINE T == {m \in Nat : m \in 1 .. n => f[m] = g[m]}
  <2> HIDE DEF n
  <2>2. 0 \in T OBVIOUS
  <2>3. ASSUME NEW m \in Nat, m \in T PROVE m + 1 \in T
    <3> SUFFICES ASSUME m + 1 \in 1 .. n PROVE f[m + 1] = g[m + 1]
      OBVIOUS
    <3>1. CASE m = 0
      <4>1. 1 \in 1 .. n BY <3>1
      <4> QED BY <1>1, <1>3, <2>1, <3>1, <4>1
    <3>2. CASE m # 0
      <4>1. /\ m \in 1 .. n /\ m + 1 \in 2 .. n /\ m + 1 \in 2 .. n + 1
            /\ (m + 1) - 1 = m /\ m + 1 \in 1 .. n
        BY <1>2, <3>2
      <4>2. f[m] = g[m] BY <2>3, <4>1
      <4>3. tt[m + 1] = ss[m + 1] BY <1>1, <4>1
      <4>4. f[m + 1] = f[m] \o ss[m + 1] BY <2>1, <4>1
      <4>5. g[m + 1] = g[m] \o tt[m + 1] BY <1>3, <4>1
      <4> QED BY <4>2, <4>3, <4>4, <4>5
    <3> QED BY <3>1, <3>2
  <2>4. n \in T
    <3> HIDE DEF T
    <3> QED BY <1>2, <2>2, <2>3, EveryNumber
  <2>5. f[n] = g[n] BY <1>2, <1>5, <2>4
  <2>6. n + 1 \in 2 .. n + 1 /\ (n + 1) - 1 = n BY <1>2, <1>5
  <2>7. g[n + 1] = g[n] \o tt[n + 1] BY <1>3, <2>6
  <2> QED BY <1>1, <1>3, <1>5, <2>1, <2>5, <2>7 DEF tt
<1> QED BY <1>4, <1>5

LEMMA FlattenEmpty == FlattenSeq(<<>>) = <<>>
BY DEF FlattenSeq

LEMMA FlattenType ==
    ASSUME NEW S, NEW ss \in Seq(Seq(S))
    PROVE  FlattenSeq(ss) \in Seq(S)
<1> DEFINE T == {tt \in Seq(Seq(S)) : FlattenSeq(tt) \in Seq(S)}
<1>1. <<>> \in T
  <2>1. <<>> \in Seq(Seq(S)) /\ <<>> \in Seq(S) BY EmptySeq
  <2>2. FlattenSeq(<<>>) \in Seq(S) BY <2>1, FlattenEmpty, Zenon
  <2> QED BY <2>1, <2>2, Zenon
<1>2. ASSUME NEW tt \in Seq(Seq(S)), NEW t \in Seq(S), tt \in T
      PROVE  Append(tt, t) \in T
  <2>1. Append(tt, t) \in Seq(Seq(S)) BY AppendProperties
  <2>2. FlattenSeq(Append(tt, t))
          = IF tt = <<>> THEN t ELSE FlattenSeq(tt) \o t
    BY FlattenAppend
  <2>3. FlattenSeq(tt) \o t \in Seq(S) BY <1>2, ConcatProperties
  <2> QED BY <2>1, <2>2, <2>3
<1>3. ss \in T
  <2> HIDE DEF T
  <2> QED BY <1>1, <1>2, EverySequence
<1> QED BY <1>3

\* Joining goes through concatenation.
LEMMA FlattenConcat ==
    ASSUME NEW S, NEW ss \in Seq(Seq(S)), NEW tt \in Seq(Seq(S))
    PROVE  FlattenSeq(ss \o tt) = FlattenSeq(ss) \o FlattenSeq(tt)
<1> DEFINE T == {uu \in Seq(Seq(S)) :
                   FlattenSeq(ss \o uu) = FlattenSeq(ss) \o FlattenSeq(uu)}
<1>0. FlattenSeq(ss) \in Seq(S) BY FlattenType
<1>1. <<>> \in T
  <2>1. ss \o <<>> = ss BY ConcatEmptySeq
  <2>2. FlattenSeq(ss) \o <<>> = FlattenSeq(ss) BY <1>0, ConcatEmptySeq
  <2>3. <<>> \in Seq(Seq(S)) BY EmptySeq
  <2>4. FlattenSeq(ss \o <<>>) = FlattenSeq(ss) \o FlattenSeq(<<>>)
    BY <2>1, <2>2, FlattenEmpty, Zenon
  <2> QED BY <2>3, <2>4, Zenon
<1>2. ASSUME NEW uu \in Seq(Seq(S)), NEW u \in Seq(S), uu \in T
      PROVE  Append(uu, u) \in T
  <2>1. Append(uu, u) \in Seq(Seq(S)) BY AppendProperties, SMTT(30)
  <2>2. ss \o Append(uu, u) = Append(ss \o uu, u) BY ConcatThenAppend
  <2>3. ss \o uu \in Seq(Seq(S)) BY ConcatProperties
  <2>4. FlattenSeq(Append(ss \o uu, u))
          = IF ss \o uu = <<>> THEN u ELSE FlattenSeq(ss \o uu) \o u
    BY <2>3, FlattenAppend
  <2>5. FlattenSeq(Append(uu, u))
          = IF uu = <<>> THEN u ELSE FlattenSeq(uu) \o u
    BY FlattenAppend
  <2>6. FlattenSeq(uu) \in Seq(S) BY FlattenType
  <2>7. FlattenSeq(ss \o uu) = FlattenSeq(ss) \o FlattenSeq(uu) BY <1>2
  <2>8. (FlattenSeq(ss) \o FlattenSeq(uu)) \o u
          = FlattenSeq(ss) \o (FlattenSeq(uu) \o u)
    BY <1>0, <2>6, Z3T(60)
  <2>9. CASE ss \o uu = <<>>
    <3>1. ss = <<>> /\ uu = <<>> BY <2>9, ConcatEqualIffEmpty
    <3>2. <<>> \o u = u BY ConcatEmptySeq
    <3> QED BY <2>1, <2>2, <2>4, <2>5, <2>9, <3>1, <3>2, FlattenEmpty
  <2>10. CASE ss \o uu # <<>> /\ uu = <<>>
    <3>1. ss \o uu = ss BY <2>10, ConcatEmptySeq
    <3> QED BY <2>1, <2>2, <2>4, <2>5, <2>10, <3>1
  <2>11. CASE ss \o uu # <<>> /\ uu # <<>>
    BY <2>1, <2>2, <2>4, <2>5, <2>7, <2>8, <2>11
  <2> QED BY <2>9, <2>10, <2>11
<1>3. tt \in T
  <2> HIDE DEF T
  <2> QED BY <1>1, <1>2, EverySequence
<1> QED BY <1>3

\* Joined, sequences of at most m elements have at most m times their number.
LEMMA FlattenLength ==
    ASSUME NEW S, NEW m \in Nat, NEW ss \in Seq({s \in Seq(S) : Len(s) <= m})
    PROVE  Len(FlattenSeq(ss)) \in Nat /\ Len(FlattenSeq(ss)) <= Len(ss) * m
<1> DEFINE U == {s \in Seq(S) : Len(s) <= m}
           T == {tt \in Seq(U) : Len(FlattenSeq(tt)) <= Len(tt) * m}
<1>1. \A tt \in Seq(U) : tt \in Seq(Seq(S)) /\ FlattenSeq(tt) \in Seq(S)
  <2>1. \A tt \in Seq(U) : tt \in Seq(Seq(S))
    <3>1. U \subseteq Seq(S) OBVIOUS
    <3> HIDE DEF U
    <3> QED BY <3>1
  <2> QED BY <2>1, FlattenType
<1>2. <<>> \in T
  <2>1. Len(<<>>) = 0 /\ 0 * m = 0 /\ <<>> \in Seq(U) BY EmptySeq
  <2> HIDE DEF U
  <2>2. Len(FlattenSeq(<<>>)) = 0 BY <2>1, FlattenEmpty
  <2> QED BY <2>1, <2>2
<1>3. ASSUME NEW tt \in Seq(U), NEW t \in U, tt \in T
      PROVE  Append(tt, t) \in T
  <2> DEFINE k == Len(tt)
             uu == Append(tt, t)
  <2>1. uu \in Seq(U) /\ Len(uu) = k + 1 /\ k \in Nat
    BY AppendProperties, LenProperties
  <2>2. t \in Seq(S) /\ Len(t) \in Nat /\ Len(t) <= m BY LenProperties
  <2>3. FlattenSeq(tt) \in Seq(S) /\ Len(FlattenSeq(tt)) \in Nat
    BY <1>1, LenProperties
  <2>4. Len(FlattenSeq(tt)) <= k * m BY <1>3
  <2>5. FlattenSeq(uu) = IF tt = <<>> THEN t ELSE FlattenSeq(tt) \o t
    BY FlattenAppend
  <2> HIDE DEF k, uu, U
  <2>6. (k + 1) * m = k * m + m /\ k * m \in Nat BY <2>1
  <2>7. Len(FlattenSeq(tt) \o t) = Len(FlattenSeq(tt)) + Len(t)
    BY <2>2, <2>3, ConcatProperties
  <2>8. Len(FlattenSeq(uu)) <= k * m + m
    BY <2>2, <2>3, <2>4, <2>5, <2>6, <2>7
  <2> QED BY <2>1, <2>6, <2>8 DEF uu
<1>4. ss \in T
  <2> HIDE DEF T
  <2>1. ss \in Seq(U) OBVIOUS
  <2> HIDE DEF U
  <2> QED BY <1>2, <1>3, <2>1, EverySequence
<1> QED BY <1>1, <1>4, LenProperties

\* A sequence that repeats nothing is no longer than there are elements.
LEMMA InjectiveLength ==
    ASSUME NEW S, IsFiniteSet(S), NEW s \in Seq(S), IsInjective(s)
    PROVE  Len(s) <= Cardinality(S)
<1>1. Len(s) \in Nat /\ DOMAIN s = 1 .. Len(s) /\ s \in [1 .. Len(s) -> S]
  BY LenProperties
<1>2. s \in Injection(1 .. Len(s), S)
  BY <1>1 DEF Injection, IsInjective
<1>3. Cardinality(1 .. Len(s)) <= Cardinality(S)
  BY ONLY <1>2, IsFiniteSet(S), FS_Injection, ZenonT(30)
<1>4. Cardinality(1 .. Len(s)) = Len(s)
  BY ONLY <1>1, FS_Interval, SMTT(30)
<1> QED BY <1>3, <1>4

-----------------------------------------------------------------------------
\* Induction over the parts of a finite set: a set that holds a part when it
\* holds what is left of it without any one element holds them all.
LEMMA EveryPart ==
    ASSUME NEW S, IsFiniteSet(S), NEW T,
           \A V \in SUBSET S : (\A x \in V : V \ {x} \in T) => V \in T
    PROVE  \A V \in SUBSET S : V \in T
<1> DEFINE Of(n) == {V \in SUBSET S : Cardinality(V) = n}
           U == {n \in Nat : Of(n) \subseteq T}
<1>1. \A V \in SUBSET S : IsFiniteSet(V) /\ Cardinality(V) \in Nat
  BY FS_Subset, FS_CardinalityType
<1>2. 0 \in U
  <2>1. \A V \in Of(0) : V = {} BY <1>1, FS_EmptySet
  <2> QED BY <2>1
<1>3. ASSUME NEW n \in Nat, n \in U PROVE n + 1 \in U
  <2> SUFFICES ASSUME NEW V \in Of(n + 1) PROVE V \in T
    OBVIOUS
  <2>1. \A x \in V : V \ {x} \in Of(n)
    <3>1. \A x \in V : Cardinality(V \ {x}) = Cardinality(V) - 1
      BY <1>1, FS_RemoveElement
    <3> QED BY <3>1
  <2> QED BY <1>3, <2>1
<1>4. \A n \in Nat : n \in U
  <2> HIDE DEF U
  <2> QED BY <1>2, <1>3, EveryNumber
<1> QED BY <1>1, <1>4

\* The element the folds take first.
AnyOf(V) == CHOOSE x \in V : TRUE

\* The sizes of the sets f[x], added over S.
TotalSize(f, S) == MapThenSumSet(LAMBDA x : Cardinality(f[x]), S)

\* g adds them an element at a time,
Adds(g, f, S) ==
    /\ g[{}] = 0
    /\ \A V \in SUBSET S : V # {} =>
           g[V] = Cardinality(f[AnyOf(V)]) + g[V \ {AnyOf(V)}]

\* as the fold does,
LEMMA TotalByElements ==
    ASSUME NEW f, NEW S, IsFiniteSet(S)
    PROVE  \E g : TotalSize(f, S) = g[S] /\ Adds(g, f, S)
<1> DEFINE Step(g, V) == IF V = {} THEN 0
                         ELSE Cardinality(f[AnyOf(V)]) + g[V \ {AnyOf(V)}]
           Upto(m) == {V \in SUBSET S : Cardinality(V) <= m}
           F == CHOOSE g : g = [V \in SUBSET S |-> Step(g, V)]
<1>1. \A V \in SUBSET S : IsFiniteSet(V) /\ Cardinality(V) \in Nat
  BY FS_Subset, FS_CardinalityType
<1>2. \A V \in SUBSET S : V # {} =>
          /\ AnyOf(V) \in V /\ V \ {AnyOf(V)} \in SUBSET S
          /\ Cardinality(V \ {AnyOf(V)}) = Cardinality(V) - 1
  BY <1>1, FS_RemoveElement DEF AnyOf
<1>3. \E g : g = [V \in SUBSET S |-> Step(g, V)]
  <2> DEFINE Filled(m) == \E g : g = [V \in Upto(m) |-> Step(g, V)]
             T == {m \in Nat : Filled(m)}
  <2>1. Filled(0)
    <3> DEFINE g == [V \in Upto(0) |-> 0]
    <3>1. \A V \in Upto(0) : V = {} BY <1>1, FS_EmptySet
    <3>2. \A V \in Upto(0) : Step(g, V) = 0 BY <3>1
    <3>3. g = [V \in Upto(0) |-> Step(g, V)] BY <3>2
    <3> HIDE DEF g
    <3> QED BY <3>3
  <2>2. ASSUME NEW m \in Nat, Filled(m) PROVE Filled(m + 1)
    <3>1. PICK h : h = [V \in Upto(m) |-> Step(h, V)] BY <2>2
    <3> DEFINE g == [V \in Upto(m + 1) |-> Step(h, V)]
    <3>2. \A V \in Upto(m) : V \in Upto(m + 1) /\ g[V] = h[V]
      <4>1. \A V \in Upto(m) : h[V] = Step(h, V) BY ONLY <3>1, Zenon
      <4>2. \A V \in Upto(m) : V \in Upto(m + 1) BY <1>1
      <4> HIDE DEF Step, Upto
      <4>3. \A V \in Upto(m + 1) : g[V] = Step(h, V) OBVIOUS
      <4> QED BY ONLY <4>1, <4>2, <4>3, Zenon
    <3>3. \A V \in Upto(m + 1) : V # {} => V \ {AnyOf(V)} \in Upto(m)
      BY <1>1, <1>2
    <3>4. \A V \in Upto(m + 1) : Step(g, V) = Step(h, V)
      <4> HIDE DEF g, Upto
      <4> QED BY <3>2, <3>3
    <3>5. g = [V \in Upto(m + 1) |-> Step(g, V)]
      <4>1. g = [V \in Upto(m + 1) |-> g[V]] OBVIOUS
      <4> HIDE DEF Step, Upto
      <4>2. \A V \in Upto(m + 1) : g[V] = Step(g, V) BY <3>4
      <4> HIDE DEF g
      <4> QED BY ONLY <4>1, <4>2
    <3> HIDE DEF g
    <3> QED BY <3>5
  <2>3. Cardinality(S) \in T
    <3> HIDE DEF Filled
    <3>1. 0 \in T /\ \A m \in Nat : m \in T => m + 1 \in T BY <2>1, <2>2
    <3> HIDE DEF T
    <3> QED BY <1>1, <3>1, EveryNumber
  <2>4. Upto(Cardinality(S)) = SUBSET S BY FS_Subset
  <2>5. \E g : g = [V \in Upto(Cardinality(S)) |-> Step(g, V)] BY <2>3
  <2> HIDE DEF Upto, Step
  <2> QED BY ONLY <2>4, <2>5
<1>4. F = [V \in SUBSET S |-> Step(F, V)] BY <1>3
<1>5. TotalSize(f, S) = F[S]
  BY DEF TotalSize, MapThenSumSet, MapThenFoldSet, AnyOf
<1> HIDE DEF F
<1>6. \A V \in SUBSET S : F[V] = Step(F, V) BY ONLY <1>4, Zenon
<1>7. Adds(F, f, S) BY <1>6 DEF Adds
<1> QED BY <1>5, <1>7

\* so it grows by no more than the elements of P that b hands out to S.
LEMMA TotalGrows ==
    ASSUME NEW f, NEW e, NEW S, IsFiniteSet(S), NEW P, IsFiniteSet(P), NEW b,
           \A x \in S : /\ IsFiniteSet(f[x]) /\ IsFiniteSet(e[x])
                        /\ Cardinality(e[x]) <= Cardinality(f[x]) +
                               Cardinality({i \in P : b[i] = x})
    PROVE  /\ TotalSize(f, S) \in Nat /\ TotalSize(e, S) \in Nat
           /\ TotalSize(e, S) <= TotalSize(f, S) + Cardinality(P)
<1> DEFINE Of(x) == {i \in P : b[i] = x}
           Given(V) == {i \in P : b[i] \in V}
<1>1. \A X \in SUBSET P : /\ IsFiniteSet(X) /\ Cardinality(X) \in Nat
                          /\ Cardinality(X) <= Cardinality(P)
  BY FS_Subset, FS_CardinalityType
<1>2. \A x \in S : Cardinality(f[x]) \in Nat /\ Cardinality(e[x]) \in Nat
  BY FS_CardinalityType
<1>3. \A V \in SUBSET S : \A x \in V :
          Cardinality(Given(V)) =
              Cardinality(Of(x)) + Cardinality(Given(V \ {x}))
  <2> TAKE V \in SUBSET S
  <2> TAKE x \in V
  <2> DEFINE X == Of(x)
             Y == Given(V \ {x})
             Z == Given(V)
  <2>1. X \in SUBSET P /\ Y \in SUBSET P OBVIOUS
  <2>2. X \cup Y = Z /\ X \cap Y = {} OBVIOUS
  <2> HIDE DEF X, Y, Z
  <2>3. /\ IsFiniteSet(X) /\ Cardinality(X) \in Nat
        /\ IsFiniteSet(Y) /\ Cardinality(Y) \in Nat
    BY <1>1, <2>1
  <2>4. Cardinality(Z) = Cardinality(X) + Cardinality(Y) - Cardinality({})
    BY ONLY <2>2, <2>3, FS_Union
  <2>5. Cardinality(Z) = Cardinality(X) + Cardinality(Y)
    BY ONLY <2>3, <2>4, FS_EmptySet
  <2> QED BY ONLY <2>5 DEF X, Y, Z
<1>4. PICK g : TotalSize(e, S) = g[S] /\ Adds(g, e, S) BY TotalByElements
<1>5. PICK h : TotalSize(f, S) = h[S] /\ Adds(h, f, S) BY TotalByElements
<1> DEFINE T == {V \in SUBSET S : /\ g[V] \in Nat /\ h[V] \in Nat
                                 /\ g[V] <= h[V] + Cardinality(Given(V))}
<1>6. ASSUME NEW V \in SUBSET S, \A x \in V : V \ {x} \in T PROVE V \in T
  <2>1. CASE V = {}
    <3>1. Given(V) \in SUBSET P OBVIOUS
    <3>2. Cardinality(Given(V)) \in Nat BY <1>1, <3>1
    <3> HIDE DEF Given
    <3> QED BY <1>4, <1>5, <2>1, <3>2 DEF Adds
  <2>2. CASE V # {}
    <3> DEFINE x == AnyOf(V)
               W == V \ {x}
    <3>1. x \in V /\ x \in S BY <2>2 DEF AnyOf
    <3>2. W \in T BY <1>6, <3>1
    <3>3. Given(W) \in SUBSET P /\ Of(x) \in SUBSET P OBVIOUS
    <3>4. Cardinality(Given(W)) \in Nat /\ Cardinality(Of(x)) \in Nat
      BY <1>1, <3>3
    <3>5. Cardinality(Given(V)) = Cardinality(Of(x)) + Cardinality(Given(W))
      BY <1>3, <3>1
    <3>6. /\ Cardinality(f[x]) \in Nat /\ Cardinality(e[x]) \in Nat
          /\ Cardinality(e[x]) <= Cardinality(f[x]) + Cardinality(Of(x))
      BY <1>2, <3>1
    <3>7. g[V] = Cardinality(e[x]) + g[W] /\ h[V] = Cardinality(f[x]) + h[W]
      BY <1>4, <1>5, <2>2 DEF Adds
    <3> HIDE DEF Of, Given, x, W
    <3> QED BY <3>2, <3>4, <3>5, <3>6, <3>7
  <2> QED BY <2>1, <2>2
<1>7. S \in T
  <2> HIDE DEF T
  <2>1. \A V \in SUBSET S : (\A x \in V : V \ {x} \in T) => V \in T BY <1>6
  <2>2. \A V \in SUBSET S : V \in T BY <2>1, EveryPart
  <2> QED BY <2>2
<1>8. Given(S) \in SUBSET P OBVIOUS
<1>9. /\ Cardinality(P) \in Nat /\ Cardinality(Given(S)) \in Nat
      /\ Cardinality(Given(S)) <= Cardinality(P)
  BY <1>1, <1>8
<1> HIDE DEF Given
<1>10. TotalSize(e, S) <= TotalSize(f, S) + Cardinality(P)
  BY <1>4, <1>5, <1>7, <1>9
<1> QED BY <1>4, <1>5, <1>7, <1>10

\* It is 0 when all of them are empty.
LEMMA TotalOfNothing ==
    ASSUME NEW f, NEW S, IsFiniteSet(S), \A x \in S : f[x] = {}
    PROVE  TotalSize(f, S) = 0
<1>1. PICK g : TotalSize(f, S) = g[S] /\ Adds(g, f, S) BY TotalByElements
<1> DEFINE T == {V \in SUBSET S : g[V] = 0}
<1>2. \A V \in SUBSET S : (\A x \in V : V \ {x} \in T) => V \in T
  <2> SUFFICES ASSUME NEW V \in SUBSET S, \A x \in V : V \ {x} \in T
               PROVE  g[V] = 0
    OBVIOUS
  <2>1. CASE V = {} BY <1>1, <2>1 DEF Adds
  <2>2. CASE V # {}
    <3> DEFINE x == AnyOf(V)
    <3>1. x \in V BY <2>2 DEF AnyOf
    <3>2. f[x] = {} /\ g[V \ {x}] = 0 BY <3>1
    <3>3. g[V] = Cardinality(f[x]) + g[V \ {x}] BY <1>1, <2>2 DEF Adds
    <3> QED BY <3>2, <3>3, FS_EmptySet
  <2> QED BY <2>1, <2>2
<1>3. S \in T
  <2> HIDE DEF T
  <2>1. \A V \in SUBSET S : V \in T BY <1>2, EveryPart
  <2> QED BY <2>1
<1> QED BY <1>1, <1>3

-----------------------------------------------------------------------------
\* t is how s ends.
EndOf(S, t, s) == \E p \in Seq(S) : s = p \o t

LEMMA EndOfEnd ==
    ASSUME NEW S, NEW r \in Seq(S), NEW s \in Seq(S), NEW t \in Seq(S),
           EndOf(S, t, s), EndOf(S, s, r)
    PROVE  EndOf(S, t, r)
<1>1. PICK p \in Seq(S) : s = p \o t BY DEF EndOf
<1>2. PICK q \in Seq(S) : r = q \o s BY DEF EndOf
<1>3. (q \o p) \o t = q \o (p \o t) BY Z3T(60)
<1>4. r = (q \o p) \o t BY ONLY <1>1, <1>2, <1>3
<1>5. q \o p \in Seq(S) BY ConcatProperties
<1> QED BY <1>4, <1>5 DEF EndOf

LEMMA EndIsExtended ==
    ASSUME NEW S, NEW s \in Seq(S), NEW t \in Seq(S), NEW u \in Seq(S),
           EndOf(S, t, s)
    PROVE  EndOf(S, t \o u, s \o u)
<1>1. PICK p \in Seq(S) : s = p \o t BY DEF EndOf
<1>2. (p \o t) \o u = p \o (t \o u) BY Z3T(60)
<1>3. s \o u = p \o (t \o u) BY ONLY <1>1, <1>2
<1> QED BY <1>1, <1>3 DEF EndOf

\* Joined, the last sequences are an end of all.
LEMMA JoinedEnd ==
    ASSUME NEW S, NEW ss \in Seq(Seq(S)), NEW tt \in Seq(Seq(S)),
           EndOf(Seq(S), tt, ss)
    PROVE  EndOf(S, FlattenSeq(tt), FlattenSeq(ss))
<1>1. PICK p \in Seq(Seq(S)) : ss = p \o tt BY DEF EndOf
<1>2. FlattenSeq(ss) = FlattenSeq(p) \o FlattenSeq(tt)
  BY <1>1, FlattenConcat
<1>3. FlattenSeq(p) \in Seq(S) BY FlattenType
<1> QED BY <1>2, <1>3 DEF EndOf

\* What is left of a sequence is an end of it.
LEMMA RestIsEnd ==
    ASSUME NEW S, NEW s \in Seq(S), NEW k \in Nat
    PROVE  /\ SubSeq(s, k + 1, Len(s)) \in Seq(S)
           /\ EndOf(S, SubSeq(s, k + 1, Len(s)), s)
<1> DEFINE r == SubSeq(s, k + 1, Len(s))
<1>1. Len(s) \in Nat BY LenProperties
<1>2. /\ r \in Seq(S)
      /\ Len(r) = IF k + 1 <= Len(s) THEN Len(s) - (k + 1) + 1 ELSE 0
  <2>1. /\ k + 1 \in Int /\ Len(s) \in Int
        /\ \A i \in k + 1 .. Len(s) : s[i] \in S
    BY <1>1, ElementOfSeq
  <2> QED BY <2>1, SubSeqProperties
<1>3. CASE k <= Len(s)
  <2> DEFINE p == SubSeq(s, 1, k)
  <2>1. p \in Seq(S)
    <3>1. /\ 1 \in Int /\ k \in Int /\ \A i \in 1 .. k : s[i] \in S
      BY <1>1, <1>3, ElementOfSeq
    <3> QED BY <3>1, SubSeqProperties
  <2>2. /\ 1 \in 1 .. Len(s) + 1 /\ k \in 1 - 1 .. Len(s)
        /\ Len(s) \in k .. Len(s)
    BY <1>1, <1>3
  <2>3. p \o r = SubSeq(s, 1, Len(s)) BY <2>2, ConcatAdjacentSubSeq
  <2>4. s = p \o r BY <2>3, SubSeqFull
  <2> HIDE DEF p, r
  <2> QED BY <1>2, <2>1, <2>4 DEF EndOf, r
<1>4. CASE ~(k <= Len(s))
  <2>1. Len(r) = 0 BY <1>1, <1>2, <1>4
  <2> HIDE DEF r
  <2>2. r = <<>> BY <1>2, <2>1, EmptySeq
  <2>3. s = s \o r BY <2>2, ConcatEmptySeq
  <2> QED BY <1>2, <2>3 DEF EndOf, r
<1> QED BY <1>3, <1>4
=============================================================================

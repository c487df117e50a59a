--------------------------- MODULE SequenceLemmas ---------------------------
(***************************************************************************)
(* Lemmas the proofs share: induction over the natural numbers, as a       *)
(* statement about sets, and what FlattenSeq of SequencesExt returns,      *)
(* which is defined by a recursive function.                               *)
(***************************************************************************)
EXTENDS Integers, Sequences, SequencesExt, FiniteSetTheorems, SequenceTheorems, TLAPS

-----------------------------------------------------------------------------
(* Numbers.                                                                 *)

\* A set of natural numbers has a least one: the finite sets of those not above a
\* member cannot shrink for ever.
LEMMA LeastNumber ==
    ASSUME NEW T, T \subseteq Nat, T # {}
    PROVE  \E n \in T : \A m \in T : n <= m
<1> DEFINE Below(n) == {m \in T : m <= n}
           F == {Below(n) : n \in T}
           R == StrictSubsetOrdering(Nat)
<1>1. \A n \in T : IsFiniteSet(Below(n))
    <2> TAKE n \in T
    <2> DEFINE B == Below(n)
    <2>1. B \in SUBSET Nat /\ n \in Nat /\ \A m \in B : m <= n
        OBVIOUS
    <2> HIDE DEF B
    <2>2. IsFiniteSet(B)
        BY <2>1, FS_BoundedSetOfNaturals
    <2> QED
        BY <2>2 DEF B
<1>2. F \subseteq FiniteSubsetsOf(Nat) /\ F # {}
    BY <1>1 DEF FiniteSubsetsOf
<1>3. IsWellFoundedOn(R, FiniteSubsetsOf(Nat))
    BY FS_StrictSubsetOrderingWellFounded
<1> HIDE DEF R, F
<1>4. PICK U \in F : \A V \in F : <<V, U>> \notin R
    BY <1>2, <1>3, WFMin
<1>5. PICK n \in T : U = Below(n)
    BY <1>4 DEF F
<1>6. ASSUME NEW m \in T, m < n PROVE FALSE
    <2>1. Below(m) \in F
        BY DEF F
    <2>2. Below(m) \subseteq Below(n) /\ n \in Below(n) /\ n \notin Below(m)
        <3>1. m \in Nat /\ n \in Nat /\ \A k \in T : k \in Nat
            OBVIOUS
        <3>2. \A k \in T : k <= m => k <= n
            BY <1>6, <3>1
        <3>3. n <= n /\ ~(n <= m)
            BY <1>6, <3>1
        <3> QED
            BY <3>2, <3>3
    <2>3. <<Below(m), Below(n)>> \in R
        <3>1. Below(m) \in SUBSET Nat /\ Below(n) \in SUBSET Nat
            OBVIOUS
        <3> HIDE DEF Below
        <3> QED
            BY <2>2, <3>1 DEF R, StrictSubsetOrdering
    <2> QED
        BY <1>4, <1>5, <2>1, <2>3
<1> QED
    BY <1>6

\* Induction, for a set in place of a predicate.
LEMMA SetInduction ==
    ASSUME NEW S, 0 \in S, \A n \in Nat : n \in S => n + 1 \in S
    PROVE  Nat \subseteq S
<1> SUFFICES ASSUME Nat \ S # {} PROVE FALSE
    OBVIOUS
<1>1. PICK n \in Nat \ S : \A m \in Nat \ S : n <= m
    BY LeastNumber
<1>2. n # 0 /\ n - 1 \in Nat
    BY <1>1
<1>3. n - 1 \in S
    BY <1>1, <1>2
<1> QED
    BY <1>1, <1>2, <1>3

\* A proper subset of a finite set is smaller.
LEMMA SmallerSubset ==
    ASSUME NEW T, IsFiniteSet(T), NEW R \in SUBSET T, R # T
    PROVE  Cardinality(R) \in Nat /\ Cardinality(T) \in Nat /\ Cardinality(R) < Cardinality(T)
<1>1. IsFiniteSet(R) /\ Cardinality(R) <= Cardinality(T) /\ (Cardinality(T) = Cardinality(R) => T = R)
    BY FS_Subset
<1>2. Cardinality(R) \in Nat /\ Cardinality(T) \in Nat
    BY <1>1, FS_CardinalityType
<1> QED
    BY <1>1, <1>2

-----------------------------------------------------------------------------
(* Unfolding FlattenSeq.                                                    *)

\* f[i] is the concatenation of the first i pieces of ss.
Unfolds(ss, n, f) == f = [i \in 1 .. n |-> IF i = 1 THEN ss[i] ELSE f[i - 1] \o ss[i]]

\* Such a function exists, so a CHOOSE of one is one.
LEMMA UnfoldingExists ==
    ASSUME NEW ss, NEW n \in Nat \ {0}
    PROVE  \E f : Unfolds(ss, n, f)
<1> DEFINE S == {k \in Nat : k = 0 \/ \E f : Unfolds(ss, k, f)}
<1>1. 0 \in S
    OBVIOUS
<1>2. ASSUME NEW k \in Nat, k \in S PROVE k + 1 \in S
    <2>1. CASE k = 0
        <3> DEFINE f == [i \in 1 .. 1 |-> ss[i]]
        <3>1. Unfolds(ss, 1, f)
            BY DEF Unfolds
        <3> QED
            BY <2>1, <3>1
    <2>2. CASE k # 0
        <3>1. PICK f : Unfolds(ss, k, f)
            BY <1>2, <2>2
        <3> DEFINE g == [i \in 1 .. (k + 1) |->
                           IF i = k + 1 THEN f[k] \o ss[i] ELSE f[i]]
        <3>2. \A i \in 1 .. (k + 1) : g[i] = IF i = 1 THEN ss[i] ELSE g[i - 1] \o ss[i]
            <4> TAKE i \in 1 .. (k + 1)
            <4>1. CASE i = k + 1
                <5>1. k \in 1 .. (k + 1) /\ k # k + 1 /\ i - 1 = k /\ i # 1
                    BY <2>2, <4>1
                <5>2. g[k] = f[k] /\ g[i] = f[k] \o ss[i]
                    BY <4>1, <5>1
                <5> QED
                    BY <5>1, <5>2
            <4>2. CASE i \in 1 .. k
                <5>1. f[i] = IF i = 1 THEN ss[i] ELSE f[i - 1] \o ss[i]
                    BY <3>1, <4>2 DEF Unfolds
                <5>2. i # 1 => i - 1 \in 1 .. (k + 1) /\ i - 1 # k + 1
                    BY <4>2
                <5>3. g[i] = f[i] /\ (i # 1 => g[i - 1] = f[i - 1])
                    BY <4>2, <5>2
                <5> QED
                    BY <5>1, <5>3
            <4> QED
                BY <4>1, <4>2
        <3>3. Unfolds(ss, k + 1, g)
            BY <3>2 DEF Unfolds
        <3> QED
            BY <3>3
    <2> QED
        BY <2>1, <2>2
<1> HIDE DEF S
<1>3. Nat \subseteq S
    BY <1>1, <1>2, SetInduction
<1> QED
    BY <1>3 DEF S

\* FlattenSeq is the last value of its recursive function.
LEMMA FlattenUnfolds ==
    ASSUME NEW ss, Len(ss) \in Nat \ {0}
    PROVE  \E f : Unfolds(ss, Len(ss), f) /\ FlattenSeq(ss) = f[Len(ss)]
<1> DEFINE flatten == CHOOSE f : f = [i \in 1 .. Len(ss) |-> IF i = 1 THEN ss[i] ELSE f[i - 1] \o ss[i]]
<1>1. \E f : f = [i \in 1 .. Len(ss) |-> IF i = 1 THEN ss[i] ELSE f[i - 1] \o ss[i]]
    BY UnfoldingExists DEF Unfolds
<1>2. flatten = [i \in 1 .. Len(ss) |-> IF i = 1 THEN ss[i] ELSE flatten[i - 1] \o ss[i]]
    BY <1>1, Zenon
<1>3. FlattenSeq(ss) = flatten[Len(ss)]
    BY DEF FlattenSeq
<1> QED
    BY <1>2, <1>3 DEF Unfolds

-----------------------------------------------------------------------------
(* What a flattened sequence looks like.                                    *)

\* Concatenation, place by place.
LEMMA AppendPiece ==
    ASSUME NEW S, NEW s \in Seq(S), NEW t \in Seq(S)
    PROVE  /\ s \o t \in Seq(S)
           /\ Len(s) \in Nat /\ Len(t) \in Nat /\ Len(s \o t) = Len(s) + Len(t)
           /\ \A j \in 1 .. Len(s) : (s \o t)[j] = s[j]
           /\ \A k \in 1 .. Len(t) : (s \o t)[Len(s) + k] = t[k]
OBVIOUS

\* flat lays out the first n pieces of ss; the i-th ends at place ends[i].
Laid(ss, n, flat, ends) ==
    /\ ends \in [0 .. n -> Nat] /\ ends[0] = 0 /\ Len(flat) = ends[n]
    /\ \A h, i \in 0 .. n : h <= i => ends[h] <= ends[i]
    /\ \A i \in 1 .. n : ends[i] = ends[i - 1] + Len(ss[i])
    /\ \A i \in 1 .. n : \A k \in 1 .. Len(ss[i]) : flat[ends[i - 1] + k] = ss[i][k]
    /\ \A j \in 1 .. Len(flat) : \E i \in 1 .. n : ends[i - 1] < j /\ j <= ends[i]

\* One more piece goes behind the last.
LEMMA LaidExtends ==
    ASSUME NEW S, NEW ss, NEW n \in Nat, ss[n + 1] \in Seq(S),
           NEW flat \in Seq(S), NEW ends, Laid(ss, n, flat, ends),
           \A i \in 1 .. n : Len(ss[i]) \in Nat
    PROVE  \E more : Laid(ss, n + 1, flat \o ss[n + 1], more)
<1> DEFINE t == ss[n + 1]
           more == [i \in 0 .. n + 1 |-> IF i = n + 1 THEN Len(flat) + Len(t) ELSE ends[i]]
<1>1. /\ Len(flat) \in Nat /\ Len(t) \in Nat /\ Len(flat \o t) = Len(flat) + Len(t)
      /\ \A j \in 1 .. Len(flat) : (flat \o t)[j] = flat[j]
      /\ \A k \in 1 .. Len(t) : (flat \o t)[Len(flat) + k] = t[k]
    BY AppendPiece
<1>2. /\ ends \in [0 .. n -> Nat] /\ ends[0] = 0 /\ Len(flat) = ends[n]
      /\ \A h, i \in 0 .. n : h <= i => ends[h] <= ends[i]
      /\ \A i \in 1 .. n : ends[i] = ends[i - 1] + Len(ss[i])
      /\ \A i \in 1 .. n : \A k \in 1 .. Len(ss[i]) : flat[ends[i - 1] + k] = ss[i][k]
      /\ \A j \in 1 .. Len(flat) : \E i \in 1 .. n : ends[i - 1] < j /\ j <= ends[i]
    BY DEF Laid
<1>3. /\ \A i \in 0 .. n : more[i] = ends[i]
      /\ more[n + 1] = Len(flat) + Len(t)
      /\ more \in [0 .. n + 1 -> Nat]
    BY <1>1, <1>2
<1> HIDE DEF more
<1>4. more[0] = 0 /\ Len(flat \o t) = more[n + 1]
    BY <1>1, <1>2, <1>3
<1>5. ASSUME NEW h \in 0 .. n + 1, NEW i \in 0 .. n + 1, h <= i PROVE more[h] <= more[i]
    <2>1. CASE i \in 0 .. n
        <3>1. h \in 0 .. n
            BY <1>5, <2>1
        <3> QED
            BY <1>2, <1>3, <1>5, <2>1, <3>1
    <2>2. CASE i = n + 1 /\ h \in 0 .. n
        <3>1. n \in 0 .. n /\ h \in 0 .. n /\ h <= n
            BY <2>2
        <3>2. ends[h] <= ends[n] /\ ends[h] \in Nat /\ ends[n] \in Nat
            BY <1>2, <3>1
        <3>3. more[h] = ends[h] /\ more[i] = ends[n] + Len(t)
            BY <1>2, <1>3, <2>2
        <3> QED
            BY <1>1, <3>2, <3>3
    <2>3. CASE i = n + 1 /\ h = n + 1
        BY <1>1, <1>3, <2>3
    <2> QED
        BY <2>1, <2>2, <2>3
<1>6. ASSUME NEW i \in 1 .. n + 1
      PROVE  /\ more[i] = more[i - 1] + Len(ss[i])
             /\ \A k \in 1 .. Len(ss[i]) : (flat \o t)[more[i - 1] + k] = ss[i][k]
    <2>1. CASE i \in 1 .. n
        <3>1. /\ i \in 0 .. n /\ i - 1 \in 0 .. n /\ Len(ss[i]) \in Nat
              /\ ends[i] = ends[i - 1] + Len(ss[i]) /\ ends[i] <= ends[n]
              /\ ends[i - 1] \in Nat /\ ends[i] \in Nat
            BY <1>2, <2>1
        <3>2. ASSUME NEW k \in 1 .. Len(ss[i]) PROVE (flat \o t)[ends[i - 1] + k] = ss[i][k]
            <4>1. ends[i - 1] + k \in 1 .. Len(flat)
                <5>1. Len(flat) = ends[n] /\ n \in 0 .. n /\ ends[n] \in Nat
                    BY <1>2
                <5> QED
                    BY <3>1, <5>1
            <4> QED
                BY <1>1, <1>2, <2>1, <4>1
        <3>3. more[i] = ends[i] /\ more[i - 1] = ends[i - 1]
            BY <1>3, <3>1
        <3> QED
            BY <3>1, <3>2, <3>3
    <2>2. CASE i = n + 1
        <3>1. i - 1 = n /\ n \in 0 .. n /\ ss[i] = t
            BY <2>2
        <3>2. more[i] = Len(flat) + Len(t) /\ more[i - 1] = Len(flat)
            BY <1>2, <1>3, <2>2, <3>1
        <3> QED
            BY <1>1, <3>1, <3>2
    <2>3. i \in 1 .. n \/ i = n + 1
        OBVIOUS
    <2> QED
        BY <2>1, <2>2, <2>3, Zenon
<1>7. ASSUME NEW j \in 1 .. Len(flat \o t)
      PROVE  \E i \in 1 .. n + 1 : more[i - 1] < j /\ j <= more[i]
    <2>1. CASE j \in 1 .. Len(flat)
        <3>1. PICK i \in 1 .. n : ends[i - 1] < j /\ j <= ends[i]
            BY <1>2, <2>1
        <3>2. i \in 0 .. n /\ i - 1 \in 0 .. n /\ i \in 1 .. n + 1
            OBVIOUS
        <3> QED
            BY <1>3, <3>1, <3>2
    <2>2. CASE j \notin 1 .. Len(flat)
        <3>1. Len(flat) < j /\ j <= Len(flat) + Len(t)
            BY <1>1, <2>2
        <3>2. n + 1 \in 1 .. n + 1 /\ (n + 1) - 1 = n /\ n \in 0 .. n
            OBVIOUS
        <3>3. more[n] = Len(flat)
            BY <1>2, <1>3, <3>2
        <3> QED
            BY <1>3, <3>1, <3>2, <3>3
    <2> QED
        BY <2>1, <2>2
<1>8. Laid(ss, n + 1, flat \o t, more)
    BY <1>3, <1>4, <1>5, <1>6, <1>7 DEF Laid
<1> QED
    BY <1>8

\* FlattenSeq lays out its pieces one behind the other, and nothing else.
LEMMA FlattenLaid ==
    ASSUME NEW S, NEW ss \in Seq(Seq(S))
    PROVE  /\ FlattenSeq(ss) \in Seq(S)
           /\ \E ends : Laid(ss, Len(ss), FlattenSeq(ss), ends)
<1>1. CASE Len(ss) = 0
    <2>1. ss = <<>> /\ FlattenSeq(ss) = ss
        BY <1>1 DEF FlattenSeq
    <2>2. Laid(ss, 0, <<>>, [i \in 0 .. 0 |-> 0])
        BY DEF Laid
    <2> QED
        BY <1>1, <2>1, <2>2
<1>2. CASE Len(ss) # 0
    <2>1. Len(ss) \in Nat \ {0} /\ \A i \in 1 .. Len(ss) : ss[i] \in Seq(S)
        BY <1>2
    <2>2. PICK f : Unfolds(ss, Len(ss), f) /\ FlattenSeq(ss) = f[Len(ss)]
        BY <2>1, FlattenUnfolds
    <2>3. \A i \in 1 .. Len(ss) : f[i] = IF i = 1 THEN ss[i] ELSE f[i - 1] \o ss[i]
        BY <2>2 DEF Unfolds
    <2> DEFINE Good(n) == f[n] \in Seq(S) /\ \E ends : Laid(ss, n, f[n], ends)
               T == {n \in Nat : n \in 1 .. Len(ss) => Good(n)}
    <2>4. 0 \in T
        OBVIOUS
    <2>5. ASSUME NEW n \in Nat, n \in T PROVE n + 1 \in T
        <3> SUFFICES ASSUME n + 1 \in 1 .. Len(ss) PROVE Good(n + 1)
            OBVIOUS
        <3>1. ss[n + 1] \in Seq(S)
            BY <2>1
        <3>2. \A i \in 1 .. n : Len(ss[i]) \in Nat
            BY <2>1
        <3>3. CASE n = 0
            <4>1. f[1] = ss[1] /\ ss[1] \in Seq(S)
                BY <2>1, <2>3
            <4>2. Laid(ss, 0, <<>>, [i \in 0 .. 0 |-> 0])
                BY DEF Laid
            <4>3. \E more : Laid(ss, 0 + 1, <<>> \o ss[0 + 1], more)
                <5>1. <<>> \in Seq(S)
                    OBVIOUS
                <5> QED
                    BY <3>1, <3>2, <3>3, <4>2, <5>1, LaidExtends
            <4>4. <<>> \o ss[1] = ss[1]
                BY <4>1
            <4> QED
                BY <3>3, <4>1, <4>3, <4>4
        <3>4. CASE n # 0
            <4>1. n \in 1 .. Len(ss) /\ n + 1 # 1 /\ (n + 1) - 1 = n
                BY <3>4
            <4>2. Good(n) /\ f[n + 1] = f[n] \o ss[n + 1]
                BY <2>3, <2>5, <4>1
            <4>3. f[n] \in Seq(S)
                BY <4>2
            <4>4. PICK ends : Laid(ss, n, f[n], ends)
                BY <4>2
            <4>5. \E more : Laid(ss, n + 1, f[n] \o ss[n + 1], more)
                BY <3>1, <3>2, <4>3, <4>4, LaidExtends
            <4>6. f[n] \o ss[n + 1] \in Seq(S)
                BY <3>1, <4>3
            <4> QED
                BY <4>2, <4>5, <4>6
        <3> QED
            BY <3>3, <3>4
    <2> HIDE DEF T
    <2>6. Nat \subseteq T
        BY <2>4, <2>5, SetInduction
    <2> QED
        BY <2>1, <2>2, <2>6 DEF T
<1> QED
    BY <1>1, <1>2

\* t is s with h applied to every element.
Mapped(h, s, t) == Len(t) = Len(s) /\ \A k \in 1 .. Len(s) : t[k] = h[s[k]]

\* Flattening commutes with a function on the elements.
LEMMA FlattenMapped ==
    ASSUME NEW S, NEW ss \in Seq(Seq(S)), NEW Q, NEW tt \in Seq(Seq(Q)), NEW h,
           Len(tt) = Len(ss), \A i \in 1 .. Len(ss) : Mapped(h, ss[i], tt[i])
    PROVE  Mapped(h, FlattenSeq(ss), FlattenSeq(tt))
<1> USE DEF Mapped
<1>1. CASE Len(ss) = 0
    BY <1>1 DEF FlattenSeq
<1>2. CASE Len(ss) # 0
    <2>1. /\ Len(ss) \in Nat \ {0}
          /\ \A i \in 1 .. Len(ss) : ss[i] \in Seq(S) /\ tt[i] \in Seq(Q)
        BY <1>2
    <2>2. PICK f : Unfolds(ss, Len(ss), f) /\ FlattenSeq(ss) = f[Len(ss)]
        BY <2>1, FlattenUnfolds
    <2>3. PICK g : Unfolds(tt, Len(ss), g) /\ FlattenSeq(tt) = g[Len(ss)]
        BY <2>1, FlattenUnfolds
    <2>4. \A i \in 1 .. Len(ss) : /\ f[i] = IF i = 1 THEN ss[i] ELSE f[i - 1] \o ss[i]
                                  /\ g[i] = IF i = 1 THEN tt[i] ELSE g[i - 1] \o tt[i]
        BY <2>2, <2>3 DEF Unfolds
    <2> DEFINE Good(n) == /\ f[n] \in Seq(S) /\ g[n] \in Seq(Q) /\ Len(g[n]) = Len(f[n])
                          /\ \A j \in 1 .. Len(f[n]) : g[n][j] = h[f[n][j]]
               T == {n \in Nat : n \in 1 .. Len(ss) => Good(n)}
    <2>5. 0 \in T
        OBVIOUS
    <2>6. ASSUME NEW n \in Nat, n \in T PROVE n + 1 \in T
        <3> SUFFICES ASSUME n + 1 \in 1 .. Len(ss) PROVE Good(n + 1)
            OBVIOUS
        <3>1. CASE n = 0
            <4>1. 1 \in 1 .. Len(ss) /\ f[1] = ss[1] /\ g[1] = tt[1]
                BY <2>1, <2>4
            <4> QED
                BY <2>1, <3>1, <4>1
        <3>2. CASE n # 0
            <4>1. n \in 1 .. Len(ss) /\ n + 1 # 1 /\ (n + 1) - 1 = n
                BY <3>2
            <4>2. Good(n) /\ f[n + 1] = f[n] \o ss[n + 1] /\ g[n + 1] = g[n] \o tt[n + 1]
                BY <2>4, <2>6, <4>1
            <4> DEFINE s == f[n] u == ss[n + 1] t == g[n] v == tt[n + 1]
            <4>3. /\ s \in Seq(S) /\ u \in Seq(S) /\ t \in Seq(Q) /\ v \in Seq(Q)
                  /\ Len(t) = Len(s) /\ Len(v) = Len(u)
                  /\ \A j \in 1 .. Len(s) : t[j] = h[s[j]]
                  /\ \A k \in 1 .. Len(u) : v[k] = h[u[k]]
                BY <2>1, <4>2
            <4> HIDE DEF s, u, t, v
            <4>7. s \in Seq(S) /\ u \in Seq(S) /\ t \in Seq(Q) /\ v \in Seq(Q)
                BY <4>3
            <4>8. /\ s \o u \in Seq(S) /\ Len(s) \in Nat /\ Len(u) \in Nat
                  /\ Len(s \o u) = Len(s) + Len(u)
                  /\ \A j \in 1 .. Len(s) : (s \o u)[j] = s[j]
                  /\ \A k \in 1 .. Len(u) : (s \o u)[Len(s) + k] = u[k]
                BY <4>7, AppendPiece
            <4>9. /\ t \o v \in Seq(Q) /\ Len(t \o v) = Len(t) + Len(v)
                  /\ \A j \in 1 .. Len(t) : (t \o v)[j] = t[j]
                  /\ \A k \in 1 .. Len(v) : (t \o v)[Len(t) + k] = v[k]
                BY <4>7, AppendPiece
            <4>4. /\ s \o u \in Seq(S) /\ t \o v \in Seq(Q) /\ Len(s) \in Nat /\ Len(u) \in Nat
                  /\ Len(s \o u) = Len(s) + Len(u) /\ Len(t \o v) = Len(s) + Len(u)
                  /\ \A j \in 1 .. Len(s) : (s \o u)[j] = s[j] /\ (t \o v)[j] = t[j]
                  /\ \A k \in 1 .. Len(u) : /\ (s \o u)[Len(s) + k] = u[k]
                                              /\ (t \o v)[Len(s) + k] = v[k]
                BY <4>3, <4>8, <4>9
            <4>5. ASSUME NEW j \in 1 .. Len(s \o u) PROVE (t \o v)[j] = h[(s \o u)[j]]
                <5>1. CASE j \in 1 .. Len(s)
                    BY <4>3, <4>4, <5>1
                <5>2. CASE j \notin 1 .. Len(s)
                    <6>1. PICK k \in 1 .. Len(u) : j = Len(s) + k
                        <7>1. j - Len(s) \in 1 .. Len(u) /\ j = Len(s) + (j - Len(s))
                            BY <4>4, <5>2
                        <7> QED
                            BY <7>1
                    <6> QED
                        BY <4>3, <4>4, <6>1
                <5> QED
                    BY <5>1, <5>2
            <4>6. f[n + 1] = s \o u /\ g[n + 1] = t \o v
                BY <4>2 DEF s, u, t, v
            <4> QED
                BY <4>4, <4>5, <4>6
        <3> QED
            BY <3>1, <3>2
    <2> HIDE DEF T
    <2>7. Nat \subseteq T
        BY <2>5, <2>6, SetInduction
    <2> QED
        BY <2>1, <2>2, <2>3, <2>7 DEF T
<1> QED
    BY <1>1, <1>2

\* A part of a sequence, place by place.
LEMMA Cut ==
    ASSUME NEW S, NEW s \in Seq(S), NEW m \in Nat, NEW n \in Nat, 1 <= m, n <= Len(s), m <= n + 1
    PROVE  /\ SubSeq(s, m, n) \in Seq(S) /\ Len(SubSeq(s, m, n)) = n - m + 1
           /\ \A i \in 1 .. n - m + 1 : SubSeq(s, m, n)[i] = s[m + i - 1]
<1>1. \A i \in m .. n : s[i] \in S
    OBVIOUS
<1> QED
    BY <1>1, SubSeqProperties

\* The k-th of flat is from a piece before the i-th.
Earlier(flat, ss, i, k) ==
    \E h \in 1 .. Len(ss) : h < i /\ \E m \in 1 .. Len(ss[h]) : flat[k] = ss[h][m]

\* In a flattened sequence, what comes before the first element of a piece is of an
\* earlier piece.
LEMMA BeforePiece ==
    ASSUME NEW S, NEW ss \in Seq(Seq(S)), NEW i \in 1 .. Len(ss), 1 \in 1 .. Len(ss[i])
    PROVE  \E j \in 1 .. Len(FlattenSeq(ss)) :
              /\ FlattenSeq(ss)[j] = ss[i][1]
              /\ \A k \in 1 .. j - 1 : Earlier(FlattenSeq(ss), ss, i, k)
<1>1. FlattenSeq(ss) \in Seq(S) /\ Len(ss) \in Nat /\ \A h \in 1 .. Len(ss) : Len(ss[h]) \in Nat
    BY FlattenLaid
<1> DEFINE flat == FlattenSeq(ss) n == Len(ss)
<1>2. PICK ends : Laid(ss, n, flat, ends)
    BY FlattenLaid
<1>7. n \in Nat /\ i \in 1 .. n /\ 1 \in 1 .. Len(ss[i])
      /\ \A h \in 1 .. n : Len(ss[h]) \in Nat
    BY <1>1
<1> HIDE DEF flat, n
<1>8. \A h \in 1 .. n : h \in 0 .. n /\ h - 1 \in 0 .. n
    BY <1>7
<1>9. ends \in [0 .. n -> Nat]
    BY <1>2 DEF Laid
<1>10. \A h \in 0 .. n : ends[h] \in Nat
    BY <1>9
<1>3. /\ Len(flat) = ends[n]
      /\ \A h, g \in 0 .. n : h <= g => ends[h] <= ends[g]
      /\ \A h \in 1 .. n : ends[h] = ends[h - 1] + Len(ss[h])
      /\ \A h \in 1 .. n : \A k \in 1 .. Len(ss[h]) : flat[ends[h - 1] + k] = ss[h][k]
      /\ \A j \in 1 .. Len(flat) : \E h \in 1 .. n : ends[h - 1] < j /\ j <= ends[h]
    BY <1>2 DEF Laid
<1> DEFINE j == ends[i - 1] + 1
<1>4. /\ i \in 0 .. n /\ i - 1 \in 0 .. n /\ n \in 0 .. n
      /\ ends[i - 1] \in Nat /\ ends[i] \in Nat /\ ends[n] \in Nat
    BY <1>7, <1>8, <1>10
<1>5. j \in 1 .. Len(flat) /\ flat[j] = ss[i][1]
    <2>1. flat[j] = ss[i][1] /\ ends[i] = ends[i - 1] + Len(ss[i]) /\ ends[i] <= ends[n]
        <3>1. i <= n
            BY <1>7
        <3> QED
            BY <1>3, <1>4, <1>7, <3>1
    <2>2. Len(flat) = ends[n] /\ Len(ss[i]) \in Nat /\ 1 <= Len(ss[i])
        BY <1>3, <1>7
    <2> QED
        BY <1>4, <2>1, <2>2
<1>6. ASSUME NEW k \in 1 .. j - 1
      PROVE  \E h \in 1 .. n : h < i /\ \E m \in 1 .. Len(ss[h]) : flat[k] = ss[h][m]
    <2>1. k \in 1 .. Len(flat) /\ k <= ends[i - 1]
        <3>1. k \in Nat /\ 1 <= k /\ k <= ends[i - 1]
            BY <1>4
        <3>2. Len(flat) \in Nat
            BY <1>3, <1>4
        <3>3. ends[i - 1] + 1 <= Len(flat)
            BY <1>4, <1>5, <3>2
        <3> QED
            BY <1>4, <3>1, <3>2, <3>3
    <2>2. PICK h \in 1 .. n : ends[h - 1] < k /\ k <= ends[h]
        BY <1>3, <2>1
    <2>3. h \in 0 .. n /\ h - 1 \in 0 .. n /\ ends[h - 1] \in Nat /\ ends[h] \in Nat
        BY <1>8, <1>10
    <2>4. h < i
        <3> SUFFICES ASSUME i <= h PROVE FALSE
            BY <1>7
        <3>1. i - 1 <= h - 1
            BY <1>7
        <3>2. ends[i - 1] <= ends[h - 1]
            BY <1>3, <1>4, <2>3, <3>1
        <3> QED
            BY <1>4, <2>1, <2>2, <2>3, <3>2
    <2>5. k - ends[h - 1] \in 1 .. Len(ss[h]) /\ k = ends[h - 1] + (k - ends[h - 1])
        <3>1. ends[h] = ends[h - 1] + Len(ss[h])
            BY <1>3
        <3>2. Len(ss[h]) \in Nat
            BY <1>7
        <3> QED
            BY <2>2, <2>3, <3>1, <3>2
    <2>6. flat[k] = ss[h][k - ends[h - 1]]
        BY <1>3, <2>5
    <2> QED
        BY <2>4, <2>5, <2>6
<1> HIDE DEF j
<1> QED
    BY <1>5, <1>6 DEF flat, n, Earlier
=============================================================================

---------------------------- MODULE SequenceLemmas ----------------------------
(***************************************************************************)
(* Sequences of sequences: FlattenSeq is defined by recursion, and what it *)
(* gives is found by induction over the length.  The first and the last of *)
(* a set of positions.                                                     *)
(***************************************************************************)
EXTENDS SequencesExt, SequenceTheorems, WellFoundedInduction, TLAPS

\* Induction on a set of natural numbers.
LEMMA Induction ==
  ASSUME NEW T \in SUBSET Nat, 0 \in T, \A n \in T : n + 1 \in T
  PROVE  \A n \in Nat : n \in T
<1>. DEFINE Out == Nat \ T
<1>. SUFFICES ASSUME Out # {} PROVE FALSE
  OBVIOUS
<1>1. PICK n \in Out : \A k \in Out : <<k, n>> \notin OpToRel(<, Nat)
  BY NatLessThanWellFounded, WFMin
<1>2. ASSUME NEW k \in Out PROVE ~(k < n)
  <2>1. <<k, n>> \in Nat \X Nat /\ <<k, n>> \notin OpToRel(<, Nat)
    BY <1>1
  <2>2. ~(<<k, n>>[1] < <<k, n>>[2])
    BY <2>1 DEF OpToRel
  <2>. QED BY <2>2
<1>3. n # 0 /\ n \in Nat
  OBVIOUS
<1>4. n - 1 \in Nat /\ n - 1 < n
  BY <1>3
<1>5. n - 1 \in T
  BY <1>2, <1>4
<1>6. (n - 1) + 1 = n
  BY <1>3
<1>. QED BY <1>5, <1>6

\* What FlattenSeq computes, one sequence after the other.
Flattens(f, s) ==
  f = [i \in 1 .. Len(s) |-> IF i = 1 THEN s[i] ELSE f[i - 1] \o s[i]]

\* A sequence begins another one.
Begins(s, t) ==
  /\ Len(s) \in Nat /\ Len(t) \in Nat /\ Len(s) <= Len(t)
  /\ \A i \in 1 .. Len(s) : s[i] = t[i]

\* Two that begin alike compute alike.
LEMMA FlattensUnique ==
  ASSUME NEW s, NEW t, Begins(s, t),
         NEW f, Flattens(f, s), NEW g, Flattens(g, t)
  PROVE  \A i \in 1 .. Len(s) : f[i] = g[i]
<1>. USE DEF Begins
<1>. DEFINE T == {n \in Nat : n \in 1 .. Len(s) => f[n] = g[n]}
<1>1. 0 \in T
  OBVIOUS
<1>2. ASSUME NEW n \in T PROVE n + 1 \in T
  <2>. SUFFICES ASSUME n + 1 \in 1 .. Len(s) PROVE f[n + 1] = g[n + 1]
    OBVIOUS
  <2>0. n + 1 \in 1 .. Len(t) /\ n \in Nat /\ (n + 1) - 1 = n
    OBVIOUS
  <2>1. f[n + 1] = IF n + 1 = 1 THEN s[n + 1] ELSE f[(n + 1) - 1] \o s[n + 1]
    BY DEF Flattens
  <2>2. g[n + 1] = IF n + 1 = 1 THEN t[n + 1] ELSE g[(n + 1) - 1] \o t[n + 1]
    BY <2>0 DEF Flattens
  <2>3. CASE n = 0
    BY <2>1, <2>2, <2>3
  <2>4. CASE n # 0
    <3>1. n \in 1 .. Len(s)
      BY <2>0, <2>4
    <3>. QED BY <2>0, <2>1, <2>2, <3>1
  <2>. QED BY <2>3, <2>4
<1>. HIDE DEF T
<1>3. T \in SUBSET Nat
  BY DEF T
<1>4. \A n \in Nat : n \in T
  BY <1>1, <1>2, <1>3, Induction
<1>. QED BY <1>4 DEF T

\* There is always one.
LEMMA FlattensExists ==
  ASSUME NEW X, NEW s \in Seq(Seq(X))
  PROVE  \E f \in [1 .. Len(s) -> Seq(X)] : Flattens(f, s)
<1>. DEFINE T == {n \in Nat : n <= Len(s) =>
                    \E f \in [1 .. n -> Seq(X)] : Flattens(f, SubSeq(s, 1, n))}
<1>1. 0 \in T
  <2>1. SubSeq(s, 1, 0) = <<>> /\ Len(<<>>) = 0
    OBVIOUS
  <2>2. [i \in 1 .. 0 |-> <<>>] \in [1 .. 0 -> Seq(X)]
    OBVIOUS
  <2>3. Flattens([i \in 1 .. 0 |-> <<>>], SubSeq(s, 1, 0))
    BY <2>1 DEF Flattens
  <2>. QED BY <2>2, <2>3
<1>2. ASSUME NEW n \in T PROVE n + 1 \in T
  <2>. SUFFICES ASSUME n + 1 <= Len(s)
                PROVE  \E g \in [1 .. n + 1 -> Seq(X)] : Flattens(g, SubSeq(s, 1, n + 1))
    OBVIOUS
  <2>0. n \in Nat /\ n <= Len(s) /\ Len(s) \in Nat
    OBVIOUS
  <2>1. PICK f \in [1 .. n -> Seq(X)] : Flattens(f, SubSeq(s, 1, n))
    BY <2>0
  <2>2. /\ Len(SubSeq(s, 1, n)) = n /\ Len(SubSeq(s, 1, n + 1)) = n + 1
        /\ \A i \in 1 .. n : SubSeq(s, 1, n)[i] = s[i]
        /\ \A i \in 1 .. n + 1 : SubSeq(s, 1, n + 1)[i] = s[i]
        /\ \A i \in 1 .. n + 1 : s[i] \in Seq(X)
    BY <2>0
  <2>. DEFINE a == IF n = 0 THEN s[1] ELSE f[n] \o s[n + 1]
              g == [i \in 1 .. n + 1 |-> IF i <= n THEN f[i] ELSE a]
  <2>3. a \in Seq(X)
    <3>1. CASE n = 0
      BY <2>2, <3>1
    <3>2. CASE n # 0
      <4>1. f[n] \in Seq(X)
        BY <2>0, <3>2
      <4>. QED BY <2>0, <2>2, <3>2, <4>1
    <3>. QED BY <3>1, <3>2
  <2>. HIDE DEF a
  <2>4. g \in [1 .. n + 1 -> Seq(X)]
    BY <2>0, <2>3
  <2>5. \A i \in 1 .. n : f[i] = IF i = 1 THEN s[i] ELSE f[i - 1] \o s[i]
    BY <2>1, <2>2 DEF Flattens
  <2>6. ASSUME NEW i \in 1 .. n + 1
        PROVE  g[i] = IF i = 1 THEN s[i] ELSE g[i - 1] \o s[i]
    <3>1. CASE i <= n
      <4>1. i \in 1 .. n /\ (i # 1 => i - 1 \in 1 .. n)
        BY <2>0, <3>1
      <4>2. g[i] = f[i] /\ (i # 1 => g[i - 1] = f[i - 1])
        BY <2>0, <4>1
      <4>. QED BY <2>5, <4>1, <4>2
    <3>2. CASE i = n + 1
      <4>1. g[i] = a
        BY <2>0, <3>2
      <4>2. CASE n = 0
        BY <3>2, <4>1, <4>2 DEF a
      <4>3. CASE n # 0
        <5>1. i # 1 /\ i - 1 = n /\ n \in 1 .. n + 1 /\ n <= n
          BY <2>0, <3>2, <4>3
        <5>2. g[i - 1] = f[n]
          BY <5>1
        <5>. QED BY <3>2, <4>1, <4>3, <5>1, <5>2 DEF a
      <4>. QED BY <4>2, <4>3
    <3>. QED BY <2>0, <3>1, <3>2
  <2>. HIDE DEF g
  <2>7. Flattens(g, SubSeq(s, 1, n + 1))
    <3>. DEFINE u == SubSeq(s, 1, n + 1)
    <3>1. Len(u) = n + 1 /\ \A i \in 1 .. n + 1 : u[i] = s[i]
      BY <2>2
    <3>. HIDE DEF u
    <3>2. \A i \in 1 .. n + 1 : g[i] = IF i = 1 THEN u[i] ELSE g[i - 1] \o u[i]
      BY <2>6, <3>1
    <3>3. g = [i \in 1 .. Len(u) |-> IF i = 1 THEN u[i] ELSE g[i - 1] \o u[i]]
      BY <2>4, <3>1, <3>2
    <3>4. Flattens(g, u)
      BY <3>3 DEF Flattens
    <3>. QED BY <3>4 DEF u
  <2>. QED BY <2>4, <2>7
<1>. HIDE DEF T
<1>3. T \in SUBSET Nat
  BY DEF T
<1>4. \A n \in Nat : n \in T
  BY <1>1, <1>2, <1>3, Induction
<1>5. SubSeq(s, 1, Len(s)) = s /\ Len(s) \in Nat /\ Len(s) <= Len(s)
  OBVIOUS
<1>. QED BY <1>4, <1>5 DEF T

\* FlattenSeq is the last of what Flattens describes.
LEMMA FlattenIs ==
  ASSUME NEW X, NEW s \in Seq(Seq(X)), s # <<>>, NEW f, Flattens(f, s)
  PROVE  FlattenSeq(s) = f[Len(s)]
<1>. DEFINE g == CHOOSE h : Flattens(h, s)
<1>1. Flattens(g, s)
  OBVIOUS
<1>2. Len(s) \in Nat /\ Len(s) # 0 /\ Len(s) \in 1 .. Len(s)
  OBVIOUS
<1>. HIDE DEF g
<1>3. \A i \in 1 .. Len(s) : f[i] = g[i]
  <2>1. Begins(s, s)
    BY <1>2 DEF Begins
  <2>. QED BY <1>1, <2>1, FlattensUnique
<1>4. FlattenSeq(s) = g[Len(s)]
  BY <1>2 DEF FlattenSeq, g, Flattens
<1>. QED BY <1>2, <1>3, <1>4

\* Of no sequences,
LEMMA FlattenEmpty == FlattenSeq(<<>>) = <<>>
  BY DEF FlattenSeq

\* of sequences of the same elements,
LEMMA FlattenType ==
  ASSUME NEW X, NEW s \in Seq(Seq(X))
  PROVE  FlattenSeq(s) \in Seq(X)
<1>1. CASE s = <<>>
  <2>1. FlattenSeq(s) = <<>>
    BY <1>1, FlattenEmpty
  <2>2. <<>> \in Seq(X)
    OBVIOUS
  <2>. QED BY <2>1, <2>2
<1>2. CASE s # <<>>
  <2>1. PICK f \in [1 .. Len(s) -> Seq(X)] : Flattens(f, s)
    BY FlattensExists
  <2>2. Len(s) \in 1 .. Len(s)
    BY <1>2
  <2>3. f[Len(s)] \in Seq(X)
    BY <2>2
  <2>4. FlattenSeq(s) = f[Len(s)]
    BY <1>2, <2>1, FlattenIs
  <2>. QED BY <2>3, <2>4
<1>. QED BY <1>1, <1>2

\* and of one sequence more.
LEMMA FlattenAppend ==
  ASSUME NEW X, NEW s \in Seq(Seq(X)), NEW x \in Seq(X)
  PROVE  FlattenSeq(Append(s, x)) = FlattenSeq(s) \o x
<1>. DEFINE t == Append(s, x)
<1>0. /\ t \in Seq(Seq(X)) /\ Len(t) = Len(s) + 1 /\ Len(s) \in Nat
      /\ \A i \in 1 .. Len(s) : t[i] = s[i]
      /\ t[Len(s) + 1] = x /\ t # <<>>
  OBVIOUS
<1>. HIDE DEF t
<1>1. PICK f \in [1 .. Len(t) -> Seq(X)] : Flattens(f, t)
  BY <1>0, FlattensExists
<1>2. FlattenSeq(t) = f[Len(t)]
  BY <1>0, <1>1, FlattenIs
<1>3. Len(t) \in 1 .. Len(t)
  BY <1>0
<1>4. f[Len(t)] = IF Len(t) = 1 THEN t[Len(t)] ELSE f[Len(t) - 1] \o t[Len(t)]
  BY <1>1, <1>3 DEF Flattens
<1>5. CASE s = <<>>
  <2>1. <<>> \o x = x
    OBVIOUS
  <2>. QED BY <1>0, <1>2, <1>4, <1>5, <2>1, FlattenEmpty DEF t
<1>6. CASE s # <<>>
  <2>1. PICK g \in [1 .. Len(s) -> Seq(X)] : Flattens(g, s)
    BY FlattensExists
  <2>2. FlattenSeq(s) = g[Len(s)]
    BY <1>6, <2>1, FlattenIs
  <2>3. Len(s) \in 1 .. Len(s) /\ Len(s) <= Len(t) /\ Len(t) \in Nat
    BY <1>0, <1>6
  <2>4. \A i \in 1 .. Len(s) : s[i] = t[i]
    BY <1>0
  <2>5. \A i \in 1 .. Len(s) : g[i] = f[i]
    <3>1. Begins(s, t)
      BY <1>0, <2>3, <2>4 DEF Begins
    <3>. QED BY <1>1, <2>1, <3>1, FlattensUnique
  <2>6. g[Len(s)] = f[Len(s)]
    BY <2>3, <2>5
  <2>7. Len(t) # 1 /\ Len(t) - 1 = Len(s) /\ t[Len(t)] = x
    BY <1>0, <2>3
  <2>8. FlattenSeq(t) = FlattenSeq(s) \o x
    BY <1>2, <1>4, <2>2, <2>6, <2>7
  <2>. QED BY <2>8 DEF t
<1>. QED BY <1>5, <1>6

\* The first elements of a sequence, one more at a time.
LEMMA FirstPart ==
  ASSUME NEW X, NEW s \in Seq(X), NEW n \in Nat, n + 1 <= Len(s)
  PROVE  /\ SubSeq(s, 1, n + 1) = Append(SubSeq(s, 1, n), s[n + 1])
         /\ SubSeq(s, 1, n) \in Seq(X) /\ s[n + 1] \in X
         /\ Len(SubSeq(s, 1, n)) = n /\ DOMAIN SubSeq(s, 1, n) = 1 .. n
         /\ \A j \in 1 .. n : SubSeq(s, 1, n)[j] = s[j]
<1>1. /\ SubSeq(s, 1, n) \in Seq(X) /\ s[n + 1] \in X
      /\ Len(SubSeq(s, 1, n)) = n /\ DOMAIN SubSeq(s, 1, n) = 1 .. n
      /\ \A j \in 1 .. n : SubSeq(s, 1, n)[j] = s[j]
  OBVIOUS
<1>2. /\ Len(SubSeq(s, 1, n + 1)) = n + 1
      /\ Len(Append(SubSeq(s, 1, n), s[n + 1])) = n + 1
      /\ \A i \in 1 .. n + 1 : SubSeq(s, 1, n + 1)[i] = Append(SubSeq(s, 1, n), s[n + 1])[i]
  OBVIOUS
<1>3. /\ SubSeq(s, 1, n + 1) \in Seq(X)
      /\ Append(SubSeq(s, 1, n), s[n + 1]) \in Seq(X)
  OBVIOUS
<1>. QED BY <1>1, <1>2, <1>3, SeqEqual

\* The elements of two sequences after each other.
LEMMA ToSetConcat ==
  ASSUME NEW X, NEW a \in Seq(X), NEW b \in Seq(X)
  PROVE  ToSet(a \o b) = ToSet(a) \cup ToSet(b)
<1>1. ASSUME NEW i \in DOMAIN (a \o b) PROVE (a \o b)[i] \in ToSet(a) \cup ToSet(b)
  <2>1. CASE i <= Len(a)
    BY <2>1 DEF ToSet
  <2>2. CASE i > Len(a)
    <3>1. i - Len(a) \in DOMAIN b /\ (a \o b)[i] = b[i - Len(a)]
      BY <2>2
    <3>. QED BY <3>1 DEF ToSet
  <2>. QED BY <2>1, <2>2
<1>2. ASSUME NEW i \in DOMAIN a PROVE a[i] \in ToSet(a \o b)
  BY DEF ToSet
<1>3. ASSUME NEW i \in DOMAIN b PROVE b[i] \in ToSet(a \o b)
  <2>1. Len(a) + i \in DOMAIN (a \o b) /\ (a \o b)[Len(a) + i] = b[i]
    OBVIOUS
  <2>. QED BY <2>1 DEF ToSet
<1>. QED BY <1>1, <1>2, <1>3 DEF ToSet

\* Its elements are those of the sequences.
LEMMA FlattenElements ==
  ASSUME NEW X, NEW s \in Seq(Seq(X))
  PROVE  ToSet(FlattenSeq(s)) = UNION {ToSet(s[i]) : i \in DOMAIN s}
<1>. DEFINE T == {n \in Nat : n <= Len(s) =>
                    ToSet(FlattenSeq(SubSeq(s, 1, n))) = UNION {ToSet(s[i]) : i \in 1 .. n}}
<1>1. 0 \in T
  <2>1. SubSeq(s, 1, 0) = <<>> /\ ToSet(<<>>) = {} /\ UNION {ToSet(s[i]) : i \in 1 .. 0} = {}
    BY DEF ToSet
  <2>. QED BY <2>1, FlattenEmpty
<1>2. ASSUME NEW n \in T PROVE n + 1 \in T
  <2>. SUFFICES ASSUME n + 1 <= Len(s)
                PROVE  ToSet(FlattenSeq(SubSeq(s, 1, n + 1)))
                         = UNION {ToSet(s[i]) : i \in 1 .. n + 1}
    OBVIOUS
  <2>0. n \in Nat /\ n <= Len(s) /\ Len(s) \in Nat
    OBVIOUS
  <2>1. /\ SubSeq(s, 1, n + 1) = Append(SubSeq(s, 1, n), s[n + 1])
        /\ SubSeq(s, 1, n) \in Seq(Seq(X)) /\ s[n + 1] \in Seq(X)
    BY <2>0, FirstPart
  <2>2. FlattenSeq(SubSeq(s, 1, n + 1)) = FlattenSeq(SubSeq(s, 1, n)) \o s[n + 1]
    BY <2>1, FlattenAppend
  <2>3. FlattenSeq(SubSeq(s, 1, n)) \in Seq(X)
    BY <2>1, FlattenType
  <2>4. \A a, b \in Seq(X) : ToSet(a \o b) = ToSet(a) \cup ToSet(b)
    BY ToSetConcat
  <2>5. ToSet(FlattenSeq(SubSeq(s, 1, n))) = UNION {ToSet(s[i]) : i \in 1 .. n}
    BY <2>0
  <2>6. 1 .. n + 1 = (1 .. n) \cup {n + 1}
    BY <2>0
  <2>7. UNION {ToSet(s[i]) : i \in 1 .. n + 1}
          = (UNION {ToSet(s[i]) : i \in 1 .. n}) \cup ToSet(s[n + 1])
    BY <2>6
  <2>. QED BY <2>1, <2>2, <2>3, <2>4, <2>5, <2>7
<1>. HIDE DEF T
<1>3. T \in SUBSET Nat
  BY DEF T
<1>4. \A n \in Nat : n \in T
  BY <1>1, <1>2, <1>3, Induction
<1>5. /\ SubSeq(s, 1, Len(s)) = s /\ DOMAIN s = 1 .. Len(s)
      /\ Len(s) \in Nat /\ Len(s) <= Len(s)
  OBVIOUS
<1>. QED BY <1>4, <1>5 DEF T

\* An element comes after all the elements of the sequences before its own.
LEMMA FlattenOrder ==
  ASSUME NEW X, NEW s \in Seq(Seq(X)), NEW t \in 1 .. Len(FlattenSeq(s))
  PROVE  \E i \in 1 .. Len(s) :
            /\ FlattenSeq(s)[t] \in ToSet(s[i])
            /\ \A j \in 1 .. i - 1 : \A x \in ToSet(s[j]) :
                  \E u \in 1 .. t - 1 : FlattenSeq(s)[u] = x
<1>. DEFINE F(n) == FlattenSeq(SubSeq(s, 1, n))
            Follows(n, k) == \E i \in 1 .. n :
               /\ F(n)[k] \in ToSet(s[i])
               /\ \A j \in 1 .. i - 1 : \A x \in ToSet(s[j]) : \E u \in 1 .. k - 1 : F(n)[u] = x
            T == {n \in Nat : n <= Len(s) => \A k \in 1 .. Len(F(n)) : Follows(n, k)}
<1>1. 0 \in T
  <2>1. SubSeq(s, 1, 0) = <<>>
    OBVIOUS
  <2>2. F(0) = <<>>
    BY <2>1, FlattenEmpty
  <2>. QED BY <2>2
<1>2. ASSUME NEW n \in T PROVE n + 1 \in T
  <2>. SUFFICES ASSUME n + 1 <= Len(s), NEW k \in 1 .. Len(F(n + 1))
                PROVE  Follows(n + 1, k)
    OBVIOUS
  <2>0. n \in Nat /\ n <= Len(s) /\ Len(s) \in Nat
    OBVIOUS
  <2>1. /\ SubSeq(s, 1, n + 1) = Append(SubSeq(s, 1, n), s[n + 1])
        /\ SubSeq(s, 1, n) \in Seq(Seq(X)) /\ s[n + 1] \in Seq(X)
        /\ DOMAIN SubSeq(s, 1, n) = 1 .. n
        /\ \A j \in 1 .. n : SubSeq(s, 1, n)[j] = s[j]
    BY <2>0, FirstPart
  <2>2. F(n + 1) = F(n) \o s[n + 1]
    BY <2>1, FlattenAppend
  <2>3. F(n) \in Seq(X)
    BY <2>1, FlattenType
  <2>4. \A i \in 1 .. Len(F(n)) : F(n + 1)[i] = F(n)[i]
    <3>. HIDE DEF F
    <3>. QED BY <2>1, <2>2, <2>3
  <2>5. CASE k <= Len(F(n))
    <3>1. k \in 1 .. Len(F(n)) /\ Len(F(n)) \in Nat
      BY <2>3, <2>5
    <3>2. PICK i \in 1 .. n :
             /\ F(n)[k] \in ToSet(s[i])
             /\ \A j \in 1 .. i - 1 : \A x \in ToSet(s[j]) : \E u \in 1 .. k - 1 : F(n)[u] = x
      BY <2>0, <3>1
    <3>3. ASSUME NEW j \in 1 .. i - 1, NEW x \in ToSet(s[j])
          PROVE  \E u \in 1 .. k - 1 : F(n + 1)[u] = x
      <4>1. PICK u \in 1 .. k - 1 : F(n)[u] = x
        BY <3>2
      <4>. HIDE DEF F
      <4>2. u \in 1 .. Len(F(n))
        BY <3>1
      <4>. QED BY <4>1, <4>2, <2>4
    <3>4. i \in 1 .. n + 1 /\ F(n + 1)[k] = F(n)[k]
      BY <2>0, <2>4, <3>1
    <3>. HIDE DEF F
    <3>. QED BY <3>2, <3>3, <3>4
  <2>6. CASE k > Len(F(n))
    <3>. HIDE DEF F
    <3>1. Len(F(n)) \in Nat /\ k - Len(F(n)) \in 1 .. Len(s[n + 1])
          /\ F(n + 1)[k] = s[n + 1][k - Len(F(n))]
      <4>1. ASSUME NEW a \in Seq(X), NEW b \in Seq(X), k \in 1 .. Len(a \o b), k > Len(a)
            PROVE  /\ Len(a) \in Nat /\ k - Len(a) \in 1 .. Len(b)
                   /\ (a \o b)[k] = b[k - Len(a)]
        BY <4>1
      <4>. QED BY <4>1, <2>1, <2>2, <2>3, <2>6
    <3>2. F(n + 1)[k] \in ToSet(s[n + 1])
      BY <2>1, <3>1 DEF ToSet
    <3>3. ASSUME NEW j \in 1 .. (n + 1) - 1, NEW x \in ToSet(s[j])
          PROVE  \E u \in 1 .. k - 1 : F(n + 1)[u] = x
      <4>1. j \in 1 .. n /\ SubSeq(s, 1, n)[j] = s[j] /\ j \in DOMAIN SubSeq(s, 1, n)
        BY <2>0, <2>1
      <4>2. x \in ToSet(F(n))
        BY <4>1, <2>1, FlattenElements DEF F
      <4>3. PICK u \in 1 .. Len(F(n)) : F(n)[u] = x
        BY <4>2, <2>3 DEF ToSet
      <4>4. u \in 1 .. k - 1
        BY <3>1, <2>6
      <4>. QED BY <4>3, <4>4, <2>4
    <3>4. n + 1 \in 1 .. n + 1
      BY <2>0
    <3>. QED BY <3>2, <3>3, <3>4
  <2>. HIDE DEF F
  <2>. QED BY <2>3, <2>5, <2>6
<1>3. T \in SUBSET Nat
  OBVIOUS
<1>4. Len(s) \in T
  <2>. HIDE DEF T
  <2>1. Len(s) \in Nat
    OBVIOUS
  <2>. QED BY <1>1, <1>2, <1>3, <2>1, Induction
<1>5. SubSeq(s, 1, Len(s)) = s /\ Len(s) <= Len(s) /\ Len(s) \in Nat
  OBVIOUS
<1>. QED BY <1>4, <1>5

\* Each element comes from one of the sequences, and they come one after the other.
LEMMA FlattenPlaces ==
  ASSUME NEW X, NEW s \in Seq(Seq(X))
  PROVE  \E f \in [1 .. Len(FlattenSeq(s)) -> 1 .. Len(s)] :
            /\ \A t \in 1 .. Len(FlattenSeq(s)) : FlattenSeq(s)[t] \in ToSet(s[f[t]])
            /\ \A t, u \in 1 .. Len(FlattenSeq(s)) : t <= u => f[t] <= f[u]
<1>. DEFINE F(n) == FlattenSeq(SubSeq(s, 1, n))
            Places(n) == \E f \in [1 .. Len(F(n)) -> 1 .. n] :
               /\ \A t \in 1 .. Len(F(n)) : F(n)[t] \in ToSet(s[f[t]])
               /\ \A t, u \in 1 .. Len(F(n)) : t <= u => f[t] <= f[u]
            T == {n \in Nat : n <= Len(s) => Places(n)}
<1>1. 0 \in T
  <2>1. SubSeq(s, 1, 0) = <<>>
    OBVIOUS
  <2>2. F(0) = <<>>
    BY <2>1, FlattenEmpty
  <2>3. [t \in 1 .. 0 |-> t] \in [1 .. 0 -> 1 .. 0] /\ Len(<<>>) = 0
    OBVIOUS
  <2>4. 1 .. Len(F(0)) = {}
    BY <2>2
  <2>5. [t \in 1 .. 0 |-> t] \in [1 .. Len(F(0)) -> 1 .. 0]
    BY <2>2, <2>3
  <2>6. Places(0)
    BY <2>4, <2>5
  <2>. HIDE DEF Places
  <2>. QED BY <2>6
<1>2. ASSUME NEW n \in T PROVE n + 1 \in T
  <2>. HIDE DEF Places
  <2>. SUFFICES ASSUME n + 1 <= Len(s) PROVE Places(n + 1)
    OBVIOUS
  <2>0. n \in Nat /\ n <= Len(s) /\ Len(s) \in Nat
    OBVIOUS
  <2>1. /\ SubSeq(s, 1, n + 1) = Append(SubSeq(s, 1, n), s[n + 1])
        /\ SubSeq(s, 1, n) \in Seq(Seq(X)) /\ s[n + 1] \in Seq(X)
    BY <2>0, FirstPart
  <2>2. F(n + 1) = F(n) \o s[n + 1]
    BY <2>1, FlattenAppend
  <2>3. F(n) \in Seq(X)
    BY <2>1, FlattenType
  <2>4. Places(n)
    BY <2>0
  <2>. USE DEF Places
  <2>5. PICK f \in [1 .. Len(F(n)) -> 1 .. n] :
          /\ \A t \in 1 .. Len(F(n)) : F(n)[t] \in ToSet(s[f[t]])
          /\ \A t, u \in 1 .. Len(F(n)) : t <= u => f[t] <= f[u]
    BY <2>4
  <2>. DEFINE a == F(n)
              b == s[n + 1]
              c == F(n + 1)
  <2>6. /\ c = a \o b /\ a \in Seq(X) /\ b \in Seq(X)
        /\ f \in [1 .. Len(a) -> 1 .. n]
        /\ \A t \in 1 .. Len(a) : a[t] \in ToSet(s[f[t]])
        /\ \A t, u \in 1 .. Len(a) : t <= u => f[t] <= f[u]
    BY <2>1, <2>2, <2>3, <2>5
  <2>. HIDE DEF a, b, c, F, T
  <2>7. /\ Len(c) = Len(a) + Len(b) /\ Len(a) \in Nat /\ Len(b) \in Nat
        /\ \A t \in 1 .. Len(a) + Len(b) : c[t] = IF t <= Len(a) THEN a[t] ELSE b[t - Len(a)]
    BY <2>6, ConcatProperties
  <2>. DEFINE g == [t \in 1 .. Len(c) |-> IF t <= Len(a) THEN f[t] ELSE n + 1]
  <2>8. \A t \in 1 .. Len(c) : g[t] = IF t <= Len(a) THEN f[t] ELSE n + 1
    OBVIOUS
  <2>9. g \in [1 .. Len(c) -> 1 .. n + 1]
    BY <2>0, <2>6, <2>7
  <2>. HIDE DEF g
  <2>10. ASSUME NEW t \in 1 .. Len(c) PROVE c[t] \in ToSet(s[g[t]])
    <3>1. CASE t <= Len(a)
      <4>1. t \in 1 .. Len(a)
        BY <3>1, <2>7
      <4>. QED BY <3>1, <4>1, <2>6, <2>7, <2>8
    <3>2. CASE t > Len(a)
      <4>1. t - Len(a) \in 1 .. Len(b) /\ c[t] = b[t - Len(a)]
        BY <3>2, <2>7
      <4>2. b[t - Len(a)] \in ToSet(b)
        BY <4>1, <2>6 DEF ToSet
      <4>3. g[t] = n + 1
        BY <3>2, <2>7, <2>8
      <4>. QED BY <4>1, <4>2, <4>3 DEF b
    <3>. QED BY <3>1, <3>2, <2>7
  <2>11. ASSUME NEW t \in 1 .. Len(c), NEW u \in 1 .. Len(c), t <= u PROVE g[t] <= g[u]
    <3>1. CASE u <= Len(a)
      BY <3>1, <2>6, <2>7, <2>8, <2>11
    <3>2. CASE u > Len(a)
      <4>1. g[u] = n + 1
        BY <3>2, <2>7, <2>8
      <4>2. g[t] \in 1 .. n + 1
        BY <2>9
      <4>. QED BY <4>1, <4>2, <2>0
    <3>. QED BY <3>1, <3>2, <2>7
  <2>12. \E h \in [1 .. Len(c) -> 1 .. n + 1] :
            /\ \A t \in 1 .. Len(c) : c[t] \in ToSet(s[h[t]])
            /\ \A t, u \in 1 .. Len(c) : t <= u => h[t] <= h[u]
    BY <2>9, <2>10, <2>11
  <2>. QED BY <2>12 DEF c
<1>. HIDE DEF T
<1>3. T \in SUBSET Nat
  BY DEF T
<1>4. \A n \in Nat : n \in T
  BY <1>1, <1>2, <1>3, Induction
<1>5. SubSeq(s, 1, Len(s)) = s /\ Len(s) <= Len(s) /\ Len(s) \in Nat
  OBVIOUS
<1>. QED BY <1>4, <1>5 DEF T

\* No element is in a sequence twice.
Distinct(s) == \A i, j \in DOMAIN s : s[i] = s[j] => i = j

LEMMA DistinctConcat ==
  ASSUME NEW X, NEW a \in Seq(X), NEW b \in Seq(X), Distinct(a), Distinct(b),
         ToSet(a) \cap ToSet(b) = {}
  PROVE  Distinct(a \o b)
<1>. DEFINE c == a \o b
            m == Len(a)
            n == Len(b)
<1>1. /\ m \in Nat /\ n \in Nat /\ DOMAIN a = 1 .. m /\ DOMAIN b = 1 .. n
      /\ DOMAIN c = 1 .. m + n
      /\ \A i \in 1 .. m : c[i] = a[i]
      /\ \A i \in m + 1 .. m + n : i - m \in 1 .. n /\ c[i] = b[i - m]
  OBVIOUS
<1>2. \A i \in 1 .. m, j \in 1 .. n : a[i] # b[j]
  BY <1>1 DEF ToSet
<1>3. (\A i, j \in 1 .. m : a[i] = a[j] => i = j) /\ (\A i, j \in 1 .. n : b[i] = b[j] => i = j)
  BY <1>1 DEF Distinct
<1>. HIDE DEF c, m, n
<1>. SUFFICES ASSUME NEW i \in 1 .. m + n, NEW j \in 1 .. m + n, c[i] = c[j] PROVE i = j
  BY <1>1 DEF Distinct, c
<1>4. CASE i <= m /\ j <= m
  BY <1>1, <1>3, <1>4
<1>5. CASE i > m /\ j > m
  <2>1. i \in m + 1 .. m + n /\ j \in m + 1 .. m + n
    BY <1>1, <1>5
  <2>2. i - m = j - m
    BY <1>1, <1>3, <2>1
  <2>. QED BY <1>1, <2>2
<1>6. CASE i <= m /\ j > m
  <2>1. i \in 1 .. m /\ j \in m + 1 .. m + n
    BY <1>1, <1>6
  <2>. QED BY <1>1, <1>2, <2>1
<1>7. CASE i > m /\ j <= m
  <2>1. j \in 1 .. m /\ i \in m + 1 .. m + n
    BY <1>1, <1>7
  <2>. QED BY <1>1, <1>2, <2>1
<1>. QED BY <1>1, <1>4, <1>5, <1>6, <1>7

\* Sequences of distinct elements, no two with one in common, have distinct ones together.
LEMMA FlattenDistinct ==
  ASSUME NEW X, NEW s \in Seq(Seq(X)), \A i \in 1 .. Len(s) : Distinct(s[i]),
         \A i, j \in 1 .. Len(s) : i < j => ToSet(s[i]) \cap ToSet(s[j]) = {}
  PROVE  Distinct(FlattenSeq(s))
<1>. DEFINE P(n) == SubSeq(s, 1, n)
            T == {n \in Nat : n <= Len(s) => Distinct(FlattenSeq(P(n)))}
<1>1. 0 \in T
  <2>1. P(0) = <<>> /\ DOMAIN <<>> = {}
    OBVIOUS
  <2>. QED BY <2>1, FlattenEmpty DEF Distinct
<1>2. ASSUME NEW n \in T PROVE n + 1 \in T
  <2>. SUFFICES ASSUME n + 1 <= Len(s) PROVE Distinct(FlattenSeq(P(n + 1)))
    OBVIOUS
  <2>0. n \in Nat /\ n <= Len(s) /\ Len(s) \in Nat /\ n + 1 \in 1 .. Len(s)
    OBVIOUS
  <2>1. /\ P(n + 1) = Append(P(n), s[n + 1])
        /\ P(n) \in Seq(Seq(X)) /\ s[n + 1] \in Seq(X)
        /\ DOMAIN P(n) = 1 .. n /\ \A j \in 1 .. n : P(n)[j] = s[j]
    BY <2>0, FirstPart
  <2>2. FlattenSeq(P(n + 1)) = FlattenSeq(P(n)) \o s[n + 1]
    BY <2>1, FlattenAppend
  <2>3. FlattenSeq(P(n)) \in Seq(X)
    BY <2>1, FlattenType
  <2>4. ToSet(FlattenSeq(P(n))) = UNION {ToSet(P(n)[j]) : j \in DOMAIN P(n)}
    BY <2>1, FlattenElements
  <2>5. ASSUME NEW j \in 1 .. n PROVE ToSet(s[j]) \cap ToSet(s[n + 1]) = {}
    <3>1. j \in 1 .. Len(s) /\ n + 1 \in 1 .. Len(s) /\ j < n + 1
      BY <2>0
    <3>. QED BY <3>1
  <2>6. ToSet(FlattenSeq(P(n))) \cap ToSet(s[n + 1]) = {}
    BY <2>1, <2>4, <2>5
  <2>7. Distinct(FlattenSeq(P(n))) /\ Distinct(s[n + 1])
    BY <2>0
  <2>. QED BY <2>1, <2>2, <2>3, <2>6, <2>7, DistinctConcat
<1>. HIDE DEF T
<1>3. T \in SUBSET Nat
  BY DEF T
<1>4. \A n \in Nat : n \in T
  BY <1>1, <1>2, <1>3, Induction
<1>5. P(Len(s)) = s /\ Len(s) \in Nat /\ Len(s) <= Len(s)
  OBVIOUS
<1>. QED BY <1>4, <1>5 DEF T

\* The elements of one sequence of sequences, then those of another.
LEMMA FlattenConcat ==
  ASSUME NEW X, NEW s \in Seq(Seq(X)), NEW t \in Seq(Seq(X))
  PROVE  FlattenSeq(s \o t) = FlattenSeq(s) \o FlattenSeq(t)
<1>. DEFINE P(n) == SubSeq(t, 1, n)
            T == {n \in Nat : n <= Len(t) =>
                    FlattenSeq(s \o P(n)) = FlattenSeq(s) \o FlattenSeq(P(n))}
<1>0. FlattenSeq(s) \in Seq(X)
  BY FlattenType
<1>1. 0 \in T
  <2>1. P(0) = <<>>
    OBVIOUS
  <2>2. s \o <<>> = s /\ FlattenSeq(s) \o <<>> = FlattenSeq(s)
    BY <1>0
  <2>. QED BY <2>1, <2>2, FlattenEmpty
<1>2. ASSUME NEW n \in T PROVE n + 1 \in T
  <2>. SUFFICES ASSUME n + 1 <= Len(t)
                PROVE  FlattenSeq(s \o P(n + 1)) = FlattenSeq(s) \o FlattenSeq(P(n + 1))
    OBVIOUS
  <2>0. n \in Nat /\ n <= Len(t)
    OBVIOUS
  <2>1. P(n + 1) = Append(P(n), t[n + 1]) /\ P(n) \in Seq(Seq(X)) /\ t[n + 1] \in Seq(X)
    BY <2>0, FirstPart
  <2>2. FlattenSeq(s \o P(n)) = FlattenSeq(s) \o FlattenSeq(P(n))
    BY <2>0
  <2>. DEFINE u == P(n)
              x == t[n + 1]
  <2>3. /\ u \in Seq(Seq(X)) /\ x \in Seq(X) /\ P(n + 1) = Append(u, x)
        /\ FlattenSeq(s \o u) = FlattenSeq(s) \o FlattenSeq(u)
    BY <2>1, <2>2
  <2>. HIDE DEF P, T, u, x
  <2>4. s \o Append(u, x) = Append(s \o u, x) /\ s \o u \in Seq(Seq(X))
    <3>1. \A i \in 1 .. Len(s) + Len(u) + 1 : (s \o Append(u, x))[i] = Append(s \o u, x)[i]
      BY <2>3
    <3>2. /\ s \o u \in Seq(Seq(X)) /\ Append(u, x) \in Seq(Seq(X))
          /\ Len(s \o Append(u, x)) = Len(s) + Len(u) + 1
          /\ Len(Append(s \o u, x)) = Len(s) + Len(u) + 1
      BY <2>3
    <3>3. s \o Append(u, x) \in Seq(Seq(X)) /\ Append(s \o u, x) \in Seq(Seq(X))
      BY <2>3, <3>2
    <3>. QED BY <3>1, <3>2, <3>3, SeqEqual
  <2>5. FlattenSeq(Append(s \o u, x)) = FlattenSeq(s \o u) \o x
    BY <2>3, <2>4, FlattenAppend
  <2>6. FlattenSeq(Append(u, x)) = FlattenSeq(u) \o x /\ FlattenSeq(u) \in Seq(X)
    BY <2>3, FlattenAppend, FlattenType
  <2>7. (FlattenSeq(s) \o FlattenSeq(u)) \o x = FlattenSeq(s) \o (FlattenSeq(u) \o x)
    <3>1. \A a, b, c \in Seq(X) : (a \o b) \o c = a \o (b \o c)
      BY ConcatAssociative
    <3>. QED BY <1>0, <2>3, <2>6, <3>1, Zenon
  <2>8. FlattenSeq(s \o P(n + 1)) = FlattenSeq(s) \o FlattenSeq(P(n + 1))
    BY <2>3, <2>4, <2>5, <2>6, <2>7
  <2>. QED BY <2>8 DEF P
<1>. HIDE DEF T
<1>3. T \in SUBSET Nat
  BY DEF T
<1>4. \A n \in Nat : n \in T
  BY <1>1, <1>2, <1>3, Induction
<1>5. SubSeq(t, 1, Len(t)) = t /\ Len(t) <= Len(t) /\ Len(t) \in Nat
  OBVIOUS
<1>. QED BY <1>4, <1>5 DEF T

\* Sequences of one element each.
LEMMA FlattenSingles ==
  ASSUME NEW X, NEW s \in Seq(Seq(X)), \A i \in 1 .. Len(s) : Len(s[i]) = 1
  PROVE  /\ Len(FlattenSeq(s)) = Len(s)
         /\ \A i \in 1 .. Len(s) : FlattenSeq(s)[i] = s[i][1]
<1>. DEFINE P(n) == SubSeq(s, 1, n)
            Single(n) == /\ Len(FlattenSeq(P(n))) = n
                         /\ \A i \in 1 .. n : FlattenSeq(P(n))[i] = s[i][1]
            T == {n \in Nat : n <= Len(s) => Single(n)}
<1>1. 0 \in T
  <2>1. P(0) = <<>> /\ Len(<<>>) = 0
    OBVIOUS
  <2>2. Single(0)
    <3>1. FlattenSeq(P(0)) = <<>>
      BY <2>1, FlattenEmpty, Zenon
    <3>2. 1 .. 0 = {}
      OBVIOUS
    <3>. HIDE DEF P
    <3>. QED BY <2>1, <3>1, <3>2
  <2>. HIDE DEF Single
  <2>. QED BY <2>2
<1>2. ASSUME NEW n \in T PROVE n + 1 \in T
  <2>. HIDE DEF Single
  <2>. SUFFICES ASSUME n + 1 <= Len(s) PROVE Single(n + 1)
    OBVIOUS
  <2>0. n \in Nat /\ n <= Len(s) /\ Single(n)
    OBVIOUS
  <2>1. P(n + 1) = Append(P(n), s[n + 1]) /\ P(n) \in Seq(Seq(X)) /\ s[n + 1] \in Seq(X)
    BY <2>0, FirstPart
  <2>2. FlattenSeq(P(n + 1)) = FlattenSeq(P(n)) \o s[n + 1] /\ FlattenSeq(P(n)) \in Seq(X)
    BY <2>1, FlattenAppend, FlattenType
  <2>3. Len(s[n + 1]) = 1
    BY <2>0
  <2>. DEFINE a == FlattenSeq(P(n))
              b == s[n + 1]
              c == FlattenSeq(P(n + 1))
  <2>4. /\ c = a \o b /\ a \in Seq(X) /\ b \in Seq(X) /\ Len(b) = 1
        /\ Len(a) = n /\ \A i \in 1 .. n : a[i] = s[i][1]
    BY <2>0, <2>1, <2>2, <2>3 DEF Single
  <2>5. b[1] = s[n + 1][1]
    OBVIOUS
  <2>. HIDE DEF a, b, c, P, T
  <2>6. /\ Len(c) = Len(a) + Len(b)
        /\ \A i \in 1 .. Len(a) + Len(b) : c[i] = IF i <= Len(a) THEN a[i] ELSE b[i - Len(a)]
    BY <2>4, ConcatProperties
  <2>7. Len(c) = n + 1 /\ \A i \in 1 .. n : c[i] = a[i]
    BY <2>0, <2>4, <2>6
  <2>8. c[n + 1] = b[1]
    <3>1. n + 1 \in 1 .. Len(a) + Len(b) /\ ~(n + 1 <= Len(a)) /\ (n + 1) - Len(a) = 1
      BY <2>0, <2>4
    <3>. QED BY <2>6, <3>1
  <2>9. Len(c) = n + 1 /\ \A i \in 1 .. n + 1 : c[i] = s[i][1]
    BY <2>0, <2>4, <2>5, <2>7, <2>8
  <2>. QED BY <2>9 DEF Single, c
<1>. HIDE DEF T
<1>3. T \in SUBSET Nat
  BY DEF T
<1>4. \A n \in Nat : n \in T
  BY <1>1, <1>2, <1>3, Induction
<1>5. SubSeq(s, 1, Len(s)) = s /\ Len(s) <= Len(s) /\ Len(s) \in Nat
  OBVIOUS
<1>. QED BY <1>4, <1>5 DEF T

-----------------------------------------------------------------------------
(* Parts of a sequence.                                                     *)

\* A part of a sequence, from the a-th element on.
LEMMA PartIs ==
  ASSUME NEW S, NEW s \in Seq(S), NEW a \in Nat, NEW n \in Nat, a + n <= Len(s)
  PROVE  LET p == SubSeq(s, a + 1, a + n) IN
         /\ p \in Seq(S) /\ Len(p) = n
         /\ \A i \in 1 .. n : p[i] = s[a + i]
<1>1. \A i \in a + 1 .. a + n : s[i] \in S
  OBVIOUS
<1>. DEFINE p == SubSeq(s, a + 1, a + n)
<1>2. /\ p \in Seq(S)
      /\ Len(p) = IF a + 1 <= a + n THEN (a + n) - (a + 1) + 1 ELSE 0
      /\ \A i \in 1 .. (a + n) - (a + 1) + 1 : p[i] = s[a + 1 + i - 1]
  BY <1>1, SubSeqProperties
<1>. HIDE DEF p
<1>3. /\ (a + n) - (a + 1) + 1 = n
      /\ \A i \in 1 .. n : a + 1 + i - 1 = a + i
  OBVIOUS
<1>4. Len(p) = n
  BY <1>2
<1>. QED BY <1>2, <1>3, <1>4 DEF p

\* The last part of a sequence, from the k-th element on.
LEMMA TailPart ==
  ASSUME NEW S, NEW s \in Seq(S), NEW k \in 1 .. Len(s)
  PROVE  LET p == SubSeq(s, k, Len(s)) IN
         /\ p \in Seq(S) /\ Len(p) = Len(s) - k + 1
         /\ \A i \in 1 .. Len(s) - k + 1 : p[i] = s[k + i - 1]
<1>. DEFINE p == SubSeq(s, k, Len(s))
            n == Len(s)
            a == k - 1
            m == n - k + 1
<1>1. a \in Nat /\ m \in Nat /\ a + m <= n /\ a + m = n /\ a + 1 = k
  OBVIOUS
<1>2. SubSeq(s, a + 1, a + m) = p
  BY <1>1
<1>. HIDE DEF a, m, p
<1>3. /\ SubSeq(s, a + 1, a + m) \in Seq(S) /\ Len(SubSeq(s, a + 1, a + m)) = m
      /\ \A i \in 1 .. m : SubSeq(s, a + 1, a + m)[i] = s[a + i]
  BY <1>1, PartIs
<1>4. p \in Seq(S) /\ Len(p) = m /\ \A i \in 1 .. m : p[i] = s[a + i]
  BY <1>2, <1>3
<1>5. \A i \in 1 .. m : k + i - 1 = a + i
  BY <1>1
<1>6. \A i \in 1 .. m : p[i] = s[k + i - 1]
  BY <1>4, <1>5
<1>. QED BY <1>4, <1>6 DEF p, m

\* The part between a first and a last one.
LEMMA MiddlePart ==
  ASSUME NEW S, NEW x \in Seq(S), NEW y \in Seq(S), NEW z \in Seq(S)
  PROVE  LET s == x \o (y \o z) IN SubSeq(s, Len(x) + 1, Len(s) - Len(z)) = y
<1>. DEFINE u == y \o z
            s == x \o u
            a == Len(x)
            b == Len(y)
            c == Len(z)
<1>1. /\ u \in Seq(S) /\ Len(u) = b + c /\ a \in Nat /\ b \in Nat /\ c \in Nat
      /\ \A i \in 1 .. b : u[i] = y[i]
  OBVIOUS
<1>. HIDE DEF u
<1>2. /\ s \in Seq(S) /\ Len(s) = a + (b + c)
      /\ \A i \in 1 .. b : s[a + i] = u[i]
  <2>1. /\ s \in Seq(S) /\ Len(s) = Len(x) + Len(u)
        /\ \A i \in 1 .. Len(x) + Len(u) : s[i] = IF i <= Len(x) THEN x[i] ELSE u[i - Len(x)]
    <3>1. u \in Seq(S)
      BY <1>1
    <3>. QED BY <3>1, ConcatProperties, Zenon
  <2>. HIDE DEF s
  <2>2. ASSUME NEW i \in 1 .. b PROVE s[a + i] = u[i]
    <3>1. a + i \in 1 .. a + (b + c) /\ ~(a + i <= a) /\ (a + i) - a = i
      BY <1>1
    <3>. QED BY <1>1, <2>1, <3>1
  <2>. QED BY <1>1, <2>1, <2>2
<1>. HIDE DEF s
<1>. DEFINE p == SubSeq(s, a + 1, Len(s) - c)
<1>3. /\ p \in Seq(S) /\ Len(p) = b
      /\ \A i \in 1 .. b : p[i] = s[a + i]
  <2>1. Len(s) - c = a + b /\ a + b \in Nat /\ a + b <= Len(s)
    BY <1>1, <1>2
  <2>2. p = SubSeq(s, a + 1, a + b)
    BY <2>1
  <2>3. \A i \in a + 1 .. a + b : s[i] \in S
    BY <1>1, <1>2
  <2>4. /\ SubSeq(s, a + 1, a + b) \in Seq(S)
        /\ Len(SubSeq(s, a + 1, a + b)) = IF a + 1 <= a + b THEN (a + b) - (a + 1) + 1 ELSE 0
        /\ \A i \in 1 .. (a + b) - (a + 1) + 1 : SubSeq(s, a + 1, a + b)[i] = s[a + 1 + i - 1]
    BY <1>1, <2>3, SubSeqProperties
  <2>. HIDE DEF p, a, b
  <2>. QED BY <1>1, <2>2, <2>4
<1>. HIDE DEF p
<1>4. p = y
  BY <1>1, <1>2, <1>3, SeqEqual
<1>. QED BY <1>4 DEF p, s, u, a, c

\* A sequence is its first part, a middle part and the rest.
InParts(s, x, y, z, a, n, c) ==
  /\ s = x \o (y \o z)
  /\ Len(x) = a /\ \A i \in 1 .. a : x[i] = s[0 + i]
  /\ Len(y) = n /\ \A i \in 1 .. n : y[i] = s[a + i]
  /\ Len(z) = c /\ \A i \in 1 .. c : z[i] = s[(a + n) + i]

\* Every sequence has such parts.
LEMMA ThreeParts ==
  ASSUME NEW S, NEW s \in Seq(S), NEW a \in Nat, NEW n \in Nat, NEW c \in Nat, Len(s) = a + (n + c)
  PROVE  \E x, y, z \in Seq(S) : InParts(s, x, y, z, a, n, c)
<1>. DEFINE x == SubSeq(s, 0 + 1, 0 + a)
            y == SubSeq(s, a + 1, a + n)
            z == SubSeq(s, (a + n) + 1, (a + n) + c)
<1>1. /\ x \in Seq(S) /\ Len(x) = a
      /\ \A i \in 1 .. a : x[i] = s[0 + i]
  <2>1. 0 \in Nat /\ 0 + a <= Len(s)
    OBVIOUS
  <2>. QED BY <2>1, PartIs
<1>2. /\ y \in Seq(S) /\ Len(y) = n
      /\ \A i \in 1 .. n : y[i] = s[a + i]
  <2>1. a + n <= Len(s)
    OBVIOUS
  <2>. QED BY <2>1, PartIs
<1>3. /\ z \in Seq(S) /\ Len(z) = c
      /\ \A i \in 1 .. c : z[i] = s[(a + n) + i]
  <2>1. a + n \in Nat /\ (a + n) + c <= Len(s)
    OBVIOUS
  <2>. QED BY <2>1, PartIs
<1>. HIDE DEF x, y, z
<1>. DEFINE u == y \o z
<1>4. /\ u \in Seq(S) /\ Len(u) = n + c
      /\ \A i \in 1 .. n + c : u[i] = IF i <= n THEN y[i] ELSE z[i - n]
  BY <1>2, <1>3, ConcatProperties
<1>. HIDE DEF u
<1>5. /\ x \o u \in Seq(S) /\ Len(x \o u) = a + (n + c)
      /\ \A i \in 1 .. a + (n + c) : (x \o u)[i] = IF i <= a THEN x[i] ELSE u[i - a]
  <2>1. x \in Seq(S) /\ u \in Seq(S)
    BY <1>1, <1>4
  <2>2. /\ x \o u \in Seq(S) /\ Len(x \o u) = Len(x) + Len(u)
        /\ \A i \in 1 .. Len(x) + Len(u) : (x \o u)[i] = IF i <= Len(x) THEN x[i] ELSE u[i - Len(x)]
    BY <2>1, ConcatProperties, Zenon
  <2>3. Len(x) = a /\ Len(u) = n + c
    BY <1>1, <1>4
  <2>. QED BY <2>2, <2>3, Zenon
<1>6. ASSUME NEW i \in 1 .. a + (n + c) PROVE (x \o u)[i] = s[i]
  <2>1. CASE i <= a
    <3>1. i \in 1 .. a /\ 0 + i = i
      BY <2>1
    <3>. QED BY <1>1, <1>5, <2>1, <3>1
  <2>2. CASE a < i /\ i <= a + n
    <3>1. i - a \in 1 .. n /\ i - a \in 1 .. n + c /\ i - a <= n /\ a + (i - a) = i /\ ~(i <= a)
      BY <2>2
    <3>. QED BY <1>2, <1>4, <1>5, <3>1
  <2>3. CASE a + n < i
    <3>1. /\ i - a \in 1 .. n + c /\ ~(i - a <= n) /\ ~(i <= a)
          /\ (i - a) - n \in 1 .. c /\ (a + n) + ((i - a) - n) = i
      BY <2>3
    <3>2. (x \o u)[i] = u[i - a]
      BY <1>5, <3>1, Zenon
    <3>3. u[i - a] = z[(i - a) - n]
      BY <1>4, <3>1, Zenon
    <3>4. z[(i - a) - n] = s[(a + n) + ((i - a) - n)]
      BY <1>3, <3>1, Zenon
    <3>. QED BY <3>1, <3>2, <3>3, <3>4
  <2>4. i <= a \/ (a < i /\ i <= a + n) \/ a + n < i
    OBVIOUS
  <2>. QED BY <2>1, <2>2, <2>3, <2>4, Zenon
<1>7. x \o u = s
  BY <1>5, <1>6, SeqEqual
<1>8. InParts(s, x, y, z, a, n, c)
  BY <1>1, <1>2, <1>3, <1>7 DEF u, InParts
<1>. QED BY <1>1, <1>2, <1>3, <1>8

\* Of one sequence.
LEMMA FlattenOne ==
  ASSUME NEW S, NEW x \in Seq(S)
  PROVE  FlattenSeq(<<x>>) = x
<1>1. <<>> \in Seq(Seq(S)) /\ Append(<<>>, x) = <<x>> /\ <<>> \o x = x
  OBVIOUS
<1>. QED BY <1>1, FlattenAppend, FlattenEmpty

\* Of at most one sequence.
LEMMA FlattenAtMostOne ==
  ASSUME NEW S, NEW s \in Seq(Seq(S)), Len(s) \in 0 .. 1
  PROVE  FlattenSeq(s) = IF Len(s) = 1 THEN s[1] ELSE <<>>
<1>1. CASE Len(s) = 0
  <2>1. s = <<>>
    BY <1>1
  <2>. QED BY <1>1, <2>1, FlattenEmpty
<1>2. CASE Len(s) = 1
  <2>1. s[1] \in Seq(S) /\ <<s[1]>> \in Seq(Seq(S)) /\ Len(<<s[1]>>) = 1 /\ <<s[1]>>[1] = s[1]
    BY <1>2
  <2>2. s = <<s[1]>>
    BY <1>2, <2>1, SeqEqual
  <2>3. FlattenSeq(<<s[1]>>) = s[1]
    BY <2>1, FlattenOne
  <2>. QED BY <1>2, <2>2, <2>3
<1>. QED BY <1>1, <1>2

-----------------------------------------------------------------------------
(* The first and the last place where something is found.                  *)

\* A set of positions that is not empty has a first one.
LEMMA FirstPosition ==
  ASSUME NEW I \in SUBSET Nat, I # {}
  PROVE  Min(I) \in I /\ \A i \in I : Min(I) <= i
<1>1. PICK m \in I : \A i \in I : <<i, m>> \notin OpToRel(<, Nat)
  BY NatLessThanWellFounded, WFMin
<1>2. ASSUME NEW i \in I PROVE m <= i
  <2>1. <<i, m>> \in Nat \X Nat /\ <<i, m>> \notin OpToRel(<, Nat)
    BY <1>1
  <2>2. ~(<<i, m>>[1] < <<i, m>>[2])
    BY <2>1 DEF OpToRel
  <2>. QED BY <2>2
<1>. QED BY <1>2 DEF Min

\* One that is bounded has a last one.
LEMMA LastPosition ==
  ASSUME NEW n \in Nat, NEW I \in SUBSET (1 .. n), I # {}
  PROVE  Max(I) \in I /\ \A i \in I : i <= Max(I)
<1>. DEFINE J == {n - i : i \in I}
<1>1. J \in SUBSET Nat /\ J # {}
  OBVIOUS
<1>2. Min(J) \in J /\ \A j \in J : Min(J) <= j
  BY <1>1, FirstPosition
<1>3. PICK m \in I : Min(J) = n - m
  BY <1>2
<1>4. ASSUME NEW i \in I PROVE i <= m
  <2>1. n - i \in J /\ i \in Nat /\ m \in Nat
    OBVIOUS
  <2>2. n - m <= n - i
    BY <1>2, <1>3, <2>1
  <2>. QED BY <2>1, <2>2
<1>5. \A i \in I : m >= i
  BY <1>4
<1>6. Max(I) \in I /\ \A i \in I : Max(I) >= i
  BY <1>5 DEF Max
<1>7. I \subseteq Int
  OBVIOUS
<1>. QED BY <1>6, <1>7

=============================================================================

----------------------------- MODULE DeviceProofs -----------------------------
(***************************************************************************)
(* Injection and detection, for every layout, every set of requests and    *)
(* keyboards, and every interleaving of the calls of an injector with what *)
(* the user does.                                                          *)
(***************************************************************************)
EXTENDS DeviceProperties, FiniteSetTheorems, SequenceLemmas, TLAPS

-----------------------------------------------------------------------------
(* Programs of calls                                                        *)

\* The symbols, with that of no symbol.
Texts == STRING \cup {"none"}

PressCalls   == [op : {"press"}, keys : SUBSET Keys, await : SUBSET Keys]
ReleaseCalls == [op : {"release"}, keys : SUBSET Keys]
SmoothCalls  == PressCalls \cup ReleaseCalls \cup [op : {"wait"}, key : Keys]
                  \cup [op : {"release all"}] \cup [op : {"send"}, symbol : Texts]
                  \cup [op : {"count"}, number : Nat]
InputCalls   == SmoothCalls \cup [op : {"fail"}]
Calls        == InputCalls \cup [op : {"save"}] \cup [op : {"set"}, ok : BOOLEAN]
                  \cup [op : {"restore"}]

\* The calls at which a program may break off, other than by a wait in vain.
Breaks(c)      == c.op = "fail" \/ (c.op = "set" /\ ~c.ok)
Presses(c, k)  == c.op = "press" /\ k \in c.keys
Releases(c, k) == c.op = "release" /\ k \in c.keys

\* Behind call i the program releases k, and does not break off before it does.
ReleasedAfter(p, i, k) ==
  \E j \in DOMAIN p : /\ i < j /\ Releases(p[j], k)
                      /\ \A l \in DOMAIN p : i < l /\ l < j => ~Breaks(p[l])

\* The keys the program leaves pressed are in M.
LeavesOnly(p, M) ==
  \A i \in DOMAIN p : \A k \in Keys : Presses(p[i], k) => k \in M \/ ReleasedAfter(p, i, k)

\* A program is a sequence of calls, and its parts are found in the whole.
LEMMA Joining ==
  ASSUME NEW S, NEW p \in Seq(S), NEW q \in Seq(S)
  PROVE  /\ p \o q \in Seq(S)
         /\ DOMAIN p = 1 .. Len(p) /\ DOMAIN q = 1 .. Len(q)
         /\ DOMAIN (p \o q) = 1 .. Len(p) + Len(q)
         /\ Len(p) \in Nat /\ Len(q) \in Nat
         /\ \A i \in 1 .. Len(p) : (p \o q)[i] = p[i]
         /\ \A i \in 1 .. Len(q) : (p \o q)[Len(p) + i] = q[i]
         /\ \A i \in 1 .. Len(p) + Len(q) : i > Len(p) => (p \o q)[i] = q[i - Len(p)]
OBVIOUS

\* What a program releases it still releases when another one follows ...
LEMMA ReleasedBefore ==
  ASSUME NEW p \in Seq(Calls), NEW q \in Seq(Calls), NEW i \in Nat, NEW k,
         ReleasedAfter(p, i, k)
  PROVE  ReleasedAfter(p \o q, i, k)
<1>. DEFINE r == p \o q
<1>1. /\ DOMAIN p = 1 .. Len(p) /\ DOMAIN r = 1 .. Len(p) + Len(q)
      /\ Len(p) \in Nat /\ Len(q) \in Nat /\ \A n \in 1 .. Len(p) : r[n] = p[n]
  BY Joining
<1>. HIDE DEF r
<1>2. PICK j \in DOMAIN p : /\ i < j /\ Releases(p[j], k)
                            /\ \A l \in DOMAIN p : i < l /\ l < j => ~Breaks(p[l])
  BY DEF ReleasedAfter
<1>3. j \in DOMAIN r /\ Releases(r[j], k)
  BY <1>1, <1>2
<1>4. ASSUME NEW l \in DOMAIN r, i < l, l < j PROVE ~Breaks(r[l])
  <2>1. l \in DOMAIN p
    BY <1>1, <1>4
  <2>. QED BY <1>1, <1>2, <1>4, <2>1
<1>5. ReleasedAfter(r, i, k)
  BY <1>2, <1>3, <1>4 DEF ReleasedAfter
<1>. QED BY <1>5 DEF r

\* ... or when another one, that does not break off, comes first.
LEMMA ReleasedBehind ==
  ASSUME NEW p \in Seq(Calls), NEW q \in Seq(Calls), NEW i \in Nat, NEW k,
         ReleasedAfter(q, i, k)
  PROVE  /\ ReleasedAfter(p \o q, Len(p) + i, k)
         /\ \A n \in Nat : i = 0 /\ n <= Len(p) /\ p \in Seq(SmoothCalls)
              => ReleasedAfter(p \o q, n, k)
<1>. DEFINE r == p \o q
<1>1. /\ DOMAIN p = 1 .. Len(p) /\ DOMAIN q = 1 .. Len(q) /\ DOMAIN r = 1 .. Len(p) + Len(q)
      /\ Len(p) \in Nat /\ Len(q) \in Nat
      /\ \A n \in 1 .. Len(p) : r[n] = p[n]
      /\ \A n \in 1 .. Len(q) : r[Len(p) + n] = q[n]
      /\ \A n \in 1 .. Len(p) + Len(q) : n > Len(p) => r[n] = q[n - Len(p)]
  BY Joining
<1>. HIDE DEF r
<1>2. PICK j \in DOMAIN q : /\ i < j /\ Releases(q[j], k)
                            /\ \A l \in DOMAIN q : i < l /\ l < j => ~Breaks(q[l])
  BY DEF ReleasedAfter
<1>. DEFINE h == Len(p) + j
<1>3. h \in DOMAIN r /\ Releases(r[h], k) /\ Len(p) + i < h
  BY <1>1, <1>2
<1>4. ASSUME NEW l \in DOMAIN r, Len(p) + i < l, l < h PROVE ~Breaks(r[l])
  <2>1. l - Len(p) \in DOMAIN q /\ i < l - Len(p) /\ l - Len(p) < j /\ r[l] = q[l - Len(p)]
    BY <1>1, <1>2, <1>4
  <2>. QED BY <1>2, <2>1
<1>. HIDE DEF h
<1>5. ReleasedAfter(r, Len(p) + i, k)
  BY <1>3, <1>4 DEF ReleasedAfter
<1>6. ASSUME NEW n \in Nat, i = 0, n <= Len(p), p \in Seq(SmoothCalls)
      PROVE  ReleasedAfter(r, n, k)
  <2>1. ASSUME NEW l \in DOMAIN r, n < l, l < h PROVE ~Breaks(r[l])
    <3>1. CASE l <= Len(p)
      <4>1. r[l] = p[l] /\ p[l] \in SmoothCalls
        BY <1>1, <1>6, <3>1
      <4>. QED BY <4>1 DEF SmoothCalls, PressCalls, ReleaseCalls, Breaks
    <3>2. CASE l > Len(p)
      BY <1>1, <1>4, <1>6, <2>1, <3>2
    <3>. QED BY <1>1, <3>1, <3>2
  <2>2. n < h
    BY <1>1, <1>3, <1>6
  <2>. QED BY <1>3, <2>1, <2>2 DEF ReleasedAfter
<1>. QED BY <1>5, <1>6 DEF r

\* One program behind another: the second releases what the first leaves pressed.
LEMMA Joined ==
  ASSUME NEW p \in Seq(Calls), NEW q \in Seq(Calls), NEW M, NEW N,
         LeavesOnly(p, M), LeavesOnly(q, N), M = {} \/ p \in Seq(SmoothCalls),
         \A k \in Keys : k \in M => k \in N \/ ReleasedAfter(q, 0, k)
  PROVE  LeavesOnly(p \o q, N)
<1>. DEFINE r == p \o q
<1>1. /\ DOMAIN p = 1 .. Len(p) /\ DOMAIN q = 1 .. Len(q) /\ DOMAIN r = 1 .. Len(p) + Len(q)
      /\ Len(p) \in Nat /\ Len(q) \in Nat
      /\ \A n \in 1 .. Len(p) : r[n] = p[n]
      /\ \A n \in 1 .. Len(p) + Len(q) : n > Len(p) => r[n] = q[n - Len(p)]
  BY Joining
<1>. HIDE DEF r
<1>2. ASSUME NEW i \in DOMAIN r, NEW k \in Keys, Presses(r[i], k)
      PROVE  k \in N \/ ReleasedAfter(r, i, k)
  <2>1. CASE i <= Len(p)
    <3>1. i \in DOMAIN p /\ i \in Nat /\ Presses(p[i], k)
      BY <1>1, <1>2, <2>1
    <3>2. CASE ReleasedAfter(p, i, k)
      BY <3>1, <3>2, ReleasedBefore DEF r
    <3>3. CASE k \in M
      BY <2>1, <3>1, <3>3, ReleasedBehind DEF r
    <3>. QED BY <3>1, <3>2, <3>3 DEF LeavesOnly
  <2>2. CASE i > Len(p)
    <3>1. /\ i - Len(p) \in DOMAIN q /\ i - Len(p) \in Nat /\ Presses(q[i - Len(p)], k)
          /\ Len(p) + (i - Len(p)) = i
      BY <1>1, <1>2, <2>2
    <3>2. CASE ReleasedAfter(q, i - Len(p), k)
      BY <3>1, <3>2, ReleasedBehind DEF r
    <3>. QED BY <3>1, <3>2 DEF LeavesOnly
  <2>. QED BY <1>1, <2>1, <2>2
<1>. QED BY <1>2 DEF LeavesOnly, r

\* The parts of a flattened sequence, each of which may leave keys to the next.
LEMMA FlattenLeaves ==
  ASSUME NEW n \in Nat, NEW parts \in Seq(Seq(Calls)), Len(parts) = n,
         NEW M \in [0 .. n -> SUBSET Keys],
         \A i \in 1 .. n : LeavesOnly(parts[i], M[i]),
         \A i \in 1 .. n : \A k \in Keys : k \in M[i - 1] => k \in M[i] \/ ReleasedAfter(parts[i], 0, k),
         parts \in Seq(Seq(SmoothCalls)) \/ \A i \in 0 .. n : M[i] = {}
  PROVE  LeavesOnly(FlattenSeq(parts), M[n])
<1>. DEFINE T == {m \in Nat : m <= n => LeavesOnly(FlattenSeq(SubSeq(parts, 1, m)), M[m])}
<1>1. 0 \in T
  <2>1. SubSeq(parts, 1, 0) = <<>> /\ DOMAIN <<>> = {}
    OBVIOUS
  <2>. QED BY <2>1, FlattenEmpty DEF LeavesOnly
<1>2. ASSUME NEW m \in T PROVE m + 1 \in T
  <2>. SUFFICES ASSUME m + 1 <= n
                PROVE  LeavesOnly(FlattenSeq(SubSeq(parts, 1, m + 1)), M[m + 1])
    OBVIOUS
  <2>0. m \in Nat /\ m <= n /\ m + 1 \in 1 .. n /\ (m + 1) - 1 = m /\ m \in 0 .. n /\ m + 1 \in 0 .. n
    OBVIOUS
  <2>. DEFINE p == FlattenSeq(SubSeq(parts, 1, m))
              q == parts[m + 1]
  <2>1. /\ SubSeq(parts, 1, m + 1) = Append(SubSeq(parts, 1, m), q)
        /\ SubSeq(parts, 1, m) \in Seq(Seq(Calls)) /\ q \in Seq(Calls)
    BY <2>0
  <2>2. FlattenSeq(SubSeq(parts, 1, m + 1)) = p \o q
    BY <2>1, FlattenAppend
  <2>3. p \in Seq(Calls)
    BY <2>1, FlattenType
  <2>4. M[m] = {} \/ p \in Seq(SmoothCalls)
    <3>1. CASE parts \in Seq(Seq(SmoothCalls))
      <4>1. SubSeq(parts, 1, m) \in Seq(Seq(SmoothCalls))
        BY <2>0, <3>1
      <4>. QED BY <4>1, FlattenType
    <3>. QED BY <2>0, <3>1
  <2>5. LeavesOnly(p, M[m]) /\ LeavesOnly(q, M[m + 1])
    BY <2>0
  <2>6. \A k \in Keys : k \in M[m] => k \in M[m + 1] \/ ReleasedAfter(q, 0, k)
    BY <2>0
  <2>. HIDE DEF p, q
  <2>7. LeavesOnly(p \o q, M[m + 1])
    BY <2>1, <2>3, <2>4, <2>5, <2>6, Joined
  <2>. QED BY <2>2, <2>7
<1>. HIDE DEF T
<1>3. T \in SUBSET Nat
  BY DEF T
<1>4. n \in T
  BY <1>1, <1>2, <1>3, Induction
<1>5. SubSeq(parts, 1, n) = parts /\ n <= n
  OBVIOUS
<1>. QED BY <1>4, <1>5 DEF T

\* A program that breaks off nowhere releases what one of its calls releases.
LEMMA SmoothReleases ==
  ASSUME NEW p \in Seq(SmoothCalls), NEW c \in ToSet(p), NEW k, Releases(c, k)
  PROVE  ReleasedAfter(p, 0, k)
<1>1. PICK j \in DOMAIN p : p[j] = c
  BY DEF ToSet
<1>2. \A l \in DOMAIN p : p[l] \in SmoothCalls
  OBVIOUS
<1>3. \A l \in DOMAIN p : ~Breaks(p[l])
  BY <1>2 DEF SmoothCalls, PressCalls, ReleaseCalls, Breaks
<1>4. 0 < j
  OBVIOUS
<1>. QED BY <1>1, <1>3, <1>4 DEF ReleasedAfter

QuietCalls == Calls \ PressCalls

LEMMA CallFields ==
  /\ \A c \in ReleaseCalls : c.op = "release" /\ c.keys \in SUBSET Keys
  /\ \A c \in PressCalls : c.op = "press" /\ c.keys \in SUBSET Keys
  /\ \A ks, aw \in SUBSET Keys : [op |-> "press", keys |-> ks, await |-> aw] \in PressCalls
  /\ \A ks \in SUBSET Keys : [op |-> "release", keys |-> ks] \in ReleaseCalls
BY DEF ReleaseCalls, PressCalls

LEMMA CallSets ==
  /\ PressCalls \subseteq SmoothCalls /\ ReleaseCalls \subseteq SmoothCalls
  /\ SmoothCalls \subseteq InputCalls /\ InputCalls \subseteq Calls
  /\ ReleaseCalls \subseteq QuietCalls /\ QuietCalls \subseteq Calls
BY DEF PressCalls, ReleaseCalls, SmoothCalls, InputCalls, Calls, QuietCalls

\* The same of programs that do not break off.
LEMMA SmoothJoined ==
  ASSUME NEW p \in Seq(SmoothCalls), NEW q \in Seq(SmoothCalls), NEW M, NEW N,
         LeavesOnly(p, M), LeavesOnly(q, N),
         \A k \in Keys : k \in M => k \in N \/ ReleasedAfter(q, 0, k)
  PROVE  p \o q \in Seq(SmoothCalls) /\ LeavesOnly(p \o q, N)
<1>1. p \in Seq(Calls) /\ q \in Seq(Calls)
  BY CallSets
<1>. QED BY <1>1, Joined

LEMMA LeavesMore ==
  ASSUME NEW p, NEW M, NEW N, LeavesOnly(p, M), M \subseteq N
  PROVE  LeavesOnly(p, N)
BY DEF LeavesOnly

LEMMA ToSetJoined ==
  ASSUME NEW S, NEW p \in Seq(S), NEW q \in Seq(S)
  PROVE  ToSet(p \o q) = ToSet(p) \cup ToSet(q)
<1>. DEFINE r == p \o q
<1>1. /\ DOMAIN p = 1 .. Len(p) /\ DOMAIN q = 1 .. Len(q) /\ DOMAIN r = 1 .. Len(p) + Len(q)
      /\ Len(p) \in Nat /\ Len(q) \in Nat
      /\ \A i \in 1 .. Len(p) : r[i] = p[i]
      /\ \A i \in 1 .. Len(q) : r[Len(p) + i] = q[i]
      /\ \A i \in 1 .. Len(p) + Len(q) : i > Len(p) => r[i] = q[i - Len(p)]
  BY Joining
<1>. HIDE DEF r
<1>2. ASSUME NEW i \in DOMAIN r PROVE r[i] \in ToSet(p) \cup ToSet(q)
  <2>1. CASE i <= Len(p)
    BY <1>1, <2>1 DEF ToSet
  <2>2. CASE i > Len(p)
    <3>1. i - Len(p) \in DOMAIN q /\ r[i] = q[i - Len(p)]
      BY <1>1, <2>2
    <3>. QED BY <3>1 DEF ToSet
  <2>. QED BY <1>1, <2>1, <2>2
<1>3. ASSUME NEW i \in DOMAIN p PROVE p[i] \in ToSet(r)
  BY <1>1 DEF ToSet
<1>4. ASSUME NEW i \in DOMAIN q PROVE q[i] \in ToSet(r)
  <2>1. Len(p) + i \in DOMAIN r /\ r[Len(p) + i] = q[i]
    BY <1>1
  <2>. QED BY <2>1 DEF ToSet
<1>5. ToSet(r) = ToSet(p) \cup ToSet(q)
  BY <1>2, <1>3, <1>4 DEF ToSet
<1>. QED BY <1>5 DEF r

\* A program without a press leaves nothing pressed.
LEMMA QuietLeaves ==
  ASSUME NEW p \in Seq(QuietCalls)
  PROVE  LeavesOnly(p, {})
<1>1. \A i \in DOMAIN p : p[i] \in QuietCalls
  OBVIOUS
<1>2. \A i \in DOMAIN p : p[i].op # "press"
  BY <1>1 DEF QuietCalls, Calls, InputCalls, SmoothCalls, PressCalls, ReleaseCalls
<1>. QED BY <1>2 DEF LeavesOnly, Presses

\* A program that only presses leaves no more than what it presses.
LEMMA PressLeaves ==
  ASSUME NEW p, NEW M, \A c \in ToSet(p) : c.keys \subseteq M
  PROVE  LeavesOnly(p, M)
BY DEF LeavesOnly, Presses, ToSet

\* Programs of input that leave nothing pressed, the parts of every injection.
Whole(p) == p \in Seq(InputCalls) /\ LeavesOnly(p, {})

LEMMA WholeJoined ==
  ASSUME NEW p, NEW q, Whole(p), Whole(q)
  PROVE  Whole(p \o q)
<1>1. p \in Seq(Calls) /\ q \in Seq(Calls)
  BY CallSets DEF Whole
<1>2. p \o q \in Seq(InputCalls)
  BY DEF Whole
<1>. DEFINE none == {}
<1>3. LeavesOnly(p, none) /\ LeavesOnly(q, none)
  BY DEF Whole
<1>4. none = {}
  OBVIOUS
<1>. HIDE DEF none
<1>5. LeavesOnly(p \o q, none)
  BY <1>1, <1>3, <1>4, Joined
<1>. QED BY <1>2, <1>4, <1>5 DEF Whole

LEMMA WholeFlat ==
  ASSUME NEW parts \in Seq(Seq(InputCalls)), \A i \in DOMAIN parts : LeavesOnly(parts[i], {})
  PROVE  Whole(FlattenSeq(parts))
<1>. DEFINE n == Len(parts)
            M == [i \in 0 .. n |-> {}]
<1>1. n \in Nat /\ M \in [0 .. n -> SUBSET Keys] /\ \A i \in 0 .. n : M[i] = {}
  OBVIOUS
<1>2. parts \in Seq(Seq(Calls)) /\ Len(parts) = n
  BY CallSets
<1>3. \A i \in 1 .. n : i \in DOMAIN parts /\ i - 1 \in 0 .. n /\ i \in 0 .. n
  BY <1>1
<1>4. FlattenSeq(parts) \in Seq(InputCalls)
  BY FlattenType
<1>. HIDE DEF n, M
<1>5. LeavesOnly(FlattenSeq(parts), M[n])
  BY <1>1, <1>2, <1>3, FlattenLeaves
<1>6. n \in 0 .. n
  BY <1>1
<1>. QED BY <1>1, <1>4, <1>5, <1>6 DEF Whole

\* The calls of a combination: what is pressed on the way down is released on the way up.
LEMMA ChordLeaves ==
  ASSUME NEW down \in Seq(Seq(PressCalls)), NEW up \in Seq(Seq(ReleaseCalls)),
         Len(up) = Len(down),
         \A i \in DOMAIN down : \A k \in Keys :
           (\E c \in ToSet(down[i]) : k \in c.keys) => \E c \in ToSet(up[i]) : k \in c.keys
  PROVE  Whole(Chord(down, up))
<1>. DEFINE p == FlattenSeq(down)
            b == Reverse(up)
            q == FlattenSeq(b)
            M == {k \in Keys : \E c \in ToSet(p) : k \in c.keys}
<1>1. p \in Seq(PressCalls)
  BY FlattenType
<1>2. /\ b \in Seq(Seq(ReleaseCalls)) /\ Len(b) = Len(up)
      /\ \A i \in DOMAIN up : (Len(up) - i) + 1 \in DOMAIN b /\ b[(Len(up) - i) + 1] = up[i]
  BY DEF Reverse
<1>3. ToSet(p) = UNION {ToSet(down[i]) : i \in DOMAIN down}
  BY FlattenElements
<1>. HIDE DEF b
<1>4. q \in Seq(ReleaseCalls) /\ ToSet(q) = UNION {ToSet(b[i]) : i \in DOMAIN b}
  BY <1>2, FlattenType, FlattenElements
<1>. HIDE DEF p, q
<1>5. \A c \in ToSet(p) : c \in PressCalls
  BY <1>1 DEF ToSet
<1>6. \A c \in ToSet(p) : c.keys \subseteq M
  <2>. SUFFICES ASSUME NEW c \in ToSet(p), NEW k \in c.keys PROVE k \in M
    OBVIOUS
  <2>1. k \in Keys
    BY <1>5 DEF PressCalls
  <2>. QED BY <2>1
<1>7. \A c \in ToSet(q) : c.op = "release"
  <2>1. \A i \in DOMAIN q : q[i] \in ReleaseCalls
    BY <1>4
  <2>. QED BY <2>1, CallFields DEF ToSet
<1>8. \A k \in M : \E c \in ToSet(q) : k \in c.keys
  <2>. SUFFICES ASSUME NEW k \in M PROVE \E c \in ToSet(q) : k \in c.keys
    OBVIOUS
  <2>1. PICK i \in DOMAIN down : \E c \in ToSet(down[i]) : k \in c.keys
    BY <1>3
  <2>2. i \in DOMAIN up
    OBVIOUS
  <2>3. PICK c \in ToSet(up[i]) : k \in c.keys
    BY <2>1
  <2>4. c \in ToSet(q)
    BY <1>2, <1>4, <2>2, <2>3
  <2>. QED BY <2>3, <2>4
<1>9. /\ p \in Seq(SmoothCalls) /\ q \in Seq(SmoothCalls) /\ p \in Seq(Calls) /\ q \in Seq(Calls)
      /\ q \in Seq(QuietCalls) /\ p \in Seq(InputCalls) /\ q \in Seq(InputCalls)
  BY <1>1, <1>4, CallSets
<1>10. LeavesOnly(p, M)
  BY <1>6, PressLeaves
<1>. DEFINE none == {}
<1>11. LeavesOnly(q, none)
  BY <1>9, QuietLeaves
<1>12. \A k \in Keys : k \in M => k \in none \/ ReleasedAfter(q, 0, k)
  BY <1>7, <1>8, <1>9, SmoothReleases DEF Releases
<1>. HIDE DEF none, M
<1>13. LeavesOnly(p \o q, none)
  BY <1>9, <1>10, <1>11, <1>12, Joined
<1>14. p \o q \in Seq(InputCalls)
  BY <1>9
<1>. QED BY <1>13, <1>14 DEF Whole, Chord, p, q, b, none

-----------------------------------------------------------------------------
(* The calls of the injectors                                               *)

LEMMA CallsAre ==
  ASSUME NEW ks \in SUBSET Keys, NEW k \in Keys
  PROVE  /\ Press(ks) \in Seq(PressCalls) /\ LeavesOnly(Press(ks), ks)
         /\ PressWhenUp(ks, k) \in Seq(PressCalls) /\ LeavesOnly(PressWhenUp(ks, k), ks)
         /\ Release(ks) \in Seq(ReleaseCalls) /\ LeavesOnly(Release(ks), {})
         /\ \A x \in ks : ReleasedAfter(Release(ks), 0, x)
         /\ Wait(k) \in Seq(SmoothCalls) /\ LeavesOnly(Wait(k), {})
<1>1. ASSUME NEW aw \in SUBSET Keys
      PROVE  PressAwaiting(ks, aw) \in Seq(PressCalls) /\ LeavesOnly(PressAwaiting(ks, aw), ks)
  <2>. DEFINE c == [op |-> "press", keys |-> ks, await |-> aw]
  <2>1. c \in PressCalls /\ c.keys = ks
    BY CallFields
  <2>. HIDE DEF c
  <2>2. <<>> \in Seq(PressCalls) /\ <<c>> \in Seq(PressCalls)
    BY <2>1
  <2>3. LeavesOnly(<<>>, ks) /\ LeavesOnly(<<c>>, ks)
    BY <2>1 DEF LeavesOnly, Presses
  <2>. QED BY <2>2, <2>3 DEF PressAwaiting, c
<1>2. Release(ks) \in Seq(ReleaseCalls)
  BY CallFields DEF Release
<1>3. \A x \in ks : ReleasedAfter(Release(ks), 0, x)
  BY DEF Release, ReleasedAfter, Releases
<1>5. Release(ks) \in Seq(QuietCalls)
  BY <1>2, CallSets
<1>6. [op : {"wait"}, key : Keys] \subseteq SmoothCalls \cap QuietCalls
  BY DEF SmoothCalls, QuietCalls, Calls, InputCalls, PressCalls
<1>7. Wait(k) \in Seq(SmoothCalls) /\ Wait(k) \in Seq(QuietCalls)
  <2>. DEFINE c == [op |-> "wait", key |-> k]
  <2>1. c \in SmoothCalls /\ c \in QuietCalls
    BY <1>6
  <2>. HIDE DEF c
  <2>2. <<c>> \in Seq(SmoothCalls) /\ <<c>> \in Seq(QuietCalls)
    BY <2>1
  <2>. QED BY <2>2 DEF Wait, c
<1>. QED BY <1>1, <1>2, <1>3, <1>5, <1>7, QuietLeaves DEF Press, PressWhenUp

LEMMA SingleCalls ==
  /\ Whole(Fail) /\ Whole(ReleaseAll) /\ Whole(<<>>)
  /\ \A s \in Texts : Whole(SendEvent(s))
  /\ \A n \in Nat : Whole(Count(n))
<1>1. InputCalls \ PressCalls \subseteq QuietCalls
  BY CallSets DEF QuietCalls
<1>2. \A p \in Seq(InputCalls \ PressCalls) : Whole(p)
  <2>. SUFFICES ASSUME NEW p \in Seq(InputCalls \ PressCalls) PROVE Whole(p)
    OBVIOUS
  <2>1. p \in Seq(InputCalls) /\ p \in Seq(QuietCalls)
    BY <1>1
  <2>. QED BY <2>1, QuietLeaves DEF Whole
<1>3. [op : {"fail"}] \cup [op : {"release all"}] \cup [op : {"send"}, symbol : Texts]
        \cup [op : {"count"}, number : Nat] \subseteq InputCalls \ PressCalls
  BY DEF InputCalls, SmoothCalls, PressCalls
<1>4. /\ [op |-> "fail"] \in InputCalls \ PressCalls
      /\ [op |-> "release all"] \in InputCalls \ PressCalls
      /\ \A s \in Texts : [op |-> "send", symbol |-> s] \in InputCalls \ PressCalls
      /\ \A n \in Nat : [op |-> "count", number |-> n] \in InputCalls \ PressCalls
  BY <1>3
<1>5. \A c \in InputCalls \ PressCalls : <<c>> \in Seq(InputCalls \ PressCalls)
  OBVIOUS
<1>6. Fail \in Seq(InputCalls \ PressCalls) /\ ReleaseAll \in Seq(InputCalls \ PressCalls)
  BY <1>4, <1>5, Zenon DEF Fail, ReleaseAll
<1>7. /\ \A s \in Texts : SendEvent(s) \in Seq(InputCalls \ PressCalls)
      /\ \A n \in Nat : Count(n) \in Seq(InputCalls \ PressCalls)
  BY <1>4, <1>5, Zenon DEF SendEvent, Count
<1>8. <<>> \in Seq(InputCalls \ PressCalls)
  OBVIOUS
<1>. QED BY <1>2, <1>6, <1>7, <1>8

\* The smallest of a set of numbers.
LEMMA Smallest ==
  ASSUME NEW S \in SUBSET Nat, S # {}
  PROVE  \E n \in S : \A m \in S : n =< m
<1>1. PICK n \in S : \A k \in S : <<k, n>> \notin OpToRel(<, Nat)
  BY NatLessThanWellFounded, WFMin
<1>2. ASSUME NEW k \in S PROVE n =< k
  <2>1. <<k, n>> \in Nat \X Nat /\ <<k, n>> \notin OpToRel(<, Nat)
    BY <1>1
  <2>2. ~(<<k, n>>[1] < <<k, n>>[2])
    BY <2>1 DEF OpToRel
  <2>. QED BY <2>2
<1>. QED BY <1>2

\* The table gives a key and modifiers for every symbol of the layout.
LEMMA RecordIs ==
  ASSUME NEW s \in Symbols
  PROVE  Record(s).code \in Keys /\ Record(s).mods \in SUBSET Keys
<1>. DEFINE k == CHOOSE k \in Codes(s) : \A l \in Codes(s) : k =< l
            m == CHOOSE m \in Fitting(k, s) :
                   \A n \in Fitting(k, s) : Cardinality(m) =< Cardinality(n)
<1>1. Codes(s) # {} /\ Codes(s) \in SUBSET Nat /\ Codes(s) \subseteq Keys
  <2>0. PICK p \in Keys \X Combinations : Layout[p] = s
    BY DEF Symbols
  <2>1. PICK l \in Keys, c \in Combinations : Symbol(l, c) = s
    BY <2>0 DEF Symbol
  <2>2. l \in Codes(s)
    BY <2>1 DEF Codes
  <2>. QED BY <2>2, DetectionAssumption DEF Codes, DetectionAssumption
<1>2. k \in Codes(s)
  BY <1>1, Smallest
<1>. HIDE DEF k
<1>3. Fitting(k, s) # {} /\ Fitting(k, s) \subseteq SUBSET ModifierKeys
  BY <1>2 DEF Codes, Fitting, Combinations
<1>4. \A n \in Fitting(k, s) : Cardinality(n) \in Nat
  <2>. SUFFICES ASSUME NEW n \in Fitting(k, s) PROVE Cardinality(n) \in Nat
    OBVIOUS
  <2>1. n \subseteq Keys /\ IsFiniteSet(Keys)
    BY <1>3, DetectionAssumption DEF DetectionAssumption
  <2>2. IsFiniteSet(n)
    BY <2>1, FS_Subset
  <2>. QED BY <2>2, FS_CardinalityType
<1>5. \E n \in Fitting(k, s) : \A l \in Fitting(k, s) : Cardinality(n) =< Cardinality(l)
  <2>. DEFINE sizes == {Cardinality(n) : n \in Fitting(k, s)}
  <2>1. sizes \in SUBSET Nat /\ sizes # {}
    BY <1>3, <1>4
  <2>2. PICK least \in sizes : \A size \in sizes : least =< size
    <3>. HIDE DEF sizes
    <3>. QED BY <2>1, Smallest
  <2>3. PICK n \in Fitting(k, s) : Cardinality(n) = least
    OBVIOUS
  <2>. QED BY <2>2, <2>3
<1>6. m \in Fitting(k, s)
  BY <1>5
<1>7. Record(s) = [code |-> k, mods |-> m]
  BY DEF Record, Lookup, k
<1>8. k \in Keys /\ m \subseteq Keys
  BY <1>1, <1>2, <1>3, <1>6, DetectionAssumption DEF DetectionAssumption
<1>. HIDE DEF m
<1>. QED BY <1>7, <1>8

\* What the injectors make of the symbols of a request.
Records(symbols) == /\ symbols \in Seq(Texts) /\ Mapped(symbols)
                    /\ \A i \in DOMAIN symbols : /\ Record(symbols[i]).code \in Keys
                                                 /\ Record(symbols[i]).mods \in SUBSET Keys

LEMMA RecordsAre ==
  ASSUME NEW symbols \in Seq(Texts), Mapped(symbols)
  PROVE  Records(symbols)
BY RecordIs DEF Mapped, Records

\* The parts of a program, one for each symbol.
LEMMA PartsAre ==
  ASSUME NEW S, NEW T, NEW symbols \in Seq(T), NEW parts,
         parts = [i \in DOMAIN symbols |-> parts[i]], \A i \in DOMAIN symbols : parts[i] \in S
  PROVE  parts \in Seq(S) /\ Len(parts) = Len(symbols) /\ DOMAIN parts = DOMAIN symbols
<1>1. parts \in [1 .. Len(symbols) -> S] /\ Len(symbols) \in Nat
  OBVIOUS
<1>. QED BY <1>1

\* A key that is pressed and released again, with its modifiers.
LEMMA KeyLeaves ==
  ASSUME NEW ks \in SUBSET Keys, NEW k \in Keys
  PROVE  /\ Whole(Press({k}) \o Release({k}))
         /\ Whole(Press(ks) \o Press({k}) \o Release({k}) \o Release(ks))
         /\ Whole(Press(ks) \o Press({k}) \o Release(ks) \o Release({k}))
<1>. DEFINE p1 == Press(ks)
            p2 == Press({k})
            r1 == Release(ks)
            r2 == Release({k})
            none == {}
            M == ks \cup {k}
<1>1. {k} \in SUBSET Keys /\ M \in SUBSET Keys
  OBVIOUS
<1>2. /\ p1 \in Seq(PressCalls) /\ p2 \in Seq(PressCalls)
      /\ r1 \in Seq(ReleaseCalls) /\ r2 \in Seq(ReleaseCalls)
      /\ LeavesOnly(p1, ks) /\ LeavesOnly(p2, {k}) /\ LeavesOnly(r1, none) /\ LeavesOnly(r2, none)
      /\ \A x \in ks : ReleasedAfter(r1, 0, x)
      /\ ReleasedAfter(r2, 0, k)
  BY <1>1, CallsAre
<1>. HIDE DEF p1, p2, r1, r2, none, M
<1>3. /\ p1 \in Seq(SmoothCalls) /\ p2 \in Seq(SmoothCalls)
      /\ r1 \in Seq(SmoothCalls) /\ r2 \in Seq(SmoothCalls)
  BY <1>2, CallSets
<1>4. /\ none = {} /\ none \subseteq M /\ ks \subseteq M /\ {k} \subseteq M
      /\ \A x \in Keys : x \in M => x \in ks \/ ReleasedAfter(r2, 0, x)
      /\ \A x \in Keys : x \in M => x \in {k} \/ ReleasedAfter(r1, 0, x)
      /\ \A x \in Keys : x \in ks => x \in none \/ ReleasedAfter(r1, 0, x)
      /\ \A x \in Keys : x \in {k} => x \in none \/ ReleasedAfter(r2, 0, x)
  BY <1>2 DEF none, M
<1>5. LeavesOnly(p1, M) /\ LeavesOnly(p2, M) /\ LeavesOnly(r1, {k}) /\ LeavesOnly(r2, ks)
  BY <1>2, <1>4, LeavesMore
<1>6. p2 \o r2 \in Seq(SmoothCalls) /\ LeavesOnly(p2 \o r2, none)
  BY <1>2, <1>3, <1>4, SmoothJoined
<1>7. p1 \o p2 \in Seq(SmoothCalls) /\ LeavesOnly(p1 \o p2, M)
  BY <1>3, <1>5, SmoothJoined
<1>8. (p1 \o p2) \o r2 \in Seq(SmoothCalls) /\ LeavesOnly((p1 \o p2) \o r2, ks)
  BY <1>3, <1>4, <1>5, <1>7, SmoothJoined
<1>9. /\ ((p1 \o p2) \o r2) \o r1 \in Seq(SmoothCalls)
      /\ LeavesOnly(((p1 \o p2) \o r2) \o r1, none)
  BY <1>2, <1>3, <1>4, <1>8, SmoothJoined
<1>10. (p1 \o p2) \o r1 \in Seq(SmoothCalls) /\ LeavesOnly((p1 \o p2) \o r1, {k})
  BY <1>3, <1>4, <1>5, <1>7, SmoothJoined
<1>11. /\ ((p1 \o p2) \o r1) \o r2 \in Seq(SmoothCalls)
       /\ LeavesOnly(((p1 \o p2) \o r1) \o r2, none)
  BY <1>2, <1>3, <1>4, <1>10, SmoothJoined
<1>12. \A p \in Seq(SmoothCalls) : LeavesOnly(p, none) => Whole(p)
  BY <1>4, CallSets DEF Whole
<1>. QED BY <1>6, <1>9, <1>11, <1>12 DEF p1, p2, r1, r2

\* One such part for each symbol.
LEMMA WholeParts ==
  ASSUME NEW T, NEW symbols \in Seq(T), NEW parts,
         parts = [i \in DOMAIN symbols |-> parts[i]], \A i \in DOMAIN symbols : Whole(parts[i])
  PROVE  Whole(FlattenSeq(parts))
<1>1. \A i \in DOMAIN symbols : parts[i] \in Seq(InputCalls)
  BY DEF Whole
<1>2. parts \in Seq(Seq(InputCalls)) /\ DOMAIN parts = DOMAIN symbols
  BY <1>1, PartsAre
<1>. QED BY <1>2, WholeFlat DEF Whole

LEMMA EvdevKeysWhole ==
  ASSUME NEW symbols \in Seq(Texts)
  PROVE  Whole(EvdevKeys(symbols))
<1>1. CASE ~Mapped(symbols)
  BY <1>1, SingleCalls DEF EvdevKeys
<1>2. CASE Mapped(symbols)
  <2>. DEFINE parts == [i \in DOMAIN symbols |-> EvdevKey(Record(symbols[i]))]
  <2>1. \A i \in DOMAIN symbols : Whole(parts[i])
    BY <1>2, RecordsAre, KeyLeaves DEF Records, EvdevKey
  <2>2. parts = [i \in DOMAIN symbols |-> parts[i]]
    OBVIOUS
  <2>. HIDE DEF parts
  <2>3. Whole(FlattenSeq(parts))
    BY <2>1, <2>2, WholeParts
  <2>. QED BY <1>2, <2>3 DEF EvdevKeys, parts
<1>. QED BY <1>1, <1>2

LEMMA XTestKeysWhole ==
  ASSUME NEW symbols \in Seq(Texts), Mapped(symbols)
  PROVE  Whole(XTestKeys(symbols))
<1>. DEFINE parts == [i \in DOMAIN symbols |-> XTestKey(Record(symbols[i]))]
<1>1. \A i \in DOMAIN symbols : Whole(parts[i])
  BY RecordsAre, KeyLeaves DEF Records, XTestKey
<1>2. parts = [i \in DOMAIN symbols |-> parts[i]]
  OBVIOUS
<1>. HIDE DEF parts
<1>3. Whole(FlattenSeq(parts))
  BY <1>1, <1>2, WholeParts
<1>. QED BY <1>3 DEF XTestKeys, parts

LEMMA SendEventsWhole ==
  ASSUME NEW symbols \in Seq(Texts)
  PROVE  Whole(SendEvents(symbols))
<1>. DEFINE parts == [i \in DOMAIN symbols |-> SendEvent(symbols[i])]
<1>1. \A i \in DOMAIN symbols : symbols[i] \in Texts
  OBVIOUS
<1>2. \A i \in DOMAIN symbols : Whole(parts[i])
  BY <1>1, SingleCalls
<1>3. parts = [i \in DOMAIN symbols |-> parts[i]]
  OBVIOUS
<1>. HIDE DEF parts
<1>4. Whole(FlattenSeq(parts))
  BY <1>2, <1>3, WholeParts
<1>. QED BY <1>4 DEF SendEvents, parts

LEMMA NativeKeysWhole ==
  ASSUME NEW symbols \in Seq(Texts)
  PROVE  Whole(NativeKeys(symbols))
<1>1. CASE ~Mapped(symbols)
  BY <1>1, SingleCalls DEF NativeKeys
<1>2. CASE Mapped(symbols)
  <2>. DEFINE parts == [i \in DOMAIN symbols |-> Press({Record(symbols[i]).code})
                                                \o Release({Record(symbols[i]).code})]
              count == IF platform = "win32" THEN Count(2 * Len(symbols)) ELSE <<>>
  <2>1. \A i \in DOMAIN symbols : Whole(parts[i])
    BY <1>2, RecordsAre, KeyLeaves DEF Records
  <2>2. parts = [i \in DOMAIN symbols |-> parts[i]]
    OBVIOUS
  <2>3. NativeKeys(symbols) = count \o FlattenSeq(parts)
    BY <1>2 DEF NativeKeys
  <2>4. 2 * Len(symbols) \in Nat
    OBVIOUS
  <2>5. Whole(count)
    BY <2>4, SingleCalls
  <2>. HIDE DEF parts, count
  <2>6. Whole(FlattenSeq(parts))
    BY <2>1, <2>2, WholeParts
  <2>. QED BY <2>3, <2>5, <2>6, WholeJoined
<1>. QED BY <1>1, <1>2

\* Calls on a set of keys and on one more, as on the way down and up of a combination.
LEMMA PressedPair ==
  ASSUME NEW ks \in SUBSET Keys, NEW k \in Keys, NEW p, p = Press(ks) \o Press({k})
  PROVE  p \in Seq(PressCalls) /\ \A c \in ToSet(p) : c.keys \subseteq ks \cup {k}
<1>1. Press(ks) \in Seq(PressCalls) /\ Press({k}) \in Seq(PressCalls)
  <2>1. {k} \in SUBSET Keys
    OBVIOUS
  <2>. QED BY <2>1, CallsAre
<1>2. /\ \A c \in ToSet(Press(ks)) : c.keys = ks
      /\ \A c \in ToSet(Press({k})) : c.keys = {k}
  BY DEF Press, PressAwaiting, ToSet
<1>3. ToSet(Press(ks) \o Press({k})) = ToSet(Press(ks)) \cup ToSet(Press({k}))
  BY <1>1, ToSetJoined
<1>4. Press(ks) \o Press({k}) \in Seq(PressCalls)
  BY <1>1
<1>. QED BY <1>2, <1>3, <1>4

LEMMA ReleasedPair ==
  ASSUME NEW ks \in SUBSET Keys, NEW k \in Keys, NEW p,
         p = Release({k}) \o Release(ks) \/ p = Release(ks) \o Release({k})
  PROVE  /\ p \in Seq(ReleaseCalls)
         /\ \A x \in ks \cup {k} : \E c \in ToSet(p) : x \in c.keys
<1>1. Release(ks) \in Seq(ReleaseCalls) /\ Release({k}) \in Seq(ReleaseCalls)
  <2>1. {k} \in SUBSET Keys
    OBVIOUS
  <2>. QED BY <2>1, CallsAre
<1>2. /\ \A x \in ks : \E c \in ToSet(Release(ks)) : x \in c.keys
      /\ \E c \in ToSet(Release({k})) : k \in c.keys
  BY DEF Release, ToSet
<1>3. ToSet(p) = ToSet(Release(ks)) \cup ToSet(Release({k})) /\ p \in Seq(ReleaseCalls)
  <2>. DEFINE a == Release(ks)
              b == Release({k})
  <2>. HIDE DEF a, b
  <2>1. CASE p = b \o a
    BY <1>1, <2>1, ToSetJoined DEF a, b
  <2>2. CASE p = a \o b
    BY <1>1, <2>2, ToSetJoined DEF a, b
  <2>. QED BY <2>1, <2>2 DEF a, b
<1>. QED BY <1>2, <1>3

LEMMA PressedKey ==
  ASSUME NEW k \in Keys
  PROVE  /\ Press({k}) \in Seq(PressCalls) /\ Release({k}) \in Seq(ReleaseCalls)
         /\ \A c \in ToSet(Press({k})) : c.keys = {k}
         /\ \E c \in ToSet(Release({k})) : k \in c.keys
<1>1. {k} \in SUBSET Keys
  OBVIOUS
<1>2. Press({k}) \in Seq(PressCalls) /\ Release({k}) \in Seq(ReleaseCalls)
  BY <1>1, CallsAre
<1>3. \A c \in ToSet(Press({k})) : c.keys = {k}
  BY DEF Press, PressAwaiting, ToSet
<1>4. \E c \in ToSet(Release({k})) : k \in c.keys
  BY DEF Release, ToSet
<1>. QED BY <1>2, <1>3, <1>4

\* What a character leaves pressed are the modifiers it needs, and it releases those
\* that the character before left and it does not need.
LEMMA CharLeaves ==
  ASSUME NEW mods \in SUBSET Keys, NEW r, r.code \in Keys, r.mods \in SUBSET Keys
  PROVE  /\ EvdevChar(mods, r) \in Seq(SmoothCalls)
         /\ LeavesOnly(EvdevChar(mods, r), r.mods)
         /\ \A k \in Keys : k \in mods => k \in r.mods \/ ReleasedAfter(EvdevChar(mods, r), 0, k)
<1>. DEFINE p1 == Release(mods \ r.mods)
            p2 == PressWhenUp(r.mods \ mods, r.code)
            p3 == Wait(r.code)
            p4 == Press({r.code})
            p5 == Release({r.code})
            ks == r.mods
            M == r.mods \cup {r.code}
            none == {}
<1>1. mods \ r.mods \in SUBSET Keys /\ r.mods \ mods \in SUBSET Keys /\ {r.code} \in SUBSET Keys
  OBVIOUS
<1>2. /\ p1 \in Seq(ReleaseCalls) /\ LeavesOnly(p1, none)
      /\ \A x \in mods \ r.mods : ReleasedAfter(p1, 0, x)
      /\ p2 \in Seq(PressCalls) /\ LeavesOnly(p2, r.mods \ mods)
      /\ p3 \in Seq(SmoothCalls) /\ LeavesOnly(p3, none)
      /\ p4 \in Seq(PressCalls) /\ LeavesOnly(p4, {r.code})
      /\ p5 \in Seq(ReleaseCalls) /\ LeavesOnly(p5, none) /\ ReleasedAfter(p5, 0, r.code)
  BY <1>1, CallsAre
<1>3. EvdevChar(mods, r) = (((p1 \o p2) \o p3) \o p4) \o p5
  BY DEF EvdevChar
<1>. HIDE DEF p1, p2, p3, p4, p5
<1>4. /\ p1 \in Seq(SmoothCalls) /\ p2 \in Seq(SmoothCalls) /\ p4 \in Seq(SmoothCalls)
      /\ p5 \in Seq(SmoothCalls)
  BY <1>2, CallSets
<1>5. /\ LeavesOnly(p2, ks) /\ LeavesOnly(p3, ks) /\ LeavesOnly(p4, M) /\ LeavesOnly(p5, ks)
  BY <1>2, LeavesMore
<1>6. \A x \in Keys : x \in M => x \in ks \/ ReleasedAfter(p5, 0, x)
  BY <1>2
<1>. DEFINE q2 == p1 \o p2
            q3 == q2 \o p3
            q4 == q3 \o p4
            q5 == q4 \o p5
<1>7. q2 \in Seq(SmoothCalls) /\ LeavesOnly(q2, ks)
  BY <1>2, <1>4, <1>5, SmoothJoined
<1>8. q3 \in Seq(SmoothCalls) /\ LeavesOnly(q3, ks)
  <2>. HIDE DEF q2
  <2>. QED BY <1>2, <1>5, <1>7, SmoothJoined
<1>9. q4 \in Seq(SmoothCalls) /\ LeavesOnly(q4, M)
  <2>. HIDE DEF q3
  <2>. QED BY <1>4, <1>5, <1>8, SmoothJoined
<1>10. q5 \in Seq(SmoothCalls) /\ LeavesOnly(q5, ks)
  <2>. HIDE DEF q4, ks, M
  <2>. QED BY <1>4, <1>5, <1>6, <1>9, SmoothJoined
<1>11. ASSUME NEW k \in mods \ ks PROVE ReleasedAfter(q5, 0, k)
  <2>0. /\ p1 \in Seq(Calls) /\ p2 \in Seq(Calls) /\ p3 \in Seq(Calls) /\ p4 \in Seq(Calls)
        /\ p5 \in Seq(Calls) /\ 0 \in Nat
    BY <1>2, <1>4, CallSets
  <2>1. ReleasedAfter(q2, 0, k) /\ q2 \in Seq(Calls)
    BY <1>2, <2>0, ReleasedBefore
  <2>2. ReleasedAfter(q3, 0, k) /\ q3 \in Seq(Calls)
    <3>. HIDE DEF q2
    <3>. QED BY <2>0, <2>1, ReleasedBefore
  <2>3. ReleasedAfter(q4, 0, k) /\ q4 \in Seq(Calls)
    <3>. HIDE DEF q3
    <3>. QED BY <2>0, <2>2, ReleasedBefore
  <2>. HIDE DEF q4
  <2>. QED BY <2>0, <2>3, ReleasedBefore
<1>. QED BY <1>3, <1>10, <1>11

LEMMA EvdevStringWhole ==
  ASSUME NEW symbols \in Seq(Texts)
  PROVE  Whole(EvdevString(symbols))
<1>1. CASE ~Mapped(symbols)
  BY <1>1, SingleCalls DEF EvdevString
<1>2. CASE Mapped(symbols)
  <2>. DEFINE n == Len(symbols)
              mods(i) == IF i = 0 THEN {} ELSE Record(symbols[i]).mods
              M == [i \in 0 .. n |-> mods(i)]
              parts == [i \in DOMAIN symbols |-> EvdevChar(mods(i - 1), Record(symbols[i]))]
              none == {}
  <2>1. n \in Nat /\ DOMAIN symbols = 1 .. n
    OBVIOUS
  <2>2. Records(symbols)
    BY <1>2, RecordsAre
  <2>3. \A i \in 0 .. n : mods(i) \in SUBSET Keys
    BY <2>1, <2>2 DEF Records
  <2>4. M \in [0 .. n -> SUBSET Keys] /\ M[0] = {} /\ \A i \in 0 .. n : M[i] = mods(i)
    BY <2>1, <2>3
  <2>5. EvdevString(symbols) = FlattenSeq(parts) \o Release(mods(n))
    BY <1>2 DEF EvdevString
  <2>6. \A i \in DOMAIN symbols : parts[i] = EvdevChar(mods(i - 1), Record(symbols[i]))
    OBVIOUS
  <2>7. parts = [i \in DOMAIN symbols |-> parts[i]]
    OBVIOUS
  <2>8. \A i \in 1 .. n : mods(i) = Record(symbols[i]).mods
    BY <2>1
  <2>. HIDE DEF parts, M, mods
  <2>9. ASSUME NEW i \in 1 .. n
        PROVE  /\ parts[i] \in Seq(SmoothCalls)
               /\ LeavesOnly(parts[i], M[i])
               /\ \A k \in Keys : k \in M[i - 1] => k \in M[i] \/ ReleasedAfter(parts[i], 0, k)
    <3>. DEFINE r == Record(symbols[i])
                ms == mods(i - 1)
    <3>1. i \in DOMAIN symbols /\ i \in 0 .. n /\ i - 1 \in 0 .. n
      BY <2>1
    <3>2. r.code \in Keys /\ r.mods \in SUBSET Keys /\ ms \in SUBSET Keys
      BY <2>2, <2>3, <3>1 DEF Records
    <3>3. parts[i] = EvdevChar(ms, r) /\ M[i] = r.mods /\ M[i - 1] = ms
      BY <2>4, <2>6, <2>8, <3>1
    <3>. HIDE DEF r, ms
    <3>. QED BY <3>2, <3>3, CharLeaves
  <2>10. parts \in Seq(Seq(SmoothCalls)) /\ Len(parts) = n
    BY <2>1, <2>7, <2>9, PartsAre
  <2>11. parts \in Seq(Seq(Calls))
    BY <2>10, CallSets
  <2>. DEFINE p == FlattenSeq(parts)
              q == Release(mods(n))
              K == M[n]
  <2>12. LeavesOnly(p, K)
    <3>. HIDE DEF n
    <3>. QED BY <2>1, <2>4, <2>9, <2>10, <2>11, FlattenLeaves
  <2>13. p \in Seq(SmoothCalls)
    BY <2>10, FlattenType
  <2>14. /\ q \in Seq(ReleaseCalls) /\ LeavesOnly(q, none)
         /\ \A x \in mods(n) : ReleasedAfter(q, 0, x)
    <3>1. n \in 0 .. n
      BY <2>1
    <3>2. mods(n) \in SUBSET Keys
      BY <2>3, <3>1
    <3>3. CASE Keys = {}
      <4>1. mods(n) = {}
        BY <3>2, <3>3
      <4>. QED BY <4>1 DEF Release, LeavesOnly
    <3>4. CASE Keys # {}
      BY <3>2, <3>4, CallsAre
    <3>. QED BY <3>3, <3>4
  <2>15. q \in Seq(SmoothCalls) /\ K = mods(n)
    BY <2>1, <2>4, <2>14, CallSets
  <2>. HIDE DEF p, q, K
  <2>16. p \o q \in Seq(SmoothCalls) /\ LeavesOnly(p \o q, none)
    BY <2>12, <2>13, <2>14, <2>15, SmoothJoined
  <2>17. p \o q \in Seq(InputCalls)
    BY <2>16, CallSets
  <2>. QED BY <2>5, <2>16, <2>17 DEF Whole, p, q
<1>. QED BY <1>1, <1>2

LEMMA EvdevCombinationWhole ==
  ASSUME NEW symbols \in Seq(Texts)
  PROVE  Whole(EvdevCombination(symbols))
<1>1. CASE ~Mapped(symbols)
  BY <1>1, SingleCalls DEF EvdevCombination
<1>2. CASE Mapped(symbols)
  <2>. DEFINE r(i) == Record(symbols[i])
              down == [i \in DOMAIN symbols |-> Press(r(i).mods) \o Press({r(i).code})]
              up == [i \in DOMAIN symbols |-> Release({r(i).code}) \o Release(r(i).mods)]
  <2>1. \A i \in DOMAIN symbols : r(i).code \in Keys /\ r(i).mods \in SUBSET Keys
    BY <1>2, RecordsAre DEF Records
  <2>2. EvdevCombination(symbols) = Chord(down, up)
    BY <1>2 DEF EvdevCombination
  <2>3. ASSUME NEW i \in DOMAIN symbols
        PROVE  /\ down[i] \in Seq(PressCalls) /\ up[i] \in Seq(ReleaseCalls)
               /\ \A k \in Keys : (\E c \in ToSet(down[i]) : k \in c.keys)
                                   => \E c \in ToSet(up[i]) : k \in c.keys
    <3>. DEFINE ms == r(i).mods
                key == r(i).code
    <3>1. key \in Keys /\ ms \in SUBSET Keys
      BY <2>1
    <3>2. down[i] = Press(ms) \o Press({key}) /\ up[i] = Release({key}) \o Release(ms)
      OBVIOUS
    <3>. HIDE DEF down, up, ms, key
    <3>3. /\ down[i] \in Seq(PressCalls)
          /\ \A c \in ToSet(down[i]) : c.keys \subseteq ms \cup {key}
      BY <3>1, <3>2, PressedPair
    <3>4. /\ up[i] \in Seq(ReleaseCalls)
          /\ \A x \in ms \cup {key} : \E c \in ToSet(up[i]) : x \in c.keys
      BY <3>1, <3>2, ReleasedPair
    <3>. QED BY <3>3, <3>4
  <2>4. /\ down = [i \in DOMAIN symbols |-> down[i]]
        /\ up = [i \in DOMAIN symbols |-> up[i]]
    OBVIOUS
  <2>. HIDE DEF down, up
  <2>5. /\ down \in Seq(Seq(PressCalls)) /\ up \in Seq(Seq(ReleaseCalls))
        /\ Len(up) = Len(down) /\ DOMAIN down = DOMAIN symbols
    <3>1. \A i \in DOMAIN symbols : down[i] \in Seq(PressCalls)
      BY <2>3
    <3>2. down \in Seq(Seq(PressCalls)) /\ Len(down) = Len(symbols) /\ DOMAIN down = DOMAIN symbols
      BY <2>4, <3>1, PartsAre
    <3>3. \A i \in DOMAIN symbols : up[i] \in Seq(ReleaseCalls)
      BY <2>3
    <3>4. up \in Seq(Seq(ReleaseCalls)) /\ Len(up) = Len(symbols)
      BY <2>4, <3>3, PartsAre
    <3>. QED BY <3>2, <3>4
  <2>. QED BY <2>2, <2>3, <2>5, ChordLeaves
<1>. QED BY <1>1, <1>2

LEMMA NativeCombinationWhole ==
  ASSUME NEW symbols \in Seq(Texts)
  PROVE  Whole(NativeCombination(symbols))
<1>1. CASE ~Mapped(symbols)
  BY <1>1, SingleCalls DEF NativeCombination
<1>2. CASE Mapped(symbols)
  <2>. DEFINE code(i) == Record(symbols[i]).code
              down == [i \in DOMAIN symbols |-> Press({code(i)})]
              up == [i \in DOMAIN symbols |-> Release({code(i)})]
  <2>1. \A i \in DOMAIN symbols : code(i) \in Keys
    BY <1>2, RecordsAre DEF Records
  <2>2. NativeCombination(symbols) = Chord(down, up)
    BY <1>2 DEF NativeCombination
  <2>3. ASSUME NEW i \in DOMAIN symbols
        PROVE  /\ down[i] \in Seq(PressCalls) /\ up[i] \in Seq(ReleaseCalls)
               /\ \A k \in Keys : (\E c \in ToSet(down[i]) : k \in c.keys)
                                   => \E c \in ToSet(up[i]) : k \in c.keys
    <3>. DEFINE key == code(i)
    <3>1. key \in Keys /\ {} \in SUBSET Keys
      BY <2>1
    <3>2. down[i] = Press({key}) /\ up[i] = Release({key})
      OBVIOUS
    <3>. HIDE DEF down, up, key
    <3>. QED BY <3>1, <3>2, PressedKey
  <2>4. /\ down = [i \in DOMAIN symbols |-> down[i]]
        /\ up = [i \in DOMAIN symbols |-> up[i]]
    OBVIOUS
  <2>. HIDE DEF down, up
  <2>5. /\ down \in Seq(Seq(PressCalls)) /\ up \in Seq(Seq(ReleaseCalls))
        /\ Len(up) = Len(down) /\ DOMAIN down = DOMAIN symbols
    <3>1. \A i \in DOMAIN symbols : down[i] \in Seq(PressCalls)
      BY <2>3
    <3>2. down \in Seq(Seq(PressCalls)) /\ Len(down) = Len(symbols) /\ DOMAIN down = DOMAIN symbols
      BY <2>4, <3>1, PartsAre
    <3>3. \A i \in DOMAIN symbols : up[i] \in Seq(ReleaseCalls)
      BY <2>3
    <3>4. up \in Seq(Seq(ReleaseCalls)) /\ Len(up) = Len(symbols)
      BY <2>4, <3>3, PartsAre
    <3>. QED BY <3>2, <3>4
  <2>. QED BY <2>2, <2>3, <2>5, ChordLeaves
<1>. QED BY <1>1, <1>2

LEMMA X11CombinationWhole ==
  ASSUME NEW symbols \in Seq(Texts), NEW fast
  PROVE  Whole(X11Combination(symbols, fast))
<1>1. CASE ~Mapped(symbols)
  BY <1>1, SingleCalls DEF X11Combination
<1>2. CASE Mapped(symbols)
  <2>. DEFINE code(i) == Record(symbols[i]).code
              state(i) == {code(j) : j \in 1 .. (i - 1)} \cap ModifierKeys
              sent(i) == IF code(i) \in ModifierKeys THEN "none" ELSE Symbol(code(i), state(i))
              sends == [i \in DOMAIN symbols |-> sent(i)]
              down == [i \in DOMAIN symbols |-> Press(state(i)) \o Press({code(i)})]
              up == [i \in DOMAIN symbols |-> Release(state(i)) \o Release({code(i)})]
  <2>1. \A i \in DOMAIN symbols : code(i) \in Keys
    BY <1>2, RecordsAre DEF Records
  <2>2. \A i \in DOMAIN symbols : state(i) \in SUBSET ModifierKeys /\ state(i) \in SUBSET Keys
    BY DetectionAssumption DEF DetectionAssumption
  <2>3. X11Combination(symbols, fast)
          = IF fast THEN SendEvents(sends) ELSE ReleaseAll \o Chord(down, up)
    BY <1>2 DEF X11Combination
  <2>4. sends \in Seq(Texts)
    <3>1. \A i \in DOMAIN symbols : sent(i) \in Texts
      <4>. SUFFICES ASSUME NEW i \in DOMAIN symbols PROVE sent(i) \in Texts
        OBVIOUS
      <4>. DEFINE key == code(i)
                  ms == state(i)
      <4>1. key \in Keys /\ ms \in SUBSET ModifierKeys
        BY <2>1, <2>2
      <4>. HIDE DEF key, ms
      <4>2. Symbol(key, ms) \in Texts
        BY <4>1, InjectionAssumption DEF InjectionAssumption, Symbol, Texts
      <4>3. sent(i) = IF key \in ModifierKeys THEN "none" ELSE Symbol(key, ms)
        BY DEF key, ms
      <4>. HIDE DEF sent
      <4>. QED BY <4>2, <4>3, Zenon DEF Texts
    <3>2. \A i \in DOMAIN symbols : sends[i] = sent(i)
      OBVIOUS
    <3>3. sends = [i \in DOMAIN symbols |-> sends[i]]
      OBVIOUS
    <3>. HIDE DEF sends, sent
    <3>. QED BY <3>1, <3>2, <3>3, PartsAre
  <2>5. ASSUME NEW i \in DOMAIN symbols
        PROVE  /\ down[i] \in Seq(PressCalls) /\ up[i] \in Seq(ReleaseCalls)
               /\ \A k \in Keys : (\E c \in ToSet(down[i]) : k \in c.keys)
                                   => \E c \in ToSet(up[i]) : k \in c.keys
    <3>. DEFINE ms == state(i)
                key == code(i)
    <3>1. key \in Keys /\ ms \in SUBSET Keys
      BY <2>1, <2>2
    <3>2. down[i] = Press(ms) \o Press({key}) /\ up[i] = Release(ms) \o Release({key})
      OBVIOUS
    <3>. HIDE DEF down, up, ms, key
    <3>3. /\ down[i] \in Seq(PressCalls)
          /\ \A c \in ToSet(down[i]) : c.keys \subseteq ms \cup {key}
      BY <3>1, <3>2, PressedPair
    <3>4. /\ up[i] \in Seq(ReleaseCalls)
          /\ \A x \in ms \cup {key} : \E c \in ToSet(up[i]) : x \in c.keys
      BY <3>1, <3>2, ReleasedPair
    <3>. QED BY <3>3, <3>4
  <2>6. /\ down = [i \in DOMAIN symbols |-> down[i]]
        /\ up = [i \in DOMAIN symbols |-> up[i]]
    OBVIOUS
  <2>. HIDE DEF down, up, sends
  <2>7. /\ down \in Seq(Seq(PressCalls)) /\ up \in Seq(Seq(ReleaseCalls))
        /\ Len(up) = Len(down) /\ DOMAIN down = DOMAIN symbols
    <3>1. \A i \in DOMAIN symbols : down[i] \in Seq(PressCalls)
      BY <2>5
    <3>2. down \in Seq(Seq(PressCalls)) /\ Len(down) = Len(symbols) /\ DOMAIN down = DOMAIN symbols
      BY <2>6, <3>1, PartsAre
    <3>3. \A i \in DOMAIN symbols : up[i] \in Seq(ReleaseCalls)
      BY <2>5
    <3>4. up \in Seq(Seq(ReleaseCalls)) /\ Len(up) = Len(symbols)
      BY <2>6, <3>3, PartsAre
    <3>. QED BY <3>2, <3>4
  <2>8. Whole(Chord(down, up))
    BY <2>5, <2>7, ChordLeaves
  <2>9. Whole(ReleaseAll \o Chord(down, up))
    BY <2>8, SingleCalls, WholeJoined
  <2>10. Whole(SendEvents(sends))
    BY <2>4, SendEventsWhole
  <2>. QED BY <2>3, <2>9, <2>10
<1>. QED BY <1>1, <1>2

\* Whatever the platform, the calls for a string, keys or a combination are input and
\* leave nothing pressed.
LEMMA InputWhole ==
  ASSUME NEW symbols \in Seq(Texts), NEW fast
  PROVE  /\ Whole(SendString(symbols, fast))
         /\ Whole(SendKeys(symbols, fast))
         /\ Whole(SendCombination(symbols, fast))
<1>1. Whole(X11String(symbols, fast))
  <2>. DEFINE first == IF fast THEN <<>> ELSE ReleaseAll
              second == IF ~Mapped(symbols) THEN Fail
                        ELSE IF fast THEN SendEvents(symbols) ELSE XTestKeys(symbols)
  <2>1. Whole(first) /\ Whole(second)
    BY SingleCalls, SendEventsWhole, XTestKeysWhole
  <2>2. X11String(symbols, fast) = first \o second
    BY DEF X11String
  <2>. HIDE DEF first, second
  <2>. QED BY <2>1, <2>2, WholeJoined
<1>2. Whole(X11Keys(symbols, fast))
  <2>1. Mapped(symbols) => Whole(ReleaseAll \o XTestKeys(symbols))
    BY SingleCalls, XTestKeysWhole, WholeJoined
  <2>. QED BY <2>1, SingleCalls, SendEventsWhole DEF X11Keys
<1>3. Whole(NativeString(symbols))
  BY SendEventsWhole DEF NativeString
<1>. QED BY <1>1, <1>2, <1>3, EvdevStringWhole, EvdevKeysWhole, EvdevCombinationWhole,
            X11CombinationWhole, NativeKeysWhole, NativeCombinationWhole
         DEF SendString, SendKeys, SendCombination

-----------------------------------------------------------------------------
(* The programs of the requests                                             *)

\* A program that saves the clipboard first and restores it last, if it touches it.
Touches(c) == c.op \in {"save", "set", "restore"}
RestoresLast(p) ==
  /\ p # <<>>
  /\ \A i \in DOMAIN p : /\ p[i].op = "restore" <=> i = Len(p)
                         /\ p[i].op = "save" => i = 1
Untouched(p) == \A i \in DOMAIN p : ~Touches(p[i])
SavesFirst(p) == RestoresLast(p) /\ p[1].op = "save"

Clean(p) == p \in Seq(Calls) /\ LeavesOnly(p, {})

LEMMA CleanJoined ==
  ASSUME NEW p, NEW q, Clean(p), Clean(q)
  PROVE  Clean(p \o q)
<1>. DEFINE none == {}
<1>1. LeavesOnly(p, none) /\ LeavesOnly(q, none) /\ none = {}
  BY DEF Clean
<1>2. p \o q \in Seq(Calls) /\ p \in Seq(Calls) /\ q \in Seq(Calls)
  BY DEF Clean
<1>. HIDE DEF none
<1>3. LeavesOnly(p \o q, none)
  BY <1>1, <1>2, Joined
<1>. QED BY <1>1, <1>2, <1>3 DEF Clean

LEMMA InputUntouched ==
  ASSUME NEW p, Whole(p)
  PROVE  Clean(p) /\ Untouched(p)
<1>1. Clean(p)
  BY CallSets DEF Whole, Clean
<1>2. \A i \in DOMAIN p : p[i] \in InputCalls
  BY DEF Whole
<1>3. \A c \in InputCalls : ~Touches(c)
  BY DEF InputCalls, SmoothCalls, PressCalls, ReleaseCalls, Touches
<1>. QED BY <1>1, <1>2, <1>3 DEF Untouched

LEMMA ClipboardCalls ==
  /\ Clean(SaveClipboard) /\ Clean(RestoreClipboard)
  /\ \A ok \in BOOLEAN : Clean(SetClipboard(ok))
<1>1. /\ [op |-> "save"] \in QuietCalls /\ [op |-> "restore"] \in QuietCalls
      /\ \A ok \in BOOLEAN : [op |-> "set", ok |-> ok] \in QuietCalls
  BY DEF QuietCalls, Calls, PressCalls
<1>2. \A c \in QuietCalls : Clean(<<c>>)
  <2>. SUFFICES ASSUME NEW c \in QuietCalls PROVE Clean(<<c>>)
    OBVIOUS
  <2>1. <<c>> \in Seq(QuietCalls) /\ <<c>> \in Seq(Calls)
    BY CallSets
  <2>. QED BY <2>1, QuietLeaves DEF Clean
<1>. QED BY <1>1, <1>2, Zenon DEF SaveClipboard, RestoreClipboard, SetClipboard

LEMMA RequestsAre ==
  ASSUME platform \in Platforms, NEW r \in Requests[platform]
  PROVE  /\ r.kind \in {"text", "keys", "html", "image"}
         /\ r.kind = "keys" => r.lines # <<>>
         /\ r.lines \in Seq(Seq(Texts)) /\ r.paste \in Seq(Texts) /\ Enter \in Texts
         /\ r.fast \in BOOLEAN /\ r.restore \in BOOLEAN /\ r.settable \in BOOLEAN
<1>1. /\ r.kind \in {"text", "keys", "html", "image"}
      /\ r.kind = "keys" => r.lines # <<>>
      /\ r.lines \in Seq(Seq(STRING)) /\ r.paste \in Seq(STRING) /\ Enter \in STRING
      /\ {r.fast, r.restore, r.settable} \subseteq BOOLEAN
  BY InjectionAssumption DEF InjectionAssumption
<1>2. STRING \subseteq Texts
  BY DEF Texts
<1>3. \A A, B : A \subseteq B => Seq(A) \subseteq Seq(B)
  OBVIOUS
<1>4. Seq(STRING) \subseteq Seq(Texts) /\ Seq(Seq(STRING)) \subseteq Seq(Seq(Texts))
  BY <1>2, <1>3, Zenon
<1>. QED BY <1>1, <1>2, <1>3, <1>4

LEMMA TextWhole ==
  ASSUME NEW lines \in Seq(Seq(Texts)), NEW fast, Enter \in Texts
  PROVE  Whole(EventText(lines, fast))
<1>. DEFINE between(i) == IF i > 1 THEN SendKeys(<<Enter>>, fast) ELSE <<>>
            parts == [i \in DOMAIN lines |-> between(i) \o SendString(lines[i], fast)]
<1>1. <<Enter>> \in Seq(Texts)
  OBVIOUS
<1>2. Whole(SendKeys(<<Enter>>, fast))
  BY <1>1, InputWhole
<1>3. ASSUME NEW i \in DOMAIN lines PROVE Whole(parts[i])
  <2>. DEFINE a == between(i)
              b == SendString(lines[i], fast)
  <2>1. lines[i] \in Seq(Texts)
    OBVIOUS
  <2>2. Whole(a) /\ Whole(b)
    BY <1>2, <2>1, SingleCalls, InputWhole
  <2>3. parts[i] = a \o b
    OBVIOUS
  <2>. HIDE DEF a, b, parts
  <2>. QED BY <2>2, <2>3, WholeJoined
<1>4. parts = [i \in DOMAIN lines |-> parts[i]] /\ EventText(lines, fast) = FlattenSeq(parts)
  BY DEF EventText
<1>. HIDE DEF parts
<1>. QED BY <1>3, <1>4, WholeParts

\* What is pasted leaves nothing pressed, and puts the clipboard in the guard's hands.
LEMMA PastedIs ==
  ASSUME platform \in Platforms, NEW r \in Requests[platform]
  PROVE  Clean(Pasted(r)) /\ (r.restore => SavesFirst(Pasted(r)))
<1>. DEFINE a == IF r.restore THEN SaveClipboard ELSE <<>>
            b == SetClipboard(r.settable)
            c == SendCombination(r.paste, r.fast)
            d == IF r.restore THEN RestoreClipboard ELSE <<>>
<1>1. Whole(c)
  BY RequestsAre, InputWhole
<1>2. Clean(<<>>) /\ Clean(c) /\ Untouched(c)
  BY <1>1, SingleCalls, InputUntouched
<1>3. Clean(a) /\ Clean(b) /\ Clean(d)
  BY <1>2, RequestsAre, ClipboardCalls
<1>4. Pasted(r) = ((a \o b) \o c) \o d
  BY DEF Pasted
<1>5. Clean(((a \o b) \o c) \o d)
  <2>. HIDE DEF a, b, c, d
  <2>1. Clean(a \o b)
    BY <1>3, CleanJoined
  <2>2. Clean((a \o b) \o c)
    BY <1>2, <2>1, CleanJoined
  <2>. QED BY <1>3, <2>2, CleanJoined
<1>6. ASSUME r.restore PROVE SavesFirst(((a \o b) \o c) \o d)
  <2>. DEFINE p == ((a \o b) \o c) \o d
  <2>1. /\ a = <<[op |-> "save"]>> /\ b = <<[op |-> "set", ok |-> r.settable]>>
        /\ d = <<[op |-> "restore"]>>
    BY <1>6 DEF SaveClipboard, SetClipboard, RestoreClipboard
  <2>2. c \in Seq(Calls)
    BY <1>2 DEF Clean
  <2>. HIDE DEF a, b, c, d
  <2>3. /\ Len(c) \in Nat /\ DOMAIN c = 1 .. Len(c)
        /\ DOMAIN p = 1 .. Len(c) + 3 /\ Len(p) = Len(c) + 3
        /\ p[1] = a[1] /\ p[2] = b[1] /\ p[Len(c) + 3] = d[1]
        /\ \A i \in 3 .. Len(c) + 2 : p[i] = c[i - 2]
    BY <2>1, <2>2
  <2>4. a[1].op = "save" /\ b[1].op = "set" /\ d[1].op = "restore"
    BY <2>1
  <2>5. p # <<>>
    BY <2>3
  <2>. HIDE DEF p
  <2>6. \A i \in 3 .. Len(c) + 2 : p[i].op \notin {"save", "restore"}
    <3>. SUFFICES ASSUME NEW i \in 3 .. Len(c) + 2 PROVE p[i].op \notin {"save", "restore"}
      OBVIOUS
    <3>1. i - 2 \in DOMAIN c /\ p[i] = c[i - 2]
      BY <2>3
    <3>2. ~Touches(c[i - 2])
      BY <1>2, <3>1 DEF Untouched
    <3>. QED BY <3>1, <3>2 DEF Touches
  <2>7. \A i \in DOMAIN p : /\ p[i].op = "restore" <=> i = Len(p)
                            /\ p[i].op = "save" => i = 1
    <3>. SUFFICES ASSUME NEW i \in DOMAIN p
                  PROVE  /\ p[i].op = "restore" <=> i = Len(p)
                         /\ p[i].op = "save" => i = 1
      OBVIOUS
    <3>1. i = 1 \/ i = 2 \/ i \in 3 .. Len(c) + 2 \/ i = Len(c) + 3
      BY <2>3
    <3>2. CASE i = 1
      BY <2>3, <2>4, <3>2
    <3>3. CASE i = 2
      BY <2>3, <2>4, <3>3
    <3>4. CASE i \in 3 .. Len(c) + 2
      BY <2>3, <2>6, <3>4
    <3>5. CASE i = Len(c) + 3
      BY <2>3, <2>4, <3>5
    <3>. QED BY <3>1, <3>2, <3>3, <3>4, <3>5
  <2>8. SavesFirst(p)
    BY <2>3, <2>4, <2>6, <2>7 DEF SavesFirst, RestoresLast
  <2>. QED BY <2>8 DEF p
<1>. QED BY <1>4, <1>5, <1>6

LEMMA ProgramIs ==
  ASSUME platform \in Platforms, NEW r \in Requests[platform]
  PROVE  /\ Clean(ProgramOf(r))
         /\ Pastes(r) /\ r.restore => SavesFirst(ProgramOf(r)) \/ Untouched(ProgramOf(r))
<1>1. CASE Pastes(r)
  <2>1. ProgramOf(r) = Pasted(r) \/ ProgramOf(r) = Fail
    BY <1>1, RequestsAre DEF Pastes, ProgramOf
  <2>2. Clean(Fail) /\ Untouched(Fail)
    BY SingleCalls, InputUntouched
  <2>. QED BY <2>1, <2>2, PastedIs
<1>2. CASE ~Pastes(r)
  <2>1. /\ r.kind = "text" => ProgramOf(r) = EventText(r.lines, r.fast)
        /\ r.kind = "keys" => ProgramOf(r) = SendKeys(r.lines[1], r.fast)
        /\ r.kind \in {"text", "keys"}
    BY <1>2, RequestsAre DEF Pastes, ProgramOf
  <2>2. r.kind = "text" => Clean(ProgramOf(r))
    BY <2>1, RequestsAre, TextWhole, InputUntouched
  <2>3. ASSUME r.kind = "keys" PROVE Clean(ProgramOf(r))
    <3>1. r.lines[1] \in Seq(Texts)
      BY <2>3, RequestsAre
    <3>. QED BY <2>1, <2>3, <3>1, InputWhole, InputUntouched
  <2>. QED BY <1>2, <2>1, <2>2, <2>3
<1>. QED BY <1>1, <1>2

-----------------------------------------------------------------------------
(* The invariants                                                           *)

Contents == {UserText, UserImage, UserCopy, "body"}

DeviceTypes ==
  /\ platform \in Platforms
  /\ held \in [Devices -> SUBSET Keys] /\ plugged \subseteq Devices
  /\ pressed \subseteq Keys
  /\ request \in Requests[platform]
  /\ pc \in {"idle", "delay", "run"}
  /\ program \in Seq(Calls) /\ (pc # "run" => program = <<>>)
  /\ clipboard \in Contents /\ before \in Contents /\ guard \in Contents \cup {NoGuard}

\* A key that is pressed was left so by a program that waited in vain, or the program
\* releases it, and so it does with those that it is still to press.  NothingLeftPressed
\* is what remains of this when the program has come to its end.
ReleasesOwn ==
  /\ LeavesOnly(program, {})
  /\ \A k \in OwnPressed : k \in stuck \/ ReleasedAfter(program, 0, k)

\* The text of the user is in the clipboard as long as the program has not saved it,
\* and then with the guard, which is what the program does last, whatever fails.
Ours == {before, UserCopy}
GuardHolds ==
  Pastes(request) /\ request.restore /\ before # UserImage /\ served > 0 =>
    /\ pc = "idle" => clipboard \in Ours \cup {UserImage}
    /\ pc = "delay" => clipboard \in Ours
    /\ pc = "run" => \/ SavesFirst(program) /\ clipboard \in Ours
                     \/ RestoresLast(program) /\ program[1].op # "save" /\ guard \in Ours
                     \/ Untouched(program) /\ clipboard \in Ours

DeviceInv == DeviceTypes /\ ReleasesOwn /\ GuardHolds

-----------------------------------------------------------------------------
(* What a step does to the program                                          *)

\* The first call is done.
LEMMA TailIs ==
  ASSUME NEW p, Clean(p), p # <<>>
  PROVE  /\ Clean(Tail(p))
         /\ \A k : ReleasedAfter(p, 0, k) /\ ~Releases(p[1], k) => ReleasedAfter(Tail(p), 0, k)
         /\ \A k \in Keys : Presses(p[1], k) => ReleasedAfter(Tail(p), 0, k)
         /\ \A k : Breaks(p[1]) => ~ReleasedAfter(p, 0, k)
<1>. DEFINE t == Tail(p)
<1>1. /\ p \in Seq(Calls) /\ t \in Seq(Calls) /\ Len(p) \in Nat \ {0}
      /\ DOMAIN p = 1 .. Len(p) /\ DOMAIN t = 1 .. Len(p) - 1
      /\ \A i \in 1 .. Len(p) - 1 : t[i] = p[i + 1]
  BY DEF Clean
<1>. HIDE DEF t
<1>2. ASSUME NEW i \in DOMAIN p, NEW k, ReleasedAfter(p, i, k)
      PROVE  ReleasedAfter(t, i - 1, k)
  <2>1. PICK j \in DOMAIN p : /\ i < j /\ Releases(p[j], k)
                              /\ \A l \in DOMAIN p : i < l /\ l < j => ~Breaks(p[l])
    BY <1>2 DEF ReleasedAfter
  <2>2. j - 1 \in DOMAIN t /\ i - 1 < j - 1 /\ Releases(t[j - 1], k)
    BY <1>1, <2>1
  <2>3. ASSUME NEW l \in DOMAIN t, i - 1 < l, l < j - 1 PROVE ~Breaks(t[l])
    <3>1. i \in Nat /\ j \in Nat /\ l \in Nat
      BY <1>1
    <3>2. l + 1 \in DOMAIN p /\ t[l] = p[l + 1]
      BY <1>1
    <3>3. i < l + 1 /\ l + 1 < j
      BY <2>3, <3>1
    <3>. QED BY <2>1, <3>2, <3>3
  <2>. QED BY <2>2, <2>3 DEF ReleasedAfter
<1>3. ASSUME NEW k, ReleasedAfter(p, 0, k), ~Releases(p[1], k) PROVE ReleasedAfter(t, 0, k)
  <2>1. PICK j \in DOMAIN p : /\ 0 < j /\ Releases(p[j], k)
                              /\ \A l \in DOMAIN p : 0 < l /\ l < j => ~Breaks(p[l])
    BY <1>3 DEF ReleasedAfter
  <2>2. j # 1
    BY <1>3, <2>1
  <2>3. j - 1 \in DOMAIN t /\ 0 < j - 1 /\ Releases(t[j - 1], k)
    BY <1>1, <2>1, <2>2
  <2>4. ASSUME NEW l \in DOMAIN t, 0 < l, l < j - 1 PROVE ~Breaks(t[l])
    <3>1. j \in Nat /\ l \in Nat
      BY <1>1
    <3>2. l + 1 \in DOMAIN p /\ t[l] = p[l + 1]
      BY <1>1
    <3>3. 0 < l + 1 /\ l + 1 < j
      BY <2>4, <3>1
    <3>. QED BY <2>1, <3>2, <3>3
  <2>. QED BY <2>3, <2>4 DEF ReleasedAfter
<1>4. 1 \in DOMAIN p /\ 1 - 1 = 0
  BY <1>1
<1>5. ASSUME NEW k \in Keys, Presses(p[1], k) PROVE ReleasedAfter(t, 0, k)
  <2>1. ReleasedAfter(p, 1, k)
    BY <1>4, <1>5 DEF Clean, LeavesOnly
  <2>. QED BY <1>2, <1>4, <2>1
<1>6. ASSUME NEW i \in DOMAIN t, NEW k \in Keys, Presses(t[i], k) PROVE ReleasedAfter(t, i, k)
  <2>1. i + 1 \in DOMAIN p /\ Presses(p[i + 1], k) /\ (i + 1) - 1 = i
    BY <1>1, <1>6
  <2>2. ReleasedAfter(p, i + 1, k)
    BY <2>1 DEF Clean, LeavesOnly
  <2>. QED BY <1>2, <2>1, <2>2
<1>7. ASSUME NEW k, Breaks(p[1]), ReleasedAfter(p, 0, k) PROVE FALSE
  <2>1. PICK j \in DOMAIN p : /\ 0 < j /\ Releases(p[j], k)
                              /\ \A l \in DOMAIN p : 0 < l /\ l < j => ~Breaks(p[l])
    BY <1>7 DEF ReleasedAfter
  <2>2. CASE j = 1
    BY <1>7, <2>1, <2>2 DEF Breaks, Releases
  <2>3. CASE j # 1
    <3>1. 0 < 1 /\ 1 < j
      BY <1>1, <2>3
    <3>. QED BY <1>4, <1>7, <2>1, <3>1
  <2>. QED BY <2>2, <2>3
<1>8. Clean(t)
  BY <1>1, <1>6 DEF Clean, LeavesOnly
<1>. QED BY <1>3, <1>5, <1>7, <1>8 DEF t

\* A part of the first call is done.
LEMMA HeadIs ==
  ASSUME NEW p, Clean(p), p # <<>>, NEW c \in Calls, c.op = p[1].op,
         c.op \in {"press", "release"}, c.keys \subseteq p[1].keys
  PROVE  /\ Clean(<<c>> \o Tail(p))
         /\ \A k : ReleasedAfter(p, 0, k) /\ (Releases(p[1], k) => k \in c.keys)
                   => ReleasedAfter(<<c>> \o Tail(p), 0, k)
         /\ \A k \in Keys : Presses(p[1], k) => ReleasedAfter(<<c>> \o Tail(p), 0, k)
<1>. DEFINE t == <<c>> \o Tail(p)
<1>1. /\ p \in Seq(Calls) /\ t \in Seq(Calls) /\ Len(p) \in Nat \ {0}
      /\ DOMAIN p = 1 .. Len(p) /\ DOMAIN t = DOMAIN p /\ t[1] = c
      /\ \A i \in 2 .. Len(p) : t[i] = p[i]
  BY DEF Clean
<1>. HIDE DEF t
<1>2. \A i \in DOMAIN p : ~Breaks(p[i]) => ~Breaks(t[i])
  BY <1>1 DEF Breaks
<1>3. ASSUME NEW i \in Nat, NEW k, ReleasedAfter(p, i, k),
             i = 0 /\ Releases(p[1], k) => k \in c.keys
      PROVE  ReleasedAfter(t, i, k)
  <2>1. PICK j \in DOMAIN p : /\ i < j /\ Releases(p[j], k)
                              /\ \A l \in DOMAIN p : i < l /\ l < j => ~Breaks(p[l])
    BY <1>3 DEF ReleasedAfter
  <2>2. Releases(t[j], k)
    <3>1. CASE j = 1
      <4>1. i = 0
        BY <1>1, <2>1, <3>1
      <4>. QED BY <1>1, <1>3, <2>1, <3>1, <4>1 DEF Releases
    <3>2. CASE j # 1
      BY <1>1, <2>1, <3>2
    <3>. QED BY <3>1, <3>2
  <2>. QED BY <1>1, <1>2, <2>1, <2>2 DEF ReleasedAfter
<1>4. \A i \in DOMAIN p, k \in Keys : Presses(t[i], k) => Presses(p[i], k)
  BY <1>1 DEF Presses
<1>5. ASSUME NEW i \in DOMAIN t, NEW k \in Keys, Presses(t[i], k) PROVE ReleasedAfter(t, i, k)
  <2>1. Presses(p[i], k) /\ i \in Nat /\ i # 0
    BY <1>1, <1>4, <1>5
  <2>2. ReleasedAfter(p, i, k)
    BY <1>1, <2>1 DEF Clean, LeavesOnly
  <2>. QED BY <1>3, <2>1, <2>2
<1>6. ASSUME NEW k \in Keys, Presses(p[1], k) PROVE ReleasedAfter(t, 0, k)
  <2>1. 1 \in DOMAIN p
    BY <1>1
  <2>2. ReleasedAfter(p, 1, k)
    BY <1>6, <2>1 DEF Clean, LeavesOnly
  <2>3. PICK j \in DOMAIN p : /\ 1 < j /\ Releases(p[j], k)
                              /\ \A l \in DOMAIN p : 1 < l /\ l < j => ~Breaks(p[l])
    BY <2>2 DEF ReleasedAfter
  <2>4. ~Breaks(p[1])
    BY <1>6 DEF Presses, Breaks
  <2>5. \A l \in DOMAIN p : 0 < l /\ l < j => ~Breaks(p[l])
    <3>1. \A l \in DOMAIN p : 0 < l => l = 1 \/ 1 < l
      BY <1>1
    <3>. QED BY <2>3, <2>4, <3>1
  <2>6. 0 < j
    BY <1>1, <2>3
  <2>7. ReleasedAfter(p, 0, k)
    BY <2>3, <2>5, <2>6 DEF ReleasedAfter
  <2>8. ~Releases(p[1], k)
    BY <1>6 DEF Presses, Releases
  <2>. QED BY <1>3, <2>7, <2>8
<1>7. Clean(t)
  BY <1>1, <1>5 DEF Clean, LeavesOnly
<1>. QED BY <1>3, <1>6, <1>7 DEF t

\* What is left of a program that breaks off.
LEMMA GuardIs ==
  ASSUME NEW p \in Seq(Calls)
  PROVE  /\ Clean(OnlyGuard(p))
         /\ RestoresLast(p) => RestoresLast(OnlyGuard(p)) /\ OnlyGuard(p)[1].op # "save"
         /\ Untouched(p) => Untouched(OnlyGuard(p))
<1>1. Clean(RestoreClipboard) /\ Clean(<<>>)
  BY ClipboardCalls, SingleCalls, InputUntouched
<1>2. RestoresLast(RestoreClipboard) /\ RestoreClipboard[1].op # "save"
  BY DEF RestoresLast, RestoreClipboard
<1>3. RestoresLast(p) => \E i \in DOMAIN p : p[i].op = "restore"
  <2>. SUFFICES ASSUME RestoresLast(p) PROVE \E i \in DOMAIN p : p[i].op = "restore"
    OBVIOUS
  <2>1. Len(p) \in DOMAIN p
    BY DEF RestoresLast
  <2>. QED BY <2>1 DEF RestoresLast
<1>4. Untouched(p) => ~ \E i \in DOMAIN p : p[i].op = "restore"
  BY DEF Untouched, Touches
<1>5. Untouched(<<>>)
  BY DEF Untouched
<1>6. CASE \E i \in DOMAIN p : p[i].op = "restore"
  <2>1. OnlyGuard(p) = RestoreClipboard
    BY <1>6 DEF OnlyGuard
  <2>. QED BY <1>1, <1>2, <1>4, <1>6, <2>1
<1>7. CASE ~ \E i \in DOMAIN p : p[i].op = "restore"
  <2>1. OnlyGuard(p) = <<>>
    BY <1>7 DEF OnlyGuard
  <2>. QED BY <1>1, <1>3, <1>5, <1>7, <2>1
<1>. QED BY <1>6, <1>7

\* What becomes of the clipboard's guard with the first call.
LEMMA ShapeIs ==
  ASSUME NEW p \in Seq(Calls), p # <<>>
  PROVE  /\ RestoresLast(p) /\ p[1].op # "restore"
              => RestoresLast(Tail(p)) /\ Tail(p)[1].op # "save"
         /\ RestoresLast(p) /\ p[1].op = "restore" => Tail(p) = <<>>
         /\ Untouched(p) => Untouched(Tail(p)) /\ ~Touches(p[1])
         /\ \A c : c.op = p[1].op =>
              /\ RestoresLast(p) => RestoresLast(<<c>> \o Tail(p)) /\ (<<c>> \o Tail(p))[1].op = c.op
              /\ Untouched(p) => Untouched(<<c>> \o Tail(p))
<1>. DEFINE t == Tail(p)
<1>7. t \in Seq(Calls) /\ Len(p) \in Nat \ {0} /\ Len(t) = Len(p) - 1
  OBVIOUS
<1>8. /\ DOMAIN p = 1 .. Len(p) /\ DOMAIN t = 1 .. Len(p) - 1
      /\ \A i \in 1 .. Len(p) - 1 : t[i] = p[i + 1]
  OBVIOUS
<1>9. (Len(p) = 1 => t = <<>>) /\ (Len(p) # 1 => t # <<>>)
  <2>. HIDE DEF t
  <2>1. t = <<>> <=> Len(t) = 0
    <3>. SUFFICES ASSUME t \in Seq(Calls) PROVE t = <<>> <=> Len(t) = 0
      BY <1>7
    <3>. QED OBVIOUS
  <2>2. Len(p) = 1 <=> Len(t) = 0
    <3>. DEFINE n == Len(p)
                m == Len(t)
    <3>1. n \in Nat /\ m = n - 1
      BY <1>7
    <3>. HIDE DEF n, m
    <3>2. n = 1 <=> m = 0
      BY <3>1
    <3>. QED BY <3>2 DEF n, m
  <2>. QED BY <2>1, <2>2
<1>1. /\ t \in Seq(Calls) /\ Len(p) \in Nat \ {0} /\ Len(t) = Len(p) - 1
      /\ DOMAIN p = 1 .. Len(p) /\ DOMAIN t = 1 .. Len(p) - 1
      /\ \A i \in 1 .. Len(p) - 1 : t[i] = p[i + 1]
      /\ Len(p) = 1 => t = <<>>
      /\ Len(p) # 1 => t # <<>>
  BY <1>7, <1>8, <1>9
<1>. HIDE DEF t
<1>2. ASSUME NEW c
      PROVE  /\ <<c>> \o t # <<>> /\ Len(<<c>> \o t) = Len(p) /\ DOMAIN (<<c>> \o t) = DOMAIN p
             /\ (<<c>> \o t)[1] = c /\ \A i \in 2 .. Len(p) : (<<c>> \o t)[i] = p[i]
  <2>. DEFINE S == Calls \cup {c}
  <2>1. <<c>> \in Seq(S) /\ t \in Seq(S) /\ Len(<<c>>) = 1 /\ <<c>>[1] = c
    BY <1>1
  <2>. HIDE DEF S
  <2>2. /\ <<c>> \o t \in Seq(S) /\ Len(<<c>> \o t) = 1 + Len(t)
        /\ DOMAIN (<<c>> \o t) = 1 .. 1 + Len(t)
        /\ (<<c>> \o t)[1] = c /\ \A i \in 2 .. 1 + Len(t) : (<<c>> \o t)[i] = t[i - 1]
    BY <2>1
  <2>3. \A i \in 2 .. Len(p) : i \in 2 .. 1 + Len(t) /\ t[i - 1] = p[i]
    BY <1>1
  <2>. QED BY <1>1, <2>2, <2>3
<1>3. ASSUME RestoresLast(p), p[1].op # "restore" PROVE RestoresLast(t) /\ t[1].op # "save"
  <2>1. Len(p) # 1 /\ 1 \in DOMAIN p
    BY <1>1, <1>3 DEF RestoresLast
  <2>2. \A i \in DOMAIN t : i + 1 \in DOMAIN p /\ t[i] = p[i + 1] /\ i + 1 # 1
                           /\ (i = Len(t) <=> i + 1 = Len(p))
    BY <1>1
  <2>3. 1 \in DOMAIN t /\ t # <<>>
    BY <1>1, <2>1
  <2>. QED BY <1>3, <2>2, <2>3 DEF RestoresLast
<1>4. ASSUME RestoresLast(p), p[1].op = "restore" PROVE t = <<>>
  BY <1>1, <1>4 DEF RestoresLast
<1>5. ASSUME Untouched(p) PROVE Untouched(t) /\ ~Touches(p[1])
  <2>1. 1 \in DOMAIN p /\ \A i \in DOMAIN t : i + 1 \in DOMAIN p /\ t[i] = p[i + 1]
    BY <1>1
  <2>. QED BY <1>5, <2>1 DEF Untouched
<1>6. ASSUME NEW c, c.op = p[1].op
      PROVE  /\ RestoresLast(p) => RestoresLast(<<c>> \o t) /\ (<<c>> \o t)[1].op = c.op
             /\ Untouched(p) => Untouched(<<c>> \o t)
  <2>. DEFINE q == <<c>> \o t
  <2>1. /\ q # <<>> /\ Len(q) = Len(p) /\ DOMAIN q = DOMAIN p /\ q[1] = c
        /\ \A i \in 2 .. Len(p) : q[i] = p[i]
    BY <1>2
  <2>. HIDE DEF q
  <2>2. \A i \in DOMAIN q : q[i].op = p[i].op
    BY <1>1, <1>6, <2>1
  <2>3. RestoresLast(p) => RestoresLast(q) /\ q[1].op = c.op
    BY <2>1, <2>2 DEF RestoresLast
  <2>4. Untouched(p) => Untouched(q)
    BY <2>1, <2>2 DEF Untouched, Touches
  <2>. QED BY <2>3, <2>4 DEF q
<1>. QED BY <1>3, <1>4, <1>5, <1>6 DEF t


-----------------------------------------------------------------------------
(* Every step keeps the invariants                                          *)

LEMMA DeviceInit == Init => DeviceInv
<1>. SUFFICES ASSUME Init PROVE DeviceInv
  OBVIOUS
<1>1. platform \in Platforms /\ pressed = {} /\ program = <<>> /\ pc = "idle" /\ served = 0
  BY DEF Init, DetectionInit, InjectionInit
<1>2. held \in [Devices -> SUBSET Keys] /\ plugged \subseteq Devices
  BY DetectionAssumption DEF DetectionAssumption, Init, DetectionInit
<1>3. request \in Requests[platform]
  BY <1>1, InjectionAssumption DEF InjectionAssumption, Init, InjectionInit
<1>4. clipboard \in Contents /\ before \in Contents /\ guard \in Contents \cup {NoGuard}
  BY DEF Contents, Init, InjectionInit
<1>5. DeviceTypes
  BY <1>1, <1>2, <1>3, <1>4 DEF DeviceTypes
<1>6. LeavesOnly(<<>>, {})
  BY SingleCalls, InputUntouched DEF Clean
<1>7. OwnPressed = {}
  BY <1>1 DEF OwnPressed
<1>8. GuardHolds
  BY <1>1 DEF GuardHolds
<1>. QED BY <1>1, <1>5, <1>6, <1>7, <1>8 DEF DeviceInv, ReleasesOwn

LEMMA OwnKept ==
  ASSUME ReleasesOwn, UNCHANGED <<program, stuck>>, OwnPressed' \subseteq OwnPressed
  PROVE  ReleasesOwn'
BY DEF ReleasesOwn

LEMMA GuardKept ==
  ASSUME GuardHolds,
         UNCHANGED <<platform, pc, request, served, before, program, clipboard, guard>>
  PROVE  GuardHolds'
<1>1. Pastes(request)' = Pastes(request) /\ Ours' = Ours
  BY DEF Pastes, UsesClipboard, Ours
<1>. QED BY <1>1 DEF GuardHolds

\* The keys the program has pressed, when neither the keyboards nor they change.
LEMMA OwnIs ==
  /\ UNCHANGED <<platform, held, plugged, pressed>> => OwnPressed' = OwnPressed
  /\ UNCHANGED <<platform, held, plugged>> =>
       \A k : /\ pressed' = pressed \cup {k} => OwnPressed' \subseteq OwnPressed \cup {k}
              /\ pressed' = pressed \ {k} => OwnPressed' = OwnPressed \ {k}
  /\ pressed' = {} => OwnPressed' = {}
BY DEF OwnPressed, HeldKeys

\* The program of the last call, the wait that timed out, or an error.
LEMMA GuardMoves ==
  ASSUME DeviceTypes, GuardHolds, pc = "run", program # <<>>, ~Touches(program[1]),
         UNCHANGED <<platform, pc, request, served, before, clipboard, guard>>,
         \/ program' = Tail(program)
         \/ program' = OnlyGuard(program)
         \/ \E c : c.op = program[1].op /\ program' = <<c>> \o Tail(program)
  PROVE  GuardHolds'
<1>1. Pastes(request)' = Pastes(request) /\ Ours' = Ours
  BY DEF Pastes, UsesClipboard, Ours
<1>. SUFFICES ASSUME Pastes(request), request.restore, before # UserImage, served > 0
              PROVE  \/ SavesFirst(program') /\ clipboard \in Ours
                     \/ RestoresLast(program') /\ program'[1].op # "save" /\ guard \in Ours
                     \/ Untouched(program') /\ clipboard \in Ours
  BY <1>1 DEF GuardHolds
<1>2. program \in Seq(Calls)
  BY DEF DeviceTypes
<1>3. program[1].op # "save" /\ program[1].op # "restore"
  BY DEF Touches
<1>4. \/ RestoresLast(program) /\ guard \in Ours
      \/ Untouched(program) /\ clipboard \in Ours
  BY <1>3 DEF GuardHolds, SavesFirst
<1>5. CASE program' = Tail(program)
  BY <1>2, <1>3, <1>4, <1>5, ShapeIs
<1>6. CASE program' = OnlyGuard(program)
  BY <1>2, <1>4, <1>6, GuardIs
<1>7. CASE \E c : c.op = program[1].op /\ program' = <<c>> \o Tail(program)
  <2>1. PICK c : c.op = program[1].op /\ program' = <<c>> \o Tail(program)
    BY <1>7
  <2>. QED BY <1>2, <1>3, <1>4, <2>1, ShapeIs
<1>. QED BY <1>5, <1>6, <1>7

\* The user at the keyboards.
LEMMA PressesKeep ==
  ASSUME DeviceInv, NEW d \in Devices, NEW k \in Keys, UserPresses(d, k) \/ UserReleases(d, k)
  PROVE  DeviceInv'
<1>1. UNCHANGED <<platform, plugged, pc, request, served, before, stuck, program, clipboard, guard>>
  BY DEF UserPresses, UserReleases, given
<1>2. held' \in [Devices -> SUBSET Keys] /\ pressed' \subseteq Keys
  BY DEF DeviceInv, DeviceTypes, UserPresses, UserReleases
<1>3. DeviceTypes'
  BY <1>1, <1>2 DEF DeviceInv, DeviceTypes
<1>4. OwnPressed' \subseteq OwnPressed
  <2>1. CASE platform = "evdev"
    <3>1. pressed' = pressed
      BY <2>1 DEF UserPresses, UserReleases
    <3>. QED BY <1>1, <2>1, <3>1 DEF OwnPressed
  <2>2. CASE platform # "evdev"
    <3>0. held \in [Devices -> SUBSET Keys] /\ plugged \subseteq Devices /\ d \in plugged
      BY DEF DeviceInv, DeviceTypes, UserPresses, UserReleases
    <3>1. CASE UserPresses(d, k)
      <4>1. held' = [held EXCEPT ![d] = @ \cup {k}] /\ pressed' = pressed \cup {k}
        BY <2>2, <3>1 DEF UserPresses
      <4>2. HeldKeys \cup {k} \subseteq HeldKeys'
        BY <1>1, <3>0, <4>1 DEF HeldKeys
      <4>. QED BY <1>1, <2>2, <4>1, <4>2 DEF OwnPressed
    <3>2. CASE UserReleases(d, k)
      <4>1. held' = [held EXCEPT ![d] = @ \ {k}] /\ pressed' = pressed \ {k}
        BY <2>2, <3>2 DEF UserReleases
      <4>2. HeldKeys \ {k} \subseteq HeldKeys'
        BY <1>1, <3>0, <4>1 DEF HeldKeys
      <4>. QED BY <1>1, <2>2, <4>1, <4>2 DEF OwnPressed
    <3>. QED BY <3>1, <3>2
  <2>. QED BY <2>1, <2>2
<1>5. ReleasesOwn'
  BY <1>1, <1>4, OwnKept DEF DeviceInv
<1>6. GuardHolds'
  BY <1>1, GuardKept DEF DeviceInv
<1>. QED BY <1>3, <1>5, <1>6 DEF DeviceInv

LEMMA UnplugKeeps ==
  ASSUME DeviceInv, NEW d \in Devices, Unplug(d)
  PROVE  DeviceInv'
<1>1. /\ UNCHANGED <<platform, held, pc, request, served, before, stuck, program, pressed,
                     clipboard, guard>>
      /\ platform = "evdev" /\ plugged' \subseteq plugged
  BY DEF Unplug, given
<1>2. DeviceTypes'
  BY <1>1 DEF DeviceInv, DeviceTypes
<1>3. OwnPressed' \subseteq OwnPressed
  BY <1>1 DEF OwnPressed
<1>4. ReleasesOwn' /\ GuardHolds'
  BY <1>1, <1>3, OwnKept, GuardKept DEF DeviceInv
<1>. QED BY <1>2, <1>4 DEF DeviceInv

\* What only moves the detection, the application or the stores of the worker.
LEMMA StoresKeep ==
  ASSUME DeviceInv, UNCHANGED <<platform, held, plugged, pc, request, served, before, stuck,
                                program, pressed, clipboard, guard>>
  PROVE  DeviceInv'
<1>1. DeviceTypes'
  BY DEF DeviceInv, DeviceTypes
<1>2. OwnPressed' = OwnPressed
  BY OwnIs
<1>3. ReleasesOwn' /\ GuardHolds'
  BY <1>2, OwnKept, GuardKept DEF DeviceInv
<1>. QED BY <1>1, <1>3 DEF DeviceInv

LEMMA CopiesKeep ==
  ASSUME DeviceInv, UserCopies
  PROVE  DeviceInv'
<1>1. /\ UNCHANGED <<platform, held, plugged, pc, request, served, before, stuck, program,
                     pressed, guard>>
      /\ \/ pc = "idle" /\ clipboard' = UserImage
         \/ clipboard' = UserCopy
  BY DEF UserCopies, given
<1>2. DeviceTypes'
  BY <1>1 DEF DeviceInv, DeviceTypes, Contents
<1>3. ReleasesOwn'
  BY <1>1, OwnIs, OwnKept DEF DeviceInv
<1>4. Pastes(request)' = Pastes(request) /\ Ours' = Ours /\ UserCopy \in Ours
  BY <1>1 DEF Pastes, UsesClipboard, Ours
<1>5. GuardHolds'
  BY <1>1, <1>4 DEF DeviceInv, GuardHolds
<1>. QED BY <1>2, <1>3, <1>5 DEF DeviceInv

LEMMA RequestedKeeps ==
  ASSUME DeviceInv, NEW r \in Requests[platform], Requested(r)
  PROVE  DeviceInv'
<1>1. /\ UNCHANGED <<platform, held, plugged, stuck, program, pressed, clipboard, guard>>
      /\ pc = "idle" /\ pc' = "delay" /\ request' = r /\ before' = clipboard
  BY DEF Requested, engineIdle
<1>2. DeviceTypes'
  BY <1>1 DEF DeviceInv, DeviceTypes
<1>3. ReleasesOwn'
  BY <1>1, OwnIs, OwnKept DEF DeviceInv
<1>4. GuardHolds'
  BY <1>1 DEF GuardHolds, Ours
<1>. QED BY <1>2, <1>3, <1>4 DEF DeviceInv

\* A program begins while nothing is pressed but what a wait in vain has left.
LEMMA BeginKeeps ==
  ASSUME DeviceInv, ModifiersReleased \/ DelayTimesOut
  PROVE  DeviceInv'
<1>1. /\ UNCHANGED <<platform, held, plugged, request, served, before, stuck, pressed,
                     clipboard, guard>>
      /\ pc = "delay" /\ pc' = "run" /\ program' = ProgramOf(request)
  BY DEF ModifiersReleased, DelayTimesOut, Begin, engineIdle, given
<1>2. platform \in Platforms /\ request \in Requests[platform] /\ program = <<>>
  BY <1>1 DEF DeviceInv, DeviceTypes
<1>3. /\ Clean(program')
      /\ Pastes(request) /\ request.restore => SavesFirst(program') \/ Untouched(program')
  BY <1>1, <1>2, ProgramIs
<1>4. DeviceTypes'
  BY <1>1, <1>3 DEF DeviceInv, DeviceTypes, Clean
<1>5. OwnPressed' = OwnPressed /\ OwnPressed \subseteq stuck
  <2>1. \A k : ~ReleasedAfter(<<>>, 0, k)
    BY DEF ReleasedAfter
  <2>. QED BY <1>1, <1>2, <2>1, OwnIs DEF DeviceInv, ReleasesOwn
<1>6. ReleasesOwn'
  BY <1>1, <1>3, <1>5 DEF ReleasesOwn, Clean
<1>7. Pastes(request)' = Pastes(request) /\ Ours' = Ours
  BY <1>1 DEF Pastes, UsesClipboard, Ours
<1>8. GuardHolds'
  BY <1>1, <1>3, <1>7 DEF DeviceInv, GuardHolds
<1>. QED BY <1>4, <1>6, <1>8 DEF DeviceInv

\* A call that neither presses nor releases keys, and that is no matter of the clipboard.
QuietStep(op) ==
  /\ pc = "run" /\ program # <<>> /\ program[1].op = op
  /\ op \notin {"press", "release", "save", "set", "restore"}
  /\ program' = Tail(program)
  /\ UNCHANGED <<platform, held, plugged, pc, request, served, before, stuck, clipboard, guard>>

LEMMA ProgramTypes == DeviceInv => Clean(program)
BY DEF DeviceInv, DeviceTypes, ReleasesOwn, Clean

LEMMA QuietKeeps ==
  ASSUME DeviceInv, NEW op, QuietStep(op), pressed' = pressed \/ pressed' = {}
  PROVE  DeviceInv'
<1>1. Clean(program) /\ program # <<>>
  BY ProgramTypes DEF QuietStep
<1>2. program' = Tail(program) /\ Clean(program')
  BY <1>1, TailIs DEF QuietStep
<1>3. DeviceTypes'
  BY <1>2 DEF DeviceInv, DeviceTypes, QuietStep, Clean
<1>4. \A k \in OwnPressed' : k \in OwnPressed
  BY OwnIs DEF QuietStep
<1>5. \A k : ~Releases(program[1], k)
  BY DEF QuietStep, Releases
<1>6. \A k \in OwnPressed' : k \in stuck' \/ ReleasedAfter(program', 0, k)
  BY <1>1, <1>2, <1>4, <1>5, TailIs DEF DeviceInv, ReleasesOwn, QuietStep
<1>7. ReleasesOwn'
  BY <1>2, <1>6 DEF ReleasesOwn, Clean
<1>8. GuardHolds'
  BY <1>2, GuardMoves DEF DeviceInv, QuietStep, Touches
<1>. QED BY <1>3, <1>7, <1>8 DEF DeviceInv

\* An error, or a wait in vain, of which stuck has what it leaves pressed.
LEMMA AbortKeeps ==
  ASSUME DeviceInv, pc = "run", program # <<>>, program' = OnlyGuard(program),
         ~Touches(program[1]) \/ program[1].op = "set",
         (Breaks(program[1]) /\ stuck' = stuck) \/ stuck' = OwnPressed,
         UNCHANGED <<platform, held, plugged, pc, request, served, before, pressed, clipboard, guard>>
  PROVE  DeviceInv'
<1>1. Clean(program) /\ program \in Seq(Calls)
  BY ProgramTypes DEF Clean
<1>2. Clean(program')
  BY <1>1, GuardIs
<1>3. DeviceTypes'
  BY <1>2 DEF DeviceInv, DeviceTypes, Clean
<1>4. OwnPressed' = OwnPressed
  BY OwnIs
<1>5. OwnPressed \subseteq stuck'
  BY <1>1, TailIs DEF DeviceInv, ReleasesOwn
<1>6. ReleasesOwn'
  BY <1>2, <1>4, <1>5 DEF ReleasesOwn, Clean
<1>7. GuardHolds'
  <2>1. CASE ~Touches(program[1])
    BY <2>1, GuardMoves DEF DeviceInv
  <2>2. CASE program[1].op = "set"
    <3>1. Pastes(request)' = Pastes(request) /\ Ours' = Ours
      BY DEF Pastes, UsesClipboard, Ours
    <3>2. Untouched(program) => ~Touches(program[1])
      BY <1>1, ShapeIs
    <3>3. RestoresLast(program) => RestoresLast(program') /\ program'[1].op # "save"
      BY <1>1, GuardIs
    <3>. QED BY <2>2, <3>1, <3>2, <3>3 DEF DeviceInv, GuardHolds, SavesFirst, Touches
  <2>. QED BY <2>1, <2>2
<1>. QED BY <1>3, <1>6, <1>7 DEF DeviceInv

LEMMA WaitKeeps ==
  ASSUME DeviceInv, WaitTimesOut
  PROVE  DeviceInv'
<1>1. /\ pc = "run" /\ program # <<>> /\ program' = OnlyGuard(program) /\ stuck' = OwnPressed
      /\ UNCHANGED <<platform, held, plugged, pc, request, served, before, pressed, clipboard, guard>>
      /\ Awaited # {}
  BY DEF WaitTimesOut, Abort, engineIdle
<1>2. program[1].op = "wait" \/ program[1].op = "press"
  <2>1. program \in Seq(Calls) /\ Head(program) = program[1]
    BY <1>1 DEF DeviceInv, DeviceTypes
  <2>. QED BY <1>1, <2>1 DEF Awaited, Call
<1>3. ~Touches(program[1])
  BY <1>2 DEF Touches
<1>. QED BY <1>1, <1>3, AbortKeeps

LEMMA RunningIs ==
  ASSUME DeviceInv, NEW op, Running(op)
  PROVE  pc = "run" /\ program # <<>> /\ Call = program[1] /\ program[1].op = op
         /\ program[1] \in Calls /\ 1 \in DOMAIN program
<1>1. program \in Seq(Calls)
  BY DEF DeviceInv, DeviceTypes
<1>. QED BY <1>1 DEF Running, Call

LEMMA QuietStepsKeep ==
  ASSUME DeviceInv, WaitsForKey \/ SendsEvent \/ CountsEvents \/ ReleasesAllKeys
  PROVE  DeviceInv'
<1>1. CASE WaitsForKey
  <2>1. QuietStep("wait") /\ pressed' = pressed
    BY <1>1, RunningIs DEF WaitsForKey, QuietStep, Done, engineIdle, given
  <2>. QED BY <2>1, QuietKeeps
<1>2. CASE SendsEvent
  <2>1. QuietStep("send") /\ pressed' = pressed
    BY <1>2, RunningIs DEF SendsEvent, QuietStep, Done, engineIdle, given
  <2>. QED BY <2>1, QuietKeeps
<1>3. CASE CountsEvents
  <2>1. QuietStep("count") /\ pressed' = pressed
    BY <1>3, RunningIs DEF CountsEvents, QuietStep, Done, engineIdle, given
  <2>. QED BY <2>1, QuietKeeps
<1>4. CASE ReleasesAllKeys
  <2>1. QuietStep("release all") /\ pressed' = {}
    BY <1>4, RunningIs DEF ReleasesAllKeys, QuietStep, Done, engineIdle, given
  <2>. QED BY <2>1, QuietKeeps
<1>. QED BY <1>1, <1>2, <1>3, <1>4

LEMMA FailsKeep ==
  ASSUME DeviceInv, Fails
  PROVE  DeviceInv'
<1>1. /\ pc = "run" /\ program # <<>> /\ program' = OnlyGuard(program) /\ stuck' = stuck
      /\ UNCHANGED <<platform, held, plugged, pc, request, served, before, pressed, clipboard, guard>>
      /\ Breaks(program[1]) /\ ~Touches(program[1])
  BY RunningIs DEF Fails, Abort, engineIdle, given, Breaks, Touches
<1>. QED BY <1>1, AbortKeeps

\* One of the keys of a call is done: the call has the others left, or is done.
KeyDone(k) ==
  program' = (IF Call.keys = {k} THEN <<>> ELSE <<[Call EXCEPT !.keys = @ \ {k}]>>) \o Tail(program)

LEMMA KeyDoneIs ==
  ASSUME DeviceInv, pc = "run", program # <<>>, Call = program[1],
         program[1].op \in {"press", "release"}, NEW k \in program[1].keys, KeyDone(k)
  PROVE  /\ Clean(program')
         /\ \A x : ReleasedAfter(program, 0, x) /\ (Releases(program[1], x) => x # k)
                   => ReleasedAfter(program', 0, x)
         /\ \A x \in Keys : Presses(program[1], x) => ReleasedAfter(program', 0, x)
         /\ UNCHANGED <<platform, pc, request, served, before, clipboard, guard>> => GuardHolds'
<1>1. Clean(program) /\ program \in Seq(Calls)
  BY ProgramTypes DEF Clean
<1>2. CASE Call.keys = {k}
  <2>1. program' = Tail(program)
    BY <1>1, <1>2 DEF KeyDone
  <2>2. \A x : Releases(program[1], x) => x = k
    BY <1>2 DEF Releases
  <2>3. /\ Clean(Tail(program))
        /\ \A x : ReleasedAfter(program, 0, x) /\ ~Releases(program[1], x)
                  => ReleasedAfter(Tail(program), 0, x)
        /\ \A x \in Keys : Presses(program[1], x) => ReleasedAfter(Tail(program), 0, x)
    BY <1>1, TailIs
  <2>4. UNCHANGED <<platform, pc, request, served, before, clipboard, guard>> => GuardHolds'
    BY <2>1, GuardMoves DEF DeviceInv, Touches
  <2>. QED BY <2>1, <2>2, <2>3, <2>4
<1>3. CASE Call.keys # {k}
  <2>. DEFINE c == [Call EXCEPT !.keys = @ \ {k}]
  <2>1. program' = <<c>> \o Tail(program)
    BY <1>3 DEF KeyDone
  <2>2. program[1] \in PressCalls \cup ReleaseCalls
    <3>1. program[1] \in Calls
      BY <1>1
    <3>2. \A x \in Calls : x.op \in {"press", "release"} => x \in PressCalls \cup ReleaseCalls
      BY DEF Calls, InputCalls, SmoothCalls
    <3>. QED BY <3>1, <3>2
  <2>3. c \in Calls /\ c.op = program[1].op /\ c.keys = program[1].keys \ {k}
    BY <2>2 DEF Calls, InputCalls, SmoothCalls, PressCalls, ReleaseCalls
  <2>. HIDE DEF c
  <2>4. /\ Clean(<<c>> \o Tail(program))
        /\ \A x : ReleasedAfter(program, 0, x) /\ (Releases(program[1], x) => x \in c.keys)
                  => ReleasedAfter(<<c>> \o Tail(program), 0, x)
        /\ \A x \in Keys : Presses(program[1], x) => ReleasedAfter(<<c>> \o Tail(program), 0, x)
    BY <1>1, <2>3, HeadIs
  <2>5. \A x : Releases(program[1], x) /\ x # k => x \in c.keys
    BY <2>3 DEF Releases
  <2>6. UNCHANGED <<platform, pc, request, served, before, clipboard, guard>> => GuardHolds'
    BY <2>1, <2>3, GuardMoves DEF DeviceInv, Touches
  <2>. QED BY <2>1, <2>4, <2>5, <2>6
<1>. QED BY <1>2, <1>3

LEMMA PressKeeps ==
  ASSUME DeviceInv, PressesKey
  PROVE  DeviceInv'
<1>1. pc = "run" /\ program # <<>> /\ Call = program[1] /\ program[1].op = "press"
      /\ program[1] \in Calls
  BY RunningIs DEF PressesKey
<1>2. PICK k \in program[1].keys : pressed' = pressed \cup {k} /\ KeyDone(k)
  BY <1>1 DEF PressesKey, KeyDone
<1>3. UNCHANGED <<platform, held, plugged, pc, request, served, before, stuck, clipboard, guard>>
  BY DEF PressesKey, engineIdle, given
<1>4. k \in Keys
  BY <1>1 DEF Calls, InputCalls, SmoothCalls, PressCalls, ReleaseCalls
<1>5. Clean(program') /\ GuardHolds'
  BY <1>1, <1>2, <1>3, KeyDoneIs
<1>6. DeviceTypes'
  BY <1>2, <1>3, <1>4, <1>5, <1>1 DEF DeviceInv, DeviceTypes, Clean
<1>7. OwnPressed' \subseteq OwnPressed \cup {k}
  BY <1>2, <1>3, OwnIs
<1>8. Presses(program[1], k) /\ \A x : ~Releases(program[1], x)
  BY <1>1 DEF Presses, Releases
<1>9. \A x \in OwnPressed' : x \in stuck' \/ ReleasedAfter(program', 0, x)
  <2>. SUFFICES ASSUME NEW x \in OwnPressed' PROVE x \in stuck' \/ ReleasedAfter(program', 0, x)
    OBVIOUS
  <2>1. CASE x = k
    BY <1>1, <1>2, <1>4, <1>8, <2>1, KeyDoneIs
  <2>2. CASE x # k
    <3>1. x \in stuck \/ ReleasedAfter(program, 0, x)
      BY <1>7, <2>2 DEF DeviceInv, ReleasesOwn
    <3>. QED BY <1>1, <1>2, <1>3, <1>8, <3>1, KeyDoneIs
  <2>. QED BY <2>1, <2>2
<1>10. ReleasesOwn'
  BY <1>5, <1>9 DEF ReleasesOwn, Clean
<1>. QED BY <1>5, <1>6, <1>10 DEF DeviceInv

LEMMA ReleaseKeeps ==
  ASSUME DeviceInv, ReleasesKey
  PROVE  DeviceInv'
<1>1. pc = "run" /\ program # <<>> /\ Call = program[1] /\ program[1].op = "release"
      /\ program[1] \in Calls
  BY RunningIs DEF ReleasesKey
<1>2. PICK k \in program[1].keys :
        pressed' = pressed \ {k} /\ stuck' = stuck \ {k} /\ KeyDone(k)
  BY <1>1 DEF ReleasesKey, KeyDone
<1>3. UNCHANGED <<platform, held, plugged, pc, request, served, before, clipboard, guard>>
  BY DEF ReleasesKey, engineIdle
<1>4. Clean(program') /\ GuardHolds'
  BY <1>1, <1>2, <1>3, KeyDoneIs
<1>5. DeviceTypes'
  BY <1>1, <1>2, <1>3, <1>4 DEF DeviceInv, DeviceTypes, Clean
<1>6. OwnPressed' = OwnPressed \ {k}
  BY <1>2, <1>3, OwnIs
<1>7. \A x \in OwnPressed' : x \in stuck' \/ ReleasedAfter(program', 0, x)
  <2>. SUFFICES ASSUME NEW x \in OwnPressed' PROVE x \in stuck' \/ ReleasedAfter(program', 0, x)
    OBVIOUS
  <2>1. x # k /\ (x \in stuck \/ ReleasedAfter(program, 0, x))
    BY <1>6 DEF DeviceInv, ReleasesOwn
  <2>. QED BY <1>1, <1>2, <2>1, KeyDoneIs
<1>8. ReleasesOwn'
  BY <1>4, <1>7 DEF ReleasesOwn, Clean
<1>. QED BY <1>4, <1>5, <1>8 DEF DeviceInv

\* The calls of the clipboard press and release nothing.
LEMMA ClipboardStep ==
  ASSUME DeviceInv, pc = "run", program # <<>>, program[1].op \in {"save", "set", "restore"},
         program' = Tail(program),
         UNCHANGED <<platform, held, plugged, pc, request, served, before, stuck, pressed>>,
         clipboard' \in Contents, guard' \in Contents \cup {NoGuard}
  PROVE  DeviceTypes' /\ ReleasesOwn'
<1>1. Clean(program) /\ Clean(program')
  BY ProgramTypes, TailIs
<1>2. DeviceTypes'
  BY <1>1 DEF DeviceInv, DeviceTypes, Clean
<1>3. OwnPressed' = OwnPressed /\ \A k : ~Releases(program[1], k)
  BY OwnIs DEF Releases
<1>4. \A k \in OwnPressed' : k \in stuck' \/ ReleasedAfter(program', 0, k)
  BY <1>1, <1>3, TailIs DEF DeviceInv, ReleasesOwn
<1>. QED BY <1>1, <1>2, <1>4 DEF ReleasesOwn, Clean

LEMMA ClipboardKeeps ==
  ASSUME DeviceInv, SavesClipboard \/ SetsClipboard \/ RestoresClipboard
  PROVE  DeviceInv'
<1>1. program \in Seq(Calls) /\ clipboard \in Contents /\ guard \in Contents \cup {NoGuard}
      /\ before \in Contents
  BY DEF DeviceInv, DeviceTypes
<1>2. UNCHANGED <<platform, held, plugged, pc, request, served, before, stuck, pressed>>
  BY DEF SavesClipboard, SetsClipboard, RestoresClipboard, engineIdle, given
<1>3. Pastes(request)' = Pastes(request) /\ Ours' = Ours
  BY <1>2 DEF Pastes, UsesClipboard, Ours
<1>4. UserImage # UserCopy /\ NoGuard \notin Contents /\ Ours \subseteq Contents
      /\ "body" \in Contents
  BY <1>1 DEF Ours, Contents, UserText, UserImage, UserCopy, NoGuard
<1>5. \A q \in Seq(Calls) : q # <<>> /\ Untouched(q) => ~Touches(q[1])
  BY ShapeIs
<1>6. CASE SavesClipboard
  <2>1. /\ pc = "run" /\ program # <<>> /\ program[1].op = "save" /\ program' = Tail(program)
        /\ clipboard' = clipboard /\ guard' = IF clipboard = UserImage THEN NoGuard ELSE clipboard
    BY <1>6, RunningIs DEF SavesClipboard, Done
  <2>2. DeviceTypes' /\ ReleasesOwn'
    BY <1>1, <1>2, <2>1, ClipboardStep
  <2>3. RestoresLast(program) => RestoresLast(program') /\ program'[1].op # "save"
    BY <1>1, <2>1, ShapeIs
  <2>4. ~Untouched(program)
    BY <1>1, <1>5, <2>1 DEF Touches
  <2>5. before # UserImage /\ clipboard \in Ours => guard' \in Ours
    BY <1>4, <2>1 DEF Ours
  <2>6. GuardHolds'
    BY <1>2, <1>3, <2>1, <2>3, <2>4, <2>5 DEF DeviceInv, GuardHolds, SavesFirst
  <2>. QED BY <2>2, <2>6 DEF DeviceInv
<1>7. CASE SetsClipboard
  <2>1. /\ pc = "run" /\ program # <<>> /\ program[1].op = "set" /\ Call = program[1]
        /\ guard' = guard
    BY <1>7, RunningIs DEF SetsClipboard
  <2>2. CASE program[1].ok
    <3>1. program' = Tail(program) /\ clipboard' = "body"
      BY <1>7, <2>1, <2>2 DEF SetsClipboard, Done
    <3>2. DeviceTypes' /\ ReleasesOwn'
      BY <1>1, <1>2, <1>4, <2>1, <3>1, ClipboardStep
    <3>3. RestoresLast(program) => RestoresLast(program') /\ program'[1].op # "save"
      BY <1>1, <2>1, <3>1, ShapeIs
    <3>4. ~Untouched(program)
      BY <1>1, <1>5, <2>1 DEF Touches
    <3>5. GuardHolds'
      BY <1>2, <1>3, <2>1, <3>3, <3>4 DEF DeviceInv, GuardHolds, SavesFirst
    <3>. QED BY <3>2, <3>5 DEF DeviceInv
  <2>3. CASE ~program[1].ok
    <3>1. program' = OnlyGuard(program) /\ clipboard' = clipboard
      BY <1>7, <2>1, <2>3 DEF SetsClipboard, Abort
    <3>2. Breaks(program[1])
      BY <2>1, <2>3 DEF Breaks
    <3>. QED BY <1>2, <2>1, <3>1, <3>2, AbortKeeps
  <2>. QED BY <2>2, <2>3
<1>8. CASE RestoresClipboard
  <2>1. /\ pc = "run" /\ program # <<>> /\ program[1].op = "restore" /\ program' = Tail(program)
        /\ clipboard' = (IF guard = NoGuard THEN clipboard ELSE guard) /\ guard' = NoGuard
    BY <1>8, RunningIs DEF RestoresClipboard, Done
  <2>2. clipboard' \in Contents
    BY <1>1, <2>1
  <2>3. DeviceTypes' /\ ReleasesOwn'
    BY <1>1, <1>2, <2>1, <2>2, ClipboardStep
  <2>4. RestoresLast(program) => Untouched(program')
    <3>1. RestoresLast(program) => Tail(program) = <<>>
      BY <1>1, <2>1, ShapeIs
    <3>. QED BY <2>1, <3>1 DEF Untouched
  <2>5. ~Untouched(program)
    BY <1>1, <1>5, <2>1 DEF Touches
  <2>6. guard \in Ours => clipboard' \in Ours
    BY <1>4, <2>1
  <2>7. GuardHolds'
    BY <1>2, <1>3, <2>1, <2>4, <2>5, <2>6 DEF DeviceInv, GuardHolds, SavesFirst
  <2>. QED BY <2>3, <2>7 DEF DeviceInv
<1>. QED BY <1>6, <1>7, <1>8

LEMMA EndsKeep ==
  ASSUME DeviceInv, Ends
  PROVE  DeviceInv'
<1>1. /\ UNCHANGED <<platform, held, plugged, request, served, before, stuck, program, pressed,
                     clipboard, guard>>
      /\ pc = "run" /\ pc' = "idle" /\ program = <<>>
  BY DEF Ends, engineIdle, given
<1>2. DeviceTypes'
  BY <1>1 DEF DeviceInv, DeviceTypes
<1>3. ReleasesOwn'
  BY <1>1, OwnIs, OwnKept DEF DeviceInv
<1>4. Pastes(request)' = Pastes(request) /\ Ours' = Ours
  BY <1>1 DEF Pastes, UsesClipboard, Ours
<1>5. GuardHolds'
  BY <1>1, <1>4 DEF DeviceInv, GuardHolds, SavesFirst, RestoresLast
<1>. QED BY <1>2, <1>3, <1>5 DEF DeviceInv

LEMMA DeviceStep == DeviceInv /\ [Next]_vars => DeviceInv'
<1>. SUFFICES ASSUME DeviceInv, [Next]_vars PROVE DeviceInv'
  OBVIOUS
<1>1. CASE User
  <2>1. CASE \E d \in Devices, k \in Keys : UserPresses(d, k) \/ UserReleases(d, k)
    BY <2>1, PressesKeep
  <2>2. CASE \E d \in Devices : Unplug(d)
    BY <2>2, UnplugKeeps
  <2>3. CASE \E r \in Requests[platform] : Requested(r)
    BY <2>3, RequestedKeeps
  <2>4. CASE ShortcutReleased
    BY <2>4, StoresKeep DEF ShortcutReleased, given
  <2>5. CASE UserCopies
    BY <2>5, CopiesKeep
  <2>6. CASE ApplicationPastes
    BY <2>6, StoresKeep DEF ApplicationPastes, given
  <2>. QED BY <1>1, <2>1, <2>2, <2>3, <2>4, <2>5, <2>6 DEF User
<1>2. CASE DetectionThread
  <2>1. UNCHANGED <<platform, held, plugged>> /\ UNCHANGED injectionVars
    BY <1>2 DEF DetectionThread, Deliver
  <2>. QED BY <2>1, StoresKeep DEF injectionVars
<1>3. CASE EngineStep
  <2>1. CASE ModifiersReleased \/ DelayTimesOut
    BY <2>1, BeginKeeps
  <2>2. CASE RecordLapses
    BY <2>2, StoresKeep DEF RecordLapses, given
  <2>3. CASE WaitsForKey \/ SendsEvent \/ CountsEvents \/ ReleasesAllKeys
    BY <2>3, QuietStepsKeep
  <2>4. CASE WaitTimesOut
    BY <2>4, WaitKeeps
  <2>5. CASE PressesKey
    BY <2>5, PressKeeps
  <2>6. CASE ReleasesKey
    BY <2>6, ReleaseKeeps
  <2>7. CASE Fails
    BY <2>7, FailsKeep
  <2>8. CASE SavesClipboard \/ SetsClipboard \/ RestoresClipboard
    BY <2>8, ClipboardKeeps
  <2>9. CASE Ends
    BY <2>9, EndsKeep
  <2>. QED BY <1>3, <2>1, <2>2, <2>3, <2>4, <2>5, <2>6, <2>7, <2>8, <2>9 DEF EngineStep
<1>4. CASE UNCHANGED vars
  BY <1>4, StoresKeep DEF vars, detectionVars, injectionVars
<1>. QED BY <1>1, <1>2, <1>3, <1>4 DEF Next

\* The types of the devices and of the injection hold, and the two invariants with them.
THEOREM DeviceInvHolds == Spec => []DeviceInv
BY DeviceInit, DeviceStep, PTL DEF Spec

\* No request leaves a key pressed: whatever the layout, the combinations and the texts,
\* every key a program of the injectors presses it releases again before it may break
\* off, unless a wait for the user ends in vain (NothingLeftPressed).
THEOREM NothingStaysPressed == Spec => []NothingLeftPressed
<1>1. DeviceInv => NothingLeftPressed
  <2>1. \A k : ~ReleasedAfter(<<>>, 0, k)
    BY DEF ReleasedAfter
  <2>. QED BY <2>1 DEF DeviceInv, DeviceTypes, ReleasesOwn, NothingLeftPressed
<1>. QED BY <1>1, DeviceInvHolds, PTL

\* What the user had copied, or copied meanwhile, is in the clipboard after every request,
\* wherever the injection failed (ClipboardRestored).
THEOREM ClipboardComesBack == Spec => []ClipboardRestored
<1>1. DeviceInv => ClipboardRestored
  BY DEF DeviceInv, GuardHolds, ClipboardRestored, Served, Ours
<1>. QED BY <1>1, DeviceInvHolds, PTL

-----------------------------------------------------------------------------
(* Detection: what the queues hold, and the stores learn from it            *)

KeyEvents == [kind : {"key"}, key : Keys, down : BOOLEAN, symbol : Texts, alone : BOOLEAN,
              own : BOOLEAN, soft : BOOLEAN, flags : SUBSET ModifierNames]
Events == KeyEvents \cup {ClearEvent}

\* The events that reach the stores, and those of them that release a key.
Heard(e) == e.kind = "key" /\ ~(platform = "win32" /\ IsOrphan(e))
Frees(e, k) == Heard(e) /\ ~e.down /\ e.key = k
Takes(e, k) == Heard(e) /\ e.down /\ e.key = k

\* What the events of a stream tell to be down is down on these keyboards, or for the
\* X server.
Sources(d) == CASE platform = "evdev" -> plugged \cap {d}
                [] platform = "win32" -> plugged \ SoftDevices
                [] OTHER              -> plugged
Standing(d, k) == (\E c \in Sources(d) : k \in held[c]) \/ (platform = "x11" /\ k \in pressed)

\* A key whose press waits in a queue stands, or its release waits behind it; and so
\* does a key that a store knows.
Stands ==
  \A d \in Devices : \A i \in DOMAIN queue[d] : \A k \in Keys :
    Takes(queue[d][i], k) =>
      Standing(d, k) \/ \E j \in DOMAIN queue[d] : i < j /\ Frees(queue[d][j], k)
KnownOn(d, k) == Standing(d, k) \/ \E j \in DOMAIN queue[d] : Frees(queue[d][j], k)
Known(k) == \E d \in Devices : KnownOn(d, k)
\* A modifier is that of a key that a store knows, on evdev the one that the key was
\* taken for when its press was read.
Backed(m) ==
  IF platform = "evdev" THEN \E d \in Devices, k \in Keys : m \in taken[d][k] /\ KnownOn(d, k)
  ELSE \E k \in DOMAIN ModifierOf : ModifierOf[k] = m /\ Known(k)
KnownKeys == \A k \in (keys \cup memory) \ unread : Known(k)
BackedModifiers == \A m \in modifiers \ stale : Backed(m)
AllKnown == KnownKeys /\ BackedModifiers
\* What is missed is missed through the levels.
MayBe(k, m) == \E ks \in SUBSET ModifierKeys : m \in Named(Symbol(k, ks))
OnlyFickle ==
  /\ \A m \in stale : \E k \in Keys : Fickle(k, m)
  /\ \A k \in unread : Symbolless(k)
  /\ \A d \in Devices, k \in Keys : \A m \in taken[d][k] : MayBe(k, m)

\* The levels that the keyboard state of a device goes through with its queue: those
\* under which the symbols of its keys were found when they were pressed, up to the
\* level the keyboard has now.
Step(ks, e) ==
  IF e.key \notin ModifierKeys THEN ks
  ELSE IF e.down THEN ks \cup {e.key} ELSE ks \ {e.key}
Through(q, f) ==
  /\ Len(f) = Len(q) + 1
  /\ \A i \in DOMAIN q :
       /\ f[i + 1] = Step(f[i], q[i])
       /\ q[i].down /\ q[i].alone => q[i].symbol = Symbol(q[i].key, f[i])
Trace(d, f) ==
  /\ Through(queue[d], f) /\ f[1] = xkb[d]
  /\ f[Len(f)] = Level(held[d])
Follows == \A d \in Devices : \E f \in Seq(SUBSET ModifierKeys) : Trace(d, f)

QueueTypes ==
  /\ queue \in [Devices -> Seq(Events)]
  /\ xkb \in [Devices -> SUBSET ModifierKeys]
  /\ taken \in [Devices -> [Keys -> SUBSET ModifierNames]]
  /\ platform # "evdev" => keys = {} /\ memory = {}
                           /\ \A d \in Devices : d # AnyDevice => queue[d] = <<>>
  /\ keys \cup memory \subseteq Keys

\* Only macOS has events that are none of a key.
OnlyKeys == \A d \in Devices : \A i \in DOMAIN queue[d] : queue[d][i].kind = "key"

DetectionInv ==
  /\ QueueTypes
  /\ platform # "mac" => OnlyKeys
  /\ ~lost /\ exclude => Stands /\ AllKnown
  /\ platform = "evdev" => SymbolAsTyped /\ (~lost => Follows)
  /\ platform = "mac" => modifiers \subseteq current
  /\ OnlyFickle

LEMMA TruthIs == \A S : \A x : \E b \in BOOLEAN : b = (x \in S)
<1>. SUFFICES ASSUME NEW S, NEW x PROVE \E b \in BOOLEAN : b = (x \in S)
  OBVIOUS
<1>1. CASE x \in S
  <2>1. TRUE \in BOOLEAN /\ (x \in S) = TRUE
    BY <1>1
  <2>. QED BY <2>1
<1>2. CASE x \notin S
  <2>1. FALSE \in BOOLEAN /\ (x \in S) = FALSE
    BY <1>2
  <2>. QED BY <2>1
<1>. QED BY <1>1, <1>2

LEMMA FlagsAre == \A ms : Flags(ms) \in SUBSET ModifierNames
BY DEF Flags, ModifierNames

\* The modifier of a key on the platforms that do not look at the level.
LEMMA ModifierOfIs ==
  /\ DOMAIN ModifierOf \subseteq Keys
  /\ \A k \in Keys : Named(BaseSymbol(k)) = IF k \in DOMAIN ModifierOf THEN {ModifierOf[k]} ELSE {}
  /\ \A s : Named(s) \subseteq ModifierNames
  /\ Named("none") = {}
<1>1. /\ DOMAIN ModifierOf = {x \in Keys : BaseSymbol(x) \in DOMAIN ModifierNamed}
      /\ \A k \in DOMAIN ModifierOf : ModifierOf[k] = ModifierNamed[BaseSymbol(k)]
  BY DEF ModifierOf
<1>2. \A s : Named(s) = IF s \in DOMAIN ModifierNamed THEN {ModifierNamed[s]} ELSE {}
  BY DEF Named
<1>3. \A s \in DOMAIN ModifierNamed : ModifierNamed[s] \in ModifierNames
  BY DetectionAssumption DEF DetectionAssumption, ModifierNames
<1>4. "none" \notin DOMAIN ModifierNamed
  BY DetectionAssumption DEF DetectionAssumption
<1>. QED BY <1>1, <1>2, <1>3, <1>4

LEMMA ClearEventIs == ClearEvent \in Events /\ ClearEvent.kind # "key"
BY DEF ClearEvent, Events

LEMMA SymbolIs ==
  /\ \A ks : \A k \in Keys : Symbol(k, Level(ks)) \in Texts
  /\ "none" \in Texts
  /\ AnyDevice \in Devices
<1>1. \A ks : \A k \in Keys : <<k, ks \cap ModifierKeys>> \in Keys \X SUBSET ModifierKeys
  OBVIOUS
<1>2. \A p \in Keys \X SUBSET ModifierKeys : Layout[p] \in Texts
  BY InjectionAssumption DEF InjectionAssumption, Texts
<1>3. AnyDevice \in Devices
  BY DetectionAssumption DEF DetectionAssumption, AnyDevice
<1>. QED BY <1>1, <1>2, <1>3 DEF Symbol, Level, Texts

\* Every key of a set has its place in the sequence of them.
LEMMA PlacesOf ==
  ASSUME NEW S, IsFiniteSet(S)
  PROVE  /\ SetToSeq(S) \in Seq(S)
         /\ \A x \in S : \E i \in DOMAIN SetToSeq(S) : SetToSeq(S)[i] = x
<1>. DEFINE n == Cardinality(S)
            f == SetToSeq(S)
<1>1. n \in Nat /\ ExistsBijection(1 .. n, S)
  BY FS_CardinalityType
<1>2. \E g \in [1 .. n -> S] : IsInjective(g)
  BY <1>1 DEF ExistsBijection, Bijection, Injection
<1>3. f \in [1 .. n -> S] /\ IsInjective(f)
  BY <1>2 DEF SetToSeq
<1>4. Cardinality(1 .. n) = n
  BY <1>1, FS_Interval
<1>. HIDE DEF f
<1>5. f \in Injection(1 .. n, S)
  BY <1>3 DEF Injection
<1>6. Cardinality(1 .. n) = Cardinality(S) <=> f \in Surjection(1 .. n, S)
  BY <1>5, FS_Injection
<1>7. f \in Surjection(1 .. n, S)
  BY <1>4, <1>6
<1>8. \A x \in S : \E i \in 1 .. n : f[i] = x
  BY <1>7 DEF Surjection
<1>9. f \in Seq(S) /\ DOMAIN f = 1 .. n
  <2>. HIDE DEF n
  <2>. QED BY <1>1, <1>3
<1>. QED BY <1>8, <1>9 DEF f

LEMMA DetectionStarts == Init => DetectionInv
<1>. SUFFICES ASSUME Init PROVE DetectionInv
  OBVIOUS
<1>1. /\ queue = [d \in Devices |-> <<>>] /\ xkb = [d \in Devices |-> Synced(held)]
      /\ keys = {} /\ modifiers = {} /\ memory = {} /\ delivered.kind = "none"
      /\ taken = [d \in Devices |-> [k \in Keys |-> {}]] /\ stale = {} /\ unread = {}
      /\ lost = (\E d \in Devices : held[d] # {})
      /\ held \in [Devices -> SUBSET ModifierKeys]
  BY DEF Init, DetectionInit, NoDelivery
<1>2. \A d \in Devices : xkb[d] \in SUBSET ModifierKeys /\ queue[d] = <<>>
  BY <1>1 DEF Synced
<1>3. QueueTypes
  BY <1>1, <1>2 DEF QueueTypes
<1>4. Stands /\ AllKnown /\ OnlyKeys /\ OnlyFickle
  BY <1>1, <1>2 DEF Stands, AllKnown, KnownKeys, BackedModifiers, OnlyKeys, OnlyFickle
<1>5. ASSUME ~lost, NEW d \in Devices PROVE \E f \in Seq(SUBSET ModifierKeys) : Trace(d, f)
  <2>1. xkb[d] = {} /\ Level(held[d]) = {}
    <3>0. lost <=> \E c \in Devices : held[c] # {}
      BY <1>1
    <3>1. \A c \in Devices : held[c] = {}
      BY <1>5, <3>0, Zenon
    <3>2. Synced(held) = {}
      BY <3>1 DEF Synced
    <3>. QED BY <1>1, <3>1, <3>2 DEF Level
  <2>. DEFINE f == <<xkb[d]>>
  <2>2. f \in Seq(SUBSET ModifierKeys) /\ Len(f) = 1 /\ f[1] = xkb[d]
    BY <1>2
  <2>. HIDE DEF f
  <2>3. Len(queue[d]) = 0 /\ DOMAIN queue[d] = {}
    BY <1>2
  <2>4. f[Len(f)] = Level(held[d])
    BY <2>1, <2>2
  <2>5. Trace(d, f)
    BY <2>2, <2>3, <2>4 DEF Trace, Through
  <2>. QED BY <2>2, <2>5
<1>. QED BY <1>1, <1>3, <1>4, <1>5 DEF DetectionInv, Follows, SymbolAsTyped

\* Events come in at the end of the stream c.
Grows(c, s) == queue' = [queue EXCEPT ![c] = @ \o s]

LEMMA GrownQueue ==
  ASSUME QueueTypes, NEW c \in Devices, NEW s \in Seq(Events), Grows(c, s)
  PROVE  /\ queue' \in [Devices -> Seq(Events)]
         /\ \A d \in Devices : d # c => queue'[d] = queue[d]
         /\ \A d \in Devices : \A i \in DOMAIN queue[d] :
              i \in DOMAIN queue'[d] /\ queue'[d][i] = queue[d][i]
         /\ \A i \in DOMAIN s : /\ Len(queue[c]) + i \in DOMAIN queue'[c]
                                /\ queue'[c][Len(queue[c]) + i] = s[i]
                                /\ \A j \in DOMAIN queue[c] : j < Len(queue[c]) + i
         /\ \A i \in DOMAIN queue'[c] :
              i \in DOMAIN queue[c] \/ \E n \in DOMAIN s : queue'[c][i] = s[n]
         /\ queue'[c] = queue[c] \o s /\ Len(queue'[c]) = Len(queue[c]) + Len(s)
<1>. DEFINE q == queue[c]
            r == queue'[c]
<1>1. q \in Seq(Events) /\ queue \in [Devices -> Seq(Events)]
  BY DEF QueueTypes
<1>2. r = q \o s
  BY <1>1 DEF Grows
<1>3. /\ q \o s \in Seq(Events)
      /\ DOMAIN q = 1 .. Len(q) /\ DOMAIN s = 1 .. Len(s)
      /\ DOMAIN (q \o s) = 1 .. Len(q) + Len(s)
      /\ Len(q) \in Nat /\ Len(s) \in Nat
      /\ \A i \in 1 .. Len(q) : (q \o s)[i] = q[i]
      /\ \A i \in 1 .. Len(s) : (q \o s)[Len(q) + i] = s[i]
      /\ \A i \in 1 .. Len(q) + Len(s) : i > Len(q) => (q \o s)[i] = s[i - Len(q)]
  <2>. HIDE DEF q
  <2>. QED BY <1>1, Joining
<1>4. Len(q \o s) = Len(q) + Len(s)
  <2>. HIDE DEF q
  <2>. QED BY <1>1
<1>5. queue' \in [Devices -> Seq(Events)] /\ \A d \in Devices : d # c => queue'[d] = queue[d]
  BY <1>1, <1>2, <1>3 DEF Grows
<1>6. \A i \in DOMAIN q : i \in DOMAIN r /\ r[i] = q[i]
  <2>. HIDE DEF q, r
  <2>. QED BY <1>2, <1>3
<1>7. \A i \in DOMAIN s : /\ Len(q) + i \in DOMAIN r /\ r[Len(q) + i] = s[i]
                          /\ \A j \in DOMAIN q : j < Len(q) + i
  <2>. HIDE DEF q, r
  <2>. QED BY <1>2, <1>3
<1>8. ASSUME NEW i \in DOMAIN r PROVE i \in DOMAIN q \/ \E n \in DOMAIN s : r[i] = s[n]
  <2>. HIDE DEF q, r
  <2>1. CASE i > Len(q)
    <3>1. i - Len(q) \in DOMAIN s /\ r[i] = s[i - Len(q)]
      BY <1>2, <1>3, <2>1
    <3>. QED BY <3>1
  <2>2. CASE ~(i > Len(q))
    BY <1>2, <1>3, <2>2
  <2>. QED BY <2>1, <2>2
<1>9. \A d \in Devices : \A i \in DOMAIN queue[d] : i \in DOMAIN queue'[d] /\ queue'[d][i] = queue[d][i]
  BY <1>5, <1>6
<1>. QED BY <1>2, <1>4, <1>5, <1>7, <1>8, <1>9

LEMMA HeardIs ==
  ASSUME platform' = platform
  PROVE  \A e : (Heard(e)' <=> Heard(e)) /\ \A k : /\ Takes(e, k)' <=> Takes(e, k)
                                                  /\ Frees(e, k)' <=> Frees(e, k)
BY DEF Heard, Takes, Frees

LEMMA KnownGrows ==
  ASSUME QueueTypes, platform' = platform, NEW c \in Devices, NEW s \in Seq(Events), Grows(c, s),
         NEW k, NEW d \in Devices, KnownOn(d, k),
         Standing(d, k) => Standing(d, k)' \/ \E i \in DOMAIN s : Frees(s[i], k)
  PROVE  KnownOn(d, k)' \/ (KnownOn(c, k)' /\ Standing(d, k) /\ ~Standing(d, k)')
<1>1. Standing(d, k) \/ \E j \in DOMAIN queue[d] : Frees(queue[d][j], k)
  BY DEF KnownOn
<1>2. CASE Standing(d, k)'
  BY <1>2 DEF KnownOn
<1>3. CASE Standing(d, k) /\ ~Standing(d, k)'
  <2>1. PICK i \in DOMAIN s : Frees(s[i], k)
    BY <1>3
  <2>2. Len(queue[c]) + i \in DOMAIN queue'[c] /\ queue'[c][Len(queue[c]) + i] = s[i]
    BY GrownQueue
  <2>3. \E j \in DOMAIN queue'[c] : Frees(queue'[c][j], k)
    BY <2>1, <2>2
  <2>. QED BY <1>3, <2>3 DEF KnownOn, Frees, Heard
<1>4. CASE \E j \in DOMAIN queue[d] : Frees(queue[d][j], k)
  <2>1. PICK j \in DOMAIN queue[d] : Frees(queue[d][j], k)
    BY <1>4
  <2>2. j \in DOMAIN queue'[d] /\ queue'[d][j] = queue[d][j]
    BY GrownQueue
  <2>3. \E i \in DOMAIN queue'[d] : Frees(queue'[d][i], k)
    BY <2>1, <2>2
  <2>. QED BY <2>3 DEF KnownOn, Frees, Heard
<1>. QED BY <1>1, <1>2, <1>3, <1>4

LEMMA StandsGrow ==
  ASSUME QueueTypes, platform' = platform, NEW c \in Devices, NEW s \in Seq(Events), Grows(c, s),
         Stands,
         \A i \in DOMAIN s : \A k \in Keys : Takes(s[i], k) => Standing(c, k)',
         \A k \in Keys : Standing(c, k) => Standing(c, k)' \/ \E i \in DOMAIN s : Frees(s[i], k),
         \A d \in Devices : d # c => queue[d] = <<>> \/ \A k \in Keys : Standing(d, k) => Standing(d, k)'
  PROVE  Stands'
<1>. SUFFICES ASSUME NEW d \in Devices, NEW i \in DOMAIN queue'[d], NEW k \in Keys,
                     Takes(queue'[d][i], k)
              PROVE  Standing(d, k)' \/ \E j \in DOMAIN queue'[d] : i < j /\ Frees(queue'[d][j], k)
  BY DEF Stands, Takes, Frees, Heard
<1>1. CASE i \in DOMAIN queue[d]
  <2>1. queue'[d][i] = queue[d][i]
    BY <1>1, GrownQueue
  <2>2. Standing(d, k) \/ \E j \in DOMAIN queue[d] : i < j /\ Frees(queue[d][j], k)
    BY <1>1, <2>1 DEF Stands
  <2>3. CASE \E j \in DOMAIN queue[d] : i < j /\ Frees(queue[d][j], k)
    <3>1. PICK j \in DOMAIN queue[d] : i < j /\ Frees(queue[d][j], k)
      BY <2>3
    <3>2. j \in DOMAIN queue'[d] /\ queue'[d][j] = queue[d][j]
      BY GrownQueue
    <3>. QED BY <3>1, <3>2
  <2>4. CASE Standing(d, k) /\ d # c
    <3>1. queue[d] # <<>>
      BY <1>1
    <3>. QED BY <2>4, <3>1
  <2>5. CASE Standing(d, k) /\ d = c
    <3>1. CASE \E n \in DOMAIN s : Frees(s[n], k)
      <4>1. PICK n \in DOMAIN s : Frees(s[n], k)
        BY <3>1
      <4>2. /\ Len(queue[c]) + n \in DOMAIN queue'[c] /\ queue'[c][Len(queue[c]) + n] = s[n]
            /\ i < Len(queue[c]) + n
        BY <1>1, <2>5, GrownQueue
      <4>. QED BY <2>5, <4>1, <4>2
    <3>. QED BY <2>5, <3>1
  <2>. QED BY <2>2, <2>3, <2>4, <2>5
<1>2. CASE i \notin DOMAIN queue[d]
  <2>1. d = c
    BY <1>2, GrownQueue
  <2>2. PICK n \in DOMAIN s : queue'[c][i] = s[n]
    BY <1>2, <2>1, GrownQueue
  <2>. QED BY <2>1, <2>2
<1>. QED BY <1>1, <1>2

\* The levels go on with an event that comes in, and with one that is read.
LEMMA StepIs ==
  \A e : \A ks \in SUBSET ModifierKeys : Step(ks, e) \in SUBSET ModifierKeys
BY DEF Step

LEMMA ThroughMore ==
  ASSUME NEW q \in Seq(Events), NEW f \in Seq(SUBSET ModifierKeys), Through(q, f),
         NEW e \in Events,
         e.down /\ e.alone => e.symbol = Symbol(e.key, f[Len(f)])
  PROVE  \E g \in Seq(SUBSET ModifierKeys) :
           Through(q \o <<e>>, g) /\ g[1] = f[1] /\ g[Len(g)] = Step(f[Len(f)], e)
<1>. DEFINE s == <<e>>
            r == q \o s
            x == Step(f[Len(f)], e)
            g == Append(f, x)
<1>1. Len(f) = Len(q) + 1 /\ Len(q) \in Nat /\ Len(f) \in DOMAIN f /\ f[Len(f)] \in SUBSET ModifierKeys
  BY DEF Through
<1>2. x \in SUBSET ModifierKeys
  BY <1>1, StepIs
<1>. HIDE DEF x
<1>3. /\ g \in Seq(SUBSET ModifierKeys) /\ Len(g) = Len(f) + 1 /\ g[Len(f) + 1] = x
      /\ \A i \in 1 .. Len(f) : g[i] = f[i]
  BY <1>2
<1>4. s \in Seq(Events) /\ Len(s) = 1 /\ s[1] = e
  OBVIOUS
<1>. HIDE DEF s, g
<1>5. /\ DOMAIN q = 1 .. Len(q) /\ DOMAIN r = 1 .. Len(q) + 1
      /\ \A i \in 1 .. Len(q) : r[i] = q[i]
      /\ r[Len(q) + 1] = e /\ Len(r) = Len(q) + 1
  <2>1. /\ q \o s \in Seq(Events)
        /\ DOMAIN q = 1 .. Len(q) /\ DOMAIN s = 1 .. Len(s)
        /\ DOMAIN (q \o s) = 1 .. Len(q) + Len(s)
        /\ Len(q) \in Nat /\ Len(s) \in Nat
        /\ \A i \in 1 .. Len(q) : (q \o s)[i] = q[i]
        /\ \A i \in 1 .. Len(s) : (q \o s)[Len(q) + i] = s[i]
        /\ \A i \in 1 .. Len(q) + Len(s) : i > Len(q) => (q \o s)[i] = s[i - Len(q)]
    <3>1. s \in Seq(Events)
      BY <1>4
    <3>. QED BY <3>1, Joining
  <2>2. Len(r) = Len(q) + Len(s)
    <3>1. s \in Seq(Events)
      BY <1>4
    <3>. QED BY <3>1
  <2>3. Len(s) = 1 /\ s[1] = e /\ 1 \in 1 .. Len(s) /\ Len(q) \in Nat
    BY <1>1, <1>4
  <2>4. r[Len(q) + 1] = e /\ Len(r) = Len(q) + 1
    BY <2>1, <2>2, <2>3
  <2>5. DOMAIN r = 1 .. Len(q) + 1
    BY <2>1, <2>3
  <2>. QED BY <2>1, <2>4, <2>5
<1>. HIDE DEF r
<1>6. ASSUME NEW i \in DOMAIN r
      PROVE  /\ g[i + 1] = Step(g[i], r[i])
             /\ r[i].down /\ r[i].alone => r[i].symbol = Symbol(r[i].key, g[i])
  <2>1. CASE i = Len(q) + 1
    <3>1. i = Len(f) /\ r[i] = e /\ g[i] = f[Len(f)] /\ g[i + 1] = x
      BY <1>1, <1>3, <1>5, <2>1
    <3>. QED BY <3>1 DEF x
  <2>2. CASE i # Len(q) + 1
    <3>1. i \in DOMAIN q /\ r[i] = q[i] /\ g[i] = f[i] /\ g[i + 1] = f[i + 1]
      BY <1>1, <1>3, <1>5, <2>2
    <3>. QED BY <3>1 DEF Through
  <2>. QED BY <2>1, <2>2
<1>7. Through(r, g)
  BY <1>1, <1>3, <1>5, <1>6 DEF Through
<1>8. g[1] = f[1] /\ g[Len(g)] = x
  BY <1>1, <1>3
<1>. QED BY <1>3, <1>7, <1>8 DEF r, s, x

LEMMA ThroughLess ==
  ASSUME NEW q \in Seq(Events), NEW f \in Seq(SUBSET ModifierKeys), Through(q, f), q # <<>>
  PROVE  /\ Tail(f) \in Seq(SUBSET ModifierKeys) /\ Through(Tail(q), Tail(f))
         /\ Tail(f)[1] = Step(f[1], q[1]) /\ Tail(f)[Len(Tail(f))] = f[Len(f)]
         /\ q[1].down /\ q[1].alone => q[1].symbol = Symbol(q[1].key, f[1])
<1>. DEFINE r == Tail(q)
            g == Tail(f)
<1>1. Len(f) = Len(q) + 1 /\ Len(q) \in Nat \ {0} /\ DOMAIN q = 1 .. Len(q)
  BY DEF Through
<1>2. f # <<>>
  BY <1>1
<1>3. /\ r \in Seq(Events) /\ Len(r) = Len(q) - 1 /\ DOMAIN r = 1 .. Len(q) - 1
      /\ \A i \in 1 .. Len(q) - 1 : r[i] = q[i + 1]
  OBVIOUS
<1>4. /\ g \in Seq(SUBSET ModifierKeys) /\ Len(g) = Len(f) - 1
      /\ \A i \in 1 .. Len(f) - 1 : g[i] = f[i + 1]
  BY <1>2
<1>. HIDE DEF r, g
<1>5. ASSUME NEW i \in DOMAIN r
      PROVE  /\ g[i + 1] = Step(g[i], r[i])
             /\ r[i].down /\ r[i].alone => r[i].symbol = Symbol(r[i].key, g[i])
  <2>1. i + 1 \in DOMAIN q /\ r[i] = q[i + 1] /\ g[i] = f[i + 1] /\ g[i + 1] = f[(i + 1) + 1]
    BY <1>1, <1>3, <1>4
  <2>. QED BY <2>1 DEF Through
<1>6. Through(r, g)
  BY <1>1, <1>3, <1>4, <1>5 DEF Through
<1>7. 1 \in DOMAIN q /\ g[1] = f[1 + 1] /\ g[Len(g)] = f[Len(f)]
  BY <1>1, <1>4
<1>8. f[1 + 1] = Step(f[1], q[1]) /\ (q[1].down /\ q[1].alone => q[1].symbol = Symbol(q[1].key, f[1]))
  BY <1>7 DEF Through
<1>. QED BY <1>4, <1>6, <1>7, <1>8 DEF r, g

\* A step without events: no key that stands falls unnoticed.
LEMMA NothingMoves ==
  ASSUME DetectionInv, UNCHANGED <<platform, exclude, queue, xkb, current, taken, unread>>,
         keys' \subseteq keys, memory' \subseteq memory, modifiers' \subseteq modifiers,
         stale' \subseteq stale, (modifiers \ stale)' \subseteq modifiers \ stale,
         delivered' = NoDelivery,
         ~lost' => ~lost /\ \A d \in Devices : /\ Level(held[d])' = Level(held[d])
                                              /\ \A k \in Keys : Standing(d, k) => Standing(d, k)'
  PROVE  DetectionInv'
<1>1. QueueTypes' /\ (platform' # "mac" => OnlyKeys')
  BY DEF DetectionInv, QueueTypes, OnlyKeys
<1>2. ASSUME ~lost', exclude PROVE Stands' /\ AllKnown'
  <2>1. Stands /\ AllKnown /\ \A d \in Devices, k \in Keys : Standing(d, k) => Standing(d, k)'
    BY <1>2 DEF DetectionInv
  <2>2. Stands'
    BY <2>1 DEF Stands, Takes, Frees, Heard
  <2>30. \A d \in Devices, k \in Keys : KnownOn(d, k) => KnownOn(d, k)'
    BY <2>1 DEF KnownOn, Frees, Heard
  <2>3. \A k \in Keys : Known(k) => Known(k)'
    BY <2>30 DEF Known
  <2>4. keys \cup memory \subseteq Keys /\ DOMAIN ModifierOf \subseteq Keys
    BY ModifierOfIs DEF DetectionInv, QueueTypes
  <2>5. AllKnown'
    <3>1. KnownKeys'
      BY <2>1, <2>3, <2>4 DEF AllKnown, KnownKeys
    <3>2. ASSUME NEW m \in (modifiers \ stale)' PROVE Backed(m)'
      <4>1. Backed(m)
        BY <2>1, <3>2 DEF AllKnown, BackedModifiers
      <4>. QED BY <2>3, <2>30, <2>4, <4>1 DEF Backed
    <3>. QED BY <3>1, <3>2 DEF AllKnown, BackedModifiers
  <2>. QED BY <2>2, <2>5
<1>3. ASSUME platform = "evdev", ~lost' PROVE Follows'
  <2>. SUFFICES ASSUME NEW d \in Devices PROVE \E f \in Seq(SUBSET ModifierKeys) : Trace(d, f)'
    BY DEF Follows
  <2>1. PICK f \in Seq(SUBSET ModifierKeys) : Trace(d, f)
    BY <1>3 DEF DetectionInv, Follows
  <2>2. f[Len(f)] = Level(held[d])'
    BY <1>3, <2>1 DEF Trace
  <2>3. Trace(d, f)'
    BY <2>1, <2>2 DEF Trace
  <2>. QED BY <2>3
<1>4. SymbolAsTyped' /\ (platform = "mac" => modifiers' \subseteq current')
  BY DEF SymbolAsTyped, NoDelivery, DetectionInv
<1>5. OnlyFickle'
  BY DEF OnlyFickle, DetectionInv
<1>. QED BY <1>1, <1>2, <1>3, <1>4, <1>5 DEF DetectionInv

\* A step with events of the user, or of an injector.
LEMMA EventsCome ==
  ASSUME DetectionInv, NEW c \in Devices, platform # "evdev" => c = AnyDevice,
         NEW s \in Seq(Events), Grows(c, s),
         UNCHANGED <<platform, exclude, xkb, keys, memory, modifiers, current>>,
         UNCHANGED misread, delivered' = NoDelivery,
         platform = "mac" \/ \A i \in DOMAIN s : s[i].kind = "key",
         ~lost' => /\ ~lost
                   /\ \A i \in DOMAIN s : \A k \in Keys : Takes(s[i], k) => Standing(c, k)'
                   /\ \A k \in Keys, d \in Devices :
                        Standing(d, k) => \/ Standing(d, k)'
                                          \/ /\ platform = "evdev" => d = c
                                             /\ \E i \in DOMAIN s : Frees(s[i], k),
         platform = "evdev" =>
           /\ \E e \in Events :
                /\ s = <<e>>
                /\ ~lost' => Level(held[c])' = Step(Level(held[c]), e)
                /\ e.down /\ e.alone => ~lost /\ e.symbol = Symbol(e.key, Level(held[c]))
           /\ \A d \in Devices : d # c => Level(held[d])' = Level(held[d])
  PROVE  DetectionInv'
<1>1. QueueTypes
  BY DEF DetectionInv
<1>2. QueueTypes'
  BY <1>1, GrownQueue DEF QueueTypes, misread
<1>6. ASSUME platform # "mac" PROVE OnlyKeys'
  <2>. SUFFICES ASSUME NEW d \in Devices, NEW i \in DOMAIN queue'[d] PROVE queue'[d][i].kind = "key"
    BY DEF OnlyKeys
  <2>0. OnlyKeys
    BY <1>6 DEF DetectionInv
  <2>1. CASE i \in DOMAIN queue[d]
    <3>1. queue'[d][i] = queue[d][i]
      BY <1>1, <2>1, GrownQueue
    <3>. QED BY <2>0, <2>1, <3>1 DEF OnlyKeys
  <2>2. CASE i \notin DOMAIN queue[d]
    <3>1. d = c
      BY <1>1, <2>2, GrownQueue
    <3>2. \E n \in DOMAIN s : queue'[c][i] = s[n]
      BY <1>1, <2>2, <3>1, GrownQueue
    <3>. QED BY <1>6, <3>1, <3>2
  <2>. QED BY <2>1, <2>2
<1>3. ASSUME ~lost', exclude PROVE Stands' /\ AllKnown'
  <2>1. Stands /\ AllKnown
    BY <1>3 DEF DetectionInv
  <2>2. \A d \in Devices : d # c => queue[d] = <<>> \/ \A k \in Keys : Standing(d, k) => Standing(d, k)'
    BY <1>1, <1>3 DEF QueueTypes
  <2>3. \A k \in Keys : Standing(c, k) => Standing(c, k)' \/ \E i \in DOMAIN s : Frees(s[i], k)
    BY <1>3
  <2>4. Stands'
    BY <1>1, <1>3, <2>1, <2>2, <2>3, StandsGrow
  <2>50. ASSUME NEW k \in Keys, NEW d \in Devices, KnownOn(d, k)
         PROVE  KnownOn(d, k)' \/ (KnownOn(c, k)' /\ (platform = "evdev" => d = c))
    <3>1. Standing(d, k) => Standing(d, k)' \/ \E i \in DOMAIN s : Frees(s[i], k)
      BY <1>3
    <3>2. KnownOn(d, k)' \/ (KnownOn(c, k)' /\ Standing(d, k) /\ ~Standing(d, k)')
      BY <1>1, <2>50, <3>1, KnownGrows
    <3>. QED BY <1>3, <3>2
  <2>5. \A k \in Keys : Known(k) => Known(k)'
    BY <2>50 DEF Known
  <2>6. keys \cup memory \subseteq Keys /\ DOMAIN ModifierOf \subseteq Keys
    BY ModifierOfIs DEF DetectionInv, QueueTypes
  <2>7. AllKnown'
    <3>1. KnownKeys'
      BY <2>1, <2>5, <2>6 DEF AllKnown, KnownKeys, misread
    <3>2. ASSUME NEW m \in (modifiers \ stale)' PROVE Backed(m)'
      <4>1. Backed(m)
        BY <2>1, <3>2 DEF AllKnown, BackedModifiers, misread
      <4>2. CASE platform = "evdev"
        <5>1. PICK d \in Devices, k \in Keys : m \in taken[d][k] /\ KnownOn(d, k)
          BY <4>1, <4>2 DEF Backed
        <5>2. KnownOn(d, k)'
          BY <2>50, <4>2, <5>1
        <5>. QED BY <4>2, <5>1, <5>2 DEF Backed, misread
      <4>3. CASE platform # "evdev"
        BY <2>5, <2>6, <4>1, <4>3 DEF Backed
      <4>. QED BY <4>2, <4>3
    <3>. QED BY <3>1, <3>2 DEF AllKnown, BackedModifiers
  <2>. QED BY <2>4, <2>7
<1>4. ASSUME platform = "evdev", ~lost' PROVE Follows'
  <2>. SUFFICES ASSUME NEW d \in Devices PROVE \E f \in Seq(SUBSET ModifierKeys) : Trace(d, f)'
    BY DEF Follows
  <2>1. PICK f \in Seq(SUBSET ModifierKeys) : Trace(d, f)
    BY <1>4 DEF DetectionInv, Follows
  <2>2. CASE d # c
    <3>1. queue'[d] = queue[d] /\ Level(held[d])' = Level(held[d])
      BY <1>1, <1>4, <2>2, GrownQueue
    <3>2. f[Len(f)] = Level(held[d])'
      BY <2>1, <3>1 DEF Trace
    <3>3. Trace(d, f)'
      BY <2>1, <3>1, <3>2 DEF Trace
    <3>. QED BY <3>3
  <2>3. CASE d = c
    <3>1. PICK e \in Events :
            /\ s = <<e>>
            /\ ~lost' => Level(held[c])' = Step(Level(held[c]), e)
            /\ e.down /\ e.alone => ~lost /\ e.symbol = Symbol(e.key, Level(held[c]))
      BY <1>4
    <3>2. queue[d] \in Seq(Events) /\ Through(queue[d], f) /\ f[1] = xkb[d]
          /\ f[Len(f)] = Level(held[d])
      BY <1>1, <2>1 DEF QueueTypes, Trace
    <3>3. e.down /\ e.alone => e.symbol = Symbol(e.key, f[Len(f)])
      BY <2>3, <3>1, <3>2
    <3>4. PICK g \in Seq(SUBSET ModifierKeys) :
            Through(queue[d] \o <<e>>, g) /\ g[1] = f[1] /\ g[Len(g)] = Step(f[Len(f)], e)
      BY <3>2, <3>3, ThroughMore
    <3>5. queue'[d] = queue[d] \o <<e>>
      BY <1>1, <2>3, <3>1, GrownQueue
    <3>6. g[Len(g)] = Level(held[d])'
      BY <1>4, <2>3, <3>1, <3>2, <3>4
    <3>7. Trace(d, g)'
      BY <3>2, <3>4, <3>5, <3>6 DEF Trace
    <3>. QED BY <3>7
  <2>. QED BY <2>2, <2>3
<1>5. SymbolAsTyped' /\ (platform = "mac" => modifiers' \subseteq current') /\ OnlyFickle'
  BY DEF SymbolAsTyped, NoDelivery, DetectionInv, OnlyFickle, misread
<1>. QED BY <1>2, <1>3, <1>4, <1>5, <1>6 DEF DetectionInv

LEMMA AppendGrows ==
  ASSUME QueueTypes, NEW d \in Devices, NEW e \in Events, queue' = Append1(d, e)
  PROVE  /\ Stream(d) \in Devices /\ (platform = "evdev" => Stream(d) = d)
         /\ platform # "evdev" => Stream(d) = AnyDevice
         /\ <<e>> \in Seq(Events) /\ Grows(Stream(d), <<e>>)
         /\ \A i \in DOMAIN <<e>> : i = 1 /\ <<e>>[i] = e
<1>1. Stream(d) \in Devices /\ (platform = "evdev" => Stream(d) = d)
      /\ (platform # "evdev" => Stream(d) = AnyDevice)
  BY SymbolIs DEF Stream
<1>. DEFINE q == queue[Stream(d)]
<1>2. q \in Seq(Events)
  BY <1>1 DEF QueueTypes
<1>3. Append(q, e) = q \o <<e>>
  <2>. HIDE DEF q
  <2>. QED BY <1>2
<1>4. queue' = [queue EXCEPT ![Stream(d)] = Append(q, e)]
  BY DEF Append1
<1>5. queue' = [queue EXCEPT ![Stream(d)] = q \o <<e>>]
  BY <1>3, <1>4
<1>6. <<e>> \in Seq(Events) /\ \A i \in DOMAIN <<e>> : i = 1 /\ <<e>>[i] = e
  OBVIOUS
<1>. QED BY <1>1, <1>5, <1>6 DEF Grows

LEMMA PressDetected ==
  ASSUME DeviceInv, DetectionInv, NEW d \in Devices, NEW k \in Keys, UserPresses(d, k),
         delivered' = NoDelivery
  PROVE  DetectionInv'
<1>01. PICK symbol \in Texts : symbol = Symbol(k, Level(Down))
  BY SymbolIs
<1>02. PICK alone \in BOOLEAN : alone = (Level(Down) = Level(held[d]) /\ ~lost)
  OBVIOUS
<1>03. PICK soft \in BOOLEAN : soft = (d \in SoftDevices)
  BY TruthIs
<1>04. PICK fs \in SUBSET ModifierNames : fs = Flags(ModifiersHeld)
  BY FlagsAre
<1>05. PICK e : e = KeyEvent(k, TRUE, symbol, alone, FALSE, soft, fs)
  OBVIOUS
<1>1. /\ UNCHANGED <<platform, exclude, plugged, xkb, keys, memory, modifiers, current, misread, lost>>
      /\ held' = [held EXCEPT ![d] = @ \cup {k}] /\ d \in plugged /\ pressed \subseteq pressed'
      /\ queue' = Append1(d, e) /\ (platform # "evdev" => k \in pressed')
  BY <1>01, <1>02, <1>03, <1>04, <1>05 DEF UserPresses, stores
<1>2. /\ e \in Events /\ e.kind = "key" /\ e.key = k /\ e.down
      /\ e.symbol = Symbol(k, Level(Down)) /\ (e.alone => Level(Down) = Level(held[d]) /\ ~lost)
      /\ ~e.own /\ (e.soft <=> d \in SoftDevices)
  <2>1. /\ e \in Events /\ e.kind = "key" /\ e.key = k /\ e.down = TRUE /\ e.symbol = symbol
        /\ e.alone = alone /\ e.own = FALSE /\ e.soft = soft
    BY <1>05 DEF KeyEvent, KeyEvents, Events
  <2>. QED BY <1>01, <1>02, <1>03, <2>1, Zenon
<1>. PICK c, s : c = Stream(d) /\ s = <<e>>
  OBVIOUS
<1>11. s = <<e>>
  OBVIOUS
<1>3. /\ c \in Devices /\ (platform = "evdev" => c = d) /\ (platform # "evdev" => c = AnyDevice)
      /\ s \in Seq(Events) /\ Grows(c, s) /\ \A i \in DOMAIN s : i = 1 /\ s[i] = e
  BY <1>1, <1>2, AppendGrows DEF DetectionInv
<1>4. held \in [Devices -> SUBSET Keys] /\ plugged \subseteq Devices
  BY DEF DeviceInv, DeviceTypes
<1>5. /\ held'[d] = held[d] \cup {k} /\ \A x \in Devices : held[x] \subseteq held'[x]
      /\ \A x \in Devices : x # d => held'[x] = held[x]
  BY <1>1, <1>4
<1>6. \A x \in Devices : Sources(x)' = Sources(x) /\ Sources(x) \subseteq Devices
  BY <1>1, <1>4 DEF Sources
<1>7. \A x \in Devices, y \in Keys : Standing(x, y) => Standing(x, y)'
  BY <1>1, <1>5, <1>6 DEF Standing
<1>8. Heard(e) => Standing(c, k)'
  <2>. SUFFICES ASSUME Heard(e) PROVE Standing(c, k)'
    OBVIOUS
  <2>1. d \in Sources(c)
    BY <1>1, <1>2, <1>3 DEF Heard, IsOrphan, Sources
  <2>2. d \in Sources(c)' /\ k \in held'[d]
    BY <1>3, <1>5, <1>6, <2>1
  <2>. QED BY <2>2 DEF Standing
<1>9. ASSUME NEW i \in DOMAIN s, NEW y \in Keys, Takes(s[i], y) PROVE Standing(c, y)'
  <2>1. s[i] = e
    BY <1>3
  <2>2. Takes(e, y)
    BY <1>9, <2>1
  <2>3. Heard(e) /\ y = k
    BY <1>2, <2>2 DEF Takes
  <2>. QED BY <1>8, <2>3
<1>10. ASSUME platform = "evdev"
       PROVE  /\ Level(held[c])' = Step(Level(held[c]), e)
              /\ e.down /\ e.alone => ~lost /\ e.symbol = Symbol(e.key, Level(held[c]))
              /\ \A x \in Devices : x # c => Level(held[x])' = Level(held[x])
  <2>1. c = d
    BY <1>3, <1>10
  <2>2. held'[d] \cap ModifierKeys = IF k \notin ModifierKeys THEN held[d] \cap ModifierKeys
                                     ELSE (held[d] \cap ModifierKeys) \cup {k}
    BY <1>5
  <2>3. Level(held[c])' = Step(Level(held[c]), e)
    BY <1>2, <2>1, <2>2 DEF Level, Step
  <2>4. e.down /\ e.alone => ~lost /\ e.symbol = Symbol(e.key, Level(held[c]))
    BY <1>2, <2>1
  <2>5. \A x \in Devices : x # c => Level(held[x])' = Level(held[x])
    BY <1>5, <2>1 DEF Level
  <2>. QED BY <2>3, <2>4, <2>5
<1>12. ~lost' => /\ ~lost
                 /\ \A i \in DOMAIN s : \A y \in Keys : Takes(s[i], y) => Standing(c, y)'
                 /\ \A y \in Keys, x \in Devices :
                      Standing(x, y) => \/ Standing(x, y)'
                                        \/ /\ platform = "evdev" => x = c
                                           /\ \E i \in DOMAIN s : Frees(s[i], y)
  BY <1>1, <1>7, <1>9
<1>13. platform = "evdev" =>
         /\ \E o \in Events :
              /\ s = <<o>>
              /\ ~lost' => Level(held[c])' = Step(Level(held[c]), o)
              /\ o.down /\ o.alone => ~lost /\ o.symbol = Symbol(o.key, Level(held[c]))
         /\ \A x \in Devices : x # c => Level(held[x])' = Level(held[x])
  BY <1>2, <1>10, <1>11
<1>14. c \in Devices /\ (platform # "evdev" => c = AnyDevice) /\ s \in Seq(Events) /\ Grows(c, s)
  BY <1>3
<1>15. /\ UNCHANGED <<platform, exclude, xkb, keys, memory, modifiers, current>> /\ UNCHANGED misread
       /\ platform = "mac" \/ \A i \in DOMAIN s : s[i].kind = "key"
  BY <1>1, <1>2, <1>3
<1>. QED BY <1>12, <1>13, <1>14, <1>15, EventsCome

LEMMA ReleaseDetected ==
  ASSUME DeviceInv, DetectionInv, NEW d \in Devices, NEW k \in Keys, UserReleases(d, k),
         delivered' = NoDelivery
  PROVE  DetectionInv'
<1>01. PICK soft \in BOOLEAN : soft = (d \in SoftDevices)
  BY TruthIs
<1>02. PICK fs \in SUBSET ModifierNames :
         fs = Flags(ModifiersHeld \ {ModifierOf[x] : x \in {k} \cap DOMAIN ModifierOf})
  BY FlagsAre
<1>03. PICK e : e = KeyEvent(k, FALSE, "none", FALSE, FALSE, soft, fs)
  OBVIOUS
<1>. PICK c, s : c = Stream(d) /\ s = <<e>>
  OBVIOUS
<1>1. /\ UNCHANGED <<platform, exclude, plugged, xkb, keys, memory, modifiers, current, misread>>
      /\ held' = [held EXCEPT ![d] = @ \ {k}] /\ d \in plugged
      /\ pressed' = IF platform = "evdev" THEN pressed ELSE pressed \ {k}
      /\ \/ queue' = Append1(d, e) /\ lost' = lost
         \/ platform = "mac" /\ queue' = queue /\ lost' = TRUE
  BY <1>01, <1>02, <1>03 DEF UserReleases, stores
<1>2. CASE platform = "mac" /\ queue' = queue /\ lost' = TRUE
  BY <1>1, <1>2, NothingMoves DEF misread
<1>3. CASE queue' = Append1(d, e) /\ lost' = lost
  <2>1. /\ e \in Events /\ e.kind = "key" /\ e.key = k /\ ~e.down
        /\ ~e.own /\ (e.soft <=> d \in SoftDevices)
    <3>1. "none" \in Texts
      BY SymbolIs
    <3>2. /\ e \in Events /\ e.kind = "key" /\ e.key = k /\ e.down = FALSE
          /\ e.own = FALSE /\ e.soft = soft
      BY <1>03, <3>1 DEF KeyEvent, KeyEvents, Events
    <3>. QED BY <1>01, <3>2, Zenon
  <2>2. /\ c \in Devices /\ (platform = "evdev" => c = d) /\ (platform # "evdev" => c = AnyDevice)
        /\ s \in Seq(Events) /\ Grows(c, s) /\ \A i \in DOMAIN s : i = 1 /\ s[i] = e
    BY <1>3, <2>1, AppendGrows DEF DetectionInv
  <2>3. held \in [Devices -> SUBSET Keys] /\ plugged \subseteq Devices
    BY DEF DeviceInv, DeviceTypes
  <2>4. held'[d] = held[d] \ {k} /\ \A x \in Devices : x # d => held'[x] = held[x]
    BY <1>1, <2>3
  <2>5. \A x \in Devices : Sources(x)' = Sources(x) /\ Sources(x) \subseteq Devices
    BY <1>1, <2>3 DEF Sources
  <2>6. \A x \in Devices, y \in Keys : y # k /\ Standing(x, y) => Standing(x, y)'
    BY <1>1, <2>4, <2>5 DEF Standing
  <2>7. \A x \in Devices, y \in Keys : d \notin Sources(x) /\ platform # "x11" /\ Standing(x, y)
                                        => Standing(x, y)'
    BY <1>1, <2>4, <2>5 DEF Standing
  <2>8. ASSUME NEW x \in Devices, Standing(x, k), ~Standing(x, k)'
        PROVE  (platform = "evdev" => x = c) /\ Frees(e, k)
    <3>1. d \in Sources(x) \/ platform = "x11"
      BY <2>7, <2>8
    <3>. QED BY <2>1, <2>2, <3>1 DEF Sources, Frees, Heard, IsOrphan
  <2>9. \A y \in Keys, x \in Devices :
          Standing(x, y) => \/ Standing(x, y)'
                            \/ /\ platform = "evdev" => x = c
                               /\ \E i \in DOMAIN s : Frees(s[i], y)
    <3>1. 1 \in DOMAIN s /\ s[1] = e
      OBVIOUS
    <3>. QED BY <2>6, <2>8, <3>1
  <2>10. ASSUME NEW i \in DOMAIN s, NEW y \in Keys, Takes(s[i], y) PROVE Standing(c, y)'
    <3>1. s[i] = e
      BY <2>2
    <3>2. Takes(e, y)
      BY <2>10, <3>1
    <3>. QED BY <2>1, <3>2 DEF Takes
  <2>11. ASSUME platform = "evdev"
         PROVE  /\ Level(held[c])' = Step(Level(held[c]), e)
                /\ ~(e.down /\ e.alone)
                /\ \A x \in Devices : x # c => Level(held[x])' = Level(held[x])
    <3>1. c = d
      BY <2>2, <2>11
    <3>2. held'[d] \cap ModifierKeys = IF k \notin ModifierKeys THEN held[d] \cap ModifierKeys
                                       ELSE (held[d] \cap ModifierKeys) \ {k}
      BY <2>4
    <3>3. Level(held[c])' = Step(Level(held[c]), e)
      BY <2>1, <3>1, <3>2 DEF Level, Step
    <3>4. \A x \in Devices : x # c => Level(held[x])' = Level(held[x])
      BY <2>4, <3>1 DEF Level
    <3>. QED BY <2>1, <3>3, <3>4
  <2>12. s = <<e>>
    OBVIOUS
  <2>13. ~lost' => /\ ~lost
                   /\ \A i \in DOMAIN s : \A y \in Keys : Takes(s[i], y) => Standing(c, y)'
                   /\ \A y \in Keys, x \in Devices :
                        Standing(x, y) => \/ Standing(x, y)'
                                          \/ /\ platform = "evdev" => x = c
                                             /\ \E i \in DOMAIN s : Frees(s[i], y)
    BY <1>3, <2>9, <2>10
  <2>14. platform = "evdev" =>
           /\ \E o \in Events :
                /\ s = <<o>>
                /\ ~lost' => Level(held[c])' = Step(Level(held[c]), o)
                /\ o.down /\ o.alone => ~lost /\ o.symbol = Symbol(o.key, Level(held[c]))
           /\ \A x \in Devices : x # c => Level(held[x])' = Level(held[x])
    BY <2>1, <2>11, <2>12
  <2>15. c \in Devices /\ (platform # "evdev" => c = AnyDevice) /\ s \in Seq(Events) /\ Grows(c, s)
    BY <2>2
  <2>16. /\ UNCHANGED <<platform, exclude, xkb, keys, memory, modifiers, current>> /\ UNCHANGED misread
         /\ platform = "mac" \/ \A i \in DOMAIN s : s[i].kind = "key"
    BY <1>1, <2>1, <2>2
  <2>. QED BY <2>13, <2>14, <2>15, <2>16, EventsCome
<1>. QED BY <1>1, <1>2, <1>3

LEMMA ShortcutDetected ==
  ASSUME DetectionInv, ShortcutReleased, delivered' = NoDelivery
  PROVE  DetectionInv'
<1>. PICK c, e, s : c = AnyDevice /\ e = ClearEvent /\ s = <<e>>
  OBVIOUS
<1>1. c \in Devices /\ e \in Events
  BY SymbolIs, ClearEventIs
<1>2. /\ platform = "mac" /\ queue' = Append1(c, e) /\ lost' = TRUE
      /\ UNCHANGED <<platform, exclude, xkb, keys, memory, modifiers, current, misread>>
  BY DEF ShortcutReleased, stores
<1>3. s \in Seq(Events) /\ Grows(c, s)
  <2>1. QueueTypes
    BY DEF DetectionInv
  <2>2. <<e>> \in Seq(Events) /\ Grows(Stream(c), <<e>>) /\ Stream(c) = AnyDevice
    BY <1>1, <1>2, <2>1, AppendGrows
  <2>. QED BY <2>2
<1>. QED BY <1>1, <1>2, <1>3, EventsCome

LEMMA UnplugDetected ==
  ASSUME DetectionInv, NEW d \in Devices, Unplug(d), delivered' = NoDelivery
  PROVE  DetectionInv'
<1>1. /\ platform = "evdev" /\ queue' = [queue EXCEPT ![d] = <<>>] /\ lost' = TRUE
      /\ UNCHANGED <<platform, exclude, held, xkb, keys, memory, modifiers, current, misread>>
  BY DEF Unplug, stores
<1>2. QueueTypes /\ OnlyKeys /\ OnlyFickle
  BY <1>1 DEF DetectionInv
<1>3. queue'[d] = <<>> /\ \A x \in Devices : x # d => queue'[x] = queue[x]
  BY <1>1, <1>2 DEF QueueTypes
<1>4. QueueTypes' /\ OnlyKeys'
  <2>1. queue' \in [Devices -> Seq(Events)]
    BY <1>1, <1>2 DEF QueueTypes
  <2>. QED BY <1>1, <1>2, <1>3, <2>1 DEF QueueTypes, OnlyKeys, misread
<1>5. SymbolAsTyped' /\ OnlyFickle'
  BY <1>1, <1>2 DEF SymbolAsTyped, NoDelivery, OnlyFickle, misread
<1>. QED BY <1>1, <1>4, <1>5 DEF DetectionInv

\* The keys of an injector are seen by the detection of Windows, which knows them for
\* those of the program, and by that of X11, where they are down for the server.
LEMMA OwnDetected ==
  ASSUME DetectionInv, NEW s \in Seq(Events), Echo(s),
         UNCHANGED <<platform, exclude, held, plugged, xkb, keys, memory, modifiers, current, misread, lost>>,
         delivered' = NoDelivery,
         \A i \in DOMAIN s : /\ s[i].kind = "key" /\ s[i].own
                             /\ s[i].down => s[i].key \in pressed',
         \A k \in pressed : k \in pressed' \/ \E i \in DOMAIN s : s[i].key = k /\ ~s[i].down
  PROVE  DetectionInv'
<1>0. \A x \in Devices : Sources(x)' = Sources(x)
  BY DEF Sources
<1>1. CASE platform \notin {"win32", "x11"}
  <2>1. queue' = queue
    BY <1>1 DEF Echo
  <2>2. \A x \in Devices : /\ Level(held[x])' = Level(held[x])
                           /\ \A k \in Keys : Standing(x, k) => Standing(x, k)'
    BY <1>0, <1>1 DEF Standing, Level
  <2>. QED BY <2>1, <2>2, NothingMoves DEF misread
<1>2. CASE platform \in {"win32", "x11"}
  <2>. PICK c : c = AnyDevice
    OBVIOUS
  <2>1. c \in Devices /\ Grows(c, s) /\ c = AnyDevice
    BY <1>2, SymbolIs DEF Echo, Grows
  <2>2. ASSUME NEW i \in DOMAIN s, NEW k \in Keys, Takes(s[i], k) PROVE Standing(c, k)'
    <3>1. platform = "x11" /\ k \in pressed'
      BY <1>2, <2>2 DEF Takes, Heard, IsOrphan
    <3>. QED BY <3>1 DEF Standing
  <2>3. ASSUME NEW k \in Keys, NEW x \in Devices, Standing(x, k), ~Standing(x, k)'
        PROVE  \E i \in DOMAIN s : Frees(s[i], k)
    <3>1. platform = "x11" /\ k \in pressed /\ k \notin pressed'
      BY <1>0, <2>3 DEF Standing
    <3>2. PICK i \in DOMAIN s : s[i].key = k /\ ~s[i].down
      BY <3>1
    <3>3. Frees(s[i], k)
      BY <3>1, <3>2 DEF Frees, Heard
    <3>. QED BY <3>3
  <2>4. platform # "evdev"
    BY <1>2
  <2>5. ~lost' => /\ ~lost
                  /\ \A i \in DOMAIN s : \A k \in Keys : Takes(s[i], k) => Standing(c, k)'
                  /\ \A k \in Keys, x \in Devices :
                       Standing(x, k) => \/ Standing(x, k)'
                                         \/ /\ platform = "evdev" => x = c
                                            /\ \E i \in DOMAIN s : Frees(s[i], k)
    BY <2>2, <2>3, <2>4
  <2>. QED BY <2>1, <2>4, <2>5, EventsCome
<1>. QED BY <1>1, <1>2

\* The event of one key of an injector.
LEMMA OwnEventIs ==
  \A k \in Keys : \A down \in BOOLEAN :
    /\ Own(k, down) \in Events /\ Own(k, down).kind = "key" /\ Own(k, down).own
    /\ Own(k, down).key = k /\ Own(k, down).down = down
<1>. SUFFICES ASSUME NEW k \in Keys, NEW down \in BOOLEAN
              PROVE  /\ Own(k, down) \in Events /\ Own(k, down).kind = "key" /\ Own(k, down).own
                     /\ Own(k, down).key = k /\ Own(k, down).down = down
  OBVIOUS
<1>. DEFINE symbol == IF down THEN Symbol(k, Level(Down)) ELSE "none"
<1>1. symbol \in Texts
  BY SymbolIs
<1>. HIDE DEF symbol
<1>2. Own(k, down) = [kind |-> "key", key |-> k, down |-> down, symbol |-> symbol,
                      alone |-> FALSE, own |-> TRUE, soft |-> FALSE, flags |-> {}]
  BY DEF Own, KeyEvent, symbol
<1>. QED BY <1>1, <1>2 DEF Events, KeyEvents

LEMMA OneEvent ==
  ASSUME NEW e \in Events, NEW s, s = <<e>>
  PROVE  s \in Seq(Events) /\ 1 \in DOMAIN s /\ \A i \in DOMAIN s : i = 1 /\ s[i] = e
OBVIOUS

LEMMA InjectorDetected ==
  ASSUME DeviceInv, DetectionInv, PressesKey \/ ReleasesKey, delivered' = NoDelivery
  PROVE  DetectionInv'
<1>0. UNCHANGED <<platform, exclude, held, plugged, xkb, keys, memory, modifiers, current, misread, lost>>
  BY DEF PressesKey, ReleasesKey, engineIdle
<1>1. program # <<>> /\ Call = program[1] /\ program[1] \in Calls
  BY RunningIs DEF PressesKey, ReleasesKey
<1>2. CASE PressesKey
  <2>1. program[1].op = "press"
    BY <1>1, <1>2 DEF PressesKey, Running
  <2>2. PICK k \in program[1].keys : pressed' = pressed \cup {k} /\ Echo(<<Own(k, TRUE)>>)
    BY <1>1, <1>2 DEF PressesKey
  <2>3. k \in Keys
    BY <1>1, <2>1 DEF Calls, InputCalls, SmoothCalls, PressCalls, ReleaseCalls
  <2>. PICK e, s : e = Own(k, TRUE) /\ s = <<e>>
    OBVIOUS
  <2>4. e \in Events /\ e.kind = "key" /\ e.own /\ e.key = k /\ e.down
    BY <2>3, OwnEventIs
  <2>5. s \in Seq(Events) /\ 1 \in DOMAIN s /\ \A i \in DOMAIN s : i = 1 /\ s[i] = e
    <3>1. s = <<e>> /\ e \in Events
      BY <2>4
    <3>. QED BY <3>1, OneEvent
  <2>50. Echo(s)
    BY <2>2, Zenon
  <2>6. \A i \in DOMAIN s : s[i].kind = "key" /\ s[i].own /\ (s[i].down => s[i].key \in pressed')
    BY <2>2, <2>4, <2>5
  <2>. QED BY <1>0, <2>2, <2>5, <2>50, <2>6, OwnDetected
<1>3. CASE ReleasesKey
  <2>1. program[1].op = "release"
    BY <1>1, <1>3 DEF ReleasesKey, Running
  <2>2. PICK k \in program[1].keys : pressed' = pressed \ {k} /\ Echo(<<Own(k, FALSE)>>)
    BY <1>1, <1>3 DEF ReleasesKey
  <2>3. k \in Keys
    BY <1>1, <2>1 DEF Calls, InputCalls, SmoothCalls, PressCalls, ReleaseCalls
  <2>. PICK e, s : e = Own(k, FALSE) /\ s = <<e>>
    OBVIOUS
  <2>4. e \in Events /\ e.kind = "key" /\ e.own /\ e.key = k /\ ~e.down
    BY <2>3, OwnEventIs
  <2>5. s \in Seq(Events) /\ 1 \in DOMAIN s /\ \A i \in DOMAIN s : i = 1 /\ s[i] = e
    <3>1. s = <<e>> /\ e \in Events
      BY <2>4
    <3>. QED BY <3>1, OneEvent
  <2>50. Echo(s)
    BY <2>2, Zenon
  <2>6. \A i \in DOMAIN s : s[i].kind = "key" /\ s[i].own /\ (s[i].down => s[i].key \in pressed')
    BY <2>4, <2>5
  <2>7. \A x \in pressed : x \in pressed' \/ \E i \in DOMAIN s : s[i].key = x /\ ~s[i].down
    BY <2>2, <2>4, <2>5
  <2>. QED BY <1>0, <2>5, <2>50, <2>6, <2>7, OwnDetected
<1>. QED BY <1>2, <1>3

LEMMA AllReleasedDetected ==
  ASSUME DeviceInv, DetectionInv, ReleasesAllKeys, delivered' = NoDelivery
  PROVE  DetectionInv'
<1>. PICK up, s : up = SetToSeq(pressed) /\ s = [i \in DOMAIN up |-> Own(up[i], FALSE)]
  OBVIOUS
<1>1. /\ UNCHANGED <<platform, exclude, held, plugged, xkb, keys, memory, modifiers, current, misread, lost>>
      /\ Echo(s)
  BY DEF ReleasesAllKeys, engineIdle
<1>2. pressed \subseteq Keys /\ IsFiniteSet(Keys)
  BY DetectionAssumption DEF DeviceInv, DeviceTypes, DetectionAssumption
<1>3. IsFiniteSet(pressed)
  BY <1>2, FS_Subset
<1>4. up \in Seq(pressed) /\ \A x \in pressed : \E i \in DOMAIN up : up[i] = x
  BY <1>3, PlacesOf
<1>5. \A i \in DOMAIN up : up[i] \in Keys
  BY <1>2, <1>4
<1>6. DOMAIN up = 1 .. Len(up) /\ Len(up) \in Nat
  BY <1>4
<1>7. \A i \in DOMAIN s : /\ s[i] \in Events /\ s[i].kind = "key" /\ s[i].own
                          /\ s[i].key = up[i] /\ ~s[i].down
  BY <1>5, OwnEventIs
<1>80. DOMAIN s = DOMAIN up /\ s = [i \in DOMAIN s |-> s[i]]
  OBVIOUS
<1>81. s \in [1 .. Len(up) -> Events]
  BY <1>6, <1>7, <1>80
<1>82. \A n \in Nat : [1 .. n -> Events] \subseteq Seq(Events)
  OBVIOUS
<1>8. s \in Seq(Events) /\ DOMAIN s = DOMAIN up
  BY <1>6, <1>80, <1>81, <1>82
<1>9. ASSUME NEW x \in pressed PROVE \E i \in DOMAIN s : s[i].key = x /\ ~s[i].down
  <2>1. PICK i \in DOMAIN up : up[i] = x
    BY <1>4
  <2>2. i \in DOMAIN s
    BY <1>8
  <2>3. s[i].key = x /\ ~s[i].down
    BY <1>7, <2>1, <2>2
  <2>. QED BY <2>2, <2>3
<1>10. \A i \in DOMAIN s : s[i].kind = "key" /\ s[i].own /\ (s[i].down => s[i].key \in pressed')
  BY <1>7
<1>11. \A x \in pressed : x \in pressed' \/ \E i \in DOMAIN s : s[i].key = x /\ ~s[i].down
  BY <1>9
<1>. QED BY <1>1, <1>8, <1>10, <1>11, OwnDetected

\* The detection thread reads the first event of a queue.
Reads(d) ==
  /\ queue[d] # <<>> /\ queue' = [queue EXCEPT ![d] = Tail(@)]
  /\ UNCHANGED <<platform, exclude, held, plugged, pressed>>

LEMMA ReadQueue ==
  ASSUME QueueTypes, NEW d \in Devices, Reads(d)
  PROVE  /\ queue' \in [Devices -> Seq(Events)]
         /\ \A x \in Devices : x # d => queue'[x] = queue[x]
         /\ queue'[d] = Tail(queue[d])
         /\ queue[d] \in Seq(Events) /\ 1 \in DOMAIN queue[d] /\ queue[d][1] \in Events
         /\ Head(queue[d]) = queue[d][1]
         /\ \A i \in DOMAIN queue'[d] : /\ i \in Nat /\ i + 1 \in DOMAIN queue[d]
                                        /\ queue'[d][i] = queue[d][i + 1]
         /\ \A j \in DOMAIN queue[d] :
              /\ j \in Nat
              /\ j > 1 => j - 1 \in DOMAIN queue'[d] /\ queue'[d][j - 1] = queue[d][j]
<1>. DEFINE q == queue[d]
            r == queue'[d]
<1>1. queue \in [Devices -> Seq(Events)] /\ q \in Seq(Events) /\ q # <<>>
  BY DEF QueueTypes, Reads
<1>2. r = Tail(q)
  BY <1>1 DEF Reads
<1>3. /\ Tail(q) \in Seq(Events) /\ Len(q) \in Nat \ {0} /\ DOMAIN q = 1 .. Len(q)
      /\ DOMAIN Tail(q) = 1 .. Len(q) - 1 /\ \A i \in 1 .. Len(q) - 1 : Tail(q)[i] = q[i + 1]
      /\ Head(q) = q[1]
  <2>. HIDE DEF q
  <2>. QED BY <1>1
<1>4. queue' \in [Devices -> Seq(Events)] /\ \A x \in Devices : x # d => queue'[x] = queue[x]
  BY <1>1, <1>3 DEF Reads
<1>. HIDE DEF q, r
<1>5. 1 \in DOMAIN q /\ q[1] \in Events
  BY <1>1, <1>3
<1>6. \A i \in DOMAIN r : i \in Nat /\ i + 1 \in DOMAIN q /\ r[i] = q[i + 1]
  BY <1>2, <1>3
<1>7. \A j \in DOMAIN q : j \in Nat /\ (j > 1 => j - 1 \in DOMAIN r /\ r[j - 1] = q[j])
  <2>. SUFFICES ASSUME NEW j \in DOMAIN q
                PROVE  j \in Nat /\ (j > 1 => j - 1 \in DOMAIN r /\ r[j - 1] = q[j])
    OBVIOUS
  <2>1. j \in Nat /\ (j > 1 => j - 1 \in 1 .. Len(q) - 1 /\ (j - 1) + 1 = j)
    BY <1>3
  <2>. QED BY <1>2, <1>3, <2>1
<1>. QED BY <1>1, <1>2, <1>3, <1>4, <1>5, <1>6, <1>7 DEF q, r

LEMMA StandingStays ==
  ASSUME NEW d, Reads(d)
  PROVE  \A x, k : Standing(x, k)' <=> Standing(x, k)
BY DEF Reads, Standing, Sources

\* A release that waits is still to be read, if it is not the one that is read ...
LEMMA ReleaseStays ==
  ASSUME QueueTypes, NEW d \in Devices, Reads(d), NEW x \in Devices, NEW k,
         NEW i \in Nat, NEW j \in DOMAIN queue[x], i < j, x = d => j > 1, Frees(queue[x][j], k)
  PROVE  \E l \in DOMAIN queue'[x] : /\ Frees(queue'[x][l], k)
                                     /\ IF x = d THEN i - 1 < l ELSE i < l
<1>2. CASE x = d
  <2>1. j \in Nat /\ j - 1 \in DOMAIN queue'[d] /\ queue'[d][j - 1] = queue[d][j]
    BY <1>2, ReadQueue
  <2>2. i - 1 < j - 1
    BY <2>1
  <2>. QED BY <1>2, <2>1, <2>2
<1>3. CASE x # d
  <2>1. queue'[x] = queue[x]
    BY <1>3, ReadQueue
  <2>. QED BY <1>3, <2>1
<1>. QED BY <1>2, <1>3

LEMMA KnownStays ==
  ASSUME QueueTypes, NEW d \in Devices, Reads(d), NEW x \in Devices, NEW k, KnownOn(x, k),
         x = d => ~Frees(queue[d][1], k)
  PROVE  KnownOn(x, k)'
<1>2. CASE Standing(x, k)
  <2>1. Standing(x, k)'
    BY <1>2, StandingStays
  <2>. QED BY <2>1 DEF KnownOn
<1>3. CASE \E j \in DOMAIN queue[x] : Frees(queue[x][j], k)
  <2>1. PICK j \in DOMAIN queue[x] : Frees(queue[x][j], k)
    BY <1>3
  <2>2. 0 < j /\ (x = d => j > 1)
    <3>1. queue[x] \in Seq(Events)
      BY DEF QueueTypes
    <3>2. j \in Nat \ {0}
      BY <3>1
    <3>. QED BY <2>1, <3>2
  <2>3. \E l \in DOMAIN queue'[x] : Frees(queue'[x][l], k)
    BY <2>1, <2>2, ReleaseStays
  <2>. QED BY <2>3 DEF KnownOn, Frees, Heard, Reads
<1>. QED BY <1>2, <1>3 DEF KnownOn

\* ... and the key of a press that is read stands, or its release is to be read.
LEMMA TakenKnown ==
  ASSUME QueueTypes, Stands, NEW d \in Devices, Reads(d), NEW k \in Keys, Takes(queue[d][1], k)
  PROVE  KnownOn(d, k)'
<1>1. 1 \in DOMAIN queue[d]
  BY ReadQueue
<1>2. Standing(d, k) \/ \E j \in DOMAIN queue[d] : 1 < j /\ Frees(queue[d][j], k)
  BY <1>1 DEF Stands
<1>3. CASE Standing(d, k)
  <2>1. Standing(d, k)'
    BY <1>3, StandingStays
  <2>. QED BY <2>1 DEF KnownOn
<1>4. CASE \E j \in DOMAIN queue[d] : 1 < j /\ Frees(queue[d][j], k)
  <2>1. PICK j \in DOMAIN queue[d] : 1 < j /\ Frees(queue[d][j], k)
    BY <1>4
  <2>2. j > 1
    BY <2>1, ReadQueue
  <2>3. \E l \in DOMAIN queue'[d] : Frees(queue'[d][l], k)
    BY <2>1, <2>2, ReleaseStays
  <2>. QED BY <2>3 DEF KnownOn, Frees, Heard, Reads
<1>. QED BY <1>2, <1>3, <1>4

LEMMA StandsStays ==
  ASSUME QueueTypes, Stands, NEW d \in Devices, Reads(d)
  PROVE  Stands'
<1>. SUFFICES ASSUME NEW x \in Devices, NEW i \in DOMAIN queue'[x], NEW k \in Keys,
                     Takes(queue'[x][i], k)
              PROVE  Standing(x, k)' \/ \E l \in DOMAIN queue'[x] : i < l /\ Frees(queue'[x][l], k)
  BY DEF Stands, Takes, Frees, Heard, Reads
<1>1. Takes(queue'[x][i], k)
  OBVIOUS
<1>2. CASE x = d
  <2>1. i \in Nat /\ i + 1 \in DOMAIN queue[x] /\ queue'[x][i] = queue[x][i + 1] /\ i + 1 \in Nat
    BY <1>2, ReadQueue
  <2>2. Standing(x, k) \/ \E j \in DOMAIN queue[x] : i + 1 < j /\ Frees(queue[x][j], k)
    BY <1>1, <2>1 DEF Stands
  <2>3. CASE Standing(x, k)
    BY <2>3, StandingStays
  <2>4. CASE \E j \in DOMAIN queue[x] : i + 1 < j /\ Frees(queue[x][j], k)
    <3>1. PICK j \in DOMAIN queue[x] : i + 1 < j /\ Frees(queue[x][j], k)
      BY <2>4
    <3>2. j > 1
      BY <1>2, <2>1, <3>1, ReadQueue
    <3>3. PICK l \in DOMAIN queue'[x] : Frees(queue'[x][l], k) /\ (i + 1) - 1 < l
      BY <1>2, <2>1, <3>1, <3>2, ReleaseStays
    <3>. QED BY <2>1, <3>3
  <2>. QED BY <2>2, <2>3, <2>4
<1>3. CASE x # d
  <2>1. queue'[x] = queue[x]
    BY <1>3, ReadQueue
  <2>2. Standing(x, k) \/ \E j \in DOMAIN queue[x] : i < j /\ Frees(queue[x][j], k)
    BY <1>1, <2>1 DEF Stands
  <2>. QED BY <2>1, <2>2, StandingStays
<1>. QED BY <1>2, <1>3

\* What the stores know after an event has been read: the keys ...
LEMMA KeysRead ==
  ASSUME QueueTypes, Stands, KnownKeys, NEW d \in Devices, Reads(d), NEW e, e = queue[d][1],
         \A k \in ((keys \cup memory) \ unread)' :
           (k \in (keys \cup memory) \ unread /\ ~Frees(e, k)) \/ (k \in Keys /\ Takes(e, k))
  PROVE  KnownKeys'
<1>. SUFFICES ASSUME NEW k \in ((keys \cup memory) \ unread)' PROVE Known(k)'
  BY DEF KnownKeys
<1>1. CASE k \in (keys \cup memory) \ unread /\ ~Frees(e, k)
  <2>1. PICK x \in Devices : KnownOn(x, k)
    BY <1>1 DEF KnownKeys, Known
  <2>2. KnownOn(x, k)'
    BY <1>1, <2>1, KnownStays
  <2>. QED BY <2>2 DEF Known
<1>2. CASE k \in Keys /\ Takes(e, k)
  <2>1. KnownOn(d, k)'
    BY <1>2, TakenKnown
  <2>. QED BY <2>1 DEF Known
<1>. QED BY <1>1, <1>2

\* ... the modifiers of the platforms with one stream, that of an event being the one
\* of its key ...
Accounted(e, m) ==
  \/ m \in modifiers \ stale /\ \A k \in DOMAIN ModifierOf : ModifierOf[k] = m => ~Frees(e, k)
  \/ \E k \in DOMAIN ModifierOf : ModifierOf[k] = m /\ Takes(e, k)

LEMMA ModifiersRead ==
  ASSUME QueueTypes, Stands, BackedModifiers, platform # "evdev", NEW d \in Devices, Reads(d),
         \A m \in (modifiers \ stale)' : Accounted(queue[d][1], m)
  PROVE  BackedModifiers'
<1>. PICK e : e = queue[d][1]
  OBVIOUS
<1>. SUFFICES ASSUME NEW m \in (modifiers \ stale)'
              PROVE  \E k \in DOMAIN ModifierOf : ModifierOf[k] = m /\ Known(k)'
  BY DEF BackedModifiers, Backed, Reads
<1>0. Accounted(e, m)
  OBVIOUS
<1>1. CASE m \in modifiers \ stale /\ \A k \in DOMAIN ModifierOf : ModifierOf[k] = m => ~Frees(e, k)
  <2>1. PICK k \in DOMAIN ModifierOf : ModifierOf[k] = m /\ Known(k)
    BY <1>1 DEF BackedModifiers, Backed
  <2>2. PICK x \in Devices : KnownOn(x, k)
    BY <2>1 DEF Known
  <2>3. KnownOn(x, k)'
    BY <1>1, <2>1, <2>2, KnownStays
  <2>. QED BY <2>1, <2>3 DEF Known
<1>2. CASE \E k \in DOMAIN ModifierOf : ModifierOf[k] = m /\ Takes(e, k)
  <2>1. PICK k \in DOMAIN ModifierOf : ModifierOf[k] = m /\ Takes(e, k)
    BY <1>2
  <2>2. KnownOn(d, k)'
    BY <2>1, TakenKnown, ModifierOfIs
  <2>. QED BY <2>1, <2>2 DEF Known
<1>. QED BY <1>0, <1>1, <1>2 DEF Accounted

LEMMA ModifierRead ==
  ASSUME NEW e, e.key \in Keys, Heard(e), NEW known, known \subseteq modifiers, stale' = stale,
         modifiers' = AfterModifier(known, BaseSymbol(e.key), e.down)
  PROVE  \A m \in (modifiers \ stale)' : Accounted(e, m)
<1>. SUFFICES ASSUME NEW m \in (modifiers \ stale)' PROVE Accounted(e, m)
  OBVIOUS
<1>0. Named(BaseSymbol(e.key)) = IF e.key \in DOMAIN ModifierOf THEN {ModifierOf[e.key]} ELSE {}
  BY ModifierOfIs
<1>1. CASE e.key \notin DOMAIN ModifierOf
  BY <1>0, <1>1 DEF AfterModifier, Frees, Accounted
<1>2. CASE e.key \in DOMAIN ModifierOf /\ e.down
  BY <1>0, <1>2 DEF AfterModifier, Frees, Takes, Accounted
<1>3. CASE e.key \in DOMAIN ModifierOf /\ ~e.down
  BY <1>0, <1>3 DEF AfterModifier, Frees, Accounted
<1>. QED BY <1>1, <1>2, <1>3

\* ... and those of evdev, where the modifier of a key that was pressed under one level
\* and released under another is one of those that are missed.
LEMMA LevelsRead ==
  ASSUME QueueTypes, Stands, BackedModifiers, platform = "evdev", NEW d \in Devices, Reads(d),
         NEW e, e = queue[d][1], Heard(e), e.key \in Keys, e.down \in BOOLEAN, NEW value,
         Misread(d, e, value), modifiers' = AfterModifier(modifiers, value, e.down)
  PROVE  BackedModifiers'
<1>. SUFFICES ASSUME NEW m \in (modifiers \ stale)'
              PROVE  \E x \in Devices, k \in Keys : m \in taken'[x][k] /\ KnownOn(x, k)'
  BY DEF BackedModifiers, Backed, Reads
<1>1. /\ taken'[d][e.key] = IF e.down THEN Named(value) ELSE {}
      /\ \A x \in Devices, k \in Keys : x # d \/ k # e.key => taken'[x][k] = taken[x][k]
      /\ stale' = (stale \cup taken[d][e.key]) \ Named(value)
  BY DEF Misread, QueueTypes
<1>2. CASE m \in Named(value)
  <2>1. e.down /\ m \in taken'[d][e.key]
    BY <1>1, <1>2 DEF AfterModifier
  <2>2. KnownOn(d, e.key)'
    BY <2>1, TakenKnown DEF Takes
  <2>. QED BY <2>1, <2>2
<1>3. CASE m \notin Named(value)
  <2>1. m \in modifiers \ stale /\ m \notin taken[d][e.key]
    BY <1>1, <1>3 DEF AfterModifier
  <2>2. PICK x \in Devices, k \in Keys : m \in taken[x][k] /\ KnownOn(x, k)
    BY <2>1 DEF BackedModifiers, Backed
  <2>3. x # d \/ k # e.key
    BY <2>1, <2>2
  <2>4. KnownOn(x, k)'
    BY <2>2, <2>3, KnownStays DEF Frees
  <2>. QED BY <1>1, <2>2, <2>3, <2>4
<1>. QED BY <1>2, <1>3

\* The first event of a queue.
LEMMA FirstIs ==
  ASSUME DetectionInv, NEW d \in Devices, Reads(d)
  PROVE  /\ QueueTypes /\ Head(queue[d]) = queue[d][1]
         /\ platform # "mac" => queue[d][1].kind = "key"
         /\ queue[d][1].kind = "key" => queue[d][1].key \in Keys /\ queue[d][1].down \in BOOLEAN
         /\ platform # "mac" => OnlyKeys'
         /\ platform # "evdev" => d = AnyDevice
<1>1. QueueTypes
  BY DEF DetectionInv
<1>2. Head(queue[d]) = queue[d][1] /\ 1 \in DOMAIN queue[d] /\ queue[d][1] \in Events
  BY <1>1, ReadQueue
<1>3. platform # "mac" => queue[d][1].kind = "key"
  BY <1>2 DEF DetectionInv, OnlyKeys
<1>4. queue[d][1].kind = "key" => queue[d][1].key \in Keys /\ queue[d][1].down \in BOOLEAN
  BY <1>2, ClearEventIs DEF Events, KeyEvents
<1>5. ASSUME platform # "mac" PROVE OnlyKeys'
  <2>1. OnlyKeys
    BY <1>5 DEF DetectionInv
  <2>. SUFFICES ASSUME NEW x \in Devices, NEW i \in DOMAIN queue'[x] PROVE queue'[x][i].kind = "key"
    BY DEF OnlyKeys
  <2>2. CASE x = d
    <3>1. i + 1 \in DOMAIN queue[d] /\ queue'[d][i] = queue[d][i + 1]
      BY <1>1, <2>2, ReadQueue
    <3>. QED BY <2>1, <2>2, <3>1 DEF OnlyKeys
  <2>3. CASE x # d
    BY <1>1, <2>1, <2>3, ReadQueue DEF OnlyKeys
  <2>. QED BY <2>2, <2>3
<1>6. platform # "evdev" => d = AnyDevice
  BY <1>1 DEF QueueTypes, Reads
<1>. QED BY <1>1, <1>2, <1>3, <1>4, <1>5, <1>6

\* The platforms with one stream have no keyboard states and no memory of keys.
LEMMA OneStreamRead ==
  ASSUME DetectionInv, NEW d \in Devices, Reads(d), platform # "evdev",
         UNCHANGED <<xkb, keys, memory, misread, lost>>,
         platform = "mac" => modifiers' \subseteq current',
         ~lost /\ exclude => \A m \in (modifiers \ stale)' : Accounted(queue[d][1], m)
  PROVE  DetectionInv'
<1>1. QueueTypes /\ d = AnyDevice /\ (platform # "mac" => OnlyKeys')
  BY FirstIs
<1>2. keys = {} /\ memory = {}
  BY <1>1 DEF QueueTypes
<1>3. QueueTypes'
  <2>1. queue' \in [Devices -> Seq(Events)] /\ \A x \in Devices : x # d => queue'[x] = queue[x]
    BY <1>1, ReadQueue
  <2>. QED BY <1>1, <1>2, <2>1 DEF QueueTypes, Reads, misread
<1>4. ASSUME ~lost, exclude PROVE Stands' /\ AllKnown'
  <2>1. Stands /\ AllKnown
    BY <1>4 DEF DetectionInv
  <2>2. KnownKeys'
    BY <1>2 DEF KnownKeys
  <2>3. BackedModifiers'
    BY <1>1, <1>4, <2>1, ModifiersRead DEF AllKnown
  <2>. QED BY <1>1, <2>1, <2>2, <2>3, StandsStays DEF AllKnown
<1>5. lost' = lost /\ exclude' = exclude /\ platform' = platform
  BY DEF Reads
<1>6. OnlyFickle'
  BY DEF DetectionInv, OnlyFickle, misread
<1>. QED BY <1>1, <1>3, <1>4, <1>5, <1>6 DEF DetectionInv

LEMMA MacDetected ==
  ASSUME DetectionInv, NEW d \in Devices, Reads(d), platform = "mac", DeliverMac(d)
  PROVE  /\ DetectionInv'
         /\ delivered'.kind = "key" /\ delivered'.event.kind = "key"
              /\ delivered'.event.key \notin DOMAIN ModifierOf
            => modifiers' \subseteq delivered'.event.flags
<1>. PICK e : e = queue[d][1]
  OBVIOUS
<1>1. Head(queue[d]) = e /\ (e.kind = "key" => e.key \in Keys)
  BY FirstIs
<1>2. UNCHANGED <<xkb, keys, memory, misread, lost>> /\ delivered'.event = e
  BY <1>1 DEF DeliverMac
<1>3. CASE /\ e.kind = "key"
           /\ current' = AfterModifier(current, BaseSymbol(e.key), e.down) \ Compensated(e)
           /\ modifiers' = AfterModifier(modifiers \ Compensated(e), BaseSymbol(e.key), e.down)
  <2>1. modifiers \subseteq current
    BY DEF DetectionInv
  <2>0. Named(BaseSymbol(e.key)) = IF e.key \in DOMAIN ModifierOf THEN {ModifierOf[e.key]} ELSE {}
    BY <1>1, <1>3, ModifierOfIs
  <2>2. modifiers' \subseteq current'
    BY <1>3, <2>0, <2>1 DEF AfterModifier, Compensated
  <2>3. e.key \notin DOMAIN ModifierOf => modifiers' \subseteq e.flags
    BY <1>3, <2>0, <2>1 DEF AfterModifier, Compensated
  <2>4. Heard(e) /\ e.key \in Keys
    BY <1>1, <1>3 DEF Heard
  <2>5. modifiers \ Compensated(e) \subseteq modifiers
    OBVIOUS
  <2>6. \A m \in (modifiers \ stale)' : Accounted(e, m)
    BY <1>2, <1>3, <2>4, <2>5, ModifierRead DEF misread
  <2>7. DetectionInv'
    BY <1>2, <2>2, <2>6, OneStreamRead
  <2>. QED BY <1>2, <2>3, <2>7
<1>4. CASE e.kind = "clear" /\ modifiers' = {}
  <2>1. DetectionInv'
    BY <1>2, <1>4, OneStreamRead
  <2>. QED BY <1>4, <2>1
<1>. QED BY <1>1, <1>3, <1>4 DEF DeliverMac

LEMMA X11Detected ==
  ASSUME DetectionInv, NEW d \in Devices, Reads(d), platform = "x11", DeliverX11(d)
  PROVE  DetectionInv'
<1>. PICK e : e = queue[d][1]
  OBVIOUS
<1>1. Head(queue[d]) = e /\ e.kind = "key" /\ e.key \in Keys
  BY FirstIs
<1>2. /\ UNCHANGED <<xkb, keys, memory, misread, lost>>
      /\ modifiers' = AfterModifier(modifiers, BaseSymbol(e.key), e.down)
  BY <1>1 DEF DeliverX11
<1>3. Heard(e)
  BY <1>1 DEF Heard
<1>4. \A m \in (modifiers \ stale)' : Accounted(e, m)
  BY <1>1, <1>2, <1>3, ModifierRead DEF misread
<1>. QED BY <1>2, <1>4, OneStreamRead

\* With exclude, no event of software reaches the store.
LEMMA Win32Detected ==
  ASSUME DetectionInv, NEW d \in Devices, Reads(d), platform = "win32", DeliverWin32(d)
  PROVE  DetectionInv'
<1>. PICK e : e = queue[d][1]
  OBVIOUS
<1>1. Head(queue[d]) = e /\ e.kind = "key" /\ e.key \in Keys
  BY FirstIs
<1>2. UNCHANGED <<xkb, keys, memory, misread, lost>>
  BY DEF DeliverWin32
<1>3. ASSUME exclude
      PROVE  \A m \in (modifiers \ stale)' : Accounted(e, m)
  <2>1. CASE IsOrphan(e)
    <3>1. modifiers' = modifiers /\ ~Heard(e)
      BY <1>1, <1>3, <2>1 DEF DeliverWin32, Heard
    <3>. QED BY <1>2, <3>1 DEF Frees, Accounted, misread
  <2>2. CASE ~IsOrphan(e)
    <3>1. Heard(e) /\ modifiers' = AfterModifier(modifiers, BaseSymbol(e.key), e.down)
      BY <1>1, <2>2 DEF DeliverWin32, Heard
    <3>. QED BY <1>1, <1>2, <3>1, ModifierRead DEF misread
  <2>. QED BY <2>1, <2>2
<1>. QED BY <1>2, <1>3, OneStreamRead

\* On evdev the levels of the keyboard go on where the event that is read has left its
\* keyboard state, and the symbol found there is the one the key had.
LEMMA TraceRead ==
  ASSUME DetectionInv, platform = "evdev", ~lost, NEW d \in Devices, Reads(d),
         NEW e, e = queue[d][1],
         xkb'[d] = Step(xkb[d], e), \A x \in Devices : x # d => xkb'[x] = xkb[x]
  PROVE  /\ Follows'
         /\ e.down /\ e.alone => e.symbol = Symbol(e.key, xkb[d])
<1>0. QueueTypes /\ Follows
  BY DEF DetectionInv
<1>1. \A f \in Seq(SUBSET ModifierKeys) : Trace(d, f) =>
        /\ Tail(f) \in Seq(SUBSET ModifierKeys) /\ Trace(d, Tail(f))'
        /\ e.down /\ e.alone => e.symbol = Symbol(e.key, xkb[d])
  <2>. SUFFICES ASSUME NEW f \in Seq(SUBSET ModifierKeys), Trace(d, f)
                PROVE  /\ Tail(f) \in Seq(SUBSET ModifierKeys) /\ Trace(d, Tail(f))'
                       /\ e.down /\ e.alone => e.symbol = Symbol(e.key, xkb[d])
    OBVIOUS
  <2>. PICK q, g : q = queue[d] /\ g = Tail(f)
    OBVIOUS
  <2>1. q \in Seq(Events) /\ q # <<>> /\ queue'[d] = Tail(q) /\ q[1] = e
    BY <1>0, ReadQueue DEF Reads
  <2>2. Through(q, f) /\ f[1] = xkb[d] /\ f[Len(f)] = Level(held[d])
    BY DEF Trace
  <2>3. /\ g \in Seq(SUBSET ModifierKeys) /\ Through(Tail(q), g)
        /\ g[1] = Step(f[1], q[1]) /\ g[Len(g)] = f[Len(f)]
        /\ q[1].down /\ q[1].alone => q[1].symbol = Symbol(q[1].key, f[1])
    BY <2>1, <2>2, ThroughLess
  <2>4. Level(held[d])' = Level(held[d])
    BY DEF Reads, Level
  <2>5. Trace(d, g)'
    BY <2>1, <2>2, <2>3, <2>4 DEF Trace
  <2>. QED BY <2>1, <2>2, <2>3, <2>5
<1>2. ASSUME NEW x \in Devices PROVE \E f \in Seq(SUBSET ModifierKeys) : Trace(x, f)'
  <2>1. PICK f \in Seq(SUBSET ModifierKeys) : Trace(x, f)
    BY <1>0 DEF Follows
  <2>2. CASE x = d
    BY <1>1, <2>1, <2>2
  <2>3. CASE x # d
    <3>1. queue'[x] = queue[x] /\ xkb'[x] = xkb[x]
      BY <1>0, <2>3, ReadQueue
    <3>2. Level(held[x])' = Level(held[x])
      BY DEF Reads, Level
    <3>3. Trace(x, f)'
      BY <2>1, <3>1, <3>2 DEF Trace
    <3>. QED BY <3>3
  <2>. QED BY <2>2, <2>3
<1>. QED BY <1>0, <1>1, <1>2 DEF Follows

\* What is missed is missed because the key changes with the level.
LEMMA FickleRead ==
  ASSUME DetectionInv, NEW d \in Devices, NEW e, e.key \in Keys, NEW ks \in SUBSET ModifierKeys,
         Misread(d, e, Symbol(e.key, ks))
  PROVE  OnlyFickle'
<1>. PICK value : value = Symbol(e.key, ks)
  OBVIOUS
<1>1. /\ taken'[d][e.key] = IF e.down THEN Named(value) ELSE {}
      /\ \A x \in Devices, k \in Keys : x # d \/ k # e.key => taken'[x][k] = taken[x][k]
      /\ stale' = (stale \cup taken[d][e.key]) \ Named(value)
      /\ unread' \subseteq unread \cup {e.key}
      /\ e.key \in unread' => e.key \in unread \/ value = "none"
  BY DEF Misread, DetectionInv, QueueTypes
<1>2. OnlyFickle
  BY DEF DetectionInv
<1>3. ASSUME NEW m \in stale' PROVE \E k \in Keys : Fickle(k, m)
  <2>1. CASE m \in stale
    BY <1>2, <2>1 DEF OnlyFickle
  <2>2. CASE m \in taken[d][e.key] /\ m \notin Named(value)
    <3>1. MayBe(e.key, m)
      BY <1>2, <2>2 DEF OnlyFickle
    <3>2. PICK ls \in SUBSET ModifierKeys : m \in Named(Symbol(e.key, ls))
      BY <3>1 DEF MayBe
    <3>3. m \in Named(Symbol(e.key, ls)) \ Named(Symbol(e.key, ks))
      BY <2>2, <3>2
    <3>. QED BY <3>3 DEF Fickle
  <2>. QED BY <1>1, <1>3, <2>1, <2>2
<1>4. ASSUME NEW k \in unread' PROVE Symbolless(k)
  <2>1. CASE k \in unread
    BY <1>2, <2>1 DEF OnlyFickle
  <2>2. CASE k = e.key /\ value = "none"
    BY <2>2 DEF Symbolless
  <2>. QED BY <1>1, <1>4, <2>1, <2>2
<1>5. ASSUME NEW x \in Devices, NEW k \in Keys, NEW m \in taken'[x][k] PROVE MayBe(k, m)
  <2>1. CASE x # d \/ k # e.key
    BY <1>1, <1>2, <1>5, <2>1 DEF OnlyFickle
  <2>2. CASE x = d /\ k = e.key
    <3>1. m \in Named(Symbol(k, ks))
      BY <1>1, <1>5, <2>2
    <3>. QED BY <3>1 DEF MayBe
  <2>. QED BY <2>1, <2>2
<1>. QED BY <1>3, <1>4, <1>5 DEF OnlyFickle

LEMMA EvdevDetected ==
  ASSUME DetectionInv, NEW d \in Devices, Reads(d), platform = "evdev", DeliverEvdev(d)
  PROVE  DetectionInv'
<1>. PICK e, value : e = queue[d][1] /\ value = Symbol(e.key, xkb[d])
  OBVIOUS
<1>1. /\ Head(queue[d]) = e /\ e.kind = "key" /\ e.key \in Keys /\ e.down \in BOOLEAN
      /\ QueueTypes /\ OnlyKeys'
  BY FirstIs
<1>2. Heard(e) /\ e = queue[d][1]
  BY <1>1 DEF Heard
<1>3. Misread(d, e, value)
  BY <1>1 DEF DeliverEvdev
<1>4. xkb[d] \in SUBSET ModifierKeys /\ xkb \in [Devices -> SUBSET ModifierKeys]
  BY <1>1 DEF QueueTypes
<1>5. OnlyFickle'
  BY <1>1, <1>3, <1>4, FickleRead
<1>6. /\ modifiers' = AfterModifier(modifiers, value, e.down)
      /\ \A k \in ((keys \cup memory) \ unread)' :
           (k \in (keys \cup memory) \ unread /\ ~Frees(e, k)) \/ (k \in Keys /\ Takes(e, k))
      /\ (keys \cup memory)' \subseteq Keys
      /\ ~lost' => ~lost /\ xkb' = [xkb EXCEPT ![d] = Step(xkb[d], e)]
      /\ xkb' \in [Devices -> SUBSET ModifierKeys]
      /\ delivered' # NoDelivery =>
           delivered'.kind = "key" /\ delivered'.event = e /\ delivered'.value = value
  <2>0. keys \cup memory \subseteq Keys
    BY <1>1 DEF QueueTypes
  <2>1. CASE /\ value = "none" /\ delivered' = NoDelivery /\ lost' = (lost \/ e.key \in ModifierKeys)
             /\ UNCHANGED <<xkb, memory, keys, modifiers>>
    <3>1. modifiers' = AfterModifier(modifiers, value, e.down)
      BY <2>1, ModifierOfIs DEF AfterModifier
    <3>2. unread' = IF e.down THEN unread ELSE unread \cup {e.key}
      BY <1>3, <2>1 DEF Misread
    <3>3. ~lost' => ~lost /\ Step(xkb[d], e) = xkb[d]
      BY <2>1 DEF Step
    <3>4. xkb = [xkb EXCEPT ![d] = xkb[d]]
      BY <1>4
    <3>. QED BY <1>4, <2>0, <2>1, <3>1, <3>2, <3>3, <3>4 DEF Frees
  <2>2. CASE /\ xkb' = DeviceState(d, e)
             /\ \E old \in {{}, memory} : memory' = Remembered(e, old)
             /\ delivered'.kind = "key" /\ delivered'.event = e /\ delivered'.value = value
             /\ keys' = AfterKey(keys, e.key, e.down)
             /\ modifiers' = AfterModifier(modifiers, value, e.down)
             /\ value # "none" /\ lost' = lost
    <3>1. keys' = IF e.down THEN keys \cup {e.key} ELSE keys \ {e.key}
      BY <2>2 DEF AfterKey
    <3>2. memory' \subseteq IF e.down THEN memory \cup {e.key} ELSE memory \ {e.key}
      BY <2>2 DEF Remembered
    <3>3. unread' = IF e.down THEN unread ELSE unread \ {e.key}
      BY <1>3, <2>2 DEF Misread
    <3>4. xkb' = [xkb EXCEPT ![d] = Step(xkb[d], e)] /\ Step(xkb[d], e) \in SUBSET ModifierKeys
      BY <1>4, <2>2, StepIs DEF DeviceState, Step
    <3>5. xkb' \in [Devices -> SUBSET ModifierKeys]
      BY <1>4, <3>4
    <3>6. \A k \in ((keys \cup memory) \ unread)' :
            (k \in (keys \cup memory) \ unread /\ ~Frees(e, k)) \/ (k \in Keys /\ Takes(e, k))
      BY <1>1, <1>2, <3>1, <3>2, <3>3 DEF Frees, Takes
    <3>7. (keys \cup memory)' \subseteq Keys
      BY <1>1, <2>0, <3>1, <3>2
    <3>. QED BY <2>2, <3>4, <3>5, <3>6, <3>7
  <2>. QED BY <1>1, <2>1, <2>2 DEF DeliverEvdev
<1>7. QueueTypes'
  <2>1. queue' \in [Devices -> Seq(Events)]
    BY <1>1, ReadQueue
  <2>2. taken' \in [Devices -> [Keys -> SUBSET ModifierNames]]
    <3>1. Named(value) \in SUBSET ModifierNames
      BY ModifierOfIs
    <3>. QED BY <1>1, <1>3, <3>1 DEF Misread, QueueTypes
  <2>3. platform' = "evdev"
    BY DEF Reads
  <2>. QED BY <1>6, <2>1, <2>2, <2>3 DEF QueueTypes
<1>8. ASSUME ~lost', exclude PROVE Stands' /\ AllKnown'
  <2>1. Stands /\ AllKnown
    BY <1>6, <1>8 DEF DetectionInv
  <2>2. KnownKeys'
    BY <1>1, <1>2, <1>6, <2>1, KeysRead DEF AllKnown
  <2>3. BackedModifiers'
    BY <1>1, <1>2, <1>3, <1>6, <2>1, LevelsRead DEF AllKnown
  <2>. QED BY <1>1, <2>1, <2>2, <2>3, StandsStays DEF AllKnown
<1>9. ASSUME ~lost' PROVE Follows' /\ (e.down /\ e.alone => e.symbol = value)
  <2>1. ~lost /\ xkb'[d] = Step(xkb[d], e) /\ \A x \in Devices : x # d => xkb'[x] = xkb[x]
    BY <1>4, <1>6, <1>9
  <2>. QED BY <1>2, <2>1, TraceRead
<1>10. SymbolAsTyped'
  BY <1>6, <1>9 DEF SymbolAsTyped, NoDelivery
<1>11. exclude' = exclude /\ platform' = platform
  BY DEF Reads
<1>. QED BY <1>1, <1>5, <1>7, <1>8, <1>9, <1>10, <1>11 DEF DetectionInv

\* What the detection thread does.
LEMMA DeliverDetected ==
  ASSUME DeviceInv, DetectionInv, DetectionThread
  PROVE  /\ DetectionInv'
         /\ platform = "mac" /\ delivered'.kind = "key" /\ delivered'.event.kind = "key"
              /\ delivered'.event.key \notin DOMAIN ModifierOf
            => modifiers' \subseteq delivered'.event.flags
<1>1. PICK d \in Devices : Deliver(d)
  BY DEF DetectionThread
<1>2. Reads(d)
  BY <1>1 DEF Deliver, Reads, DetectionThread, injectionVars
<1>3. platform \in {"evdev", "x11", "mac", "win32"}
  BY InjectionAssumption DEF InjectionAssumption, DeviceInv, DeviceTypes
<1>4. CASE platform = "evdev"
  <2>1. DeliverEvdev(d)
    BY <1>1, <1>4 DEF Deliver
  <2>. QED BY <1>2, <1>4, <2>1, EvdevDetected
<1>5. CASE platform = "x11"
  <2>1. DeliverX11(d)
    BY <1>1, <1>5 DEF Deliver
  <2>. QED BY <1>2, <1>5, <2>1, X11Detected
<1>6. CASE platform = "mac"
  <2>1. DeliverMac(d)
    BY <1>1, <1>6 DEF Deliver
  <2>. QED BY <1>2, <1>6, <2>1, MacDetected
<1>7. CASE platform = "win32"
  <2>1. DeliverWin32(d)
    BY <1>1, <1>7 DEF Deliver
  <2>. QED BY <1>2, <1>7, <2>1, Win32Detected
<1>. QED BY <1>3, <1>4, <1>5, <1>6, <1>7

\* The steps that neither see nor make events of keys.
LEMMA StillDetected ==
  ASSUME DetectionInv, delivered' = NoDelivery,
         UNCHANGED <<platform, exclude, queue, xkb, current, held, plugged, pressed, taken, unread>>,
         keys' \subseteq keys, memory' \subseteq memory, modifiers' \subseteq modifiers,
         stale' \subseteq stale, (modifiers \ stale)' \subseteq modifiers \ stale,
         lost => lost'
  PROVE  DetectionInv'
<1>1. \A d \in Devices : /\ Level(held[d])' = Level(held[d])
                         /\ \A k \in Keys : Standing(d, k) => Standing(d, k)'
  BY DEF Level, Standing, Sources
<1>. QED BY <1>1, NothingMoves

LEMMA EngineDetected ==
  ASSUME DeviceInv, DetectionInv, EngineStep
  PROVE  DetectionInv'
<1>0. delivered' = NoDelivery
  BY DEF EngineStep
<1>1. CASE RecordLapses
  <2>1. /\ keys' \subseteq keys /\ modifiers' \subseteq modifiers /\ (lost => lost')
        /\ stale' \subseteq stale /\ (modifiers \ stale)' \subseteq modifiers \ stale
        /\ UNCHANGED <<platform, exclude, held, plugged, queue, xkb, memory, current, pressed, taken, unread>>
    BY <1>1 DEF RecordLapses, KeyLapses, ModifierLapses
  <2>. QED BY <1>0, <2>1, StillDetected
<1>2. CASE PressesKey \/ ReleasesKey
  BY <1>0, <1>2, InjectorDetected
<1>3. CASE ReleasesAllKeys
  BY <1>0, <1>3, AllReleasedDetected
<1>4. CASE \/ ModifiersReleased \/ DelayTimesOut \/ WaitsForKey \/ WaitTimesOut \/ SendsEvent
           \/ CountsEvents \/ Fails \/ SavesClipboard \/ SetsClipboard \/ RestoresClipboard \/ Ends
  <2>1. /\ UNCHANGED <<platform, exclude, held, plugged, xkb, keys, modifiers, memory, current>>
        /\ UNCHANGED <<queue, lost, pressed, taken, stale, unread>>
    BY <1>4 DEF ModifiersReleased, DelayTimesOut, WaitsForKey, WaitTimesOut, SendsEvent, CountsEvents,
                Fails, SavesClipboard, SetsClipboard, RestoresClipboard, Ends, engineIdle, misread
  <2>. QED BY <1>0, <2>1, StillDetected
<1>. QED BY <1>1, <1>2, <1>3, <1>4 DEF EngineStep

LEMMA UserDetected ==
  ASSUME DeviceInv, DetectionInv, User
  PROVE  DetectionInv'
<1>0. delivered' = NoDelivery
  BY DEF User
<1>1. CASE \E d \in Devices, k \in Keys : UserPresses(d, k) \/ UserReleases(d, k)
  BY <1>0, <1>1, PressDetected, ReleaseDetected
<1>2. CASE \E d \in Devices : Unplug(d)
  BY <1>0, <1>2, UnplugDetected
<1>3. CASE ShortcutReleased
  BY <1>0, <1>3, ShortcutDetected
<1>4. CASE (\E r \in Requests[platform] : Requested(r)) \/ UserCopies \/ ApplicationPastes
  <2>1. /\ UNCHANGED <<platform, exclude, held, plugged, xkb, keys, modifiers, memory, current>>
        /\ UNCHANGED <<queue, lost, pressed, taken, stale, unread>>
    BY <1>4 DEF Requested, UserCopies, ApplicationPastes, engineIdle, stores, misread
  <2>. QED BY <1>0, <2>1, StillDetected
<1>. QED BY <1>1, <1>2, <1>3, <1>4 DEF User

LEMMA StutterDetected ==
  ASSUME DetectionInv, UNCHANGED vars
  PROVE  DetectionInv'
<1>1. UNCHANGED <<platform, exclude, held, plugged, queue, xkb, keys, modifiers, memory, current,
                  delivered, lost, pressed, taken, stale, unread>>
  BY DEF vars, detectionVars, injectionVars
<1>2. QueueTypes' <=> QueueTypes
  BY <1>1 DEF QueueTypes
<1>3. OnlyKeys' <=> OnlyKeys
  BY <1>1 DEF OnlyKeys
<1>4. \A d, k : Standing(d, k)' <=> Standing(d, k)
  BY <1>1 DEF Standing, Sources
<1>5. Stands' <=> Stands
  BY <1>1, <1>4 DEF Stands, Takes, Frees, Heard
<1>6. AllKnown' <=> AllKnown
  BY <1>1, <1>4 DEF AllKnown, KnownKeys, BackedModifiers, Backed, Known, KnownOn, Frees, Heard
<1>7. Follows' <=> Follows
  BY <1>1 DEF Follows, Trace, Level
<1>8. SymbolAsTyped' <=> SymbolAsTyped
  BY <1>1 DEF SymbolAsTyped
<1>9. OnlyFickle' <=> OnlyFickle
  BY <1>1 DEF OnlyFickle
<1>. QED BY <1>1, <1>2, <1>3, <1>5, <1>6, <1>7, <1>8, <1>9 DEF DetectionInv

\* What a step of macOS may never do.
Noticed ==
  platform = "mac" /\ delivered'.kind = "key" /\ delivered'.event.kind = "key"
    /\ delivered'.event.key \notin DOMAIN ModifierOf
  => modifiers' \subseteq delivered'.event.flags

LEMMA DetectionStep ==
  ASSUME DeviceInv, DetectionInv, [Next]_vars
  PROVE  DetectionInv' /\ [Noticed]_vars
<1>1. CASE User \/ EngineStep
  <2>1. delivered'.kind = "none"
    BY <1>1 DEF User, EngineStep, NoDelivery
  <2>. QED BY <1>1, <2>1, UserDetected, EngineDetected DEF Noticed
<1>2. CASE DetectionThread
  BY <1>2, DeliverDetected DEF Noticed
<1>3. CASE UNCHANGED vars
  BY <1>3, StutterDetected
<1>. QED BY <1>1, <1>2, <1>3 DEF Next

\* What a store takes to be down is down, or its release waits in a queue.
LEMMA KnownIs ==
  ASSUME DeviceInv, NEW d \in Devices, NEW k, KnownOn(d, k)
  PROVE  k \in HeldKeys \cup pressed \/ Pending(k)
<1>1. CASE Standing(d, k)
  <2>1. Sources(d) \subseteq plugged
    BY DEF Sources
  <2>. QED BY <1>1, <2>1 DEF Standing, HeldKeys
<1>2. CASE \E j \in DOMAIN queue[d] : Frees(queue[d][j], k)
  BY <1>2 DEF Frees, Heard, Pending
<1>. QED BY <1>1, <1>2 DEF KnownOn

LEMMA DetectionInvIs == DeviceInv /\ DetectionInv => NoPhantoms /\ SymbolAsTyped
<1>. SUFFICES ASSUME DeviceInv, DetectionInv PROVE NoPhantoms /\ SymbolAsTyped
  OBVIOUS
<1>1. SymbolAsTyped /\ OnlyFickle
  BY DEF DetectionInv, SymbolAsTyped
<1>2. ASSUME ~lost, exclude
      PROVE  /\ \A k \in (keys \cup memory) \ unread : k \in HeldKeys \cup pressed \/ Pending(k)
             /\ \A m \in modifiers \ stale :
                  \E k \in Keys : TakenFor(k, m) /\ (k \in HeldKeys \cup pressed \/ Pending(k))
  <2>1. AllKnown
    BY <1>2 DEF DetectionInv
  <2>2. \A d \in Devices : \A k : KnownOn(d, k) => k \in HeldKeys \cup pressed \/ Pending(k)
    BY KnownIs
  <2>3. \A k \in (keys \cup memory) \ unread : k \in HeldKeys \cup pressed \/ Pending(k)
    BY <2>1, <2>2 DEF AllKnown, KnownKeys, Known
  <2>4. ASSUME NEW m \in modifiers \ stale
        PROVE  \E k \in Keys : TakenFor(k, m) /\ (k \in HeldKeys \cup pressed \/ Pending(k))
    <3>1. Backed(m)
      BY <2>1 DEF AllKnown, BackedModifiers
    <3>2. CASE platform = "evdev"
      BY <2>2, <3>1, <3>2 DEF Backed, TakenFor
    <3>3. CASE platform # "evdev"
      BY <2>2, <3>1, <3>3, ModifierOfIs DEF Backed, Known, TakenFor
    <3>. QED BY <3>2, <3>3
  <2>. QED BY <2>3, <2>4
<1>3. NoPhantoms
  BY <1>1, <1>2 DEF NoPhantoms, OnlyFickle
<1>. QED BY <1>1, <1>3

\* The stores of the worker hold no key and no modifier that nobody presses, a key means
\* to the matchers what it meant to the application, and macOS notices what it has lost
\* (KeysAsTyped).
THEOREM KeysAreAsTyped == Spec => KeysAsTyped
<1>1. Init => DetectionInv
  BY DetectionStarts
<1>2. DeviceInv /\ DetectionInv /\ [Next]_vars => DetectionInv' /\ [Noticed]_vars
  BY DetectionStep
<1>3. Spec => [](DeviceInv /\ DetectionInv) /\ [][Noticed]_vars
  <2>1. Spec => []DeviceInv
    BY DeviceInvHolds
  <2>. QED BY <1>1, <1>2, <2>1, PTL DEF Spec
<1>4. DeviceInv /\ DetectionInv => NoPhantoms /\ SymbolAsTyped
  BY DetectionInvIs
<1>5. [][Noticed]_vars => LostReleasesNoticed
  BY PTL DEF Noticed, LostReleasesNoticed
<1>. QED BY <1>3, <1>4, <1>5, PTL DEF KeysAsTyped
=============================================================================

---------------------------- MODULE StreamLemmas ----------------------------
(***************************************************************************)
(* Lemmas about intervals and sequences that the proofs of several         *)
(* components need: induction over an interval, the stream of bytes that a *)
(* sequence of commands makes end to end, and lists without duplicates.    *)
(***************************************************************************)
EXTENDS Integers, SequencesExt, WellFoundedInduction, FiniteSetTheorems,
        SequenceTheorems, TLAPS

(***************************************************************************)
(* Induction over an interval, for a set of numbers: the set of intervals  *)
(* 0 .. k with k outside of it would have a least member.                  *)
(***************************************************************************)
LEMMA IntervalInduction ==
  ASSUME NEW n \in Nat, NEW T, 0 \in T,
         \A k \in 0 .. n : k # n /\ k \in T => k + 1 \in T
  PROVE  \A k \in 0 .. n : k \in T
<1> DEFINE Bad == {k \in 0 .. n : k \notin T}
           Intervals == {0 .. k : k \in Bad}
<1> SUFFICES ASSUME Bad # {} PROVE FALSE
  OBVIOUS
<1>1. IsWellFoundedOn(StrictSubsetOrdering(0 .. n), SUBSET (0 .. n))
  <2>1. IsFiniteSet(0 .. n)
    BY FS_Interval, n \in Int, 0 \in Int
  <2>2. FiniteSubsetsOf(0 .. n) = SUBSET (0 .. n)
    BY <2>1, FS_FiniteSubsetsOfFinite
  <2> QED BY <2>2, FS_StrictSubsetOrderingWellFounded
<1>2. Intervals \subseteq SUBSET (0 .. n) /\ Intervals # {}
  OBVIOUS
<1>3. PICK x \in Intervals :
        \A y \in Intervals : <<y, x>> \notin StrictSubsetOrdering(0 .. n)
  <2> HIDE DEF Intervals
  <2> QED BY <1>1, <1>2, WFMin
<1>4. PICK k \in Bad : x = 0 .. k
  OBVIOUS
<1>5. k # 0 /\ k - 1 \in Bad
  OBVIOUS
<1>6. 0 .. k-1 \in Intervals
  BY <1>5
<1>7. <<0 .. k-1, x>> \in StrictSubsetOrdering(0 .. n)
  <2>1. 0 .. k-1 \in SUBSET (0 .. n) /\ x \in SUBSET (0 .. n)
    BY <1>4, <1>5
  <2>2. 0 .. k-1 \subseteq x /\ 0 .. k-1 # x
    BY <1>4, <1>5
  <2> QED BY <2>1, <2>2 DEF StrictSubsetOrdering
<1> QED BY <1>3, <1>6, <1>7

(***************************************************************************)
(* The recursive definition of RunningSum has a solution, whose values are *)
(* numbers: by induction on the length of the part that is defined.        *)
-----------------------------------------------------------------------------
(***************************************************************************)
(* The recursive definition in FlattenSeq has a solution, whose values are *)
(* sequences: by induction on the length of the part that is defined.      *)
(***************************************************************************)
IsFlat(f, cmds, n) ==
  f = [i \in 1 .. n |-> IF i = 1 THEN cmds[i] ELSE f[i-1] \o cmds[i]]

(* The recursive definition of FlattenSeq has a solution. *)
LEMMA FlatExists ==
  ASSUME NEW S, NEW cmds \in Seq(Seq(S)), Len(cmds) # 0
  PROVE  \A n \in 0 .. Len(cmds) :
           n = 0 \/ \E f \in [1 .. n -> Seq(S)] : IsFlat(f, cmds, n)
<1> DEFINE Good(n) == n = 0 \/ \E f \in [1 .. n -> Seq(S)] : IsFlat(f, cmds, n)
           T == {n \in 0 .. Len(cmds) : Good(n)}
<1>1. Len(cmds) \in Nat /\ \A i \in 1 .. Len(cmds) : cmds[i] \in Seq(S)
  OBVIOUS
<1>2. 0 \in T
  BY <1>1
<1>3. ASSUME NEW n \in 0 .. Len(cmds), n # Len(cmds), n \in T PROVE n + 1 \in T
  <2>1. n + 1 \in 1 .. Len(cmds) /\ cmds[n+1] \in Seq(S)
    BY <1>1, <1>3
  <2>2. CASE n = 0
    <3> DEFINE g == [i \in 1 .. 1 |-> cmds[1]]
    <3>1. g \in [1 .. 1 -> Seq(S)]
      BY <2>1, <2>2
    <3>2. IsFlat(g, cmds, 1)
      BY DEF IsFlat
    <3> QED BY <2>1, <2>2, <3>1, <3>2
  <2>3. CASE n # 0
    <3>1. PICK f \in [1 .. n -> Seq(S)] : IsFlat(f, cmds, n)
      BY <1>3, <2>3
    <3> DEFINE g == [i \in 1 .. n+1 |->
                        IF i = n+1 THEN f[n] \o cmds[n+1] ELSE f[i]]
    <3>2. n \in 1 .. n /\ f[n] \o cmds[n+1] \in Seq(S)
      BY <2>1, <2>3, <3>1
    <3>3. g \in [1 .. n+1 -> Seq(S)]
      BY <3>1, <3>2
    <3>4. ASSUME NEW i \in 1 .. n+1
          PROVE  g[i] = IF i = 1 THEN cmds[i] ELSE g[i-1] \o cmds[i]
      <4>1. CASE i = n + 1
        <5>1. i # 1 /\ i - 1 = n /\ n \in 1 .. n+1 /\ n # n + 1
          BY <2>1, <2>3, <4>1
        <5>2. g[i] = f[n] \o cmds[n+1] /\ g[i-1] = f[n]
          BY <4>1, <5>1
        <5> QED BY <4>1, <5>1, <5>2
      <4>2. CASE i # n + 1
        <5>1. i \in 1 .. n /\ g[i] = f[i] /\ (i # 1 => g[i-1] = f[i-1])
          BY <2>1, <4>2
        <5>2. f[i] = IF i = 1 THEN cmds[i] ELSE f[i-1] \o cmds[i]
          BY <3>1, <5>1 DEF IsFlat
        <5> QED BY <5>1, <5>2
      <4> QED BY <4>1, <4>2
    <3>5. IsFlat(g, cmds, n+1)
      BY <3>3, <3>4 DEF IsFlat
    <3>6. n + 1 \in 0 .. Len(cmds)
      BY <2>1
    <3> HIDE DEF g
    <3> QED BY <3>3, <3>5, <3>6
  <2> QED BY <2>2, <2>3
<1> HIDE DEF T
<1>4. \A n \in 0 .. Len(cmds) : n \in T
  BY <1>1, <1>2, <1>3, IntervalInduction
<1> QED BY <1>4 DEF T

(***************************************************************************)
(* The stream of a sequence of commands, by the commands' number: none is  *)
(* the empty stream, and each command appends its bytes.                   *)
(***************************************************************************)
LEMMA FlattenPrefix ==
  ASSUME NEW S, NEW cmds \in Seq(Seq(S)), NEW f,
         IsFlat(f, cmds, Len(cmds)), NEW n \in 1 .. Len(cmds)
  PROVE  f[n] = FlattenSeq(SubSeq(cmds, 1, n))
<1> DEFINE p == SubSeq(cmds, 1, n)
<1>1. /\ p \in Seq(Seq(S)) /\ Len(p) = n /\ n \in Nat
      /\ \A i \in 1 .. n : p[i] = cmds[i]
  OBVIOUS
<1> HIDE DEF p
<1>2. PICK g \in [1 .. n -> Seq(S)] : IsFlat(g, p, n)
  <2>1. Len(p) # 0 /\ n \in 0 .. Len(p) /\ n # 0
    BY <1>1
  <2> QED BY <1>1, <2>1, FlatExists
<1> DEFINE h == CHOOSE h : IsFlat(h, p, n)
<1>3. IsFlat(h, p, n)
  BY <1>2
<1>4. FlattenSeq(p) = h[n]
  BY <1>1 DEF FlattenSeq, IsFlat
<1> HIDE DEF h
<1> DEFINE T == {k \in 0 .. n : k = 0 \/ f[k] = h[k]}
<1>5. 0 \in T
  BY <1>1
<1>6. ASSUME NEW k \in 0 .. n, k # n, k \in T PROVE k + 1 \in T
  <2>1. k + 1 \in 1 .. n /\ k + 1 \in 1 .. Len(cmds) /\ (k + 1) - 1 = k
    BY <1>1, <1>6
  <2>2. f[k+1] = IF k + 1 = 1 THEN cmds[k+1] ELSE f[k] \o cmds[k+1]
    BY <2>1 DEF IsFlat
  <2>3. h[k+1] = IF k + 1 = 1 THEN p[k+1] ELSE h[k] \o p[k+1]
    BY <1>3, <2>1 DEF IsFlat
  <2>4. p[k+1] = cmds[k+1]
    BY <1>1, <2>1
  <2> QED BY <1>6, <2>1, <2>2, <2>3, <2>4
<1> HIDE DEF T
<1>7. \A k \in 0 .. n : k \in T
  BY <1>1, <1>5, <1>6, IntervalInduction
<1>8. n \in 0 .. n
  BY <1>1
<1>9. f[n] = h[n]
  BY <1>7, <1>8 DEF T
<1> QED BY <1>4, <1>9 DEF p

(***************************************************************************)
(* The stream of commands is a sequence of bytes; it is the stream of all  *)
(* but the last command, followed by the last.                             *)
(***************************************************************************)
LEMMA FlattenType ==
  ASSUME NEW S, NEW cmds \in Seq(Seq(S))
  PROVE  FlattenSeq(cmds) \in Seq(S)
<1>1. Len(cmds) \in Nat /\ (Len(cmds) = 0 => cmds = <<>>)
  OBVIOUS
<1>2. CASE Len(cmds) = 0
  BY <1>1, <1>2 DEF FlattenSeq
<1>3. CASE Len(cmds) # 0
  <2> DEFINE n == Len(cmds)
             h == CHOOSE h : IsFlat(h, cmds, n)
  <2>1. n \in 0 .. Len(cmds) /\ n # 0 /\ n \in 1 .. n
    BY <1>1, <1>3
  <2>2. PICK f \in [1 .. n -> Seq(S)] : IsFlat(f, cmds, n)
    BY <1>3, <2>1, FlatExists
  <2>3. IsFlat(h, cmds, n)
    BY <2>2
  <2>4. FlattenSeq(cmds) = h[n]
    BY <1>3 DEF FlattenSeq, IsFlat
  <2> HIDE DEF h
  <2>5. f[n] = FlattenSeq(SubSeq(cmds, 1, n)) /\ h[n] = FlattenSeq(SubSeq(cmds, 1, n))
    BY <2>1, <2>2, <2>3, FlattenPrefix
  <2> QED BY <2>1, <2>2, <2>4, <2>5
<1> QED BY <1>2, <1>3

(* One command more is flattened to its bytes behind the others. *)
LEMMA FlattenStep ==
  ASSUME NEW S, NEW cmds \in Seq(Seq(S)), NEW n \in 1 .. Len(cmds)
  PROVE  FlattenSeq(SubSeq(cmds, 1, n))
           = FlattenSeq(SubSeq(cmds, 1, n-1)) \o cmds[n]
<1>1. Len(cmds) \in Nat /\ Len(cmds) # 0 /\ cmds[n] \in Seq(S)
  OBVIOUS
<1>2. PICK f \in [1 .. Len(cmds) -> Seq(S)] : IsFlat(f, cmds, Len(cmds))
  <2>1. Len(cmds) \in 0 .. Len(cmds)
    BY <1>1
  <2> QED BY <1>1, <2>1, FlatExists
<1>3. f[n] = IF n = 1 THEN cmds[n] ELSE f[n-1] \o cmds[n]
  BY <1>2 DEF IsFlat
<1>4. f[n] = FlattenSeq(SubSeq(cmds, 1, n))
  BY <1>2, FlattenPrefix
<1>5. CASE n = 1
  <2>1. SubSeq(cmds, 1, n-1) = <<>>
    BY <1>5
  <2>2. FlattenSeq(<<>>) = <<>>
    BY DEF FlattenSeq
  <2>3. <<>> \o cmds[n] = cmds[n]
    BY <1>1
  <2> QED BY <1>3, <1>4, <1>5, <2>1, <2>2, <2>3
<1>6. CASE n # 1
  <2>1. n - 1 \in 1 .. Len(cmds)
    BY <1>1, <1>6
  <2>2. f[n-1] = FlattenSeq(SubSeq(cmds, 1, n-1))
    BY <1>2, <2>1, FlattenPrefix
  <2> QED BY <1>3, <1>4, <1>6, <2>2
<1> QED BY <1>5, <1>6

(***************************************************************************)
(* Each command lies within the stream: it ends where the next one starts, *)
(* and the last one ends at the end of the stream.                         *)
(***************************************************************************)
LEMMA FlattenBound ==
  ASSUME NEW S, NEW cmds \in Seq(Seq(S)), NEW n \in 1 .. Len(cmds)
  PROVE  /\ Len(FlattenSeq(SubSeq(cmds, 1, n-1))) \in Nat
         /\ Len(FlattenSeq(SubSeq(cmds, 1, n-1))) + Len(cmds[n])
               <= Len(FlattenSeq(cmds))
<1> DEFINE at(k) == Len(FlattenSeq(SubSeq(cmds, 1, k)))
<1>1. PICK m \in Nat : m = Len(cmds) /\ n \in Nat /\ 1 <= n /\ n <= m
  OBVIOUS
<1>2. ASSUME NEW k \in 0 .. m
      PROVE  /\ FlattenSeq(SubSeq(cmds, 1, k)) \in Seq(S)
             /\ at(k) \in Nat
  <2>1. SubSeq(cmds, 1, k) \in Seq(Seq(S))
    BY <1>1
  <2>2. FlattenSeq(SubSeq(cmds, 1, k)) \in Seq(S)
    BY <2>1, FlattenType
  <2> QED BY <2>2
<1>3. ASSUME NEW k \in 1 .. m
      PROVE  at(k) = at(k-1) + Len(cmds[k]) /\ Len(cmds[k]) \in Nat
  <2>1. k - 1 \in 0 .. m /\ cmds[k] \in Seq(S)
    BY <1>1
  <2>2. FlattenSeq(SubSeq(cmds, 1, k-1)) \in Seq(S)
    BY <1>2, <2>1
  <2>3. FlattenSeq(SubSeq(cmds, 1, k)) = FlattenSeq(SubSeq(cmds, 1, k-1)) \o cmds[k]
    BY <1>1, FlattenStep
  <2>4. Len(FlattenSeq(SubSeq(cmds, 1, k)))
          = Len(FlattenSeq(SubSeq(cmds, 1, k-1))) + Len(cmds[k])
    BY <2>1, <2>2, <2>3, ConcatProperties
  <2>5. at(k) = at(k-1) + Len(cmds[k])
    BY <2>4
  <2>6. Len(cmds[k]) \in Nat
    BY <2>1
  <2> QED BY <2>5, <2>6
<1> DEFINE T == {d \in 0 .. m - n : at(n) <= at(n + d)}
<1> HIDE DEF at
<1>4. 0 \in T
  BY <1>1, <1>2
<1> HIDE DEF T
<1>5. ASSUME NEW d \in 0 .. m - n, d # m - n, d \in T
      PROVE  d + 1 \in T
  <2>1. /\ n + (d + 1) \in 1 .. m /\ (n + (d + 1)) - 1 = n + d
        /\ d + 1 \in 0 .. m - n /\ n + d \in 0 .. m /\ n \in 0 .. m
    BY <1>1, <1>5
  <2>2. at(n + (d+1)) = at(n + d) + Len(cmds[n + (d+1)])
        /\ Len(cmds[n + (d+1)]) \in Nat
    BY <1>3, <2>1
  <2>3. at(n + d) \in Nat /\ at(n) \in Nat
    BY <1>2, <2>1
  <2>4. at(n) <= at(n + d)
    BY <1>5 DEF T
  <2>5. at(n) <= at(n + (d+1))
    BY <2>2, <2>3, <2>4
  <2> QED BY <2>1, <2>5 DEF T
<1>6. \A d \in 0 .. m - n : d \in T
  <2> m - n \in Nat
    BY <1>1
  <2> QED BY <1>4, <1>5, IntervalInduction
<1>7. at(n) <= at(m)
  <2> m - n \in 0 .. m - n /\ n + (m - n) = m
    BY <1>1
  <2> QED BY <1>6 DEF T
<1>8. at(n-1) \in Nat /\ at(n) = at(n-1) + Len(cmds[n])
  <2> n - 1 \in 0 .. m /\ n \in 1 .. m
    BY <1>1
  <2> QED BY <1>2, <1>3
<1>9. at(m) = Len(FlattenSeq(cmds)) /\ at(n-1) = Len(FlattenSeq(SubSeq(cmds, 1, n-1)))
  <2> SubSeq(cmds, 1, m) = cmds
    BY <1>1
  <2> QED BY DEF at
<1> QED BY <1>7, <1>8, <1>9

(* Element by element. *)
LEMMA PrefixMeans ==
  ASSUME NEW S, NEW s \in Seq(S), NEW t \in Seq(S)
  PROVE  IsPrefix(s, t) <=>
           Len(s) <= Len(t) /\ \A i \in 1 .. Len(s) : s[i] = t[i]
<1>1. PICK n \in Nat : n = Len(s)
  OBVIOUS
<1>2. CASE n <= Len(t)
  <2>1. \A i \in 1 .. n : t[i] \in S
    BY <1>1, <1>2
  <2> DEFINE r == SubSeq(t, 1, n)
  <2>2. r \in Seq(S) /\ Len(r) = n /\ \A i \in 1 .. n : r[i] = t[i]
    BY <1>1, <1>2, <2>1
  <2> HIDE DEF r
  <2>3. SubSeq(s, 1, n) = s
    BY <1>1
  <2>4. s = r <=> \A i \in 1 .. n : s[i] = t[i]
    BY <1>1, <2>2, SeqEqual
  <2> QED BY <1>1, <1>2, <2>3, <2>4 DEF IsPrefix, r
<1> QED BY <1>1, <1>2 DEF IsPrefix

(* Two pieces of a sequence, the second where the first ends. *)
LEMMA SubSeqJoin ==
  ASSUME NEW S, NEW s \in Seq(S), NEW a \in Nat, NEW b \in Nat, NEW e \in Nat,
         a <= b, b <= e, e <= Len(s)
  PROVE  SubSeq(s, a+1, b) \o SubSeq(s, b+1, e) = SubSeq(s, a+1, e)
<1> DEFINE p == SubSeq(s, a+1, b)
           q == SubSeq(s, b+1, e)
           r == SubSeq(s, a+1, e)
<1>0. PICK n \in Nat : n = Len(s) /\ e <= n
  OBVIOUS
<1>1. \A i \in 1 .. n : s[i] \in S
  BY <1>0
<1>2. /\ p \in Seq(S) /\ Len(p) = b - a
      /\ \A i \in 1 .. b - a : p[i] = s[a + i]
  <2>1. \A i \in a+1 .. b : s[i] \in S
    BY <1>0, <1>1
  <2>2. /\ p \in Seq(S) /\ Len(p) = IF a+1 <= b THEN b - (a+1) + 1 ELSE 0
        /\ \A i \in 1 .. b - (a+1) + 1 : p[i] = s[(a+1) + i - 1]
    BY <2>1, SubSeqProperties
  <2> HIDE DEF p
  <2>3. \A i \in 1 .. b - a : i \in 1 .. b - (a+1) + 1 /\ (a+1) + i - 1 = a + i
    OBVIOUS
  <2> QED BY <2>2, <2>3
<1>3. /\ q \in Seq(S) /\ Len(q) = e - b
      /\ \A i \in 1 .. e - b : q[i] = s[b + i]
  <2>1. \A i \in b+1 .. e : s[i] \in S
    BY <1>0, <1>1
  <2>2. /\ q \in Seq(S) /\ Len(q) = IF b+1 <= e THEN e - (b+1) + 1 ELSE 0
        /\ \A i \in 1 .. e - (b+1) + 1 : q[i] = s[(b+1) + i - 1]
    BY <2>1, SubSeqProperties
  <2> HIDE DEF q
  <2>3. \A i \in 1 .. e - b : i \in 1 .. e - (b+1) + 1 /\ (b+1) + i - 1 = b + i
    OBVIOUS
  <2> QED BY <2>2, <2>3
<1>4. /\ r \in Seq(S) /\ Len(r) = e - a
      /\ \A i \in 1 .. e - a : r[i] = s[a + i]
  <2>1. \A i \in a+1 .. e : s[i] \in S
    BY <1>0, <1>1
  <2>2. /\ r \in Seq(S) /\ Len(r) = IF a+1 <= e THEN e - (a+1) + 1 ELSE 0
        /\ \A i \in 1 .. e - (a+1) + 1 : r[i] = s[(a+1) + i - 1]
    BY <2>1, SubSeqProperties
  <2> HIDE DEF r
  <2>3. \A i \in 1 .. e - a : i \in 1 .. e - (a+1) + 1 /\ (a+1) + i - 1 = a + i
    OBVIOUS
  <2> QED BY <2>2, <2>3
<1> HIDE DEF p, q, r
<1>5. /\ p \o q \in Seq(S) /\ Len(p \o q) = Len(p) + Len(q)
      /\ \A i \in 1 .. Len(p) + Len(q) :
           (p \o q)[i] = IF i <= Len(p) THEN p[i] ELSE q[i - Len(p)]
  BY <1>2, <1>3, ConcatProperties
<1>6. Len(p) + Len(q) = e - a
  BY <1>2, <1>3
<1>7. \A i \in 1 .. e - a : (p \o q)[i] = r[i]
  <2> SUFFICES ASSUME NEW i \in 1 .. e - a PROVE (p \o q)[i] = r[i]
    OBVIOUS
  <2>1. CASE i <= b - a
    <3>1. i \in 1 .. b - a
      BY <2>1
    <3> QED BY <1>2, <1>4, <1>5, <1>6, <2>1, <3>1
  <2>2. CASE ~ (i <= b - a)
    <3>1. i - (b - a) \in 1 .. e - b /\ b + (i - (b - a)) = a + i
      BY <2>2
    <3> QED BY <1>2, <1>3, <1>4, <1>5, <1>6, <2>2, <3>1
  <2> QED BY <2>1, <2>2
<1>8. p \o q = r
  BY <1>4, <1>5, <1>6, <1>7, SeqEqual
<1> QED BY <1>8 DEF p, q, r

-----------------------------------------------------------------------------
(***************************************************************************)
(* A list that holds nothing twice, with an element put at its head, with  *)
(* its head taken off, and with one element unlinked from anywhere in it.  *)
(***************************************************************************)
LEMMA ListCons ==
  ASSUME NEW S, NEW s \in Seq(S), IsInjective(s), NEW e \in S, e \notin ToSet(s)
  PROVE  /\ <<e>> \o s \in Seq(S)
         /\ IsInjective(<<e>> \o s)
         /\ ToSet(<<e>> \o s) = ToSet(s) \cup {e}
<1> DEFINE r == <<e>> \o s
<1>1. /\ r \in Seq(S) /\ Len(r) = Len(s) + 1 /\ Len(s) \in Nat
      /\ DOMAIN r = 1 .. Len(s) + 1 /\ DOMAIN s = 1 .. Len(s)
      /\ r[1] = e /\ \A i \in 1 .. Len(s) : r[i+1] = s[i]
  OBVIOUS
<1>2. \A i \in DOMAIN r : i # 1 => i - 1 \in DOMAIN s /\ r[i] = s[i-1]
  BY <1>1
<1> HIDE DEF r
<1>3. IsInjective(r)
  BY <1>1, <1>2 DEF IsInjective, ToSet
<1>4. ToSet(r) = ToSet(s) \cup {e}
  <2>1. ToSet(r) \subseteq ToSet(s) \cup {e}
    BY <1>1, <1>2 DEF ToSet
  <2>2. e \in ToSet(r)
    BY <1>1 DEF ToSet
  <2>3. ToSet(s) \subseteq ToSet(r)
    <3> SUFFICES ASSUME NEW i \in DOMAIN s PROVE s[i] \in ToSet(r)
      BY DEF ToSet
    <3> i + 1 \in DOMAIN r /\ r[i+1] = s[i]
      BY <1>1
    <3> QED BY DEF ToSet
  <2> QED BY <2>1, <2>2, <2>3
<1> QED BY <1>1, <1>3, <1>4 DEF r

(* The tail of a list without duplicates has lost its first member only. *)
LEMMA ListTail ==
  ASSUME NEW S, NEW s \in Seq(S), IsInjective(s), s # <<>>
  PROVE  /\ Head(s) \in S /\ Head(s) \in ToSet(s)
         /\ Tail(s) \in Seq(S)
         /\ IsInjective(Tail(s))
         /\ ToSet(Tail(s)) = ToSet(s) \ {Head(s)}
<1> DEFINE r == Tail(s)
<1>1. /\ r \in Seq(S) /\ Len(s) \in Nat \ {0} /\ Len(r) = Len(s) - 1
      /\ DOMAIN r = 1 .. Len(s) - 1 /\ DOMAIN s = 1 .. Len(s)
      /\ Head(s) = s[1] /\ \A i \in 1 .. Len(s) - 1 : r[i] = s[i+1]
  OBVIOUS
<1> HIDE DEF r
<1>2. \A i \in DOMAIN r : i + 1 \in DOMAIN s /\ i + 1 # 1 /\ r[i] = s[i+1]
  BY <1>1
<1>3. IsInjective(r)
  BY <1>1, <1>2 DEF IsInjective
<1>4. 1 \in DOMAIN s /\ Head(s) \in S /\ Head(s) \in ToSet(s)
  BY <1>1 DEF ToSet
<1>5. ToSet(r) = ToSet(s) \ {Head(s)}
  <2>1. ToSet(r) \subseteq ToSet(s) \ {Head(s)}
    BY <1>1, <1>2, <1>4 DEF ToSet, IsInjective
  <2>2. ToSet(s) \ {Head(s)} \subseteq ToSet(r)
    <3> SUFFICES ASSUME NEW i \in DOMAIN s, s[i] # Head(s) PROVE s[i] \in ToSet(r)
      BY DEF ToSet
    <3> i # 1
      BY <1>1
    <3> i - 1 \in DOMAIN r /\ r[i-1] = s[i]
      BY <1>1
    <3> QED BY DEF ToSet
  <2> QED BY <2>1, <2>2
<1> QED BY <1>1, <1>3, <1>4, <1>5 DEF r

(* RemoveAt, index by index. *)
LEMMA RemoveAtValue ==
  ASSUME NEW S, NEW s \in Seq(S), NEW n \in Nat, n = Len(s),
         NEW k \in Nat, k > 0, k <= n
  PROVE  /\ RemoveAt(s, k) \in Seq(S)
         /\ Len(RemoveAt(s, k)) = n - 1
         /\ \A i \in 1 .. n-1 :
              RemoveAt(s, k)[i] = IF i < k THEN s[i] ELSE s[i+1]
<1> DEFINE a == SubSeq(s, 1, k-1)
           b == SubSeq(s, k+1, n)
<1>1. /\ a \in Seq(S) /\ Len(a) = k - 1
      /\ \A i \in 1 .. n-1 : i < k => a[i] = s[i]
  <2>1. \A i \in 1 .. k-1 : s[i] \in S
    OBVIOUS
  <2>2. k - 1 \in Int /\ (1 <= k-1 => (k-1) - 1 + 1 = k - 1)
        /\ (~ (1 <= k-1) => k - 1 = 0)
        /\ \A i \in 1 .. n-1 : i < k => i \in 1 .. (k-1) - 1 + 1 /\ 1 + i - 1 = i
    OBVIOUS
  <2> QED BY <2>1, <2>2, SubSeqProperties
<1>2. /\ b \in Seq(S) /\ Len(b) = n - k
      /\ \A i \in 1 .. n-1 : ~ (i < k) => b[i - k + 1] = s[i+1]
  <2>1. \A i \in k+1 .. n : s[i] \in S
    OBVIOUS
  <2>2. k + 1 \in Int /\ n \in Int /\ (k+1 <= n => n - (k+1) + 1 = n - k)
        /\ (~ (k+1 <= n) => n - k = 0)
        /\ \A i \in 1 .. n-1 : ~ (i < k) => /\ i - k + 1 \in 1 .. n - (k+1) + 1
                                            /\ (k+1) + (i - k + 1) - 1 = i + 1
    OBVIOUS
  <2> QED BY <2>1, <2>2, SubSeqProperties
<1>3. RemoveAt(s, k) = a \o b
  BY DEF RemoveAt
<1> HIDE DEF a, b
<1>4. /\ a \in Seq(S) /\ Len(a) = k - 1 /\ b \in Seq(S) /\ Len(b) = n - k
      /\ Len(a) + Len(b) = n - 1
  <2>1. a \in Seq(S) /\ Len(a) = k - 1
    BY <1>1
  <2>2. b \in Seq(S) /\ Len(b) = n - k
    BY <1>2
  <2> QED BY <2>1, <2>2
<1>5. a \o b \in Seq(S) /\ Len(a \o b) = n - 1
  BY <1>4, ConcatProperties
<1>6. ASSUME NEW i \in 1 .. n-1
      PROVE  (a \o b)[i] = IF i < k THEN s[i] ELSE s[i+1]
  <2>1. i \in 1 .. Len(a) + Len(b)
    BY <1>4
  <2>2. (a \o b)[i] = IF i <= Len(a) THEN a[i] ELSE b[i - Len(a)]
    BY <1>4, <2>1, ConcatProperties
  <2>3. (i <= Len(a) <=> i < k) /\ i - Len(a) = i - k + 1
    BY <1>4
  <2> QED BY <1>1, <1>2, <2>2, <2>3
<1> QED BY <1>3, <1>5, <1>6

(* A set of numbers that is not empty has a least one.                     *)
LEMMA LeastNumber ==
  ASSUME NEW I, I \subseteq Nat, I # {}
  PROVE  Min(I) \in I /\ \A y \in I : Min(I) <= y
<1>1. \E x \in I : \A y \in I : x <= y
  <2> SUFFICES ASSUME \A x \in I : \E y \in I : ~ (x <= y) PROVE FALSE
    OBVIOUS
  <2>1. PICK n \in Nat : n \in I
    OBVIOUS
  <2> DEFINE T == {k \in 0 .. n : \A j \in 0 .. k : j \notin I}
  <2>2. 0 \in T
    OBVIOUS
  <2>3. ASSUME NEW k \in 0 .. n, k # n, k \in T PROVE k + 1 \in T
    <3>1. k + 1 \in 0 .. n /\ \A j \in 0 .. k+1 : j = k + 1 \/ j \in 0 .. k
      BY <2>3
    <3>2. k + 1 \notin I
      <4> SUFFICES ASSUME k + 1 \in I PROVE FALSE
        OBVIOUS
      <4>1. PICK y \in I : ~ (k + 1 <= y)
        OBVIOUS
      <4>2. y \in 0 .. k
        BY <4>1
      <4> QED BY <2>3, <4>2
    <3> QED BY <2>3, <3>1, <3>2
  <2> HIDE DEF T
  <2>4. n \in T
    <3>1. \A k \in 0 .. n : k \in T
      BY <2>2, <2>3, IntervalInduction
    <3> QED BY <3>1
  <2> QED BY <2>1, <2>4 DEF T
<1> QED BY <1>1 DEF Min

(* Whatever is to be removed, a list of elements remains.                  *)
LEMMA RemoveFirstType ==
  ASSUME NEW S, NEW s \in Seq(S), NEW e
  PROVE  RemoveFirst(s, e) \in Seq(S)
<1>1. PICK n \in Nat : n = Len(s) /\ DOMAIN s = 1 .. n
  OBVIOUS
<1> DEFINE I == {i \in 1 .. Len(s) : s[i] = e}
<1>2. CASE I = {}
  BY <1>2 DEF RemoveFirst
<1>3. CASE I # {}
  <2>1. RemoveFirst(s, e) = RemoveAt(s, Min(I))
    BY <1>3 DEF RemoveFirst, SelectInSeq
  <2>2. Min(I) \in I
    <3> I \subseteq Nat
      BY <1>1
    <3> HIDE DEF I
    <3> QED BY <1>3, LeastNumber
  <2> DEFINE k == Min(I)
  <2>3. k \in Nat /\ k > 0 /\ k <= n
    BY <1>1, <2>2
  <2> HIDE DEF k
  <2>4. RemoveAt(s, k) \in Seq(S)
    BY <1>1, <2>3, RemoveAtValue
  <2> QED BY <2>1, <2>4 DEF k
<1> QED BY <1>2, <1>3

(* Removing a member of a list without duplicates takes only that one away. *)
LEMMA ListRemove ==
  ASSUME NEW S, NEW s \in Seq(S), IsInjective(s), NEW e \in ToSet(s)
  PROVE  /\ RemoveFirst(s, e) \in Seq(S)
         /\ IsInjective(RemoveFirst(s, e))
         /\ ToSet(RemoveFirst(s, e)) = ToSet(s) \ {e}
<1>1. PICK n \in Nat : n = Len(s) /\ DOMAIN s = 1 .. n
  OBVIOUS
<1>2. PICK k \in Nat : k > 0 /\ k <= n /\ s[k] = e
  BY <1>1 DEF ToSet
<1>3. {i \in 1 .. Len(s) : s[i] = e} = {k}
  BY <1>1, <1>2 DEF IsInjective
<1>4. SelectInSeq(s, LAMBDA v : v = e) = k
  <2>1. SelectInSeq(s, LAMBDA v : v = e) = Min({k})
    BY <1>3 DEF SelectInSeq
  <2>2. Min({k}) = k
    BY <1>2 DEF Min
  <2> QED BY <2>1, <2>2
<1> DEFINE r == RemoveAt(s, k)
<1>5. RemoveFirst(s, e) = r
  BY <1>1, <1>2, <1>4 DEF RemoveFirst
<1>6. /\ r \in Seq(S) /\ DOMAIN r = 1 .. n-1
      /\ \A i \in 1 .. n-1 : r[i] = IF i < k THEN s[i] ELSE s[i+1]
  <2>1. /\ r \in Seq(S) /\ Len(r) = n - 1
        /\ \A i \in 1 .. n-1 : r[i] = IF i < k THEN s[i] ELSE s[i+1]
    <3> HIDE DEF r
    <3> QED BY <1>1, <1>2, RemoveAtValue DEF r
  <2> HIDE DEF r
  <2> QED BY <2>1
<1> HIDE DEF r
<1> DEFINE to(i) == IF i < k THEN i ELSE i + 1
<1>7. \A i \in 1 .. n-1 : to(i) \in 1 .. n /\ to(i) # k /\ r[i] = s[to(i)]
  BY <1>2, <1>6
<1>8. \A j \in 1 .. n : j # k => \E i \in 1 .. n-1 : to(i) = j
  <2> SUFFICES ASSUME NEW j \in 1 .. n, j # k
               PROVE  \E i \in 1 .. n-1 : to(i) = j
    OBVIOUS
  <2>1. CASE j < k
    <3> j \in 1 .. n-1 /\ to(j) = j
      BY <1>2, <2>1
    <3> QED OBVIOUS
  <2>2. CASE j > k
    <3> j - 1 \in 1 .. n-1 /\ to(j-1) = j
      BY <1>2, <2>2
    <3> QED OBVIOUS
  <2> QED BY <1>2, <2>1, <2>2
<1>9. \A i, j \in 1 .. n-1 : to(i) = to(j) => i = j
  BY <1>2
<1> HIDE DEF to
<1>10. IsInjective(r)
  BY <1>1, <1>6, <1>7, <1>9 DEF IsInjective
<1>11. ToSet(r) = ToSet(s) \ {e}
  <2>1. \A i \in 1 .. n-1 : r[i] \in ToSet(s) \ {e}
    BY <1>1, <1>2, <1>7 DEF ToSet, IsInjective
  <2>2. ASSUME NEW j \in 1 .. n, s[j] # e PROVE s[j] \in ToSet(r)
    <3>1. PICK i \in 1 .. n-1 : to(i) = j
      BY <1>2, <1>8, <2>2
    <3>2. r[i] = s[j] /\ i \in DOMAIN r
      BY <1>6, <1>7, <3>1
    <3> QED BY <3>2 DEF ToSet
  <2> QED BY <1>1, <1>6, <2>1, <2>2 DEF ToSet
<1> QED BY <1>5, <1>6, <1>10, <1>11

(* A function on 1 .. n is a sequence. *)
LEMMA FunctionIsSeq ==
  ASSUME NEW S, NEW n \in Nat, NEW f \in [1 .. n -> S]
  PROVE  f \in Seq(S) /\ Len(f) = n
OBVIOUS

(* Two sequences that are the parts of a third make it up. *)
LEMMA JoinParts ==
  ASSUME NEW S, NEW f \in Seq(S), NEW g \in Seq(S), NEW h \in Seq(S),
         Len(f) = Len(g) + Len(h),
         \A i \in 1 .. Len(g) : g[i] = f[i],
         \A i \in 1 .. Len(h) : h[i] = f[Len(g) + i]
  PROVE  f = g \o h
<1>1. PICK n \in Nat, k \in Nat, u \in Nat :
        Len(g) = n /\ Len(h) = k /\ Len(f) = u /\ u = n + k
  OBVIOUS
<1>2. /\ g \o h \in Seq(S) /\ Len(g \o h) = n + k
      /\ \A i \in 1 .. n + k : (g \o h)[i] = IF i <= n THEN g[i] ELSE h[i - n]
  <2>1. /\ g \o h \in Seq(S) /\ Len(g \o h) = Len(g) + Len(h)
        /\ \A i \in 1 .. Len(g) + Len(h) :
             (g \o h)[i] = IF i <= Len(g) THEN g[i] ELSE h[i - Len(g)]
    BY <1>1, ConcatProperties
  <2> QED BY <1>1, <2>1
<1>3. \A i \in 1 .. u : (g \o h)[i] = f[i]
  <2> TAKE i \in 1 .. u
  <2>1. CASE i <= n
    BY <1>1, <1>2, <2>1
  <2>2. CASE ~ (i <= n)
    <3>1. PICK j \in 1 .. k : i - n = j /\ i = n + j
      BY <1>1, <2>2
    <3> QED BY <1>1, <1>2, <2>2, <3>1
  <2> QED BY <2>1, <2>2
<1> QED BY <1>1, <1>2, <1>3, SeqEqual
=============================================================================

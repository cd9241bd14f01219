------------------------------ MODULE ListFacts ------------------------------
(***************************************************************************)
(* Facts that several proofs use: induction over the numbers, stated for a *)
(* set so that the provers can instantiate it, what FlattenSeq makes of a  *)
(* sequence of sequences, where the parts of a joined sequence are, and    *)
(* what the least number of a set is.                                      *)
(***************************************************************************)
EXTENDS Integers, Sequences, SequencesExt, SequenceTheorems, WellFoundedInduction, TLAPS

(***************************************************************************)
(* A set that has 0, and with each number the next, has all numbers.       *)
(***************************************************************************)
LEMMA Induction ==
  ASSUME NEW S, 0 \in S, \A n \in Nat : n \in S => n + 1 \in S
  PROVE  \A n \in Nat : n \in S
<1>. DEFINE T == Nat \ S
<1>. SUFFICES ASSUME T # {}  PROVE FALSE
  OBVIOUS
<1>1. PICK x \in T : \A y \in T : ~ (<<y, x>> \in OpToRel(<, Nat))
  BY NatLessThanWellFounded, WFMin
<1>2. \A y \in T : ~(y < x)
  BY <1>1 DEF OpToRel
<1>3. x \in Nat /\ x # 0 /\ x \notin S
  OBVIOUS
<1>4. x - 1 \in Nat /\ x - 1 < x /\ x - 1 + 1 = x
  BY <1>3
<1>5. x - 1 \in S
  BY <1>2, <1>4
<1>6. x - 1 + 1 \in S
  BY <1>4, <1>5
<1>. QED  BY <1>3, <1>4, <1>6

------------------------------------------------------------------------------
(***************************************************************************)
(* FlattenSeq (SequencesExt) by a function of how many sequences were      *)
(* flattened: f flattens the first n of them.                              *)
(***************************************************************************)
Flattens(f, s, n) == f = [i \in 1..n |-> IF i = 1 THEN s[i] ELSE f[i - 1] \o s[i]]

(***************************************************************************)
(* There is such a function for each n.                                    *)
(***************************************************************************)
LEMMA Flattened ==
  ASSUME NEW s, NEW n \in Nat
  PROVE  \E f : Flattens(f, s, n)
<1>. DEFINE S == {j \in Nat : \E f : Flattens(f, s, j)}
<1>1. 0 \in S
  <2>. DEFINE f == [i \in 1..0 |-> s]
  <2>1. f = [i \in 1..0 |-> IF i = 1 THEN s[i] ELSE f[i - 1] \o s[i]]
    OBVIOUS
  <2>. QED  BY <2>1 DEF Flattens
<1>2. ASSUME NEW j \in Nat, j \in S  PROVE j + 1 \in S
  <2>1. PICK f : Flattens(f, s, j)
    BY <1>2
  <2>. DEFINE last == IF j = 0 THEN s[1] ELSE f[j] \o s[j + 1]
              g == [i \in 1..j + 1 |-> IF i = j + 1 THEN last ELSE f[i]]
  <2>2. \A i \in 1..j : f[i] = IF i = 1 THEN s[i] ELSE f[i - 1] \o s[i]
    BY <2>1 DEF Flattens
  <2>3. \A i \in 1..j : g[i] = f[i]
    OBVIOUS
  <2>4. g[j + 1] = last
    OBVIOUS
  <2>5. g = [i \in 1..j + 1 |-> g[i]]
    OBVIOUS
  <2>. HIDE DEF g
  <2>6. ASSUME NEW i \in 1..j + 1
        PROVE  g[i] = IF i = 1 THEN s[i] ELSE g[i - 1] \o s[i]
    <3>1. CASE i = j + 1
      <4>1. CASE j = 0
        BY <2>4, <3>1, <4>1
      <4>2. CASE j # 0
        <5>1. i # 1 /\ i - 1 = j /\ j \in 1..j
          BY <3>1, <4>2
        <5>2. g[i - 1] = f[j]
          BY <2>3, <5>1
        <5>. QED  BY <2>4, <3>1, <4>2, <5>1, <5>2
      <4>. QED  BY <4>1, <4>2
    <3>2. CASE i = 1 /\ i # j + 1
      BY <2>2, <2>3, <3>2
    <3>3. CASE i # 1 /\ i # j + 1
      <4>1. i \in 1..j /\ i - 1 \in 1..j
        BY <3>3
      <4>2. g[i] = f[i] /\ g[i - 1] = f[i - 1]
        BY <2>3, <4>1
      <4>. QED  BY <2>2, <3>3, <4>1, <4>2
    <3>. QED  BY <3>1, <3>2, <3>3
  <2>7. Flattens(g, s, j + 1)
    BY <2>5, <2>6 DEF Flattens
  <2>. QED  BY <2>7
<1>. HIDE DEF S
<1>3. n \in S
  BY <1>1, <1>2, Induction
<1>. QED  BY <1>3 DEF S

(***************************************************************************)
(* FlattenSeq is its last value.                                           *)
(***************************************************************************)
LEMMA FlattenedSeq ==
  ASSUME NEW s, NEW n \in Nat, n # 0, Len(s) = n
  PROVE  \E f : Flattens(f, s, n) /\ FlattenSeq(s) = f[n]
<1>. DEFINE flatten[i \in 1..Len(s)] == IF i = 1 THEN s[i] ELSE flatten[i - 1] \o s[i]
<1>1. \E f : Flattens(f, s, n)
  BY Flattened
<1>2. Flattens(flatten, s, n)
  BY <1>1 DEF Flattens
<1>3. FlattenSeq(s) = flatten[n]
  BY DEF FlattenSeq
<1>. QED  BY <1>2, <1>3

(***************************************************************************)
(* Each of the sequences flattened so far is the beginning of the later    *)
(* ones.                                                                   *)
(***************************************************************************)
LEMMA FlattenedGrows ==
  ASSUME NEW X, NEW s \in Seq(Seq(X)), NEW n \in Nat, n = Len(s), NEW f, Flattens(f, s, n)
  PROVE  \A j \in 1..n :
           /\ f[j] \in Seq(X)
           /\ \A k \in 1..j : /\ f[k] \in Seq(X) /\ Len(f[k]) <= Len(f[j])
                              /\ \A i \in 1..Len(f[k]) : f[j][i] = f[k][i]
<1>. DEFINE Grown(j) == /\ f[j] \in Seq(X)
                        /\ \A k \in 1..j : /\ f[k] \in Seq(X) /\ Len(f[k]) <= Len(f[j])
                                           /\ \A i \in 1..Len(f[k]) : f[j][i] = f[k][i]
            S == {j \in Nat : j \in 1..n => Grown(j)}
<1>0. \A i \in 1..n : s[i] \in Seq(X)
  OBVIOUS
<1>1. \A i \in 1..n : f[i] = IF i = 1 THEN s[i] ELSE f[i - 1] \o s[i]
  BY DEF Flattens
<1>2. 0 \in S
  OBVIOUS
<1>3. ASSUME NEW j \in Nat, j \in S  PROVE j + 1 \in S
  <2>. SUFFICES ASSUME j + 1 \in 1..n  PROVE Grown(j + 1)
    OBVIOUS
  <2>1. CASE j = 0
    <3>1. f[1] = s[1] /\ s[1] \in Seq(X)
      BY <1>0, <1>1, <2>1
    <3>2. \A k \in 1..1 : k = 1
      OBVIOUS
    <3>3. Len(f[1]) <= Len(f[1])
      BY <3>1, LenProperties
    <3>. QED  BY <2>1, <3>1, <3>2, <3>3
  <2>2. CASE j # 0
    <3>1. j \in 1..n /\ j + 1 # 1 /\ j + 1 - 1 = j
      BY <2>2
    <3>2. Grown(j)
      BY <1>3, <3>1
    <3>3. f[j + 1] = f[j] \o s[j + 1] /\ s[j + 1] \in Seq(X)
      <4>1. f[j + 1] = IF j + 1 = 1 THEN s[j + 1] ELSE f[j + 1 - 1] \o s[j + 1]
        BY <1>1
      <4>. QED  BY <1>0, <3>1, <4>1
    <3>. DEFINE old == f[j]  more == s[j + 1]  new == f[j + 1]
    <3>4. old \in Seq(X) /\ more \in Seq(X) /\ new = old \o more
      BY <3>2, <3>3
    <3>. HIDE DEF old, more, new
    <3>5. /\ new \in Seq(X) /\ Len(new) = Len(old) + Len(more)
          /\ \A i \in 1..Len(old) : new[i] = old[i]
      BY <3>4, ConcatProperties
    <3>6. Len(old) \in Nat /\ Len(more) \in Nat
      BY <3>4, LenProperties
    <3>7. \A k \in 1..j : /\ f[k] \in Seq(X) /\ Len(f[k]) <= Len(old)
                          /\ \A i \in 1..Len(f[k]) : old[i] = f[k][i]
      BY <3>2 DEF old
    <3>8. ASSUME NEW k \in 1..j + 1
          PROVE  /\ f[k] \in Seq(X) /\ Len(f[k]) <= Len(new)
                 /\ \A i \in 1..Len(f[k]) : new[i] = f[k][i]
      <4>1. CASE k = j + 1
        BY <3>5, <3>6, <4>1 DEF new
      <4>2. CASE k # j + 1
        <5>1. k \in 1..j
          BY <4>2
        <5>2. Len(f[k]) \in Nat
          BY <3>7, <5>1, LenProperties
        <5>. QED  BY <3>5, <3>6, <3>7, <5>1, <5>2
      <4>. QED  BY <4>1, <4>2
    <3>. QED  BY <3>5, <3>8 DEF new
  <2>. QED  BY <2>1, <2>2
<1>. HIDE DEF S
<1>4. \A j \in Nat : j \in S
  BY <1>2, <1>3, Induction
<1>. QED  BY <1>4 DEF S

(***************************************************************************)
(* What is flattened has all the elements of all the sequences, and is at  *)
(* least as long as the first of them.                                     *)
(***************************************************************************)
LEMMA FlattenedHas ==
  ASSUME NEW X, NEW s \in Seq(Seq(X)), s # << >>
  PROVE  /\ FlattenSeq(s) \in Seq(X) /\ Len(FlattenSeq(s)) >= Len(s[1])
         /\ \A i \in 1..Len(s), k \in Nat : k \in 1..Len(s[i]) =>
              \E q \in 1..Len(FlattenSeq(s)) : FlattenSeq(s)[q] = s[i][k]
<1>. DEFINE n == Len(s)
<1>1. n \in Nat /\ n # 0 /\ \A i \in 1..n : s[i] \in Seq(X)
  BY LenProperties, EmptySeq
<1>. HIDE DEF n
<1>2. PICK f : Flattens(f, s, n) /\ FlattenSeq(s) = f[n]
  BY <1>1, FlattenedSeq DEF n
<1>3. \A j \in 1..n :
        /\ f[j] \in Seq(X)
        /\ \A k \in 1..j : /\ f[k] \in Seq(X) /\ Len(f[k]) <= Len(f[j])
                           /\ \A i \in 1..Len(f[k]) : f[j][i] = f[k][i]
  <2>1. n \in Nat /\ n = Len(s) /\ Flattens(f, s, n)
    BY <1>1, <1>2 DEF n
  <2>. QED  BY <2>1, FlattenedGrows
<1>. DEFINE all == f[n]
<1>4. /\ all \in Seq(X)
      /\ \A k \in 1..n : /\ f[k] \in Seq(X) /\ Len(f[k]) <= Len(all)
                         /\ \A i \in 1..Len(f[k]) : all[i] = f[k][i]
  BY <1>1, <1>3
<1>5. \A i \in 1..n : f[i] = IF i = 1 THEN s[i] ELSE f[i - 1] \o s[i]
  BY <1>2 DEF Flattens
<1>6. FlattenSeq(s) = all
  BY <1>2
<1>. HIDE DEF all
<1>7. Len(all) >= Len(s[1])
  <2>1. f[1] = s[1] /\ 1 \in 1..n
    BY <1>1, <1>5
  <2>2. Len(f[1]) <= Len(all) /\ Len(all) \in Nat /\ Len(s[1]) \in Nat
    BY <1>1, <1>4, <2>1, LenProperties
  <2>. QED  BY <2>1, <2>2
<1>8. ASSUME NEW i \in 1..n, NEW k \in Nat, k \in 1..Len(s[i])
      PROVE  \E q \in 1..Len(all) : all[q] = s[i][k]
  <2>1. \E q \in 1..Len(f[i]) : f[i][q] = s[i][k]
    <3>1. CASE i = 1
      BY <1>5, <1>8, <3>1
    <3>2. CASE i # 1
      <4>. DEFINE old == f[i - 1]  more == s[i]
      <4>1. i - 1 \in 1..n
        BY <1>1, <3>2
      <4>2. old \in Seq(X) /\ more \in Seq(X) /\ f[i] = old \o more /\ k \in 1..Len(more)
        BY <1>1, <1>4, <1>5, <1>8, <3>2, <4>1
      <4>. HIDE DEF old, more
      <4>3. Len(old) \in Nat /\ Len(more) \in Nat /\ Len(old \o more) = Len(old) + Len(more)
        BY <4>2, LenProperties, ConcatProperties
      <4>4. Len(old) + k \in 1..Len(old \o more)
        BY <4>2, <4>3
      <4>5. (old \o more)[Len(old) + k] = more[k]
        BY <4>2, <4>3, <4>4, ConcatProperties
      <4>. QED  BY <4>2, <4>4, <4>5 DEF more
    <3>. QED  BY <3>1, <3>2
  <2>2. PICK q \in 1..Len(f[i]) : f[i][q] = s[i][k]
    BY <2>1
  <2>3. Len(f[i]) \in Nat /\ Len(all) \in Nat /\ Len(f[i]) <= Len(all)
    BY <1>4, LenProperties
  <2>4. q \in 1..Len(all) /\ all[q] = f[i][q]
    BY <1>4, <2>3
  <2>. QED  BY <2>2, <2>4
<1>. QED  BY <1>4, <1>6, <1>7, <1>8 DEF n

------------------------------------------------------------------------------
(***************************************************************************)
(* Each part of what was joined is still in it.                            *)
(***************************************************************************)
LEMMA JoinedParts ==
  ASSUME NEW X, NEW u \in Seq(X), NEW v \in Seq(X)
  PROVE  /\ u \o v \in Seq(X) /\ Len(u \o v) = Len(u) + Len(v)
         /\ \A i \in 1..Len(u) : (u \o v)[i] = u[i]
         /\ \A i \in 1..Len(v) : (u \o v)[Len(u) + i] = v[i]
<1>1. PICK a \in Nat : a = Len(u)
  BY LenProperties
<1>2. PICK b \in Nat : b = Len(v)
  BY LenProperties
<1>3. PICK w : w = u \o v
  OBVIOUS
<1>4. /\ w \in Seq(X) /\ Len(w) = a + b
      /\ \A i \in 1..a + b : w[i] = IF i <= a THEN u[i] ELSE v[i - a]
  BY <1>1, <1>2, <1>3, ConcatProperties
<1>5. ASSUME NEW i \in 1..a  PROVE w[i] = u[i]
  BY <1>4
<1>6. ASSUME NEW i \in 1..b  PROVE w[a + i] = v[i]
  <2>. DEFINE k == a + i
  <2>1. k \in 1..a + b /\ ~(k <= a) /\ k - a = i
    OBVIOUS
  <2>. HIDE DEF k
  <2>2. w[k] = v[k - a]
    BY <1>4, <2>1
  <2>. QED  BY <2>1, <2>2, Zenon DEF k
<1>. QED  BY <1>1, <1>2, <1>3, <1>4, <1>5, <1>6

(***************************************************************************)
(* A sequence over a set is one over each larger set.                      *)
(***************************************************************************)
LEMMA Wider ==
  ASSUME NEW X, NEW Y, X \subseteq Y, NEW s \in Seq(X)
  PROVE  s \in Seq(Y)
<1>1. Len(s) \in Nat /\ s \in [1..Len(s) -> X]
  BY LenProperties
<1>2. s \in [1..Len(s) -> Y]
  BY <1>1
<1>. QED  BY <1>1, <1>2

(***************************************************************************)
(* The least number of a set is what Min (FiniteSetsExt) chooses.          *)
(***************************************************************************)
LEMMA LeastIsMin ==
  ASSUME NEW S, S \subseteq Int, NEW x \in S, \A y \in S : x <= y
  PROVE  Min(S) = x
<1>1. Min(S) \in S /\ \A y \in S : Min(S) <= y
  BY Zenon DEF Min
<1>2. Min(S) <= x /\ x <= Min(S) /\ Min(S) \in Int /\ x \in Int
  BY <1>1
<1>. QED  BY <1>2
==============================================================================

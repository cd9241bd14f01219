-------------------------- MODULE ExperimentProofs --------------------------
(***************************************************************************)
(* What the driver of the experiments keeps of its children is enough to   *)
(* end them, and a row has its own experiment's times and counts, for any  *)
(* number of nodes up to 89, experiments, output files and requests.       *)
(***************************************************************************)
EXTENDS Experiment, FiniteSetTheorems, ListFacts

------------------------------------------------------------------------------
(* The texts of the array fds                                                *)

Word == Fds \cup {0}

IsArray(a) == a \in Seq(Seq(Word)) /\ \A i \in 1..Len(a) : a[i] # << >>

\* The word w is in the text t.
In(w, t) == \E k \in 1..Len(t) : t[k] = w

(***************************************************************************)
(* A word that is cut off a text leaves all others in it.                  *)
(***************************************************************************)
LEMMA CutText ==
  ASSUME NEW t \in Seq(Word), t # << >>, NEW f, NEW u,
         u = IF Head(t) = f THEN << 0 >> \o Tail(t) ELSE t
  PROVE  /\ u \in Seq(Word) /\ u # << >>
         /\ \A g : g # f /\ In(g, t) => In(g, u)
<1>1. CASE Head(t) # f
  BY <1>1
<1>2. CASE Head(t) = f
  <2>. DEFINE rest == Tail(t)  zero == << 0 >>
  <2>1. /\ rest \in Seq(Word) /\ Len(t) \in Nat /\ Len(t) # 0 /\ Len(rest) = Len(t) - 1
        /\ \A k \in 1..Len(rest) : rest[k] = t[k + 1]
    BY HeadTailProperties, LenProperties, EmptySeq
  <2>2. zero \in Seq(Word) /\ Len(zero) = 1
    BY DEF Word
  <2>3. u = zero \o rest /\ t[1] = f
    BY <1>2
  <2>. HIDE DEF rest, zero
  <2>4. /\ u \in Seq(Word) /\ Len(u) = Len(t)
        /\ \A k \in 1..Len(u) : k > Len(zero) => u[k] = rest[k - Len(zero)]
    BY <2>1, <2>2, <2>3, ConcatProperties
  <2>5. ASSUME NEW g, g # f, In(g, t)  PROVE In(g, u)
    <3>1. PICK k \in 1..Len(t) : t[k] = g
      BY <2>5 DEF In
    <3>2. k # 1 /\ k \in 1..Len(u) /\ k > Len(zero) /\ k - Len(zero) = k - 1
      BY <2>1, <2>2, <2>3, <2>4, <2>5, <3>1
    <3>3. k - 1 \in 1..Len(rest) /\ k - 1 + 1 = k
      BY <2>1, <3>1, <3>2
    <3>4. u[k] = g
      BY <2>1, <2>4, <3>1, <3>2, <3>3
    <3>. QED  BY <3>2, <3>4 DEF In
  <2>. QED  BY <2>1, <2>4, <2>5
<1>. QED  BY <1>1, <1>2

(***************************************************************************)
(* fds=${fds[@]#$1} keeps an array, whose first text then has every word   *)
(* but the one removed (run_experiment.sh:399).                            *)
(***************************************************************************)
LEMMA RemovedArray ==
  ASSUME NEW a, IsArray(a), NEW f
  PROVE  /\ IsArray(Removed(a, f)) /\ Len(Removed(a, f)) = Len(a)
         /\ \A i \in 2..Len(a) : Removed(a, f)[i] = a[i]
         /\ \A i \in 1..Len(a) : \A g : g # f /\ In(g, a[i]) => In(g, Removed(a, f)[1])
<1>. DEFINE cut(text) == IF Head(text) = f THEN <<0>> \o Tail(text) ELSE text
            s == [i \in DOMAIN a |-> cut(a[i])]
            all == FlattenSeq(s)
            b == Removed(a, f)
            m == Len(a)
<1>1. m \in Nat /\ DOMAIN a = 1..m /\ \A i \in 1..m : a[i] \in Seq(Word) /\ a[i] # << >>
  BY LenProperties DEF IsArray
<1>2. \A i \in 1..m : /\ s[i] \in Seq(Word) /\ s[i] # << >>
                      /\ \A g : g # f /\ In(g, a[i]) => In(g, s[i])
  <2>. SUFFICES ASSUME NEW i \in 1..m
                PROVE  /\ s[i] \in Seq(Word) /\ s[i] # << >>
                       /\ \A g : g # f /\ In(g, a[i]) => In(g, s[i])
    OBVIOUS
  <2>. DEFINE t == a[i]  u == s[i]
  <2>1. t \in Seq(Word) /\ t # << >>
    BY <1>1
  <2>2. u = IF Head(t) = f THEN <<0>> \o Tail(t) ELSE t
    BY <1>1
  <2>. HIDE DEF t, u
  <2>3. u \in Seq(Word) /\ u # << >> /\ \A g : g # f /\ In(g, t) => In(g, u)
    BY <2>1, <2>2, CutText
  <2>. QED  BY <2>3 DEF t, u
<1>3. s \in Seq(Seq(Word)) /\ Len(s) = m
  <2>1. s = [i \in 1..m |-> s[i]]
    BY <1>1
  <2>. HIDE DEF s
  <2>. QED  BY <1>1, <1>2, <2>1
<1>4. b = [a EXCEPT ![1] = all]
  BY DEF Removed
<1>. HIDE DEF s, all, b
<1>5. CASE m = 0
  <2>1. b = a
    BY <1>1, <1>4, <1>5
  <2>. QED  BY <1>1, <1>5, <2>1 DEF b
<1>6. CASE m # 0
  <2>1. s # << >> /\ 1 \in 1..m
    BY <1>1, <1>3, <1>6
  <2>2. /\ all \in Seq(Word) /\ Len(all) >= Len(s[1])
        /\ \A i \in 1..m, k \in Nat : k \in 1..Len(s[i]) => \E q \in 1..Len(all) : all[q] = s[i][k]
    BY <1>3, <2>1, FlattenedHas DEF all
  <2>3. all # << >>
    <3>1. Len(s[1]) \in Nat /\ Len(s[1]) # 0
      BY <1>2, <2>1, LenProperties, EmptySeq
    <3>2. Len(all) # 0
      BY <2>2, <3>1, LenProperties
    <3>. QED  BY <3>2
  <2>4. /\ b \in Seq(Seq(Word)) /\ Len(b) = m /\ b[1] = all
        /\ \A i \in 2..m : b[i] = a[i]
    <3>1. b = [i \in 1..m |-> IF i = 1 THEN all ELSE a[i]]
      BY <1>1, <1>4, <2>1
    <3>2. \A i \in 1..m : (IF i = 1 THEN all ELSE a[i]) \in Seq(Word)
      BY <1>1, <2>2
    <3>. QED  BY <1>1, <2>1, <3>1, <3>2
  <2>5. \A i \in 1..m : b[i] # << >>
    <3>. SUFFICES ASSUME NEW i \in 1..m  PROVE b[i] # << >>
      OBVIOUS
    <3>1. CASE i = 1
      BY <2>3, <2>4, <3>1
    <3>2. CASE i # 1
      <4>1. i \in 2..m /\ a[i] # << >>
        BY <1>1, <3>2
      <4>. QED  BY <2>4, <4>1
    <3>. QED  BY <3>1, <3>2
  <2>6. ASSUME NEW i \in 1..m, NEW g, g # f, In(g, a[i])  PROVE In(g, b[1])
    <3>1. In(g, s[i])
      BY <1>2, <2>6
    <3>2. PICK k \in 1..Len(s[i]) : s[i][k] = g
      BY <3>1 DEF In
    <3>3. k \in Nat
      BY <1>2, LenProperties
    <3>. QED  BY <2>2, <2>4, <3>2, <3>3 DEF In
  <2>. QED  BY <2>4, <2>5, <2>6 DEF IsArray, b
<1>. QED  BY <1>1, <1>5, <1>6

(***************************************************************************)
(* close_all_fds: h is the array after each word of the list.              *)
(***************************************************************************)
Closes(h, a, list, m) ==
  h = [i \in 0..m |->
         IF i = 0 THEN a
         ELSE IF list[i] = 0 THEN h[i - 1] ELSE Removed(h[i - 1], list[i])]

LEMMA Closed ==
  ASSUME NEW a, NEW list, NEW m \in Nat
  PROVE  \E h : Closes(h, a, list, m)
<1>. DEFINE S == {j \in Nat : \E h : Closes(h, a, list, j)}
<1>1. 0 \in S
  <2>. DEFINE h == [i \in 0..0 |-> a]
  <2>1. h = [i \in 0..0 |->
               IF i = 0 THEN a
               ELSE IF list[i] = 0 THEN h[i - 1] ELSE Removed(h[i - 1], list[i])]
    OBVIOUS
  <2>. QED  BY <2>1 DEF Closes
<1>2. ASSUME NEW j \in Nat, j \in S  PROVE j + 1 \in S
  <2>1. PICK h : Closes(h, a, list, j)
    BY <1>2
  <2>. DEFINE last == IF list[j + 1] = 0 THEN h[j] ELSE Removed(h[j], list[j + 1])
              g == [i \in 0..j + 1 |-> IF i = j + 1 THEN last ELSE h[i]]
  <2>2. \A i \in 0..j : h[i] = IF i = 0 THEN a
          ELSE IF list[i] = 0 THEN h[i - 1] ELSE Removed(h[i - 1], list[i])
    BY <2>1 DEF Closes
  <2>3. \A i \in 0..j : g[i] = h[i]
    OBVIOUS
  <2>4. g[j + 1] = last
    OBVIOUS
  <2>5. g = [i \in 0..j + 1 |-> g[i]]
    OBVIOUS
  <2>. HIDE DEF g
  <2>6. \A i \in 0..j + 1 : g[i] = IF i = 0 THEN a
          ELSE IF list[i] = 0 THEN g[i - 1] ELSE Removed(g[i - 1], list[i])
    <3>. SUFFICES ASSUME NEW i \in 0..j + 1
                  PROVE  g[i] = IF i = 0 THEN a
                    ELSE IF list[i] = 0 THEN g[i - 1] ELSE Removed(g[i - 1], list[i])
      OBVIOUS
    <3>1. CASE i = j + 1
      <4>1. i - 1 \in 0..j /\ i # 0 /\ i - 1 = j
        BY <3>1
      <4>2. g[i - 1] = h[j]
        BY <2>3, <4>1
      <4>. QED  BY <2>4, <3>1, <4>1, <4>2
    <3>2. CASE i = 0
      BY <2>2, <2>3, <3>2
    <3>3. CASE i # 0 /\ i # j + 1
      <4>1. i \in 0..j /\ i - 1 \in 0..j
        BY <3>3
      <4>2. g[i] = h[i] /\ g[i - 1] = h[i - 1]
        BY <2>3, <4>1
      <4>. QED  BY <2>2, <3>3, <4>1, <4>2
    <3>. QED  BY <3>1, <3>2, <3>3
  <2>7. Closes(g, a, list, j + 1)
    BY <2>5, <2>6 DEF Closes
  <2>. QED  BY <2>7
<1>. HIDE DEF S
<1>3. m \in S
  BY <1>1, <1>2, Induction
<1>. QED  BY <1>3 DEF S

LEMMA AfterAllCloses ==
  ASSUME NEW a, Len(List(a)) \in Nat
  PROVE  \E h : Closes(h, a, List(a), Len(List(a))) /\ AfterAll(a) = h[Len(List(a))]
<1>. DEFINE list == List(a)
            after[i \in 0..Len(list)] ==
              IF i = 0 THEN a
              ELSE IF list[i] = 0 THEN after[i - 1] ELSE Removed(after[i - 1], list[i])
<1>1. \E h : Closes(h, a, list, Len(list))
  BY Closed
<1>2. Closes(after, a, list, Len(list))
  BY <1>1 DEF Closes
<1>3. AfterAll(a) = after[Len(list)]
  BY DEF AfterAll
<1>. QED  BY <1>2, <1>3

(***************************************************************************)
(* After close_all_fds has closed one descriptor at least, the first text  *)
(* has every word that it did not close, so that the second call does      *)
(* (run_experiment.sh:402).                                                *)
(***************************************************************************)
LEMMA SecondList ==
  ASSUME NEW a, IsArray(a), NEW f \in Fds, NEW w \in Fds,
         a # << >>, In(w, a[1]), \E i \in 1..Len(a) : In(f, a[i])
  PROVE  f \in Listed(a) \cup Listed(AfterAll(a))
<1>. DEFINE list == List(a)  m == Len(list)
<1>1. Len(a) \in Nat /\ Len(a) # 0
  BY LenProperties, EmptySeq DEF IsArray
<1>2. list = a[1] /\ list \in Seq(Word) /\ m \in Nat /\ 0 \notin Fds
  BY <1>1, LenProperties DEF IsArray, List, Fds
<1>3. ASSUME NEW b, IsArray(b), b # << >>, In(f, b[1])  PROVE f \in Listed(b)
  <2>1. PICK k \in 1..Len(b[1]) : b[1][k] = f
    BY <1>3 DEF In
  <2>2. DOMAIN b[1] = 1..Len(b[1])
    <3>1. Len(b) \in Nat /\ Len(b) # 0
      BY <1>3, LenProperties, EmptySeq DEF IsArray
    <3>2. b[1] \in Seq(Word)
      BY <1>3, <3>1 DEF IsArray
    <3>. QED  BY <3>2, LenProperties
  <2>3. f \in Range(List(b))
    BY <1>3, <2>1, <2>2 DEF Range, List
  <2>. QED  BY <1>2, <2>3 DEF Listed
<1>4. CASE In(f, list)
  BY <1>2, <1>3, <1>4
<1>5. CASE ~In(f, list)
  <2>1. PICK h : Closes(h, a, list, m) /\ AfterAll(a) = h[m]
    BY <1>2, AfterAllCloses
  <2>. HIDE DEF list, m
  <2>2. \A i \in 0..m : h[i] = IF i = 0 THEN a
          ELSE IF list[i] = 0 THEN h[i - 1] ELSE Removed(h[i - 1], list[i])
    BY <2>1 DEF Closes
  <2>. DEFINE Kept(b) == IsArray(b) /\ Len(b) = Len(a) /\ \E i \in 1..Len(b) : In(f, b[i])
              Past(i) == \E k \in 1..i : list[k] # 0
              S == {i \in Nat : i <= m => Kept(h[i]) /\ (Past(i) => In(f, h[i][1]))}
  <2>3. 0 \in S
    BY <1>2, <2>2
  <2>4. ASSUME NEW i \in Nat, i \in S  PROVE i + 1 \in S
    <3>. SUFFICES ASSUME i + 1 <= m
                  PROVE  Kept(h[i + 1]) /\ (Past(i + 1) => In(f, h[i + 1][1]))
      OBVIOUS
    <3>1. /\ i <= m /\ i \in 0..m /\ i + 1 \in 0..m /\ i + 1 # 0 /\ i + 1 - 1 = i
          /\ i + 1 \in 1..m
      BY <1>2 DEF m
    <3>2. Kept(h[i]) /\ (Past(i) => In(f, h[i][1]))
      BY <2>4, <3>1
    <3>3. h[i + 1] = IF list[i + 1] = 0 THEN h[i] ELSE Removed(h[i], list[i + 1])
      BY <2>2, <3>1
    <3>4. CASE list[i + 1] = 0
      <4>1. Past(i + 1) => Past(i)
        BY <3>4
      <4>. QED  BY <3>2, <3>3, <3>4, <4>1
    <3>5. CASE list[i + 1] # 0
      <4>. DEFINE b == h[i]  r == list[i + 1]  c == Removed(b, r)
      <4>1. f # r
        BY <1>5, <3>1 DEF In, m
      <4>2. Kept(b) /\ h[i + 1] = c
        BY <3>2, <3>3, <3>5
      <4>. HIDE DEF b, r
      <4>3. /\ IsArray(c) /\ Len(c) = Len(b)
            /\ \A k \in 1..Len(b) : \A g : g # r /\ In(g, b[k]) => In(g, c[1])
        BY <4>2, RemovedArray
      <4>4. In(f, c[1])
        BY <4>1, <4>2, <4>3
      <4>5. 1 \in 1..Len(c)
        BY <1>1, <4>2, <4>3
      <4>. QED  BY <4>2, <4>3, <4>4, <4>5
    <3>. QED  BY <3>4, <3>5
  <2>. HIDE DEF S
  <2>5. m \in S
    BY <1>2, <2>3, <2>4, Induction DEF m, list
  <2>6. Past(m)
    <3>1. PICK k \in 1..Len(list) : list[k] = w
      BY <1>2 DEF In, list
    <3>. QED  BY <1>2, <3>1 DEF m
  <2>7. Kept(h[m]) /\ In(f, h[m][1])
    BY <1>2, <2>5, <2>6 DEF S, m, list
  <2>8. h[m] # << >>
    <3>1. Len(h[m]) # 0
      BY <1>1, <2>7
    <3>. QED  BY <2>7, <3>1, EmptySeq DEF IsArray
  <2>. QED  BY <1>3, <2>1, <2>7, <2>8
<1>. QED  BY <1>4, <1>5

------------------------------------------------------------------------------
(* The driver's control, and whose pipe a descriptor is                      *)

\* An experiment has a server that was not closed.
Open == {"launched", "starting", "clients", "quit", "wait", "again"}

ControlOK ==
  /\ pc \in {"prepare", "prepared", "ready"} => row.e = n
  /\ pc \in Open \cup {"row"} => n # 0 /\ row.e = n - 1
  /\ pc \in Open => closed < n
  /\ pc \in {"prepare", "prepared"} => iotlab /\ n = 0
  /\ pc = "prepare" =>
       Len(fds) < Nodes /\ \A k \in Prepared : proc[k] # "none" <=> k <= Len(fds)
  /\ pc = "prepared" =>
       Len(fds) < Nodes /\ \A k \in Prepared : proc[k] # "none" <=> k <= Len(fds) + 1

PipesOK ==
  /\ \A f, g \in Fds : pipe[f] = pipe[g] /\ pipe[f] # 0 => f = g
  /\ \A f \in Fds : pipe[f] \in Prepared => proc[pipe[f]] # "none"
  /\ \A f \in Fds : pipe[f] \in {0} \cup Prepared \/ (pc \in Open /\ pipe[f] = Server(n))
  /\ pc = "prepared" => fd \in Fds /\ pipe[fd] = Len(fds) + 1
  /\ pc \in Open     => fd \in Fds /\ pipe[fd] = Server(n)

LEMMA Numbers ==
  /\ Nodes \in Nat /\ Nodes >= 2 /\ Len(Suffix) \in Nat /\ Experiments = 1..Len(Suffix)
  /\ 0 \notin Fds /\ Fds \subseteq Nat /\ 1 \in Prepared /\ Prepared \subseteq Children
  /\ \A e \in Experiments : /\ Server(e) \in Children /\ Server(e) \notin Prepared
                            /\ Server(e) - Nodes = e /\ Server(e) \in Nat
                            /\ \A j \in Experiments : Server(j) = Server(e) => j = e
  /\ \A k \in Children : k \in Nat /\ k # 0 /\ (k \notin Prepared => k - Nodes \in Experiments)
<1>1. /\ Nodes \in Nat /\ Nodes >= 2 /\ Len(Suffix) \in Nat /\ Experiments = 1..Len(Suffix)
  BY ExperimentAssumption, LenProperties DEF Experiments
<1>. QED  BY <1>1 DEF Fds, Prepared, Children, Server

LEMMA LeastNumber ==
  ASSUME NEW S \in SUBSET Nat, S # {}
  PROVE  Min(S) \in S
<1>1. PICK x \in S : \A y \in S : ~ (<<y, x>> \in OpToRel(<, Nat))
  BY NatLessThanWellFounded, WFMin
<1>2. \A y \in S : ~(y < x)
  BY <1>1 DEF OpToRel
<1>3. \A y \in S : x <= y
  BY <1>2
<1>. QED  BY <1>3 DEF Min

(***************************************************************************)
(* A descriptor is free as long as no server is open: there is one more    *)
(* than there are children to prepare.                                     *)
(***************************************************************************)
LEMMA FreeDescriptor ==
  ASSUME TypeOK, PipesOK, pc \notin Open
  PROVE  \E f \in Fds : pipe[f] = 0 /\ f = Min({g \in Fds : pipe[g] = 0})
<1>1. \E f \in Fds : pipe[f] = 0
  <2>. SUFFICES ASSUME \A f \in Fds : pipe[f] # 0  PROVE FALSE
    OBVIOUS
  <2>1. pipe \in [Fds -> Prepared]
    BY DEF PipesOK, TypeOK
  <2>2. /\ IsFiniteSet(Prepared) /\ Cardinality(Prepared) = Nodes
        /\ IsFiniteSet(Fds) /\ Cardinality(Fds) = Nodes + 1
    <3>1. /\ IsFiniteSet(1..Nodes) /\ Cardinality(1..Nodes) = Nodes
          /\ IsFiniteSet(10..(10 + Nodes)) /\ Cardinality(10..(10 + Nodes)) = Nodes + 1
      <4>1. Cardinality(1..Nodes) = Nodes - 1 + 1
        BY Numbers, FS_Interval
      <4>2. Cardinality(10..(10 + Nodes)) = 10 + Nodes - 10 + 1
        BY Numbers, FS_Interval
      <4>. QED  BY <4>1, <4>2, Numbers, FS_Interval
    <3>. QED  BY <3>1 DEF Prepared, Fds
  <2>3. \E f, g \in Fds : f # g /\ pipe[f] = pipe[g]
    <3>1. Nodes < Nodes + 1
      BY Numbers
    <3>. QED  BY <2>1, <2>2, <3>1, FS_PigeonHole
  <2>. QED  BY <2>3 DEF PipesOK
<1>2. {g \in Fds : pipe[g] = 0} \in SUBSET Nat
  BY Numbers
<1>. QED  BY <1>1, <1>2, LeastNumber

LEMMA PreparedLaunched ==
  ASSUME NEW m \in 0..Nodes, \A k \in Prepared : proc[k] # "none" <=> k <= m
  PROVE  Launched = m
<1>1. {k \in Prepared : proc[k] # "none"} = 1..m
  BY Numbers DEF Prepared
<1>2. Cardinality(1..m) = m
  BY Numbers, FS_Interval
<1>. QED  BY <1>1, <1>2 DEF Launched

LEMMA ArrayType == fds \in Seq(Seq(Fds \cup {0})) /\ (\A i \in DOMAIN fds : fds[i] # << >>) <=> IsArray(fds)
  BY LenProperties DEF IsArray, Word

(***************************************************************************)
(* exec {fd}> >(..) takes a free descriptor for a new child.               *)
(***************************************************************************)
LEMMA Redirected ==
  ASSUME TypeOK, PipesOK, pc \notin Open, NEW child \in Children, redirect_right(child),
         child \in Prepared => proc[child] = "none"
  PROVE  /\ fd' \in Fds /\ pipe[fd'] = 0 /\ pipe' = [pipe EXCEPT ![fd'] = child]
         /\ pipe' \in [Fds -> Children \cup {0}]
         /\ proc' = [proc EXCEPT ![child] = "up"] /\ proc' \in [Children -> {"none", "up", "gone"}]
         /\ \A f, g \in Fds : pipe'[f] = pipe'[g] /\ pipe'[f] # 0 => f = g
         /\ UNCHANGED <<fds, pids>>
<1>1. PICK f \in Fds : pipe[f] = 0 /\ f = Min({g \in Fds : pipe[g] = 0})
  BY FreeDescriptor
<1>2. fd' = f /\ pipe' = [pipe EXCEPT ![f] = child] /\ UNCHANGED <<fds, pids>>
  BY <1>1 DEF redirect_right
<1>3. proc' = [proc EXCEPT ![child] = "up"] /\ proc' \in [Children -> {"none", "up", "gone"}]
  BY DEF redirect_right, TypeOK
<1>4. \A g \in Fds : pipe[g] # child
  BY Numbers DEF PipesOK, TypeOK
<1>5. ASSUME NEW g \in Fds, NEW h \in Fds, pipe'[g] = pipe'[h], pipe'[g] # 0  PROVE g = h
  BY <1>1, <1>2, <1>4, <1>5 DEF PipesOK, TypeOK
<1>. QED  BY <1>1, <1>2, <1>3, <1>5 DEF TypeOK

LEMMA TypeInit == Init => TypeOK /\ ControlOK /\ PipesOK
<1>. SUFFICES ASSUME Init  PROVE TypeOK /\ ControlOK /\ PipesOK
  OBVIOUS
<1>1. /\ pc \in {"prepare", "ready"} /\ n = 0 /\ row.e = 0 /\ (pc = "prepare" => iotlab)
      /\ fds = << >> /\ Len(fds) = 0
  BY DEF Init, NoRow
<1>2. << >> \in Seq(Seq(Fds \cup {0})) /\ \A i \in DOMAIN << >> : << >>[i] # << >>
  OBVIOUS
<1>3. TypeOK
  <2>1. /\ pids \in [Fds -> Children \cup {0}] /\ pipe \in [Fds -> Children \cup {0}]
        /\ proc \in [Children -> {"none", "up", "gone"}]
        /\ server \in [Experiments -> {"none", "serving", "summing", "done"}]
    BY DEF Init
  <2>2. n \in 0..Len(Suffix) /\ closed \in 0..n /\ cuts \in 0..MaxCuts /\ row.e \in {n - 1, n} \cap Nat
    BY <1>1, Numbers, ExperimentAssumption DEF Init
  <2>3. /\ told \subseteq Experiments /\ client \subseteq [e : Experiments, c : 1..Nodes]
        /\ late \subseteq Experiments /\ unseen \subseteq [e : Experiments, c : 1..Nodes]
        /\ leaked \in Children \cup {0} /\ finishes \in 0..2
        /\ iotlab \in BOOLEAN /\ fd \in Fds \cup {0}
    BY DEF Init
  <2>. QED  BY <1>1, <1>2, <2>1, <2>2, <2>3 DEF TypeOK
<1>4. \A k \in Prepared : proc[k] = "none"
  BY Numbers DEF Init
<1>5. ControlOK
  BY <1>1, <1>4, Numbers DEF ControlOK, Open, Prepared
<1>6. PipesOK
  <2>1. \A f \in Fds : pipe[f] = 0
    BY DEF Init
  <2>2. 0 \notin Prepared
    BY DEF Prepared
  <2>. QED  BY <1>1, <2>1, <2>2 DEF PipesOK, Open
<1>. QED  BY <1>3, <1>5, <1>6

\* The part of the types that no array is in.
LEMMA ClosedFd ==
  ASSUME TypeOK, PipesOK, NEW f \in Fds, close_fd(f)
  PROVE  /\ fds' \in Seq(Seq(Fds \cup {0})) /\ \A i \in DOMAIN fds' : fds'[i] # << >>
         /\ pids' = pids /\ pipe' = [pipe EXCEPT ![f] = 0]
         /\ pipe' \in [Fds -> Children \cup {0}]
         /\ proc' \in [Children -> {"none", "up", "gone"}]
         /\ \A k \in Children : proc'[k] = IF k = pids[f] /\ proc[k] = "up" THEN "gone" ELSE proc[k]
<1>1. IsArray(fds)
  BY ArrayType DEF TypeOK
<1>2. IsArray(fds')
  BY <1>1, RemovedArray DEF close_fd
<1>3. fds' \in Seq(Seq(Fds \cup {0})) /\ \A i \in DOMAIN fds' : fds'[i] # << >>
  BY <1>2, LenProperties DEF IsArray, Word
<1>. QED  BY <1>3 DEF close_fd, Terminated, TypeOK

LEMMA FinishTypes ==
  ASSUME TypeOK, NEW calls \in 1..2, finish(calls)
  PROVE  /\ fds' \in Seq(Seq(Fds \cup {0})) /\ \A i \in DOMAIN fds' : fds'[i] # << >>
         /\ pids' \in [Fds -> Children \cup {0}] /\ pipe' \in [Fds -> Children \cup {0}]
         /\ pipe' = [f \in Fds |-> 0]
         /\ proc' \in [Children -> {"none", "up", "gone"}]
         /\ \A k \in Children : proc'[k] = proc[k] \/ (proc[k] = "up" /\ proc'[k] = "gone")
         /\ finishes' \in 0..2 /\ pc' = "off"
<1>1. << >> \in Seq(Seq(Fds \cup {0})) /\ \A i \in DOMAIN << >> : << >>[i] # << >>
  OBVIOUS
<1>2. PICK S : proc' = Terminated(S)
  BY DEF finish
<1>3. /\ proc' \in [Children -> {"none", "up", "gone"}]
      /\ \A k \in Children : proc'[k] = proc[k] \/ (proc[k] = "up" /\ proc'[k] = "gone")
  BY <1>2 DEF Terminated, TypeOK
<1>4. fds' = << >> /\ pids' = [f \in Fds |-> 0] /\ pipe' = [f \in Fds |-> 0]
  BY DEF finish
<1>5. finishes' \in 0..2 /\ pc' = "off"
  BY DEF finish
<1>. QED  BY <1>1, <1>3, <1>4, <1>5

LEMMA RegisteredFd ==
  ASSUME TypeOK, fd \in Fds, NEW child \in Children, register_fd(child)
  PROVE  /\ fds' \in Seq(Seq(Fds \cup {0})) /\ \A i \in DOMAIN fds' : fds'[i] # << >>
         /\ Len(fds') = Len(fds) + 1 /\ fds'[Len(fds) + 1] = <<fd>>
         /\ \A i \in 1..Len(fds) : fds'[i] = fds[i]
         /\ pids' = [pids EXCEPT ![fd] = child] /\ pids' \in [Fds -> Children \cup {0}]
         /\ pipe' = pipe
<1>. DEFINE text == <<fd>>
<1>1. text \in Seq(Fds \cup {0}) /\ text # << >>
  OBVIOUS
<1>2. fds' = Append(fds, text) /\ fds \in Seq(Seq(Fds \cup {0})) /\ \A i \in DOMAIN fds : fds[i] # << >>
  BY DEF register_fd, TypeOK
<1>. HIDE DEF text
<1>3. /\ fds' \in Seq(Seq(Fds \cup {0})) /\ Len(fds') = Len(fds) + 1 /\ fds'[Len(fds) + 1] = text
      /\ \A i \in 1..Len(fds) : fds'[i] = fds[i]
  BY <1>1, <1>2, AppendProperties
<1>4. DOMAIN fds' = 1..Len(fds') /\ DOMAIN fds = 1..Len(fds) /\ Len(fds) \in Nat
  BY <1>2, <1>3, LenProperties
<1>5. \A i \in DOMAIN fds' : fds'[i] # << >>
  BY <1>1, <1>2, <1>3, <1>4
<1>. QED  BY <1>3, <1>5 DEF register_fd, TypeOK, text

IInv == TypeOK /\ ControlOK /\ PipesOK

\* finish leaves nothing that the control or the pipes could be about.
LEMMA FinishStep ==
  ASSUME IInv, NEW calls \in 1..2, finish(calls),
         UNCHANGED <<iotlab, n, fd, server, client, row, closed, cuts, late, unseen>>,
         told' \subseteq Experiments, leaked' \in Children \cup {0}
  PROVE  IInv'
<1>1. /\ fds' \in Seq(Seq(Fds \cup {0})) /\ \A i \in DOMAIN fds' : fds'[i] # << >>
      /\ pids' \in [Fds -> Children \cup {0}] /\ pipe' \in [Fds -> Children \cup {0}]
      /\ pipe' = [f \in Fds |-> 0]
      /\ proc' \in [Children -> {"none", "up", "gone"}]
      /\ finishes' \in 0..2 /\ pc' = "off"
  BY FinishTypes DEF IInv
<1>2. TypeOK'
  BY <1>1 DEF IInv, TypeOK
<1>3. ControlOK'
  BY <1>1 DEF ControlOK, Open
<1>4. PipesOK'
  <2>1. (\A f \in Fds : pipe'[f] = 0) /\ 0 \notin Prepared
    BY <1>1 DEF Prepared
  <2>. QED  BY <1>1, <2>1 DEF PipesOK, Open
<1>. QED  BY <1>2, <1>3, <1>4 DEF IInv

\* A step of the others, or one of the driver that leaves its arrays alone.
LEMMA CalmStep ==
  ASSUME IInv, TypeOK', UNCHANGED <<iotlab, n, fd, fds, pids, pipe, closed>>,
         \A k \in Children : proc'[k] = proc[k] \/ (proc[k] = "up" /\ proc'[k] = "gone"),
         \/ pc' = pc /\ row' = row
         \/ pc \in Open /\ pc' \in Open /\ row' = row
         \/ pc = "row" /\ pc' = "ready" /\ row'.e = n
  PROVE  IInv'
<1>1. \A k \in Children : proc'[k] # "none" <=> proc[k] # "none"
  BY DEF IInv, TypeOK
<1>2. \A k \in Prepared : k \in Children
  BY Numbers
<1>3. ControlOK'
  BY <1>1, <1>2 DEF IInv, ControlOK, Open
<1>4. PipesOK'
  BY <1>1, <1>2 DEF IInv, PipesOK, Open
<1>. QED  BY <1>3, <1>4 DEF IInv

LEMMA PrepareStep ==
  ASSUME IInv, Prepare
  PROVE  IInv'
<1>. DEFINE m == Len(fds)
<1>1. m \in Nat /\ m < Nodes /\ (\A k \in Prepared : proc[k] # "none" <=> k <= m) /\ pc = "prepare"
  BY LenProperties DEF IInv, TypeOK, ControlOK, Prepare
<1>2. Launched = m
  BY <1>1, Numbers, PreparedLaunched
<1>3. m + 1 \in Prepared /\ m + 1 \in Children /\ proc[m + 1] = "none" /\ pc \notin Open
  <2>1. m + 1 \in Prepared /\ ~(m + 1 <= m)
    BY <1>1, Numbers DEF Prepared
  <2>. QED  BY <1>1, <2>1, Numbers DEF Open
<1>4. redirect_right(m + 1)
  BY <1>2 DEF Prepare
<1>5. /\ fd' \in Fds /\ pipe[fd'] = 0 /\ pipe' = [pipe EXCEPT ![fd'] = m + 1]
      /\ pipe' \in [Fds -> Children \cup {0}]
      /\ proc' = [proc EXCEPT ![m + 1] = "up"] /\ proc' \in [Children -> {"none", "up", "gone"}]
      /\ \A f, g \in Fds : pipe'[f] = pipe'[g] /\ pipe'[f] # 0 => f = g
      /\ fds' = fds /\ pids' = pids
  BY <1>3, <1>4, Redirected DEF IInv
<1>6. pc' = "prepared" /\ UNCHANGED <<iotlab, n, server, told, client, row, late, unseen, leaked, closed, finishes, cuts>>
  BY DEF Prepare, history
<1>. HIDE DEF m
<1>7. TypeOK'
  BY <1>5, <1>6 DEF IInv, TypeOK
<1>8. \A k \in Prepared : proc'[k] # "none" <=> k <= m + 1
  <2>1. proc \in [Children -> {"none", "up", "gone"}]
    BY DEF IInv, TypeOK
  <2>2. \A k \in Prepared : k \in Children /\ k \in Nat
    BY Numbers
  <2>3. \A k \in Prepared : k # m + 1 => proc'[k] = proc[k] /\ (k <= m <=> k <= m + 1)
    BY <1>1, <1>5, <2>1, <2>2
  <2>4. proc'[m + 1] = "up"
    BY <1>3, <1>5, <2>1
  <2>. QED  BY <1>1, <2>2, <2>3, <2>4
<1>9. ControlOK'
  BY <1>1, <1>5, <1>6, <1>8 DEF IInv, ControlOK, Open, m
<1>10. PipesOK'
  <2>1. \A f \in Fds : f # fd' => pipe'[f] = pipe[f]
    BY <1>5 DEF IInv, TypeOK
  <2>2. pipe'[fd'] = m + 1
    BY <1>5 DEF IInv, TypeOK
  <2>3. \A f \in Fds : pipe'[f] \in {0} \cup Prepared
    BY <1>1, <1>3, <1>5, <2>1, <2>2 DEF IInv, PipesOK, Open
  <2>4. \A f \in Fds : pipe'[f] \in Prepared => proc'[pipe'[f]] # "none"
    <3>1. \A k \in Prepared : proc[k] # "none" => proc'[k] # "none"
      BY <1>5, Numbers DEF IInv, TypeOK
    <3>. QED  BY <1>3, <1>5, <2>1, <2>2, <3>1, Numbers DEF IInv, PipesOK, TypeOK
  <2>. QED  BY <1>5, <1>6, <2>2, <2>3, <2>4 DEF PipesOK, Open, m
<1>. QED  BY <1>7, <1>9, <1>10 DEF IInv

LEMMA RegisterPreparedStep ==
  ASSUME IInv, RegisterPrepared
  PROVE  IInv'
<1>. DEFINE m == Len(fds) + 1
<1>1. /\ Len(fds) \in Nat /\ m \in 1..Nodes /\ (\A k \in Prepared : proc[k] # "none" <=> k <= m)
      /\ pc = "prepared" /\ fd \in Fds /\ pipe[fd] = m /\ n = 0 /\ iotlab
  BY LenProperties, Numbers DEF IInv, TypeOK, ControlOK, PipesOK, RegisterPrepared
<1>2. Launched = m
  BY <1>1, Numbers, PreparedLaunched
<1>3. m \in Prepared /\ m \in Children
  BY <1>1, Numbers DEF Prepared
<1>4. /\ register_fd(m) /\ UNCHANGED <<iotlab, n, fd, world, row, history>>
      /\ pc' = IF m < Nodes THEN "prepare" ELSE "ready"
  BY <1>2 DEF RegisterPrepared
<1>5. /\ fds' \in Seq(Seq(Fds \cup {0})) /\ \A i \in DOMAIN fds' : fds'[i] # << >>
      /\ Len(fds') = m
      /\ pids' = [pids EXCEPT ![fd] = m] /\ pids' \in [Fds -> Children \cup {0}]
      /\ pipe' = pipe
  BY <1>1, <1>3, <1>4, RegisteredFd DEF IInv
<1>. HIDE DEF m
<1>6. TypeOK'
  BY <1>1, <1>4, <1>5 DEF IInv, TypeOK, world, files, history
<1>7. ControlOK'
  BY <1>1, <1>4, <1>5 DEF IInv, ControlOK, Open, world, history
<1>8. PipesOK'
  BY <1>1, <1>4, <1>5 DEF IInv, PipesOK, Open, world
<1>. QED  BY <1>6, <1>7, <1>8 DEF IInv

LEMMA RunExperimentStep ==
  ASSUME IInv, RunExperiment
  PROVE  IInv'
<1>1. /\ pc = "ready" /\ n' = n + 1 /\ n' \in Experiments /\ pc' = "launched"
      /\ row' = row /\ row.e = n /\ pc \notin Open /\ n \in Nat
      /\ UNCHANGED <<iotlab, told, client, row, late, unseen, leaked, closed, finishes, cuts>>
      /\ server' = [server EXCEPT ![n'] = "serving"]
  BY Numbers DEF RunExperiment, IInv, TypeOK, ControlOK, Open, history
<1>. DEFINE k == Server(n')
<1>2. k \in Children /\ k \notin Prepared /\ k # 0 /\ redirect_right(k)
  BY <1>1, Numbers DEF RunExperiment
<1>3. /\ fd' \in Fds /\ pipe[fd'] = 0 /\ pipe' = [pipe EXCEPT ![fd'] = k]
      /\ pipe' \in [Fds -> Children \cup {0}]
      /\ proc' = [proc EXCEPT ![k] = "up"] /\ proc' \in [Children -> {"none", "up", "gone"}]
      /\ \A f, g \in Fds : pipe'[f] = pipe'[g] /\ pipe'[f] # 0 => f = g
      /\ fds' = fds /\ pids' = pids
  BY <1>1, <1>2, Redirected DEF IInv
<1>4. TypeOK'
  <2>1. /\ n' \in 0..Len(Suffix) /\ closed' \in 0..n' /\ row'.e \in {n' - 1, n'} \cap Nat
        /\ server' \in [Experiments -> {"none", "serving", "summing", "done"}]
    BY <1>1, Numbers DEF IInv, TypeOK
  <2>. QED  BY <1>1, <1>3, <2>1 DEF IInv, TypeOK
<1>5. ControlOK'
  <2>1. closed' < n' /\ n' # 0 /\ row'.e = n' - 1
    BY <1>1 DEF IInv, TypeOK
  <2>. QED  BY <1>1, <2>1 DEF ControlOK, Open
<1>6. PipesOK'
  <2>. HIDE DEF k
  <2>1. \A f \in Fds : f # fd' => pipe'[f] = pipe[f]
    BY <1>3 DEF IInv, TypeOK
  <2>2. pipe'[fd'] = k
    BY <1>3 DEF IInv, TypeOK
  <2>3. \A f \in Fds : pipe'[f] \in {0} \cup Prepared \/ pipe'[f] = k
    BY <1>1, <2>1, <2>2 DEF IInv, PipesOK
  <2>4. \A f \in Fds : pipe'[f] \in Prepared => proc'[pipe'[f]] # "none"
    <3>1. \A j \in Prepared : proc[j] # "none" => proc'[j] # "none"
      BY <1>3, Numbers DEF IInv, TypeOK
    <3>. QED  BY <1>2, <1>3, <2>1, <2>2, <3>1, Numbers DEF IInv, PipesOK, TypeOK
  <2>. QED  BY <1>1, <1>3, <2>2, <2>3, <2>4 DEF PipesOK, Open, k
<1>. QED  BY <1>4, <1>5, <1>6 DEF IInv

LEMMA RegisterServerStep ==
  ASSUME IInv, RegisterServer
  PROVE  IInv'
<1>1. /\ pc = "launched" /\ pc' = "starting" /\ fd \in Fds /\ pipe[fd] = Server(n)
      /\ n \in Experiments /\ Server(n) \in Children
      /\ UNCHANGED <<iotlab, n, fd, world, row, history>>
      /\ pc \in Open /\ pc' \in Open
  <2>1. /\ pc = "launched" /\ pc' = "starting"
        /\ UNCHANGED <<iotlab, n, fd, world, row, history>>
    BY DEF RegisterServer
  <2>2. n \in 0..Len(Suffix) /\ n # 0 /\ fd \in Fds /\ pipe[fd] = Server(n)
    BY <2>1 DEF IInv, TypeOK, ControlOK, PipesOK, Open
  <2>. QED  BY <2>1, <2>2, Numbers DEF Open
<1>2. /\ fds' \in Seq(Seq(Fds \cup {0})) /\ \A i \in DOMAIN fds' : fds'[i] # << >>
      /\ pids' = [pids EXCEPT ![fd] = Server(n)] /\ pids' \in [Fds -> Children \cup {0}]
      /\ pipe' = pipe
  BY <1>1, RegisteredFd DEF RegisterServer, IInv
<1>3. TypeOK'
  BY <1>1, <1>2 DEF IInv, TypeOK, world, files, history
<1>4. ControlOK'
  BY <1>1 DEF IInv, ControlOK, Open, history
<1>5. PipesOK'
  BY <1>1, <1>2 DEF IInv, PipesOK, Open, world
<1>. QED  BY <1>3, <1>4, <1>5 DEF IInv

LEMMA CloseStep ==
  ASSUME IInv, NEW gone, Close(gone)
  PROVE  IInv'
<1>1. /\ pc = "wait" /\ pc' = "row" /\ closed' = closed + 1 /\ close_fd(fd)
      /\ late' \in {late, late \cup {n}}
      /\ UNCHANGED <<iotlab, n, fd, server, told, client, row, unseen, leaked, finishes, cuts>>
  BY DEF Close, files
<1>2. /\ n # 0 /\ n \in Experiments /\ fd \in Fds /\ pipe[fd] = Server(n) /\ closed < n
      /\ closed \in 0..n /\ n \in Nat
  BY <1>1, Numbers DEF IInv, TypeOK, ControlOK, PipesOK, Open
<1>3. /\ fds' \in Seq(Seq(Fds \cup {0})) /\ \A i \in DOMAIN fds' : fds'[i] # << >>
      /\ pids' = pids /\ pipe' = [pipe EXCEPT ![fd] = 0]
      /\ pipe' \in [Fds -> Children \cup {0}]
      /\ proc' \in [Children -> {"none", "up", "gone"}]
      /\ \A k \in Children : proc'[k] = IF k = pids[fd] /\ proc[k] = "up" THEN "gone" ELSE proc[k]
  BY <1>1, <1>2, ClosedFd DEF IInv
<1>4. TypeOK'
  <2>1. closed' \in 0..n /\ late' \subseteq Experiments
    BY <1>1, <1>2 DEF IInv, TypeOK
  <2>. QED  BY <1>1, <1>3, <2>1 DEF IInv, TypeOK
<1>5. ControlOK'
  BY <1>1, <1>2 DEF IInv, ControlOK, Open
<1>6. PipesOK'
  <2>1. \A f \in Fds : f # fd => pipe'[f] = pipe[f]
    BY <1>3 DEF IInv, TypeOK
  <2>2. pipe'[fd] = 0 /\ 0 \notin Prepared
    BY <1>2, <1>3 DEF IInv, TypeOK, Prepared
  <2>3. \A f \in Fds : f # fd => pipe[f] # Server(n)
    BY <1>2, Numbers DEF IInv, PipesOK
  <2>4. \A f \in Fds : pipe'[f] \in {0} \cup Prepared
    BY <2>1, <2>2, <2>3 DEF IInv, PipesOK
  <2>5. \A f \in Fds : pipe'[f] \in Prepared => proc'[pipe'[f]] # "none"
    <3>1. \A j \in Prepared : proc[j] # "none" => proc'[j] # "none"
      BY <1>3, Numbers
    <3>. QED  BY <2>1, <2>2, <3>1 DEF IInv, PipesOK
  <2>6. \A f, g \in Fds : pipe'[f] = pipe'[g] /\ pipe'[f] # 0 => f = g
    BY <2>1, <2>2 DEF IInv, PipesOK
  <2>. QED  BY <1>1, <2>4, <2>5, <2>6 DEF PipesOK, Open
<1>. QED  BY <1>4, <1>5, <1>6 DEF IInv

(***************************************************************************)
(* The driver's steps with an experiment under way.                        *)
(***************************************************************************)
LEMMA SendQStep ==
  ASSUME IInv, pc \in {"quit", "again"}, SendQ("wait"),
         UNCHANGED <<iotlab, n, fd, server, client, row, late, unseen, leaked, closed, cuts>>
  PROVE  IInv'
<1>1. n \in Experiments
  BY Numbers DEF IInv, TypeOK, ControlOK, Open
<1>2. told' \subseteq Experiments
  BY <1>1 DEF SendQ, IInv, TypeOK
<1>3. CASE Read(n)
  <2>1. pc' = "wait" /\ UNCHANGED <<fds, pids, pipe, proc, finishes>>
    BY <1>3 DEF SendQ, arrays
  <2>2. pc \in Open /\ pc' \in Open
    BY <2>1 DEF Open
  <2>3. TypeOK'
    BY <1>2, <2>1 DEF IInv, TypeOK
  <2>. QED  BY <2>1, <2>2, <2>3, CalmStep
<1>4. CASE ~Read(n)
  <2>1. finish(1) /\ 1 \in 1..2
    BY <1>4 DEF SendQ
  <2>2. leaked' \in Children \cup {0}
    BY DEF IInv, TypeOK
  <2>. QED  BY <1>2, <2>1, <2>2, FinishStep
<1>. QED  BY <1>3, <1>4

LEMMA DriverStep ==
  ASSUME IInv,
         LaunchClients \/ ClientsDone \/ ClientsTimeOut \/ Quit \/ WaitLonger \/ QuitAgain
           \/ WriteRow \/ EndScript \/ Signal
  PROVE  IInv'
<1>. USE DEF arrays, world, files, history
<1>1. CASE LaunchClients
  <2>1. /\ pc = "starting" /\ pc' = "clients"
        /\ client' = client \cup {[e |-> n, c |-> c] : c \in Clients}
        /\ UNCHANGED <<iotlab, n, fd, fds, pids, pipe, proc, server, told, row, late, unseen,
                       leaked, closed, finishes, cuts>>
    BY <1>1 DEF LaunchClients
  <2>2. n \in Experiments /\ Clients \subseteq 1..Nodes
    BY <2>1, Numbers DEF IInv, TypeOK, ControlOK, Open, Clients
  <2>3. client' \subseteq [e : Experiments, c : 1..Nodes]
    BY <2>1, <2>2 DEF IInv, TypeOK
  <2>4. TypeOK'
    BY <2>1, <2>3 DEF IInv, TypeOK
  <2>5. pc \in Open /\ pc' \in Open
    BY <2>1 DEF Open
  <2>. QED  BY <2>1, <2>4, <2>5, CalmStep
<1>2. CASE ClientsDone
  <2>1. /\ pc = "clients" /\ pc' = "quit"
        /\ UNCHANGED <<iotlab, n, fd, fds, pids, pipe, proc, server, told, client, row, late,
                       unseen, leaked, closed, finishes, cuts>>
    BY <1>2 DEF ClientsDone
  <2>2. TypeOK' /\ pc \in Open /\ pc' \in Open
    BY <2>1 DEF IInv, TypeOK, Open
  <2>. QED  BY <2>1, <2>2, CalmStep
<1>3. CASE ClientsTimeOut
  <2>1. /\ pc = "clients" /\ pc' = "quit" /\ unseen' = unseen \cup Running(n)
        /\ UNCHANGED <<iotlab, n, fd, fds, pids, pipe, proc, server, told, client, row, late,
                       leaked, closed, finishes, cuts>>
    BY <1>3 DEF ClientsTimeOut
  <2>2. unseen' \subseteq [e : Experiments, c : 1..Nodes]
    BY <2>1 DEF IInv, TypeOK, Running
  <2>3. TypeOK' /\ pc \in Open /\ pc' \in Open
    BY <2>1, <2>2 DEF IInv, TypeOK, Open
  <2>. QED  BY <2>1, <2>3, CalmStep
<1>4. CASE Quit
  BY <1>4, SendQStep DEF Quit
<1>5. CASE WaitLonger
  <2>1. /\ pc = "wait" /\ pc' = "again"
        /\ UNCHANGED <<iotlab, n, fd, fds, pids, pipe, proc, server, told, client, row, late,
                       unseen, leaked, closed, finishes, cuts>>
    BY <1>5 DEF WaitLonger
  <2>2. TypeOK' /\ pc \in Open /\ pc' \in Open
    BY <2>1 DEF IInv, TypeOK, Open
  <2>. QED  BY <2>1, <2>2, CalmStep
<1>6. CASE QuitAgain
  BY <1>6, SendQStep DEF QuitAgain
<1>7. CASE WriteRow
  <2>1. /\ pc = "row" /\ pc' = "ready" /\ row'.e = n
        /\ UNCHANGED <<iotlab, n, fd, fds, pids, pipe, proc, server, told, client, late,
                       unseen, leaked, closed, finishes, cuts>>
    BY <1>7 DEF WriteRow
  <2>2. n \in Nat
    BY Numbers DEF IInv, TypeOK
  <2>3. TypeOK'
    BY <2>1, <2>2 DEF IInv, TypeOK
  <2>. QED  BY <2>1, <2>3, CalmStep
<1>8. CASE EndScript
  <2>1. told' \subseteq Experiments /\ leaked' \in Children \cup {0} /\ 1 \in 1..2
    BY <1>8 DEF EndScript, IInv, TypeOK
  <2>. QED  BY <1>8, <2>1, FinishStep DEF EndScript
<1>9. CASE Signal
  <2>1. leaked' \in Children \cup {0}
    <3>1. CASE pc = "prepared"
      <4>1. /\ Len(fds) \in Nat /\ Len(fds) + 1 \in 1..Nodes
            /\ \A k \in Prepared : proc[k] # "none" <=> k <= Len(fds) + 1
        BY <3>1, LenProperties, Numbers DEF IInv, TypeOK, ControlOK
      <4>2. Launched = Len(fds) + 1
        BY <4>1, Numbers, PreparedLaunched
      <4>. QED  BY <1>9, <3>1, <4>1, <4>2, Numbers DEF Signal, Prepared
    <3>2. CASE pc = "launched"
      <4>1. n \in Experiments
        BY <3>2, Numbers DEF IInv, TypeOK, ControlOK, Open
      <4>. QED  BY <1>9, <3>2, <4>1, Numbers DEF Signal
    <3>3. CASE pc \notin {"prepared", "launched"}
      BY <1>9, <3>3 DEF Signal
    <3>. QED  BY <3>1, <3>2, <3>3
  <2>2. told' \subseteq Experiments /\ 2 \in 1..2
    BY <1>9 DEF Signal, IInv, TypeOK
  <2>. QED  BY <1>9, <2>1, <2>2, FinishStep DEF Signal
<1>. QED  BY <1>1, <1>2, <1>3, <1>4, <1>5, <1>6, <1>7, <1>8, <1>9

(***************************************************************************)
(* The steps of the servers, the clients and the connections.              *)
(***************************************************************************)
LEMMA OthersStep ==
  ASSUME IInv,
         \/ \E e \in Experiments : Cleanup(e) \/ SummaryDone(e) \/ ShellEnds(e)
         \/ \E x \in client : ClientEnds(x) \/ ClientConnectionBreaks(x)
         \/ \E k \in Children : ConnectionBreaks(k)
         \/ UNCHANGED vars
  PROVE  IInv'
<1>. USE DEF arrays, driver, world, files, history
<1>1. CASE \E e \in Experiments : Cleanup(e) \/ SummaryDone(e)
  <2>1. PICK e \in Experiments : Cleanup(e) \/ SummaryDone(e)
    BY <1>1
  <2>2. /\ server' \in [Experiments -> {"none", "serving", "summing", "done"}]
        /\ told' \subseteq Experiments
        /\ UNCHANGED <<iotlab, pc, n, fd, fds, pids, pipe, proc, client, row, late, unseen,
                       leaked, closed, finishes, cuts>>
    BY <2>1 DEF Cleanup, SummaryDone, IInv, TypeOK
  <2>3. TypeOK'
    BY <2>2 DEF IInv, TypeOK
  <2>. QED  BY <2>2, <2>3, CalmStep
<1>2. CASE \E e \in Experiments : ShellEnds(e)
  <2>1. PICK e \in Experiments : ShellEnds(e)
    BY <1>2
  <2>2. /\ proc[Server(e)] = "up" /\ proc' = [proc EXCEPT ![Server(e)] = "gone"]
        /\ UNCHANGED <<iotlab, pc, n, fd, fds, pids, pipe, server, told, client, row, late,
                       unseen, leaked, closed, finishes, cuts>>
    BY <2>1 DEF ShellEnds
  <2>3. /\ proc' \in [Children -> {"none", "up", "gone"}]
        /\ \A k \in Children : proc'[k] = proc[k] \/ (proc[k] = "up" /\ proc'[k] = "gone")
    BY <2>2, Numbers DEF IInv, TypeOK
  <2>4. TypeOK'
    BY <2>2, <2>3 DEF IInv, TypeOK
  <2>. QED  BY <2>2, <2>3, <2>4, CalmStep
<1>3. CASE \E x \in client : ClientEnds(x)
  <2>1. PICK x \in client : ClientEnds(x)
    BY <1>3
  <2>2. /\ client' = client \ {x}
        /\ UNCHANGED <<iotlab, pc, n, fd, fds, pids, pipe, proc, server, told, row, late,
                       unseen, leaked, closed, finishes, cuts>>
    BY <2>1 DEF ClientEnds
  <2>3. TypeOK'
    BY <2>2 DEF IInv, TypeOK
  <2>. QED  BY <2>2, <2>3, CalmStep
<1>4. CASE \E k \in Children : ConnectionBreaks(k)
  <2>1. PICK k \in Children : ConnectionBreaks(k)
    BY <1>4
  <2>2. /\ proc[k] = "up" /\ proc' = [proc EXCEPT ![k] = "gone"]
        /\ cuts < MaxCuts /\ cuts' = cuts + 1
        /\ late' = IF k \in Prepared THEN late ELSE late \cup {k - Nodes}
        /\ UNCHANGED <<iotlab, pc, n, fd, fds, pids, pipe, server, told, client, row,
                       unseen, leaked, closed, finishes>>
    BY <2>1 DEF ConnectionBreaks
  <2>3. /\ proc' \in [Children -> {"none", "up", "gone"}]
        /\ \A j \in Children : proc'[j] = proc[j] \/ (proc[j] = "up" /\ proc'[j] = "gone")
    BY <2>2 DEF IInv, TypeOK
  <2>4. cuts' \in 0..MaxCuts /\ late' \subseteq Experiments
    <3>1. cuts \in 0..MaxCuts /\ MaxCuts \in Nat /\ late \subseteq Experiments
      BY ExperimentAssumption DEF IInv, TypeOK
    <3>2. k \notin Prepared => k - Nodes \in Experiments
      BY Numbers
    <3>3. cuts' \in 0..MaxCuts
      BY <2>2, <3>1
    <3>. QED  BY <2>2, <3>1, <3>2, <3>3
  <2>5. TypeOK'
    BY <2>2, <2>3, <2>4 DEF IInv, TypeOK
  <2>. QED  BY <2>2, <2>3, <2>5, CalmStep
<1>5. CASE UNCHANGED vars
  <2>1. UNCHANGED <<iotlab, pc, n, fd, fds, pids, pipe, proc, server, told, client, row, late,
                    unseen, leaked, closed, finishes, cuts>>
    BY <1>5 DEF vars
  <2>2. TypeOK'
    BY <2>1 DEF IInv, TypeOK
  <2>. QED  BY <2>1, <2>2, CalmStep
<1>6. CASE \E x \in client : ClientConnectionBreaks(x)
  <2>1. PICK x \in client : ClientConnectionBreaks(x)
    BY <1>6
  <2>2. /\ cuts < MaxCuts /\ cuts' = cuts + 1 /\ unseen' = unseen \cup {x}
        /\ UNCHANGED <<iotlab, pc, n, fd, fds, pids, pipe, proc, server, told, client, row, late,
                       leaked, closed, finishes>>
    BY <2>1 DEF ClientConnectionBreaks
  <2>3. cuts' \in 0..MaxCuts /\ unseen' \subseteq [e : Experiments, c : 1..Nodes]
    <3>1. cuts \in 0..MaxCuts /\ MaxCuts \in Nat
      BY ExperimentAssumption DEF IInv, TypeOK
    <3>2. cuts' \in 0..MaxCuts
      BY <2>2, <3>1
    <3>. QED  BY <2>2, <3>2 DEF IInv, TypeOK
  <2>4. TypeOK'
    BY <2>2, <2>3 DEF IInv, TypeOK
  <2>. QED  BY <2>2, <2>4, CalmStep
<1>. QED  BY <1>1, <1>2, <1>3, <1>4, <1>5, <1>6

LEMMA NextInv == IInv /\ [Next]_vars => IInv'
<1>. SUFFICES ASSUME IInv, [Next]_vars  PROVE IInv'
  OBVIOUS
<1>1. CASE Prepare \/ RegisterPrepared \/ RunExperiment \/ RegisterServer
  BY <1>1, PrepareStep, RegisterPreparedStep, RunExperimentStep, RegisterServerStep
<1>2. CASE ServerGone \/ WaitExpires
  BY <1>2, CloseStep DEF ServerGone, WaitExpires
<1>3. CASE LaunchClients \/ ClientsDone \/ ClientsTimeOut \/ Quit \/ WaitLonger \/ QuitAgain
             \/ WriteRow \/ EndScript \/ Signal
  BY <1>3, DriverStep
<1>4. CASE \/ \E e \in Experiments : Cleanup(e) \/ SummaryDone(e) \/ ShellEnds(e)
           \/ \E x \in client : ClientEnds(x) \/ ClientConnectionBreaks(x)
           \/ \E k \in Children : ConnectionBreaks(k)
           \/ UNCHANGED vars
  BY <1>4, OthersStep
<1>. QED  BY <1>1, <1>2, <1>3, <1>4 DEF Next

(***************************************************************************)
(* There is always a descriptor for the next child, and during an          *)
(* experiment the one opened last leads to its server, whose number pids   *)
(* has for it (run_experiment.sh:391-413, 463-467).                        *)
(***************************************************************************)
THEOREM TypeCorrect == Spec => []TypeOK
<1>1. Init => IInv
  BY TypeInit DEF IInv
<1>. QED  BY <1>1, NextInv, PTL DEF Spec, IInv

------------------------------------------------------------------------------
(***************************************************************************)
(* The times in a row.  A server that the driver has seen end has written  *)
(* all of its file; and until a row is written nobody else writes into the *)
(* file, for the earlier servers of that file have ended, too.             *)
(***************************************************************************)
ServersOK ==
  /\ nghttpd_out \in [Range(Suffix) -> [of : 0..Len(Suffix), samples : BOOLEAN]]
  /\ \A e \in Experiments :
       IF e <= n THEN server[e] # "none" /\ proc[Server(e)] # "none"
                 ELSE server[e] = "none" /\ proc[Server(e)] = "none"
  /\ pc # "off" =>
       \A e \in Experiments : proc[Server(e)] = "gone" /\ e \notin late => server[e] = "done"
  /\ \A e \in 1..n : e \notin late /\ (e < n \/ pc \in {"row", "ready"}) => server[e] = "done"
  /\ n # 0 /\ Earlier(n) \cap late = {} =>
       /\ server[n] = "summing" => nghttpd_out[Suffix[n]] = [of |-> n, samples |-> FALSE]
       /\ server[n] = "done"    => nghttpd_out[Suffix[n]] = [of |-> n, samples |-> TRUE]

LEMMA ServersInit == Init => ServersOK /\ TimesAreOwn
<1>. SUFFICES ASSUME Init  PROVE ServersOK /\ TimesAreOwn
  OBVIOUS
<1>1. /\ n = 0 /\ row.e = 0
      /\ \A e \in Experiments : server[e] = "none" /\ proc[Server(e)] = "none" /\ ~(e <= n)
  BY Numbers DEF Init, NoRow
<1>2. nghttpd_out \in [Range(Suffix) -> [of : 0..Len(Suffix), samples : BOOLEAN]]
  BY Numbers DEF Init, NoTimes
<1>. QED  BY <1>1, <1>2, Numbers DEF ServersOK, TimesAreOwn

\* A step of the driver, or of a process that is not the server's own.
LEMMA ServersSame ==
  ASSUME IInv, ServersOK, UNCHANGED <<n, server, nghttpd_out>>, late \subseteq late',
         \A e \in Experiments : proc'[Server(e)] = "none" <=> proc[Server(e)] = "none",
         pc' # "off" => /\ pc # "off"
                        /\ \A e \in Experiments : proc'[Server(e)] = "gone" /\ e \notin late' =>
                             proc[Server(e)] = "gone" \/ server[e] = "done",
         pc' \in {"row", "ready"} =>
           pc \in {"row", "ready"} \/ n = 0 \/ n \in late' \/ server[n] = "done"
  PROVE  ServersOK'
<1>1. n \in Nat /\ n \in 0..Len(Suffix)
  BY Numbers DEF IInv, TypeOK
<1>2. /\ nghttpd_out' \in [Range(Suffix) -> [of : 0..Len(Suffix), samples : BOOLEAN]]
      /\ \A e \in Experiments :
           IF e <= n' THEN server'[e] # "none" /\ proc'[Server(e)] # "none"
                      ELSE server'[e] = "none" /\ proc'[Server(e)] = "none"
  BY DEF ServersOK
<1>3. pc' # "off" =>
        \A e \in Experiments : proc'[Server(e)] = "gone" /\ e \notin late' => server'[e] = "done"
  BY DEF ServersOK
<1>4. \A e \in 1..n' : e \notin late' /\ (e < n' \/ pc' \in {"row", "ready"}) => server'[e] = "done"
  BY <1>1 DEF ServersOK
<1>5. Earlier(n)' = Earlier(n)
  BY DEF Earlier
<1>6. n' # 0 /\ (Earlier(n) \cap late = {})' =>
        /\ server'[n'] = "summing" => nghttpd_out'[Suffix[n']] = [of |-> n', samples |-> FALSE]
        /\ server'[n'] = "done"    => nghttpd_out'[Suffix[n']] = [of |-> n', samples |-> TRUE]
  <2>1. (Earlier(n) \cap late = {})' => Earlier(n) \cap late = {}
    BY <1>5
  <2>. QED  BY <2>1 DEF ServersOK
<1>. QED  BY <1>2, <1>3, <1>4, <1>6 DEF ServersOK

LEMMA FileOf ==
  /\ \A e \in Experiments : Suffix[e] \in Range(Suffix)
  /\ \A e \in Experiments : \A j \in 1..e : j \in Experiments
  /\ \A e \in Experiments : \A j \in 1..e : Suffix[j] = Suffix[e] => j \in Earlier(e)
  BY Numbers DEF Range, Experiments, Earlier

LEMMA ServersRun ==
  ASSUME IInv, ServersOK, RunExperiment
  PROVE  ServersOK'
<1>1. /\ pc = "ready" /\ n' = n + 1 /\ n' \in Experiments /\ pc' = "launched" /\ n \in Nat
      /\ pc \notin Open /\ UNCHANGED <<late, nghttpd_out>>
      /\ server' = [server EXCEPT ![n'] = "serving"]
  BY Numbers DEF RunExperiment, IInv, TypeOK, Open, files, history
<1>. DEFINE m == n'
<1>2. Server(m) \in Children /\ Server(m) \notin Prepared /\ redirect_right(Server(m))
  BY <1>1, Numbers DEF RunExperiment
<1>3. proc' = [proc EXCEPT ![Server(m)] = "up"]
  BY <1>1, <1>2, Redirected DEF IInv
<1>4. \A e \in Experiments : /\ server'[e] = IF e = m THEN "serving" ELSE server[e]
                             /\ proc'[Server(e)] = IF e = m THEN "up" ELSE proc[Server(e)]
  BY <1>1, <1>3, Numbers DEF IInv, TypeOK
<1>5. \A e \in Experiments : e \in Nat
  BY Numbers
<1>. HIDE DEF m
<1>6. \A e \in Experiments :
        IF e <= m THEN server'[e] # "none" /\ proc'[Server(e)] # "none"
                  ELSE server'[e] = "none" /\ proc'[Server(e)] = "none"
  <2>1. \A e \in Experiments : (e <= m <=> e <= n \/ e = m) /\ (e = m => ~(e <= n))
    BY <1>1, <1>5 DEF m
  <2>. QED  BY <1>4, <2>1 DEF ServersOK
<1>7. \A e \in Experiments : proc'[Server(e)] = "gone" /\ e \notin late' => server'[e] = "done"
  BY <1>1, <1>4 DEF ServersOK
<1>8. \A e \in 1..m : e \notin late' /\ e < m => server'[e] = "done"
  <2>. SUFFICES ASSUME NEW e \in 1..m, e \notin late, e < m  PROVE server'[e] = "done"
    BY <1>1
  <2>1. e \in 1..n /\ e \in Experiments /\ e # m
    BY <1>1, Numbers DEF m
  <2>. QED  BY <1>1, <1>4, <2>1 DEF ServersOK
<1>9. server'[m] = "serving"
  BY <1>1, <1>4 DEF m
<1>. QED  BY <1>1, <1>6, <1>7, <1>8, <1>9 DEF ServersOK, m

LEMMA ServersWrite ==
  ASSUME IInv, ServersOK, NEW e \in Experiments, Cleanup(e) \/ SummaryDone(e)
  PROVE  ServersOK'
<1>1. /\ server[e] \in {"serving", "summing"} /\ server' = [server EXCEPT ![e] = server'[e]]
      /\ server'[e] = IF server[e] = "serving" THEN "summing" ELSE "done"
      /\ UNCHANGED <<pc, n, proc, late>>
  BY DEF Cleanup, SummaryDone, IInv, TypeOK, driver, history
<1>2. e \in 1..n /\ n \in Nat /\ n \in Experiments /\ n \in 1..n
  <2>1. e <= n /\ n \in 0..Len(Suffix)
    BY <1>1 DEF ServersOK, IInv, TypeOK
  <2>. QED  BY <2>1, Numbers
<1>3. \A j \in Experiments : j # e => server'[j] = server[j]
  BY <1>1 DEF IInv, TypeOK
<1>4. nghttpd_out' \in [Range(Suffix) -> [of : 0..Len(Suffix), samples : BOOLEAN]]
  <2>1. e \in 0..Len(Suffix) /\ Suffix[e] \in Range(Suffix)
    BY Numbers, FileOf
  <2>2. CASE Cleanup(e)
    <3>. DEFINE r == [of |-> e, samples |-> FALSE]
    <3>1. r \in [of : 0..Len(Suffix), samples : BOOLEAN]
      BY <2>1
    <3>2. nghttpd_out' = [nghttpd_out EXCEPT ![Suffix[e]] = r]
      BY <2>2 DEF Cleanup
    <3>. HIDE DEF r
    <3>. QED  BY <3>1, <3>2 DEF ServersOK
  <2>3. CASE SummaryDone(e)
    <3>. DEFINE old == nghttpd_out[Suffix[e]]
                r == [old EXCEPT !.samples = @ \/ old.of = e]
    <3>1. old \in [of : 0..Len(Suffix), samples : BOOLEAN]
      BY <2>1 DEF ServersOK
    <3>2. nghttpd_out' = [nghttpd_out EXCEPT ![Suffix[e]] = r]
      BY <2>3 DEF SummaryDone
    <3>3. r \in [of : 0..Len(Suffix), samples : BOOLEAN]
      BY <3>1
    <3>. HIDE DEF r
    <3>. QED  BY <3>2, <3>3 DEF ServersOK
  <2>. QED  BY <2>2, <2>3
<1>5. \A j \in Experiments :
        IF j <= n THEN server'[j] # "none" /\ proc'[Server(j)] # "none"
                  ELSE server'[j] = "none" /\ proc'[Server(j)] = "none"
  BY <1>1, <1>2, <1>3 DEF ServersOK
<1>6. pc # "off" =>
        \A j \in Experiments : proc'[Server(j)] = "gone" /\ j \notin late => server'[j] = "done"
  BY <1>1, <1>3 DEF ServersOK
<1>7. \A j \in 1..n : j \notin late /\ (j < n \/ pc \in {"row", "ready"}) => server'[j] = "done"
  BY <1>1, <1>2, <1>3, FileOf DEF ServersOK
<1>8. ASSUME Earlier(n) \cap late = {}
      PROVE  /\ server'[n] = "summing" => nghttpd_out'[Suffix[n]] = [of |-> n, samples |-> FALSE]
             /\ server'[n] = "done"    => nghttpd_out'[Suffix[n]] = [of |-> n, samples |-> TRUE]
  <2>. DEFINE out == nghttpd_out[Suffix[n]]
  <2>1. Suffix[n] \in Range(Suffix) /\ n # 0 /\ \A j \in 1..n : Suffix[j] = Suffix[n] => j \notin late
    BY <1>2, <1>8, FileOf
  <2>2. /\ server[n] = "summing" => out = [of |-> n, samples |-> FALSE]
        /\ server[n] = "done"    => out = [of |-> n, samples |-> TRUE]
    BY <1>2, <1>8 DEF ServersOK
  <2>3. CASE e # n
    <3>1. Suffix[e] # Suffix[n]
      BY <1>1, <1>2, <2>1, <2>3 DEF ServersOK
    <3>2. nghttpd_out'[Suffix[n]] = out
      BY <2>1, <3>1 DEF Cleanup, SummaryDone, ServersOK
    <3>. QED  BY <1>2, <1>3, <2>2, <2>3, <3>2
  <2>4. CASE e = n /\ Cleanup(e)
    <3>1. server'[n] = "summing"
      BY <2>4 DEF Cleanup, IInv, TypeOK
    <3>2. nghttpd_out'[Suffix[n]] = [of |-> n, samples |-> FALSE]
      BY <2>1, <2>4 DEF Cleanup, ServersOK
    <3>. QED  BY <3>1, <3>2
  <2>5. CASE e = n /\ SummaryDone(e)
    <3>1. server[n] = "summing" /\ server'[n] = "done"
      BY <2>5 DEF SummaryDone, IInv, TypeOK
    <3>2. out = [of |-> n, samples |-> FALSE]
      BY <2>2, <3>1
    <3>3. nghttpd_out'[Suffix[n]] = [out EXCEPT !.samples = @ \/ out.of = n]
      BY <2>1, <2>5 DEF SummaryDone, ServersOK
    <3>. HIDE DEF out
    <3>4. nghttpd_out'[Suffix[n]] = [of |-> n, samples |-> TRUE]
      BY <3>2, <3>3
    <3>. QED  BY <3>1, <3>4
  <2>. QED  BY <2>3, <2>4, <2>5
<1>9. n' = n /\ pc' = pc /\ late' = late /\ Earlier(n)' = Earlier(n)
  BY <1>1 DEF Earlier
<1>. QED  BY <1>4, <1>5, <1>6, <1>7, <1>8, <1>9 DEF ServersOK

LEMMA PreparedChild ==
  ASSUME IInv
  PROVE  /\ pc = "prepare"  => Launched = Len(fds) /\ Len(fds) + 1 \in Prepared
         /\ pc = "prepared" => Launched = Len(fds) + 1 /\ Len(fds) + 1 \in Prepared
<1>1. Len(fds) \in Nat
  BY LenProperties DEF IInv, TypeOK
<1>2. CASE pc = "prepare"
  <2>1. Len(fds) < Nodes /\ \A k \in Prepared : proc[k] # "none" <=> k <= Len(fds)
    BY <1>2 DEF IInv, ControlOK
  <2>2. Len(fds) \in 0..Nodes
    BY <1>1, <2>1, Numbers
  <2>3. Launched = Len(fds)
    BY <2>1, <2>2, PreparedLaunched
  <2>. QED  BY <1>1, <1>2, <2>1, <2>3, Numbers DEF Prepared
<1>3. CASE pc = "prepared"
  <2>1. Len(fds) < Nodes /\ \A k \in Prepared : proc[k] # "none" <=> k <= Len(fds) + 1
    BY <1>3 DEF IInv, ControlOK
  <2>2. Len(fds) + 1 \in 0..Nodes
    BY <1>1, <2>1, Numbers
  <2>3. Launched = Len(fds) + 1
    BY <2>1, <2>2, PreparedLaunched
  <2>. QED  BY <1>1, <1>3, <2>1, <2>3, Numbers DEF Prepared
<1>. QED  BY <1>2, <1>3

LEMMA PrepareOne ==
  ASSUME IInv, Prepare
  PROVE  /\ proc' = [proc EXCEPT ![Len(fds) + 1] = "up"] /\ fds' = fds /\ pids' = pids
         /\ fd' \in Fds /\ pipe[fd'] = 0 /\ pipe' = [pipe EXCEPT ![fd'] = Len(fds) + 1]
         /\ Len(fds) + 1 \in Prepared /\ Len(fds) + 1 \in Children /\ proc[Len(fds) + 1] = "none"
<1>1. /\ Launched = Len(fds) /\ Len(fds) + 1 \in Prepared /\ Len(fds) + 1 \in Children
      /\ pc \notin Open /\ pc = "prepare"
  BY PreparedChild, Numbers DEF Prepare, Open
<1>2. redirect_right(Len(fds) + 1)
  BY <1>1 DEF Prepare
<1>3. proc[Len(fds) + 1] = "none"
  <2>1. Len(fds) \in Nat /\ ~(Len(fds) + 1 <= Len(fds))
    BY LenProperties DEF IInv, TypeOK
  <2>. QED  BY <1>1, <2>1 DEF IInv, TypeOK, ControlOK
<1>. QED  BY <1>1, <1>2, <1>3, Redirected DEF IInv

LEMMA ServersClose ==
  ASSUME IInv, ServersOK, ServerGone \/ WaitExpires
  PROVE  ServersOK'
<1>1. PICK gone : Close(gone) /\ (gone => proc[Server(n)] # "up")
  BY DEF ServerGone, WaitExpires
<1>2. /\ pc = "wait" /\ pc' = "row" /\ close_fd(fd)
      /\ late' = IF gone THEN late ELSE late \cup {n}
      /\ UNCHANGED <<n, server, nghttpd_out>>
  BY <1>1 DEF Close, files
<1>3. n \in Experiments /\ n \in 1..n /\ n <= n /\ fd \in Fds /\ pids[fd] = Server(n)
  BY <1>2, Numbers DEF IInv, TypeOK, ControlOK, PipesOK, Open
<1>4. \A k \in Children : proc'[k] = IF k = pids[fd] /\ proc[k] = "up" THEN "gone" ELSE proc[k]
  BY <1>2, <1>3, ClosedFd DEF IInv
<1>5. gone => proc[Server(n)] = "gone"
  BY <1>1, <1>3, Numbers DEF IInv, TypeOK, ServersOK
<1>6. n \in late' \/ server[n] = "done"
  BY <1>2, <1>3, <1>5 DEF ServersOK
<1>7. \A e \in Experiments :
        /\ proc'[Server(e)] = "none" <=> proc[Server(e)] = "none"
        /\ proc'[Server(e)] = "gone" /\ e \notin late' =>
             proc[Server(e)] = "gone" \/ server[e] = "done"
  BY <1>3, <1>4, <1>6, Numbers
<1>. QED  BY <1>2, <1>6, <1>7, ServersSame

LEMMA ServersStep ==
  ASSUME IInv, ServersOK, [Next]_vars
  PROVE  ServersOK'
<1>. USE DEF arrays, driver, world, files, history
<1>1. CASE Prepare
  <2>1. /\ UNCHANGED <<n, server, nghttpd_out, late>> /\ pc = "prepare" /\ pc' = "prepared"
    BY <1>1 DEF Prepare
  <2>2. proc' = [proc EXCEPT ![Len(fds) + 1] = "up"] /\ Len(fds) + 1 \in Prepared
    BY <1>1, PrepareOne
  <2>3. \A e \in Experiments : Server(e) \in Children /\ Server(e) # Len(fds) + 1
    BY <2>2, Numbers
  <2>4. \A e \in Experiments : proc'[Server(e)] = proc[Server(e)]
    BY <2>2, <2>3 DEF IInv, TypeOK
  <2>. QED  BY <2>1, <2>4, ServersSame
<1>2. CASE RegisterPrepared \/ RegisterServer \/ LaunchClients \/ ClientsDone \/ ClientsTimeOut
             \/ WaitLonger \/ WriteRow
  <2>1. UNCHANGED <<n, server, nghttpd_out, late, proc>> /\ pc # "off" /\ pc' # "off"
    BY <1>2 DEF RegisterPrepared, RegisterServer, LaunchClients, ClientsDone, ClientsTimeOut,
                WaitLonger, WriteRow
  <2>2. pc' \in {"row", "ready"} => pc \in {"row", "ready"} \/ n = 0
    BY <1>2 DEF RegisterPrepared, RegisterServer, LaunchClients, ClientsDone, ClientsTimeOut,
                WaitLonger, WriteRow, IInv, ControlOK
  <2>. QED  BY <2>1, <2>2, ServersSame
<1>3. CASE RunExperiment
  BY <1>3, ServersRun
<1>4. CASE Quit \/ QuitAgain \/ EndScript \/ Signal
  <2>1. UNCHANGED <<n, server, nghttpd_out, late>> /\ pc # "off"
    BY <1>4 DEF Quit, QuitAgain, EndScript, Signal
  <2>2. CASE pc' = "wait" /\ proc' = proc
    BY <2>1, <2>2, ServersSame
  <2>3. CASE \E calls \in 1..2 : finish(calls)
    <3>1. /\ pc' = "off"
          /\ \A k \in Children : proc'[k] = proc[k] \/ (proc[k] = "up" /\ proc'[k] = "gone")
      BY <2>3, FinishTypes DEF IInv
    <3>2. \A e \in Experiments : proc'[Server(e)] = "none" <=> proc[Server(e)] = "none"
      BY <3>1, Numbers
    <3>. QED  BY <2>1, <3>1, <3>2, ServersSame
  <2>4. 1 \in 1..2 /\ 2 \in 1..2
    OBVIOUS
  <2>. QED  BY <1>4, <2>2, <2>3, <2>4 DEF Quit, QuitAgain, EndScript, Signal, SendQ
<1>5. CASE ServerGone \/ WaitExpires
  BY <1>5, ServersClose
<1>6. CASE \E e \in Experiments : Cleanup(e) \/ SummaryDone(e)
  BY <1>6, ServersWrite
<1>7. CASE \E e \in Experiments : ShellEnds(e)
  <2>1. PICK e \in Experiments : ShellEnds(e)
    BY <1>7
  <2>2. /\ server[e] = "done" /\ proc[Server(e)] = "up"
        /\ proc' = [proc EXCEPT ![Server(e)] = "gone"]
        /\ UNCHANGED <<pc, n, server, nghttpd_out, late>>
    BY <2>1 DEF ShellEnds
  <2>3. \A j \in Experiments :
          proc'[Server(j)] = IF j = e THEN "gone" ELSE proc[Server(j)]
    BY <2>2, Numbers DEF IInv, TypeOK
  <2>. QED  BY <2>2, <2>3, ServersSame
<1>8. CASE \E x \in client : ClientEnds(x) \/ ClientConnectionBreaks(x)
  <2>1. UNCHANGED <<pc, n, server, nghttpd_out, late, proc>>
    BY <1>8 DEF ClientEnds, ClientConnectionBreaks
  <2>. QED  BY <2>1, ServersSame
<1>9. CASE \E k \in Children : ConnectionBreaks(k)
  <2>1. PICK k \in Children : ConnectionBreaks(k)
    BY <1>9
  <2>2. /\ proc[k] = "up" /\ proc' = [proc EXCEPT ![k] = "gone"]
        /\ late' = IF k \in Prepared THEN late ELSE late \cup {k - Nodes}
        /\ UNCHANGED <<pc, n, server, nghttpd_out>>
    BY <2>1 DEF ConnectionBreaks
  <2>3. \A e \in Experiments :
          /\ Server(e) # k => proc'[Server(e)] = proc[Server(e)]
          /\ Server(e) = k => proc'[k] = "gone" /\ e \in late'
    BY <2>2, Numbers DEF IInv, TypeOK
  <2>. QED  BY <2>2, <2>3, ServersSame
<1>10. CASE UNCHANGED vars
  <2>1. UNCHANGED <<pc, n, server, nghttpd_out, late, proc>>
    BY <1>10 DEF vars
  <2>. QED  BY <2>1, ServersSame
<1>. QED  BY <1>1, <1>2, <1>3, <1>4, <1>5, <1>6, <1>7, <1>8, <1>9, <1>10 DEF Next

LEMMA TimesStep ==
  ASSUME IInv, ServersOK, TimesAreOwn, [Next]_vars
  PROVE  TimesAreOwn'
<1>. USE DEF arrays, driver, world, files, history
<1>1. CASE WriteRow
  <2>1. /\ pc = "row" /\ row'.e = n /\ row'.times = nghttpd_out[Suffix[n]] /\ late' = late
    BY <1>1 DEF WriteRow
  <2>2. n \in 1..n
    BY <2>1, Numbers DEF IInv, TypeOK, ControlOK
  <2>3. Earlier(n) \cap late = {} => nghttpd_out[Suffix[n]] = [of |-> n, samples |-> TRUE]
    <3>1. n \in Earlier(n)
      BY <2>2 DEF Earlier
    <3>. QED  BY <2>1, <2>2, <3>1 DEF ServersOK
  <2>. QED  BY <2>1, <2>3 DEF TimesAreOwn, Earlier
<1>2. CASE row' = row /\ late \subseteq late'
  <2>1. Earlier(row.e)' = Earlier(row.e)
    BY <1>2 DEF Earlier
  <2>. QED  BY <1>2, <2>1 DEF TimesAreOwn
<1>3. CASE ~WriteRow
  <2>1. row' = row
    BY <1>3 DEF Next, vars, Prepare, RegisterPrepared, RunExperiment, RegisterServer, LaunchClients,
      ClientsDone, ClientsTimeOut, Quit, WaitLonger, QuitAgain, ServerGone, WaitExpires, Close,
      EndScript, Signal, Cleanup, SummaryDone, ShellEnds, ClientEnds,
      ClientConnectionBreaks, ConnectionBreaks
  <2>2. late \subseteq late'
    BY <1>3 DEF Next, vars, Prepare, RegisterPrepared, RunExperiment, RegisterServer, LaunchClients,
      ClientsDone, ClientsTimeOut, Quit, WaitLonger, QuitAgain, ServerGone, WaitExpires, Close,
      EndScript, Signal, Cleanup, SummaryDone, ShellEnds, ClientEnds,
      ClientConnectionBreaks, ConnectionBreaks
  <2>. QED  BY <1>2, <2>1, <2>2
<1>. QED  BY <1>1, <1>3

(***************************************************************************)
(* A row has its own experiment's times and all its samples, whichever     *)
(* experiments share their files, unless the driver gave up waiting for a  *)
(* server of that file (run_experiment.sh:222-236).                        *)
(***************************************************************************)
THEOREM OwnTimes == Spec => []TimesAreOwn
<1>1. Init => IInv /\ ServersOK /\ TimesAreOwn
  BY TypeInit, ServersInit DEF IInv
<1>2. IInv /\ ServersOK /\ TimesAreOwn /\ [Next]_vars => (IInv /\ ServersOK /\ TimesAreOwn)'
  BY NextInv, ServersStep, TimesStep
<1>. QED  BY <1>1, <1>2, PTL DEF Spec
------------------------------------------------------------------------------
(***************************************************************************)
(* The clients that run.  They are the current experiment's, and it is at  *)
(* its clients or was ended there by a signal; all others are of those     *)
(* that the driver did not see end.                                        *)
(***************************************************************************)
ClientsRun ==
  \A x \in client :
    /\ x.e <= n /\ x.c \in Clients
    /\ x \in unseen \/ (x.e = n /\ (pc = "clients" \/ (pc = "off" /\ finishes = 2)))

LEMMA RunCalm ==
  ASSUME ClientsRun, UNCHANGED <<iotlab, n>>, client' \subseteq client, unseen \subseteq unseen',
         \/ UNCHANGED <<pc, finishes>>
         \/ pc \notin {"clients", "off"}
         \/ pc' = "off" /\ finishes' = 2
  PROVE  ClientsRun'
BY DEF ClientsRun, Clients

LEMMA RunStep ==
  ASSUME IInv, ClientsRun, [Next]_vars
  PROVE  ClientsRun'
<1>. USE DEF arrays, driver, world, files, history
<1>1. CASE RunExperiment
  <2>1. /\ pc = "ready" /\ n' = n + 1 /\ n \in Nat /\ UNCHANGED <<iotlab, client, unseen>>
    BY <1>1, Numbers DEF RunExperiment, IInv, TypeOK
  <2>2. \A x \in client : x.e \in Nat
    BY Numbers DEF IInv, TypeOK
  <2>3. \A x \in client : x.e <= n + 1 /\ x.c \in Clients /\ x \in unseen
    BY <2>1, <2>2 DEF ClientsRun
  <2>. QED  BY <2>1, <2>3 DEF ClientsRun, Clients
<1>2. CASE LaunchClients
  <2>. DEFINE new == {[e |-> n, c |-> c] : c \in Clients}
  <2>1. /\ pc = "starting" /\ pc' = "clients" /\ UNCHANGED <<iotlab, n, unseen>>
        /\ client' = client \cup new /\ n \in Nat
    BY <1>2, Numbers DEF LaunchClients, IInv, TypeOK
  <2>2. \A x \in new : x.e = n /\ x.c \in Clients
    OBVIOUS
  <2>. HIDE DEF new
  <2>. QED  BY <2>1, <2>2 DEF ClientsRun, Clients
<1>3. CASE ClientsDone \/ ClientsTimeOut
  <2>1. /\ pc = "clients" /\ Running(n) \subseteq unseen' /\ unseen \subseteq unseen'
        /\ UNCHANGED <<iotlab, n, client>>
    BY <1>3 DEF ClientsDone, ClientsTimeOut
  <2>2. \A x \in client : x \in unseen'
    BY <2>1 DEF ClientsRun, Running
  <2>. QED  BY <2>1, <2>2 DEF ClientsRun, Clients
<1>4. CASE Prepare \/ RegisterPrepared \/ RegisterServer \/ Quit \/ QuitAgain \/ WaitLonger
             \/ ServerGone \/ WaitExpires \/ WriteRow \/ EndScript
  <2>1. UNCHANGED <<iotlab, n, client, unseen>> /\ pc \notin {"clients", "off"}
    BY <1>4 DEF Prepare, RegisterPrepared, RegisterServer, Quit, QuitAgain, WaitLonger,
                ServerGone, WaitExpires, Close, WriteRow, EndScript
  <2>. QED  BY <2>1, RunCalm
<1>5. CASE Signal
  <2>1. UNCHANGED <<iotlab, n, client, unseen>> /\ pc' = "off" /\ finishes' = 2
    BY <1>5 DEF Signal, finish
  <2>. QED  BY <2>1, RunCalm
<1>6. CASE \/ \E e \in Experiments : Cleanup(e) \/ SummaryDone(e) \/ ShellEnds(e)
           \/ \E x \in client : ClientEnds(x) \/ ClientConnectionBreaks(x)
           \/ \E k \in Children : ConnectionBreaks(k)
           \/ UNCHANGED vars
  <2>1. /\ UNCHANGED <<iotlab, n, pc, finishes>>
        /\ client' \subseteq client /\ unseen \subseteq unseen'
    BY <1>6 DEF Cleanup, SummaryDone, ShellEnds, ClientEnds, ClientConnectionBreaks,
                ConnectionBreaks, vars
  <2>. QED  BY <2>1, RunCalm
<1>. QED  BY <1>1, <1>2, <1>3, <1>4, <1>5, <1>6 DEF Next

------------------------------------------------------------------------------
(***************************************************************************)
(* The children left.  Until the driver ends, each child that is up has    *)
(* its descriptor; the descriptor is in the array, with the child in pids, *)
(* but for the one opened just now; and the first text of the array has    *)
(* the router's, and once a server was closed all those of the nodes.      *)
(***************************************************************************)
\* The child is launched, and not yet registered.
Fresh(k) == (pc = "prepared" /\ k = Len(fds) + 1) \/ (pc = "launched" /\ k = Server(n))

HasFd(k)   == \E f \in Fds : pipe[f] = k
InArray(f) == \E i \in 1..Len(fds) : In(f, fds[i])

ListsOK ==
  /\ \A k \in Children : proc[k] = "up" => HasFd(k)
  /\ \A f \in Fds : pipe[f] # 0 /\ ~Fresh(pipe[f]) => pids[f] = pipe[f] /\ InArray(f)
  /\ \A f \in Fds : closed # 0 /\ pipe[f] \in Prepared => In(f, fds[1])
  /\ iotlab /\ fds # << >> => \E f \in Fds : In(f, fds[1]) /\ pids[f] = 1 /\ pipe[f] = 1
  /\ iotlab /\ pc \notin {"prepare", "prepared"} => fds # << >>

ChildrenLeft ==
  pc = "off" /\ iotlab =>
    \A k \in Children : proc[k] = "up" =>
      k = leaked \/ (k \in Prepared \ {1} /\ finishes = 1 /\ closed = 0)

LeftOK == ChildrenLeft /\ (pc # "off" => ListsOK)

LEMMA LeftInit == Init => LeftOK
<1>. SUFFICES ASSUME Init  PROVE LeftOK
  OBVIOUS
<1>1. /\ pc # "off" /\ fds = << >> /\ closed = 0
      /\ iotlab => pc = "prepare"
      /\ \A k \in Children : proc[k] = "none"
      /\ \A f \in Fds : pipe[f] = 0
  BY DEF Init
<1>. QED  BY <1>1 DEF LeftOK, ListsOK, ChildrenLeft

LEMMA LeftCalm ==
  ASSUME IInv, LeftOK, UNCHANGED <<iotlab, n, fds, pids, pipe, closed, leaked, finishes>>,
         \A k \in Children : proc'[k] = "up" => proc[k] = "up",
         \/ pc' = pc
         \/ pc \in {"starting", "clients", "quit", "wait", "again", "row"} /\ pc' # "off"
  PROVE  LeftOK'
<1>1. pc' # "off" => pc # "off"
  OBVIOUS
<1>2. ASSUME pc' # "off"  PROVE ListsOK'
  <2>1. ListsOK
    BY <1>1, <1>2 DEF LeftOK
  <2>2. \A k : Fresh(k) => Fresh(k)'
    BY DEF Fresh
  <2>. QED  BY <2>1, <2>2 DEF ListsOK, HasFd, InArray
<1>3. ChildrenLeft'
  BY DEF LeftOK, ChildrenLeft
<1>. QED  BY <1>2, <1>3 DEF LeftOK

LEMMA LeftPrepare ==
  ASSUME IInv, LeftOK, Prepare
  PROVE  LeftOK'
<1>. DEFINE child == Len(fds) + 1
<1>1. /\ proc' = [proc EXCEPT ![child] = "up"] /\ fds' = fds /\ pids' = pids
      /\ fd' \in Fds /\ pipe[fd'] = 0 /\ pipe' = [pipe EXCEPT ![fd'] = child]
      /\ child \in Prepared /\ child \in Children
  BY PrepareOne
<1>2. /\ pc = "prepare" /\ pc' = "prepared" /\ UNCHANGED <<iotlab, n, closed>> /\ ListsOK
  BY DEF Prepare, history, LeftOK
<1>3. closed = 0
  BY <1>2 DEF IInv, TypeOK, ControlOK
<1>4. \A k : ~Fresh(k) /\ (Fresh(k)' <=> k = child)
  BY <1>1, <1>2 DEF Fresh
<1>. HIDE DEF child
<1>5. /\ pipe'[fd'] = child /\ \A f \in Fds : f # fd' => pipe'[f] = pipe[f]
      /\ \A k \in Children : k # child => proc'[k] = proc[k]
  BY <1>1 DEF IInv, TypeOK
<1>6. ASSUME NEW k \in Children, proc'[k] = "up"  PROVE HasFd(k)'
  <2>1. CASE k = child
    BY <1>1, <1>5, <2>1 DEF HasFd
  <2>2. CASE k # child
    <3>1. PICK f \in Fds : pipe[f] = k
      BY <1>2, <1>5, <1>6, <2>2 DEF ListsOK, HasFd
    <3>2. f # fd'
      BY <1>1, <3>1, Numbers
    <3>. QED  BY <1>5, <3>1, <3>2 DEF HasFd
  <2>. QED  BY <2>1, <2>2
<1>7. ASSUME NEW f \in Fds, pipe'[f] # 0, ~Fresh(pipe[f])'
      PROVE  pids'[f] = pipe'[f] /\ InArray(f)'
  <2>1. f # fd'
    BY <1>4, <1>5, <1>7
  <2>. QED  BY <1>1, <1>2, <1>4, <1>5, <1>7, <2>1 DEF ListsOK, InArray
<1>8. iotlab /\ fds # << >> => \E f \in Fds : In(f, fds[1]) /\ pids[f] = 1 /\ pipe'[f] = 1
  BY <1>1, <1>2, <1>5 DEF ListsOK
<1>9. ListsOK'
  BY <1>1, <1>2, <1>3, <1>6, <1>7, <1>8 DEF ListsOK
<1>. QED  BY <1>2, <1>9 DEF LeftOK, ChildrenLeft

LEMMA LeftRun ==
  ASSUME IInv, LeftOK, RunExperiment
  PROVE  LeftOK'
<1>. DEFINE child == Server(n')
<1>1. /\ pc = "ready" /\ pc' = "launched" /\ n' \in Experiments /\ UNCHANGED <<iotlab, closed>>
      /\ redirect_right(child) /\ ListsOK /\ pc \notin Open
  BY Numbers DEF RunExperiment, Open, history, LeftOK
<1>2. child \in Children /\ child \notin Prepared
  BY <1>1, Numbers
<1>3. /\ proc' = [proc EXCEPT ![child] = "up"] /\ fds' = fds /\ pids' = pids
      /\ fd' \in Fds /\ pipe[fd'] = 0 /\ pipe' = [pipe EXCEPT ![fd'] = child]
  BY <1>1, <1>2, Redirected DEF IInv
<1>4. \A k : ~Fresh(k) /\ (Fresh(k)' <=> k = child)
  BY <1>1 DEF Fresh
<1>. HIDE DEF child
<1>5. /\ pipe'[fd'] = child /\ \A f \in Fds : f # fd' => pipe'[f] = pipe[f]
      /\ \A k \in Children : k # child => proc'[k] = proc[k]
  BY <1>2, <1>3 DEF IInv, TypeOK
<1>6. ASSUME NEW k \in Children, proc'[k] = "up"  PROVE HasFd(k)'
  <2>1. CASE k = child
    BY <1>3, <1>5, <2>1 DEF HasFd
  <2>2. CASE k # child
    <3>1. PICK f \in Fds : pipe[f] = k
      BY <1>1, <1>5, <1>6, <2>2 DEF ListsOK, HasFd
    <3>2. f # fd'
      BY <1>3, <3>1, Numbers
    <3>. QED  BY <1>5, <3>1, <3>2 DEF HasFd
  <2>. QED  BY <2>1, <2>2
<1>7. ASSUME NEW f \in Fds, pipe'[f] # 0, ~Fresh(pipe[f])'
      PROVE  pids'[f] = pipe'[f] /\ InArray(f)'
  <2>1. f # fd'
    BY <1>4, <1>5, <1>7
  <2>. QED  BY <1>1, <1>3, <1>4, <1>5, <1>7, <2>1 DEF ListsOK, InArray
<1>8. \A f \in Fds : closed # 0 /\ pipe'[f] \in Prepared => In(f, fds[1])
  BY <1>1, <1>2, <1>5 DEF ListsOK
<1>9. iotlab /\ fds # << >> => \E f \in Fds : In(f, fds[1]) /\ pids[f] = 1 /\ pipe'[f] = 1
  BY <1>1, <1>3, <1>5 DEF ListsOK
<1>10. ListsOK'
  BY <1>1, <1>3, <1>6, <1>7, <1>8, <1>9 DEF ListsOK
<1>. QED  BY <1>1, <1>10 DEF LeftOK, ChildrenLeft

(***************************************************************************)
(* register_fd makes the fresh child one that the array has.               *)
(***************************************************************************)
LEMMA LeftRegister ==
  ASSUME IInv, LeftOK, NEW child \in Children, register_fd(child), fd \in Fds, pipe[fd] = child,
         pc # "off", \A k : Fresh(k) <=> k = child,
         pc' \notin {"prepared", "launched", "off"},
         UNCHANGED <<iotlab, proc, closed>>,
         iotlab => (child = 1 <=> fds = << >>),
         closed = 0 \/ child \notin Prepared
  PROVE  LeftOK'
<1>. DEFINE m == Len(fds) + 1  text == <<fd>>
<1>1. ListsOK /\ \A k : ~Fresh(k)'
  BY DEF LeftOK, Fresh
<1>2. /\ Len(fds') = m /\ fds'[m] = text /\ \A i \in 1..Len(fds) : fds'[i] = fds[i]
      /\ pids' = [pids EXCEPT ![fd] = child] /\ pipe' = pipe
      /\ Len(fds) \in Nat /\ fds' \in Seq(Seq(Fds \cup {0}))
  BY RegisteredFd, LenProperties DEF IInv, TypeOK
<1>3. In(fd, text) /\ m \in 1..m
  <2>1. Len(text) = 1 /\ text[1] = fd
    OBVIOUS
  <2>2. m \in Nat /\ m >= 1
    BY <1>2
  <2>. QED  BY <2>1, <2>2 DEF In
<1>. HIDE DEF text
<1>4. /\ pids'[fd] = child /\ \A f \in Fds : f # fd => pids'[f] = pids[f] /\ pipe[f] # child
  BY <1>2, Numbers DEF IInv, TypeOK, PipesOK
<1>5. \A f \in Fds : InArray(f) => InArray(f)'
  <2>1. \A i \in 1..Len(fds) : i \in 1..m
    BY <1>2
  <2>. QED  BY <1>2, <2>1 DEF InArray
<1>6. \A f \in Fds : f = fd => InArray(f)'
  BY <1>2, <1>3 DEF InArray
<1>7. \A f \in Fds : pipe[f] # 0 => pids'[f] = pipe[f] /\ InArray(f)'
  BY <1>1, <1>4, <1>5, <1>6 DEF ListsOK
<1>8. fds # << >> => fds'[1] = fds[1]
  <2>1. fds # << >> => 1 \in 1..Len(fds)
    BY <1>2, EmptySeq DEF IInv, TypeOK
  <2>. QED  BY <1>2, <2>1
<1>9. ASSUME NEW f \in Fds, closed # 0, pipe[f] \in Prepared  PROVE In(f, fds'[1])
  <2>1. f # fd /\ pipe[f] # child /\ pipe[f] # 0
    BY <1>4, <1>9, Numbers
  <2>2. InArray(f) /\ In(f, fds[1])
    BY <1>1, <1>9, <2>1 DEF ListsOK
  <2>3. fds # << >>
    <3>1. PICK i \in 1..Len(fds) : In(f, fds[i])
      BY <2>2 DEF InArray
    <3>2. Len(fds) # 0
      BY <1>2
    <3>. QED  BY <3>2
  <2>. QED  BY <1>8, <2>2, <2>3
<1>10. ASSUME iotlab  PROVE \E f \in Fds : In(f, fds'[1]) /\ pids'[f] = 1 /\ pipe[f] = 1
  <2>1. CASE fds = << >>
    <3>1. Len(fds) = 0
      BY <2>1
    <3>2. m = 1 /\ child = 1 /\ fds'[1] = text
      BY <1>2, <1>10, <2>1, <3>1
    <3>. QED  BY <1>3, <1>4, <3>2
  <2>2. CASE fds # << >>
    <3>1. PICK f \in Fds : In(f, fds[1]) /\ pids[f] = 1 /\ pipe[f] = 1
      BY <1>1, <1>10, <2>2 DEF ListsOK
    <3>2. f # fd
      BY <1>10, <2>2, <3>1
    <3>. QED  BY <1>4, <1>8, <2>2, <3>1, <3>2
  <2>. QED  BY <2>1, <2>2
<1>11. fds' # << >>
  <2>1. Len(fds') # 0
    BY <1>2
  <2>. QED  BY <2>1
<1>12. ListsOK'
  <2>1. \A k \in Children : proc'[k] = "up" => HasFd(k)'
    BY <1>1, <1>2 DEF ListsOK, HasFd
  <2>. QED  BY <1>2, <1>7, <1>9, <1>10, <1>11, <2>1 DEF ListsOK
<1>. QED  BY <1>12 DEF LeftOK, ChildrenLeft

LEMMA LeftRegistered ==
  ASSUME IInv, LeftOK, RegisterPrepared \/ RegisterServer
  PROVE  LeftOK'
<1>1. CASE RegisterPrepared
  <2>. DEFINE child == Len(fds) + 1
  <2>1. /\ pc = "prepared" /\ Launched = child /\ child \in Prepared /\ child \in Children
        /\ fd \in Fds /\ pipe[fd] = child /\ n = 0 /\ closed = 0
    <3>1. pc = "prepared"
      BY <1>1 DEF RegisterPrepared
    <3>2. Launched = child /\ child \in Prepared /\ child \in Children
      BY <3>1, PreparedChild, Numbers
    <3>3. n = 0 /\ closed \in 0..n
      BY <3>1 DEF IInv, TypeOK, ControlOK
    <3>4. fd \in Fds /\ pipe[fd] = child
      BY <3>1 DEF IInv, PipesOK
    <3>. QED  BY <3>1, <3>2, <3>3, <3>4
  <2>2. register_fd(child) /\ UNCHANGED <<iotlab, proc, closed>>
        /\ pc' \notin {"prepared", "launched", "off"}
    BY <1>1, <2>1 DEF RegisterPrepared, world, history
  <2>3. \A k : Fresh(k) <=> k = child
    BY <2>1 DEF Fresh
  <2>4. child = 1 <=> fds = << >>
    <3>1. Len(fds) \in Nat /\ (fds = << >> <=> Len(fds) = 0)
      BY LenProperties, EmptySeq DEF IInv, TypeOK
    <3>. QED  BY <3>1
  <2>. HIDE DEF child
  <2>. QED  BY <2>1, <2>2, <2>3, <2>4, LeftRegister
<1>2. CASE RegisterServer
  <2>. DEFINE child == Server(n)
  <2>1. pc = "launched" /\ n \in Experiments /\ fd \in Fds /\ pipe[fd] = child
    BY <1>2, Numbers DEF RegisterServer, IInv, TypeOK, ControlOK, PipesOK, Open
  <2>2. child \in Children /\ child \notin Prepared /\ child # 1
    BY <2>1, Numbers
  <2>3. register_fd(child) /\ UNCHANGED <<iotlab, proc, closed>>
        /\ pc' \notin {"prepared", "launched", "off"}
    BY <1>2 DEF RegisterServer, world, history
  <2>4. \A k : Fresh(k) <=> k = child
    BY <2>1 DEF Fresh
  <2>5. iotlab => fds # << >>
    BY <2>1 DEF LeftOK, ListsOK
  <2>. HIDE DEF child
  <2>. QED  BY <2>1, <2>2, <2>3, <2>4, <2>5, LeftRegister
<1>. QED  BY <1>1, <1>2

(***************************************************************************)
(* close_fd moves all descriptors but the server's into the first text.    *)
(***************************************************************************)
LEMMA LeftClose ==
  ASSUME IInv, LeftOK, NEW gone, Close(gone)
  PROVE  LeftOK'
<1>1. /\ pc = "wait" /\ pc' = "row" /\ close_fd(fd) /\ UNCHANGED <<iotlab, n>> /\ ListsOK
  BY DEF Close, LeftOK
<1>2. /\ n \in Experiments /\ fd \in Fds /\ pids[fd] = Server(n) /\ pipe[fd] = Server(n)
  BY <1>1, Numbers DEF IInv, TypeOK, ControlOK, PipesOK, Open
<1>3. Server(n) \in Children /\ Server(n) \notin Prepared /\ Server(n) # 0
  BY <1>2, Numbers
<1>4. /\ pids' = pids /\ pipe' = [pipe EXCEPT ![fd] = 0] /\ fds' = Removed(fds, fd)
      /\ \A k \in Children : proc'[k] = IF k = pids[fd] /\ proc[k] = "up" THEN "gone" ELSE proc[k]
  BY <1>1, <1>2, ClosedFd DEF IInv, close_fd
<1>5. IsArray(fds)
  BY ArrayType DEF IInv, TypeOK
<1>6. /\ IsArray(fds') /\ Len(fds') = Len(fds)
      /\ \A i \in 1..Len(fds) : \A g : g # fd /\ In(g, fds[i]) => In(g, fds'[1])
  BY <1>4, <1>5, RemovedArray
<1>7. /\ Len(fds) \in Nat /\ (fds # << >> <=> Len(fds) # 0) /\ (fds' # << >> <=> Len(fds) # 0)
  BY <1>5, <1>6, LenProperties, EmptySeq DEF IsArray
<1>8. \A k : ~Fresh(k) /\ ~Fresh(k)'
  BY <1>1 DEF Fresh
<1>9. /\ pipe'[fd] = 0 /\ \A f \in Fds : f # fd => pipe'[f] = pipe[f] /\ pipe[f] # Server(n)
  BY <1>2, <1>3, <1>4 DEF IInv, TypeOK, PipesOK
<1>10. ASSUME NEW k \in Children, proc'[k] = "up"  PROVE HasFd(k)'
  <2>1. proc[k] = "up" /\ k # Server(n)
    BY <1>2, <1>4, <1>10
  <2>2. PICK f \in Fds : pipe[f] = k
    BY <1>1, <2>1 DEF ListsOK, HasFd
  <2>3. f # fd
    BY <1>2, <2>1, <2>2
  <2>. QED  BY <1>9, <2>2, <2>3 DEF HasFd
<1>11. ASSUME NEW f \in Fds, pipe'[f] # 0
       PROVE  pids'[f] = pipe'[f] /\ InArray(f)' /\ In(f, fds'[1])
  <2>1. f # fd /\ pipe[f] = pipe'[f]
    BY <1>9, <1>11
  <2>2. pids[f] = pipe[f] /\ InArray(f)
    BY <1>1, <1>8, <1>11, <2>1 DEF ListsOK
  <2>3. PICK i \in 1..Len(fds) : In(f, fds[i])
    BY <2>2 DEF InArray
  <2>4. In(f, fds'[1])
    BY <1>6, <2>1, <2>3
  <2>5. 1 \in 1..Len(fds')
    BY <1>6, <1>7
  <2>. QED  BY <1>4, <2>1, <2>2, <2>4, <2>5 DEF InArray
<1>12. ASSUME iotlab, fds' # << >>
       PROVE  \E f \in Fds : In(f, fds'[1]) /\ pids'[f] = 1 /\ pipe'[f] = 1
  <2>1. PICK f \in Fds : In(f, fds[1]) /\ pids[f] = 1 /\ pipe[f] = 1
    BY <1>1, <1>7, <1>12 DEF ListsOK
  <2>2. f # fd
    BY <1>2, <1>3, <2>1, Numbers
  <2>3. 1 \in 1..Len(fds)
    BY <1>7, <1>12
  <2>4. In(f, fds'[1])
    BY <1>6, <2>1, <2>2, <2>3
  <2>. QED  BY <1>4, <1>9, <2>1, <2>2, <2>4
<1>13. iotlab => fds' # << >>
  BY <1>1, <1>7 DEF ListsOK
<1>14. \A f \in Fds : pipe'[f] \in Prepared => In(f, fds'[1])
  BY <1>11, Numbers DEF Prepared
<1>15. ListsOK'
  BY <1>1, <1>10, <1>11, <1>12, <1>13, <1>14 DEF ListsOK
<1>. QED  BY <1>1, <1>15 DEF LeftOK, ChildrenLeft

(***************************************************************************)
(* finish, called once when the server is gone or twice at any time.       *)
(***************************************************************************)
LEMMA LeftFinish ==
  ASSUME IInv, LeftOK, pc # "off", NEW calls \in 1..2, finish(calls),
         UNCHANGED <<iotlab, closed>>,
         calls = 1 /\ iotlab => /\ pc \notin {"prepare", "prepared", "launched"}
                                /\ pc \in Open => proc[Server(n)] # "up",
         calls = 2 => \A k : Fresh(k) => leaked' = k
  PROVE  LeftOK'
<1>. DEFINE list == Listed(fds) \cup IF calls = 1 THEN {} ELSE Listed(AfterAll(fds))
<1>1. /\ pc' = "off" /\ finishes' = calls /\ proc' = Terminated({pids[f] : f \in list})
      /\ ListsOK /\ IsArray(fds)
  BY ArrayType DEF finish, LeftOK, IInv, TypeOK
<1>. HIDE DEF list
<1>2. \A k \in Children : proc'[k] = "up" => proc[k] = "up" /\ \A f \in list : pids[f] # k
  BY <1>1 DEF Terminated
<1>3. ASSUME iotlab, NEW k \in Children, proc'[k] = "up", k # leaked'
      PROVE  k \in Prepared \ {1} /\ finishes' = 1 /\ closed = 0
  <2>1. proc[k] = "up" /\ \A f \in list : pids[f] # k
    BY <1>2, <1>3
  <2>2. PICK f \in Fds : pipe[f] = k
    BY <1>1, <2>1 DEF ListsOK, HasFd
  <2>3. ~Fresh(k)
    BY <1>3 DEF Fresh
  <2>4. pids[f] = k /\ InArray(f) /\ f \notin list
    BY <1>1, <2>1, <2>2, <2>3, Numbers DEF ListsOK
  <2>5. PICK i \in 1..Len(fds) : In(f, fds[i])
    BY <2>4 DEF InArray
  <2>6. fds # << >> /\ 1 \in 1..Len(fds) /\ fds[1] \in Seq(Word)
    <3>1. Len(fds) \in Nat
      BY <1>1, LenProperties DEF IsArray
    <3>2. Len(fds) # 0 /\ 1 \in 1..Len(fds)
      BY <3>1
    <3>. QED  BY <1>1, <3>2 DEF IsArray
  <2>7. PICK w \in Fds : In(w, fds[1]) /\ pids[w] = 1
    BY <1>1, <1>3, <2>6 DEF ListsOK
  <2>8. \A g \in Fds : In(g, fds[1]) => g \in Listed(fds)
    <3>1. DOMAIN fds[1] = 1..Len(fds[1]) /\ List(fds) = fds[1]
      BY <2>6, LenProperties DEF List
    <3>. QED  BY <3>1, Numbers DEF In, Listed, Range
  <2>9. calls = 1
    <3>. SUFFICES ASSUME calls # 1  PROVE FALSE
      OBVIOUS
    <3>1. f \in Listed(fds) \cup Listed(AfterAll(fds))
      BY <1>1, <2>5, <2>6, <2>7, SecondList
    <3>. QED  BY <2>4, <3>1 DEF list
  <2>10. k \in Prepared
    BY <1>3, <2>1, <2>2, <2>9, Numbers DEF IInv, PipesOK
  <2>11. k # 1
    BY <2>1, <2>7, <2>8 DEF list
  <2>12. closed = 0
    BY <1>1, <2>2, <2>4, <2>8, <2>10 DEF ListsOK, list
  <2>. QED  BY <1>1, <2>9, <2>10, <2>11, <2>12
<1>. QED  BY <1>1, <1>3 DEF LeftOK, ChildrenLeft

LEMMA LeftStep ==
  ASSUME IInv, LeftOK, [Next]_vars
  PROVE  LeftOK'
<1>. USE DEF arrays, driver, world, files, history
<1>1. CASE Prepare \/ RunExperiment
  BY <1>1, LeftPrepare, LeftRun
<1>2. CASE RegisterPrepared \/ RegisterServer
  BY <1>2, LeftRegistered
<1>3. CASE LaunchClients \/ ClientsDone \/ ClientsTimeOut \/ WaitLonger \/ WriteRow
  <2>1. /\ UNCHANGED <<iotlab, n, fds, pids, pipe, closed, leaked, finishes, proc>>
        /\ pc \in {"starting", "clients", "quit", "wait", "again", "row"} /\ pc' # "off"
    BY <1>3 DEF LaunchClients, ClientsDone, ClientsTimeOut, WaitLonger, WriteRow
  <2>. QED  BY <2>1, LeftCalm
<1>4. CASE ServerGone \/ WaitExpires
  BY <1>4, LeftClose DEF ServerGone, WaitExpires
<1>5. CASE Quit \/ QuitAgain
  <2>1. /\ UNCHANGED <<iotlab, n, closed, leaked>> /\ pc \in {"quit", "again"} /\ SendQ("wait")
    BY <1>5 DEF Quit, QuitAgain
  <2>2. CASE Read(n)
    <3>1. UNCHANGED <<fds, pids, pipe, finishes, proc>> /\ pc' = "wait"
      BY <2>1, <2>2 DEF SendQ
    <3>. QED  BY <2>1, <3>1, LeftCalm
  <2>3. CASE ~Read(n)
    <3>1. finish(1) /\ proc[Server(n)] # "up" /\ 1 \in 1..2
      BY <2>1, <2>3 DEF SendQ, Read
    <3>. QED  BY <2>1, <3>1, LeftFinish
  <2>. QED  BY <2>2, <2>3
<1>6. CASE EndScript
  <2>1. UNCHANGED <<iotlab, closed>> /\ pc = "ready" /\ finish(1) /\ 1 \in 1..2
    BY <1>6 DEF EndScript
  <2>. QED  BY <2>1, LeftFinish DEF Open
<1>7. CASE Signal
  <2>1. UNCHANGED <<iotlab, closed>> /\ pc # "off" /\ finish(2) /\ 2 \in 1..2
    BY <1>7 DEF Signal
  <2>2. \A k : Fresh(k) => leaked' = k
    BY <1>7, PreparedChild DEF Signal, Fresh
  <2>. QED  BY <2>1, <2>2, LeftFinish
<1>8. CASE \E e \in Experiments : Cleanup(e) \/ SummaryDone(e)
  <2>1. UNCHANGED <<iotlab, n, fds, pids, pipe, closed, leaked, finishes, proc, pc>>
    BY <1>8 DEF Cleanup, SummaryDone
  <2>. QED  BY <2>1, LeftCalm
<1>9. CASE \E e \in Experiments : ShellEnds(e)
  <2>1. PICK e \in Experiments : ShellEnds(e)
    BY <1>9
  <2>2. /\ UNCHANGED <<iotlab, n, fds, pids, pipe, closed, leaked, finishes, pc>>
        /\ proc' = [proc EXCEPT ![Server(e)] = "gone"]
    BY <2>1 DEF ShellEnds
  <2>3. \A k \in Children : proc'[k] = "up" => proc[k] = "up"
    BY <2>2 DEF IInv, TypeOK
  <2>. QED  BY <2>2, <2>3, LeftCalm
<1>10. CASE \E x \in client : ClientEnds(x) \/ ClientConnectionBreaks(x)
  <2>1. UNCHANGED <<iotlab, n, fds, pids, pipe, closed, leaked, finishes, proc, pc>>
    BY <1>10 DEF ClientEnds, ClientConnectionBreaks
  <2>. QED  BY <2>1, LeftCalm
<1>11. CASE \E k \in Children : ConnectionBreaks(k)
  <2>1. PICK k \in Children : ConnectionBreaks(k)
    BY <1>11
  <2>2. /\ UNCHANGED <<iotlab, n, fds, pids, pipe, closed, leaked, finishes, pc>>
        /\ proc' = [proc EXCEPT ![k] = "gone"]
    BY <2>1 DEF ConnectionBreaks
  <2>3. \A j \in Children : proc'[j] = "up" => proc[j] = "up"
    BY <2>2 DEF IInv, TypeOK
  <2>. QED  BY <2>2, <2>3, LeftCalm
<1>12. CASE UNCHANGED vars
  <2>1. UNCHANGED <<iotlab, n, fds, pids, pipe, closed, leaked, finishes, proc, pc>>
    BY <1>12 DEF vars
  <2>. QED  BY <2>1, LeftCalm
<1>. QED  BY <1>1, <1>2, <1>3, <1>4, <1>5, <1>6, <1>7, <1>8, <1>9, <1>10, <1>11, <1>12 DEF Next

(***************************************************************************)
(* In the lab the driver leaves nothing on the nodes when it has ended,    *)
(* but what NothingLeft names: although close_fd writes the array without  *)
(* an index, and finish reads its first text only, in a list expanded once *)
(* (run_experiment.sh:382-413).                                            *)
(***************************************************************************)
THEOREM NothingIsLeft == Spec => []NothingLeft
<1>1. Init => IInv /\ ClientsRun /\ LeftOK
  BY TypeInit, LeftInit DEF IInv, Init, ClientsRun
<1>2. IInv /\ ClientsRun /\ LeftOK /\ [Next]_vars => (IInv /\ ClientsRun /\ LeftOK)'
  BY NextInv, RunStep, LeftStep
<1>3. ClientsRun /\ LeftOK => NothingLeft
  BY DEF ClientsRun, LeftOK, ChildrenLeft, NothingLeft
<1>. QED  BY <1>1, <1>2, <1>3, PTL DEF Spec
------------------------------------------------------------------------------
(***************************************************************************)
(* The sums of the awk script.  h has the sum of a field for each set of   *)
(* at most m of the records; SumOf is its value for all of them.           *)
(***************************************************************************)
Few(records, m) == {t \in SUBSET records : Cardinality(t) <= m}
Chosen(t)         == CHOOSE r \in t : TRUE

Sums(h, records, field, m) ==
  h = [t \in Few(records, m) |-> IF t = {} THEN 0 ELSE Chosen(t)[field] + h[t \ {Chosen(t)}]]

LEMMA ChosenOut ==
  ASSUME NEW records, IsFiniteSet(records), NEW t \in SUBSET records, t # {}
  PROVE  /\ Chosen(t) \in t /\ t \ {Chosen(t)} \in SUBSET records
         /\ Cardinality(t) \in Nat /\ Cardinality(t) # 0
         /\ Cardinality(t \ {Chosen(t)}) = Cardinality(t) - 1
<1>1. Chosen(t) \in t
  BY DEF Chosen
<1>2. IsFiniteSet(t) /\ Cardinality(t) \in Nat /\ Cardinality(t) # 0
  BY FS_Subset, FS_CardinalityType, FS_EmptySet
<1>. QED  BY <1>1, <1>2, FS_RemoveElement

LEMMA Summed ==
  ASSUME NEW records, IsFiniteSet(records), NEW field, NEW m \in Nat
  PROVE  \E h : Sums(h, records, field, m)
<1>. DEFINE S == {j \in Nat : \E h : Sums(h, records, field, j)}
            Value(h, t) == IF t = {} THEN 0 ELSE Chosen(t)[field] + h[t \ {Chosen(t)}]
<1>1. 0 \in S
  <2>. DEFINE h == [t \in Few(records, 0) |-> 0]
  <2>1. \A t \in Few(records, 0) : t = {}
    <3>. SUFFICES ASSUME NEW t \in Few(records, 0), t # {}  PROVE FALSE
      OBVIOUS
    <3>1. t \in SUBSET records /\ Cardinality(t) <= 0
      BY DEF Few
    <3>2. Cardinality(t) \in Nat /\ Cardinality(t) # 0
      BY <3>1, ChosenOut
    <3>. QED  BY <3>1, <3>2
  <2>2. h = [t \in Few(records, 0) |-> Value(h, t)]
    BY <2>1
  <2>. QED  BY <2>2 DEF Sums
<1>2. ASSUME NEW j \in Nat, j \in S  PROVE j + 1 \in S
  <2>1. PICK h : Sums(h, records, field, j)
    BY <1>2
  <2>. DEFINE g == [t \in Few(records, j + 1) |-> IF t \in Few(records, j) THEN h[t] ELSE Value(h, t)]
  <2>2. \A t \in Few(records, j) : h[t] = Value(h, t)
    BY <2>1 DEF Sums
  <2>3. \A t \in Few(records, j + 1) : t # {} => t \ {Chosen(t)} \in Few(records, j)
    <3>. SUFFICES ASSUME NEW t \in Few(records, j + 1), t # {}
                  PROVE  t \ {Chosen(t)} \in Few(records, j)
      OBVIOUS
    <3>. DEFINE a == Cardinality(t)  b == Cardinality(t \ {Chosen(t)})
    <3>1. t \ {Chosen(t)} \in SUBSET records /\ a \in Nat /\ b = a - 1 /\ a <= j + 1
      BY ChosenOut DEF Few
    <3>. HIDE DEF a, b
    <3>2. b <= j
      BY <3>1
    <3>. QED  BY <3>1, <3>2 DEF Few, b
  <2>4. \A t \in Few(records, j) : t \in Few(records, j + 1)
    <3>. SUFFICES ASSUME NEW t \in Few(records, j)  PROVE t \in Few(records, j + 1)
      OBVIOUS
    <3>1. t \in SUBSET records /\ Cardinality(t) <= j /\ Cardinality(t) \in Nat
      BY FS_Subset, FS_CardinalityType DEF Few
    <3>2. Cardinality(t) <= j + 1
      BY <3>1
    <3>. QED  BY <3>1, <3>2 DEF Few
  <2>5. \A t \in Few(records, j) : g[t] = h[t]
    BY <2>4
  <2>6. \A t \in Few(records, j + 1) : g[t] = Value(h, t)
    BY <2>2
  <2>7. g = [t \in Few(records, j + 1) |-> g[t]]
    OBVIOUS
  <2>. HIDE DEF g
  <2>8. \A t \in Few(records, j + 1) : g[t] = Value(g, t)
    BY <2>3, <2>5, <2>6
  <2>9. Sums(g, records, field, j + 1)
    BY <2>7, <2>8 DEF Sums
  <2>. QED  BY <2>9
<1>. HIDE DEF S
<1>3. m \in S
  BY <1>1, <1>2, Induction
<1>. QED  BY <1>3 DEF S

LEMMA SumSums ==
  ASSUME NEW records, IsFiniteSet(records), NEW field
  PROVE  \E h : Sums(h, records, field, Cardinality(records)) /\ SumOf(records, field) = h[records]
<1>. DEFINE iter[t \in SUBSET records] ==
              IF t = {} THEN 0 ELSE Chosen(t)[field] + iter[t \ {Chosen(t)}]
            m == Cardinality(records)
<1>1. Few(records, m) = SUBSET records /\ m \in Nat
  <2>1. m \in Nat /\ \A t \in SUBSET records : Cardinality(t) <= m
    BY FS_Subset, FS_CardinalityType
  <2>. QED  BY <2>1 DEF Few
<1>2. \E h : Sums(h, records, field, m)
  BY <1>1, Summed
<1>3. Sums(iter, records, field, m)
  BY <1>1, <1>2 DEF Sums
<1>4. SumOf(records, field) = iter[records]
  BY DEF SumOf, MapThenSumSet, MapThenFoldSet, Chosen
<1>. QED  BY <1>3, <1>4

(***************************************************************************)
(* If each record has Requests at least, so have the sums, for as many     *)
(* records as there are; and if each has just Requests, and as many in     *)
(* total as successes, so have the sums.                                   *)
(***************************************************************************)
LEMMA SumsAddUp ==
  ASSUME NEW records, IsFiniteSet(records),
         \A r \in records : /\ r.success \in Nat /\ r.failed \in Nat
                            /\ r.success + r.failed >= Requests
  PROVE  LET totals == Totals(records)
         IN  /\ totals.success \in Nat /\ totals.failed \in Nat
             /\ totals.success + totals.failed >= Requests * Cardinality(records)
             /\ (\A r \in records : r.total = r.success /\ r.success + r.failed = Requests) =>
                  /\ totals.success + totals.failed = Requests * Cardinality(records)
                  /\ totals.whole <=> totals.success > 0
<1>. DEFINE m == Cardinality(records)
<1>1. m \in Nat
  BY FS_CardinalityType
<1>2. PICK hs : Sums(hs, records, "success", m) /\ SumOf(records, "success") = hs[records]
  BY SumSums
<1>3. PICK hf : Sums(hf, records, "failed", m) /\ SumOf(records, "failed") = hf[records]
  BY SumSums
<1>4. PICK ht : Sums(ht, records, "total", m) /\ SumOf(records, "total") = ht[records]
  BY SumSums
<1>. HIDE DEF m
<1>. DEFINE Exact == \A r \in records : r.total = r.success /\ r.success + r.failed = Requests
            Right(t, k) == /\ hs[t] \in Nat /\ hf[t] \in Nat /\ hs[t] + hf[t] >= Requests * k
                           /\ Exact => ht[t] = hs[t] /\ hs[t] + hf[t] = Requests * k
            S == {k \in Nat : k <= m => \A t \in SUBSET records : Cardinality(t) = k => Right(t, k)}
<1>5. \A t \in Few(records, m) :
        /\ hs[t] = IF t = {} THEN 0 ELSE Chosen(t).success + hs[t \ {Chosen(t)}]
        /\ hf[t] = IF t = {} THEN 0 ELSE Chosen(t).failed + hf[t \ {Chosen(t)}]
        /\ ht[t] = IF t = {} THEN 0 ELSE Chosen(t).total + ht[t \ {Chosen(t)}]
  BY <1>2, <1>3, <1>4 DEF Sums
<1>6. 0 \in S
  <2>. SUFFICES ASSUME NEW t \in SUBSET records, Cardinality(t) = 0  PROVE Right(t, 0)
    BY <1>1
  <2>1. t = {}
    BY ChosenOut
  <2>2. t \in Few(records, m)
    BY <1>1 DEF Few
  <2>3. hs[t] = 0 /\ hf[t] = 0 /\ ht[t] = 0
    BY <1>5, <2>1, <2>2
  <2>4. Requests * 0 = 0
    BY ExperimentAssumption
  <2>. QED  BY <2>3, <2>4
<1>7. ASSUME NEW k \in Nat, k \in S  PROVE k + 1 \in S
  <2>. SUFFICES ASSUME k + 1 <= m, NEW t \in SUBSET records, Cardinality(t) = k + 1
                PROVE  Right(t, k + 1)
    OBVIOUS
  <2>. DEFINE r == Chosen(t)  rest == t \ {Chosen(t)}
  <2>1. t # {} /\ t \in Few(records, m) /\ k <= m
    <3>1. k + 1 # 0 /\ k <= m
      BY <1>1
    <3>. QED  BY <3>1, FS_EmptySet DEF Few
  <2>2. r \in records /\ rest \in SUBSET records /\ Cardinality(rest) = k
    <3>1. r \in t /\ rest \in SUBSET records /\ Cardinality(rest) = Cardinality(t) - 1
      BY <2>1, ChosenOut
    <3>. QED  BY <3>1
  <2>3. Right(rest, k)
    BY <1>7, <2>1, <2>2
  <2>4. hs[t] = r.success + hs[rest] /\ hf[t] = r.failed + hf[rest] /\ ht[t] = r.total + ht[rest]
    BY <1>5, <2>1
  <2>5. /\ r.success \in Nat /\ r.failed \in Nat /\ r.success + r.failed >= Requests
        /\ Exact => r.total = r.success /\ r.success + r.failed = Requests
    BY <2>2
  <2>. DEFINE s == r.success  f == r.failed  a == hs[rest]  b == hf[rest]
  <2>6. /\ s \in Nat /\ f \in Nat /\ s + f >= Requests /\ a \in Nat /\ b \in Nat
        /\ a + b >= Requests * k /\ hs[t] = s + a /\ hf[t] = f + b
    BY <2>3, <2>4, <2>5
  <2>7. Exact => ht[t] = hs[t] /\ s + f = Requests /\ a + b = Requests * k
    BY <2>3, <2>4, <2>5
  <2>. HIDE DEF s, f, a, b, Exact
  <2>8. Requests \in Nat /\ Requests * k \in Nat /\ Requests * (k + 1) = Requests * k + Requests
    BY ExperimentAssumption
  <2>9. hs[t] \in Nat /\ hf[t] \in Nat /\ hs[t] + hf[t] >= Requests * (k + 1)
    BY <2>6, <2>8
  <2>10. Exact => hs[t] + hf[t] = Requests * (k + 1)
    BY <2>6, <2>7, <2>8
  <2>. QED  BY <2>7, <2>9, <2>10
<1>. HIDE DEF S
<1>8. m \in S
  BY <1>1, <1>6, <1>7, Induction
<1>9. Right(records, m)
  BY <1>1, <1>8 DEF S, m
<1>10. /\ Totals(records).success = hs[records] /\ Totals(records).failed = hf[records]
       /\ Totals(records).whole = (ht[records] # 0)
  BY <1>2, <1>3, <1>4 DEF Totals
<1>11. hs[records] > 0 <=> hs[records] # 0
  BY <1>9
<1>. QED  BY <1>9, <1>10, <1>11 DEF m

------------------------------------------------------------------------------
(***************************************************************************)
(* The counts in a row.  The file of an experiment's clients has a record  *)
(* of each that was seen to end, for LaunchClients begins it afresh.  It   *)
(* has nothing else, if all of the experiment's clients were seen to end,  *)
(* and those of the earlier experiments with the same file.                *)
(***************************************************************************)
ClientRecord ==
  {r \in [e : Experiments, c : 1..Nodes, total : Nat, success : Nat, failed : Nat] :
     r.success + r.failed >= Requests}

Counted == {"clients", "quit", "wait", "again", "row"}

HasSeen(records) ==
  \A c \in Clients : \/ [e |-> n, c |-> c] \in client \cup unseen
                     \/ \E r \in records : r.e = n /\ r.c = c

AllSeen == \A x \in unseen : x.e \notin Earlier(n)

Own(records) ==
  /\ \A r \in records : /\ r.c \in Clients /\ [e |-> n, c |-> r.c] \notin client
                        /\ r.success + r.failed = Requests /\ r.total = r.success
  /\ \A r, s \in records : r.c = s.c => r = s
  /\ \A c \in Clients : [e |-> n, c |-> c] \in client \/ \E r \in records : r.c = c

ClientsOK ==
  /\ client_out \in [Range(Suffix) -> SUBSET ClientRecord]
  /\ \A s \in Range(Suffix) : IsFiniteSet(client_out[s])
  /\ pc \in Counted => HasSeen(client_out[Suffix[n]])
  /\ pc \in Counted /\ AllSeen => Own(client_out[Suffix[n]])

CountsOK ==
  /\ row.e # 0 => row.totals.success \in Nat /\ row.totals.failed \in Nat
  /\ CountsAreOwn

LEMMA ClientsInit == Init => ClientsOK /\ CountsOK
<1>1. IsFiniteSet({})
  BY FS_EmptySet
<1>. QED  BY <1>1 DEF Init, NoRow, ClientsOK, CountsOK, CountsAreOwn, Counted

LEMMA ClientsCalm ==
  ASSUME ClientsOK, UNCHANGED <<iotlab, n, client, client_out>>, unseen \subseteq unseen',
         pc' \in Counted => pc \in Counted
  PROVE  ClientsOK'
<1>1. Earlier(n)' = Earlier(n) /\ (AllSeen' => AllSeen)
  BY DEF Earlier, AllSeen
<1>2. Own(client_out[Suffix[n]])' <=> Own(client_out[Suffix[n]])
  BY DEF Own, Clients
<1>3. HasSeen(client_out[Suffix[n]]) => HasSeen(client_out[Suffix[n]])'
  BY DEF HasSeen, Clients
<1>. QED  BY <1>1, <1>2, <1>3 DEF ClientsOK

LEMMA ClientsLaunch ==
  ASSUME IInv, ClientsOK, LaunchClients
  PROVE  ClientsOK'
<1>. DEFINE new == {[e |-> n, c |-> c] : c \in Clients}
<1>1. /\ pc = "starting" /\ pc' = "clients" /\ UNCHANGED <<iotlab, n, unseen>>
      /\ client_out' = [client_out EXCEPT ![Suffix[n]] = {}] /\ client' = client \cup new
  BY DEF LaunchClients, history
<1>2. n \in Experiments /\ Suffix[n] \in Range(Suffix)
  BY <1>1, Numbers, FileOf DEF IInv, TypeOK, ControlOK, Open
<1>3. client_out' \in [Range(Suffix) -> SUBSET ClientRecord] /\ client_out'[Suffix[n]] = {}
  BY <1>1, <1>2 DEF ClientsOK
<1>4. \A s \in Range(Suffix) : IsFiniteSet(client_out'[s])
  BY <1>1, <1>2, FS_EmptySet DEF ClientsOK
<1>5. \A c \in Clients : [e |-> n, c |-> c] \in new
  OBVIOUS
<1>. HIDE DEF new
<1>6. Own(client_out[Suffix[n]])' /\ HasSeen(client_out[Suffix[n]])'
  BY <1>1, <1>3, <1>5 DEF Own, HasSeen, Clients
<1>. QED  BY <1>1, <1>3, <1>4, <1>6 DEF ClientsOK

LEMMA ClientsEnd ==
  ASSUME IInv, ClientsRun, ClientsOK, NEW x \in client, ClientEnds(x)
  PROVE  ClientsOK'
<1>1. PICK made \in 0..Requests, processed \in 0..Requests : \E success \in 0..made :
        /\ Ended(x, made, processed)
        /\ client_out' = [client_out EXCEPT ![Suffix[x.e]] =
             @ \cup IF made = 0 THEN {} ELSE {Summary(x, made, processed, success)}]
  BY DEF ClientEnds
<1>2. PICK success \in 0..made :
        /\ Ended(x, made, processed)
        /\ client_out' = [client_out EXCEPT ![Suffix[x.e]] =
             @ \cup IF made = 0 THEN {} ELSE {Summary(x, made, processed, success)}]
  BY <1>1
<1>3. /\ pc # "off" /\ client' = client \ {x} /\ UNCHANGED <<iotlab, pc, n, unseen>>
  BY DEF ClientEnds, driver, history
<1>4. /\ x \in [e : Experiments, c : 1..Nodes] /\ x.e \in Experiments /\ x.c \in 1..Nodes
      /\ x = [e |-> x.e, c |-> x.c]
  BY DEF IInv, TypeOK
<1>. DEFINE new == Summary(x, made, processed, success)
            added == IF made = 0 THEN {} ELSE {new}
<1>5. /\ Requests \in Nat /\ Requests # 0 /\ made \in Nat /\ processed \in Nat /\ success \in Nat
      /\ success <= made /\ processed <= Requests /\ processed <= made
      /\ x \notin unseen => made = Requests /\ processed = Requests
  <2>1. Requests \in Nat /\ Requests # 0
    BY ExperimentAssumption
  <2>2. processed <= made
    BY <1>2, <2>1 DEF Ended
  <2>3. x \notin unseen => made = Requests /\ processed = Requests
    BY <1>2 DEF Ended
  <2>. QED  BY <2>1, <2>2, <2>3
<1>6. /\ new.e = x.e /\ new.c = x.c /\ new \in ClientRecord
      /\ x \notin unseen => new.total = new.success /\ new.success + new.failed = Requests
  <2>. DEFINE failed == Requests - processed
  <2>1. /\ new.e = x.e /\ new.c = x.c /\ new.total = failed + success /\ new.success = success
        /\ new.failed = failed + made - success
        /\ new = [e |-> x.e, c |-> x.c, total |-> failed + success, success |-> success,
                  failed |-> failed + made - success]
    BY DEF Summary
  <2>2. /\ failed \in Nat /\ failed + success \in Nat /\ failed + made - success \in Nat
        /\ success + (failed + made - success) >= Requests
        /\ x \notin unseen => failed = 0 /\ success + (failed + made - success) = Requests
    BY <1>5
  <2>. HIDE DEF new, failed
  <2>3. new \in [e : Experiments, c : 1..Nodes, total : Nat, success : Nat, failed : Nat]
    BY <1>4, <1>5, <2>1, <2>2
  <2>4. new.success + new.failed >= Requests
    BY <2>1, <2>2
  <2>5. x \notin unseen => new.total = new.success /\ new.success + new.failed = Requests
    BY <1>5, <2>1, <2>2
  <2>. QED  BY <2>1, <2>3, <2>4, <2>5 DEF ClientRecord
<1>7. /\ Suffix[x.e] \in Range(Suffix)
      /\ client_out' = [client_out EXCEPT ![Suffix[x.e]] = @ \cup added]
      /\ added \subseteq {new} /\ (x \notin unseen => added = {new})
  BY <1>2, <1>4, <1>5, FileOf
<1>. HIDE DEF new, added
<1>8. client_out' \in [Range(Suffix) -> SUBSET ClientRecord]
  BY <1>6, <1>7 DEF ClientsOK
<1>9. \A s \in Range(Suffix) : IsFiniteSet(client_out'[s])
  <2>1. IsFiniteSet(added)
    BY <1>7, FS_Singleton, FS_Subset
  <2>2. IsFiniteSet(client_out[Suffix[x.e]] \cup added)
    BY <1>7, <2>1, FS_Union DEF ClientsOK
  <2>. QED  BY <1>7, <2>2 DEF ClientsOK
<1>10. ASSUME pc \in Counted
       PROVE  /\ HasSeen(client_out[Suffix[n]])'
              /\ AllSeen => Own(client_out[Suffix[n]])'
  <2>. DEFINE records == client_out[Suffix[n]]
  <2>1. n \in Experiments /\ Suffix[n] \in Range(Suffix)
    <3>1. n # 0 /\ n \in 0..Len(Suffix)
      BY <1>10 DEF IInv, TypeOK, ControlOK, Open, Counted
    <3>2. n \in Experiments
      BY <3>1, Numbers
    <3>. QED  BY <3>2, FileOf
  <2>2. /\ HasSeen(records) /\ (AllSeen => Own(records))
        /\ x.e <= n /\ x.c \in Clients /\ (x \notin unseen => x.e = n)
    BY <1>10 DEF ClientsOK, ClientsRun
  <2>3. client_out'[Suffix[n]] = records \cup IF Suffix[x.e] = Suffix[n] THEN added ELSE {}
    BY <1>7, <2>1 DEF ClientsOK
  <2>. HIDE DEF records
  <2>4. HasSeen(client_out[Suffix[n]])'
    <3>. SUFFICES ASSUME NEW c \in Clients, [e |-> n, c |-> c] \notin client' \cup unseen
                  PROVE  \E r \in client_out'[Suffix[n]] : r.e = n /\ r.c = c
      BY <1>3 DEF HasSeen, Clients
    <3>1. CASE [e |-> n, c |-> c] = x
      <4>1. x.e = n /\ x.c = c /\ x \notin unseen
        BY <3>1
      <4>2. new \in client_out'[Suffix[n]]
        BY <1>7, <2>3, <4>1
      <4>. QED  BY <1>6, <4>1, <4>2
    <3>2. CASE [e |-> n, c |-> c] # x
      BY <1>3, <2>2, <2>3, <3>2 DEF HasSeen
    <3>. QED  BY <3>1, <3>2
  <2>5. CASE ~AllSeen
    BY <2>4, <2>5
  <2>6. CASE AllSeen /\ x.e = n
    <3>1. n \in 1..n /\ n \in Earlier(n)
      BY <2>1, Numbers DEF Earlier
    <3>2. x \notin unseen
      BY <2>6, <3>1 DEF AllSeen
    <3>3. client_out'[Suffix[n]] = records \cup {new} /\ x = [e |-> n, c |-> x.c] /\ Own(records)
      BY <1>4, <1>7, <2>2, <2>3, <2>6, <3>2
    <3>4. \A r \in records : r.c # x.c
      BY <3>3 DEF Own
    <3>5. \A r \in records \cup {new} :
            /\ r.c \in Clients /\ [e |-> n, c |-> r.c] \notin client \ {x}
            /\ r.success + r.failed = Requests /\ r.total = r.success
      BY <1>6, <2>2, <3>2, <3>3 DEF Own
    <3>6. \A r, s \in records \cup {new} : r.c = s.c => r = s
      BY <1>6, <3>3, <3>4 DEF Own
    <3>7. \A c \in Clients : \/ [e |-> n, c |-> c] \in client \ {x}
                             \/ \E r \in records \cup {new} : r.c = c
      <4>. SUFFICES ASSUME NEW c \in Clients, [e |-> n, c |-> c] \notin client \ {x}
                    PROVE  \E r \in records \cup {new} : r.c = c
        OBVIOUS
      <4>1. CASE [e |-> n, c |-> c] = x
        BY <1>6, <3>3, <4>1
      <4>2. CASE [e |-> n, c |-> c] # x
        BY <3>3, <4>2 DEF Own
      <4>. QED  BY <4>1, <4>2
    <3>. QED  BY <1>3, <2>4, <3>3, <3>5, <3>6, <3>7 DEF Own, Clients
  <2>7. CASE AllSeen /\ x.e # n
    <3>1. x.e \in 1..n /\ x \in unseen
      BY <1>4, <2>1, <2>2, <2>7, Numbers
    <3>2. Suffix[x.e] # Suffix[n]
      BY <2>7, <3>1 DEF AllSeen, Earlier
    <3>3. client_out'[Suffix[n]] = records /\ Own(records)
      BY <2>2, <2>3, <2>7, <3>2
    <3>4. \A c : [e |-> n, c |-> c] # x
      BY <2>7
    <3>. QED  BY <1>3, <2>4, <3>3, <3>4 DEF Own, Clients
  <2>. QED  BY <2>5, <2>6, <2>7
<1>11. AllSeen' = AllSeen
  BY <1>3 DEF AllSeen, Earlier
<1>. QED  BY <1>3, <1>8, <1>9, <1>10, <1>11 DEF ClientsOK

LEMMA ClientsStep ==
  ASSUME IInv, ClientsRun, ClientsOK, [Next]_vars
  PROVE  ClientsOK'
<1>. USE DEF arrays, driver, world, files, history
<1>1. CASE Prepare \/ RegisterPrepared \/ RegisterServer \/ ClientsDone \/ ClientsTimeOut
             \/ Quit \/ QuitAgain \/ WaitLonger
             \/ ServerGone \/ WaitExpires \/ WriteRow \/ EndScript \/ Signal
  <2>1. /\ UNCHANGED <<iotlab, n, client, client_out>> /\ unseen \subseteq unseen'
    BY <1>1 DEF Prepare, RegisterPrepared, RegisterServer, ClientsDone, ClientsTimeOut,
                Quit, QuitAgain, WaitLonger, ServerGone, WaitExpires, Close, WriteRow, EndScript, Signal
  <2>2. pc' \in Counted => pc \in Counted
    BY <1>1 DEF Prepare, RegisterPrepared, RegisterServer, ClientsDone, ClientsTimeOut,
                Quit, QuitAgain, WaitLonger, SendQ, finish, ServerGone, WaitExpires, Close, WriteRow,
                EndScript, Signal, Counted
  <2>. QED  BY <2>1, <2>2, ClientsCalm
<1>2. CASE RunExperiment
  BY <1>2 DEF RunExperiment, ClientsOK, Counted
<1>3. CASE LaunchClients
  BY <1>3, ClientsLaunch
<1>4. CASE \E x \in client : ClientEnds(x)
  BY <1>4, ClientsEnd
<1>5. CASE \/ \E e \in Experiments : Cleanup(e) \/ SummaryDone(e) \/ ShellEnds(e)
           \/ \E x \in client : ClientConnectionBreaks(x)
           \/ \E k \in Children : ConnectionBreaks(k)
           \/ UNCHANGED vars
  <2>1. UNCHANGED <<iotlab, pc, n, client, client_out>> /\ unseen \subseteq unseen'
    BY <1>5 DEF Cleanup, SummaryDone, ShellEnds, ClientConnectionBreaks, ConnectionBreaks, vars
  <2>. QED  BY <2>1, ClientsCalm
<1>. QED  BY <1>1, <1>2, <1>3, <1>4, <1>5 DEF Next

LEMMA ClientsFinite == IsFiniteSet(Clients)
<1>1. IsFiniteSet(2..Nodes)
  BY Numbers, FS_Interval
<1>2. IsFiniteSet({1})
  BY FS_Singleton
<1>. QED  BY <1>1, <1>2 DEF Clients

(***************************************************************************)
(* An experiment's row is made of records with Requests at least, one at   *)
(* least of each client seen to end; or of just one of each client, with   *)
(* Requests, if nobody's record could be missing, short or late.           *)
(***************************************************************************)
LEMMA RecordOfEach ==
  ASSUME IInv, ClientsRun, ClientsOK, pc = "row"
  PROVE  LET records == client_out[Suffix[n]]
             seen    == {c \in Clients : [e |-> n, c |-> c] \notin unseen}
         IN  /\ IsFiniteSet(records) /\ Cardinality(seen) <= Cardinality(records)
             /\ \A r \in records : /\ r.success \in Nat /\ r.failed \in Nat
                                   /\ r.success + r.failed >= Requests
             /\ AllSeen =>
                  /\ Cardinality(records) = Cardinality(Clients)
                  /\ \A r \in records : r.total = r.success /\ r.success + r.failed = Requests
<1>. DEFINE records == client_out[Suffix[n]]
            seen == {c \in Clients : [e |-> n, c |-> c] \notin unseen}
<1>1. n \in Experiments /\ Suffix[n] \in Range(Suffix) /\ n \in 1..n
  BY Numbers, FileOf DEF IInv, TypeOK, ControlOK
<1>2. /\ IsFiniteSet(records) /\ records \in SUBSET ClientRecord
      /\ HasSeen(records) /\ (AllSeen => Own(records))
  BY <1>1 DEF ClientsOK, Counted
<1>3. \A c : [e |-> n, c |-> c] \in client => [e |-> n, c |-> c] \in unseen
  BY DEF ClientsRun
<1>. HIDE DEF records
<1>4. Cardinality(seen) <= Cardinality(records)
  <2>. DEFINE f == [c \in seen |-> CHOOSE r \in records : r.e = n /\ r.c = c]
  <2>1. \A c \in seen : \E r \in records : r.e = n /\ r.c = c
    BY <1>2, <1>3 DEF HasSeen
  <2>2. \A c \in seen : f[c] \in records /\ f[c].c = c
    BY <2>1
  <2>3. f \in [seen -> records]
    BY <2>1
  <2>. HIDE DEF f, seen
  <2>4. f \in Injection(seen, records)
    BY <2>2, <2>3 DEF Injection, IsInjective
  <2>. QED  BY <1>2, <2>4, FS_Injection
<1>5. \A r \in records : /\ r.success \in Nat /\ r.failed \in Nat
                         /\ r.success + r.failed >= Requests
  BY <1>2 DEF ClientRecord
<1>6. ASSUME AllSeen
      PROVE  /\ Cardinality(records) = Cardinality(Clients)
             /\ \A r \in records : r.total = r.success /\ r.success + r.failed = Requests
  <2>. DEFINE f == [r \in records |-> r.c]
  <2>1. n \in Earlier(n)
    BY <1>1 DEF Earlier
  <2>2. \A c \in Clients : [e |-> n, c |-> c] \notin client
    BY <1>3, <1>6, <2>1 DEF AllSeen
  <2>3. Own(records)
    BY <1>2, <1>6
  <2>4. f \in [records -> Clients]
    BY <2>3 DEF Own
  <2>5. f \in Injection(records, Clients)
    BY <2>3, <2>4 DEF Own, Injection, IsInjective
  <2>6. f \in Surjection(records, Clients)
    BY <2>2, <2>3, <2>4 DEF Own, Surjection
  <2>. HIDE DEF f
  <2>7. Cardinality(records) = Cardinality(Clients)
    BY <2>5, <2>6, ClientsFinite, FS_Injection
  <2>. QED  BY <2>3, <2>7 DEF Own
<1>. QED  BY <1>2, <1>4, <1>5, <1>6 DEF records

LEMMA Multiples ==
  ASSUME NEW k \in Nat, NEW m \in Nat, k <= m
  PROVE  Requests * k \in Nat /\ Requests * m \in Nat /\ Requests * k <= Requests * m
<1>. DEFINE d == m - k
<1>1. d \in Nat /\ m = k + d /\ Requests \in Nat
  BY ExperimentAssumption
<1>. HIDE DEF d
<1>2. Requests * k \in Nat /\ Requests * d \in Nat /\ Requests * (k + d) = Requests * k + Requests * d
  BY <1>1
<1>. QED  BY <1>1, <1>2

LEMMA CountsStep ==
  ASSUME IInv, ClientsRun, ClientsOK, CountsOK, [Next]_vars
  PROVE  CountsOK'
<1>. USE DEF arrays, driver, world, files, history
<1>1. CASE WriteRow
  <2>1. /\ pc = "row" /\ row'.e = n /\ row'.totals = Totals(client_out[Suffix[n]])
        /\ UNCHANGED <<iotlab, n, unseen>>
    BY <1>1 DEF WriteRow
  <2>. DEFINE records == client_out[Suffix[n]]
              seen == {c \in Clients : [e |-> n, c |-> c] \notin unseen}
              totals == Totals(records)
  <2>2. /\ IsFiniteSet(records) /\ Cardinality(seen) <= Cardinality(records)
        /\ \A r \in records : /\ r.success \in Nat /\ r.failed \in Nat
                              /\ r.success + r.failed >= Requests
        /\ AllSeen =>
             /\ Cardinality(records) = Cardinality(Clients)
             /\ \A r \in records : r.total = r.success /\ r.success + r.failed = Requests
    BY <2>1, RecordOfEach
  <2>3. IsFiniteSet(seen)
    BY ClientsFinite, FS_Subset
  <2>4. /\ row'.totals = totals /\ Clients' = Clients
        /\ Seen' = seen /\ Earlier(row.e)' = Earlier(n)
    BY <2>1 DEF Seen, Clients, Earlier
  <2>. HIDE DEF records, seen
  <2>5. /\ totals.success \in Nat /\ totals.failed \in Nat
        /\ totals.success + totals.failed >= Requests * Cardinality(records)
        /\ AllSeen => /\ totals.success + totals.failed = Requests * Cardinality(records)
                      /\ totals.whole <=> totals.success > 0
    BY <2>2, SumsAddUp
  <2>. HIDE DEF totals
  <2>6. /\ Cardinality(records) \in Nat /\ Cardinality(seen) \in Nat
    BY <2>2, <2>3, FS_CardinalityType
  <2>7. /\ Requests * Cardinality(records) \in Nat /\ Requests * Cardinality(seen) \in Nat
        /\ Requests * Cardinality(seen) <= Requests * Cardinality(records)
    BY <2>2, <2>6, Multiples
  <2>8. totals.success + totals.failed >= Requests * Cardinality(seen)
    BY <2>5, <2>7
  <2>9. (\A x \in unseen : x.e \notin Earlier(n)) =>
          /\ totals.success + totals.failed = Requests * Cardinality(Clients)
          /\ totals.whole <=> totals.success > 0
    BY <2>2, <2>5 DEF AllSeen
  <2>. QED  BY <2>1, <2>4, <2>5, <2>8, <2>9 DEF CountsOK, CountsAreOwn
<1>2. CASE ~WriteRow
  <2>1. row' = row /\ iotlab' = iotlab
    BY <1>2 DEF Next, vars, Prepare, RegisterPrepared, RunExperiment, RegisterServer, LaunchClients,
      ClientsDone, ClientsTimeOut, Quit, WaitLonger, QuitAgain, ServerGone, WaitExpires, Close,
      EndScript, Signal, Cleanup, SummaryDone, ShellEnds, ClientEnds,
      ClientConnectionBreaks, ConnectionBreaks
  <2>2. unseen \subseteq unseen'
    BY <1>2 DEF Next, vars, Prepare, RegisterPrepared, RunExperiment, RegisterServer, LaunchClients,
      ClientsDone, ClientsTimeOut, Quit, WaitLonger, QuitAgain, ServerGone, WaitExpires, Close,
      EndScript, Signal, Cleanup, SummaryDone, ShellEnds, ClientEnds,
      ClientConnectionBreaks, ConnectionBreaks
  <2>3. Earlier(row.e)' = Earlier(row.e) /\ Clients' = Clients
    BY <2>1 DEF Earlier, Clients
  <2>4. Seen' \subseteq Seen /\ IsFiniteSet(Seen)
    <3>1. Seen \subseteq Clients
      BY DEF Seen
    <3>2. Seen' \subseteq Seen
      BY <2>1, <2>2, <2>3 DEF Seen
    <3>. QED  BY <3>1, <3>2, ClientsFinite, FS_Subset
  <2>5. /\ Cardinality(Seen)' \in Nat /\ Cardinality(Seen) \in Nat
        /\ Cardinality(Seen)' <= Cardinality(Seen)
    BY <2>4, FS_Subset, FS_CardinalityType
  <2>. DEFINE k == Cardinality(Seen)'  m == Cardinality(Seen)
  <2>6. Requests * k \in Nat /\ Requests * m \in Nat /\ Requests * k <= Requests * m
    <3>1. k \in Nat /\ m \in Nat /\ k <= m
      BY <2>5
    <3>. HIDE DEF k, m
    <3>. QED  BY <3>1, Multiples
  <2>. DEFINE s == row.totals.success + row.totals.failed
  <2>7. row.e # 0 => s >= Requests * k
    <3>1. row.e # 0 => s \in Nat /\ s >= Requests * m
      BY DEF CountsOK, CountsAreOwn
    <3>. HIDE DEF k, m, s
    <3>. QED  BY <2>6, <3>1
  <2>. QED  BY <2>1, <2>2, <2>3, <2>7 DEF CountsOK, CountsAreOwn
<1>. QED  BY <1>1, <1>2

(***************************************************************************)
(* The counts in a row have the requests of all of its experiment's        *)
(* clients that the driver saw end, for any number of them, whichever ssh  *)
(* breaks; and no others, unless it did not see the end of clients with    *)
(* this file (run_experiment.sh:222-236, summarize-client-totals.awk).     *)
(***************************************************************************)
THEOREM OwnCounts == Spec => []CountsAreOwn
<1>1. Init => IInv /\ ClientsRun /\ ClientsOK /\ CountsOK
  BY TypeInit, ClientsInit DEF IInv, Init, ClientsRun
<1>2. IInv /\ ClientsRun /\ ClientsOK /\ CountsOK /\ [Next]_vars
        => (IInv /\ ClientsRun /\ ClientsOK /\ CountsOK)'
  BY NextInv, RunStep, ClientsStep, CountsStep
<1>3. CountsOK => CountsAreOwn
  BY DEF CountsOK
<1>. QED  BY <1>1, <1>2, <1>3, PTL DEF Spec
==============================================================================

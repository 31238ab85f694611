------------------------- MODULE MarkedScriptProofs -------------------------
(***************************************************************************)
(* Theorems about the marks of one script, for any assignment, reading,    *)
(* marker and reviewer of MCOffice: what is stored adds up by the scheme,  *)
(* and whatever could be wrong with a mark reaches the teacher.            *)
(*                                                                         *)
(* The merge is a loop over slips around a loop over the parts of a slip.  *)
(* Both keep to Settled: every mark is the one that was merged, or that    *)
(* mark with the one allocation it lost restored, and nothing is asked     *)
(* about less.  The loops themselves, sums among them, are there and keep  *)
(* what a round keeps, because a first round that does not would have one  *)
(* before it (AlongLoop, LoopRuns); sums over a finite set are the         *)
(* library's folds, and grow by one summand with one element.              *)
(*                                                                         *)
(* What is stored stays sound (StoredSound): the record, the class table,  *)
(* the student's screens, the bands and the reflection read it and the     *)
(* teacher's answers, and agree; and an answer to an item that waits does  *)
(* not raise the most the script can still get.                            *)
(***************************************************************************)
EXTENDS MCOffice, FiniteSetTheorems, SequenceTheorems, WellFoundedInduction, TLAPS

-----------------------------------------------------------------------------
(* Loops *)

\* A set of naturals has a least element, unless it is empty.
LEMMA LeastNatural ==
    ASSUME NEW B \in SUBSET Nat, B # {}
    PROVE  \E n \in B : \A k \in B : n <= k
<1> DEFINE R == OpToRel(<, Nat)
<1>1. IsWellFoundedOn(R, Nat)
  BY NatLessThanWellFounded
<1>2. R = {p \in Nat \X Nat : p[1] < p[2]}
  BY DEF OpToRel
<1> HIDE DEF R
<1>3. PICK n \in B : \A k \in B : <<k, n>> \notin R
  BY <1>1, WFMin
<1>4. \A k \in B : <<k, n>> \in Nat \X Nat
  OBVIOUS
<1>5. \A k \in B : ~(k < n)
  BY <1>2, <1>3, <1>4
<1> QED BY <1>5

\* What holds at the start of a loop, and after a round if it does before, holds all along.
LEMMA AlongLoop ==
    ASSUME NEW n \in Nat, NEW g, NEW X, g[0] \in X, \A i \in 1 .. n : g[i - 1] \in X => g[i] \in X
    PROVE  \A i \in 0 .. n : g[i] \in X
<1> DEFINE Bad == {i \in Nat : i <= n /\ g[i] \notin X}
<1>1. SUFFICES Bad = {}
  BY <1>1
<1> SUFFICES ASSUME Bad # {} PROVE FALSE
  OBVIOUS
<1>2. PICK k \in Bad : \A i \in Bad : k <= i
  <2> HIDE DEF Bad
  <2> SUFFICES Bad \in SUBSET Nat
    BY LeastNatural
  <2> QED BY DEF Bad
<1>3. k \in 1 .. n /\ k - 1 \in Nat /\ k - 1 <= n /\ ~(k <= k - 1)
  BY <1>2
<1>4. g[k - 1] \in X
  BY <1>2, <1>3
<1> QED BY <1>2, <1>3, <1>4

\* f is a loop of n rounds in X, whose round i makes F[<<x, i>>] of x.
IsLoop(f, n, X, start, F) ==
    f \in [0 .. n -> X] /\ f = [i \in 0 .. n |-> IF i = 0 THEN start ELSE F[<<f[i - 1], i>>]]

\* A loop whose rounds take X to X runs.
LEMMA LoopRuns ==
    ASSUME NEW n \in Nat, NEW X, NEW start \in X, NEW F \in [X \X (1 .. n) -> X]
    PROVE  \E f : IsLoop(f, n, X, start, F)
<1> DEFINE Runs(m) == \E f : IsLoop(f, m, X, start, F)
           Bad     == {m \in Nat : m <= n /\ ~Runs(m)}
<1>1. SUFFICES Bad = {}
  <2>1. n \in Nat /\ n <= n
    OBVIOUS
  <2> QED BY <1>1, <2>1
<1> SUFFICES ASSUME Bad # {} PROVE FALSE
  OBVIOUS
<1>2. PICK m \in Bad : \A k \in Bad : m <= k
  <2> HIDE DEF Bad
  <2> SUFFICES Bad \in SUBSET Nat
    BY LeastNatural
  <2> QED BY DEF Bad
<1>3. m # 0
  <2> DEFINE f == [i \in 0 .. 0 |-> start]
  <2>1. f \in [0 .. 0 -> X] /\ f = [i \in 0 .. 0 |-> IF i = 0 THEN start ELSE F[<<f[i - 1], i>>]]
    OBVIOUS
  <2> HIDE DEF f
  <2>2. Runs(0)
    BY <2>1 DEF IsLoop
  <2> QED BY <1>2, <2>2
<1>4. m \in 1 .. n /\ m - 1 \in Nat /\ m - 1 <= n /\ ~(m <= m - 1) /\ m \in Nat
  BY <1>2, <1>3
<1>5. Runs(m - 1)
  BY <1>2, <1>4
<1>6. PICK f \in [0 .. (m - 1) -> X] :
            f = [i \in 0 .. (m - 1) |-> IF i = 0 THEN start ELSE F[<<f[i - 1], i>>]]
  BY <1>5 DEF IsLoop
<1>7. f[m - 1] \in X /\ F[<<f[m - 1], m>>] \in X
  BY <1>4, <1>6
<1> DEFINE g == [i \in 0 .. m |-> IF i = m THEN F[<<f[m - 1], m>>] ELSE f[i]]
<1>8. g \in [0 .. m -> X] /\ g[m] = F[<<f[m - 1], m>>] /\ \A i \in 0 .. (m - 1) : g[i] = f[i]
  BY <1>4, <1>6, <1>7
<1> HIDE DEF g
<1>9. \A i \in 0 .. m : g[i] = IF i = 0 THEN start ELSE F[<<g[i - 1], i>>]
  <2> SUFFICES ASSUME NEW i \in 0 .. m PROVE g[i] = IF i = 0 THEN start ELSE F[<<g[i - 1], i>>]
    OBVIOUS
  <2>1. CASE i = m
    <3>1. m - 1 \in 0 .. (m - 1) /\ m # 0
      BY <1>4
    <3>2. g[m - 1] = f[m - 1]
      BY <1>8, <3>1
    <3> QED BY <1>8, <2>1, <3>1, <3>2
  <2>2. CASE i # m /\ i # 0
    <3>1. i \in 0 .. (m - 1) /\ i - 1 \in 0 .. (m - 1)
      BY <1>4, <2>2
    <3>2. g[i] = f[i] /\ g[i - 1] = f[i - 1]
      BY <1>8, <3>1
    <3>3. f[i] = F[<<f[i - 1], i>>]
      BY <1>6, <2>2, <3>1
    <3> QED BY <2>2, <3>2, <3>3
  <2>3. CASE i # m /\ i = 0
    <3>1. 0 \in 0 .. (m - 1)
      BY <1>4
    <3>2. g[0] = f[0] /\ f[0] = start
      BY <1>6, <1>8, <3>1
    <3> QED BY <2>3, <3>2
  <2> QED BY <2>1, <2>2, <2>3
<1>10. g = [i \in 0 .. m |-> IF i = 0 THEN start ELSE F[<<g[i - 1], i>>]]
  BY <1>8, <1>9
<1>11. Runs(m)
  BY <1>8, <1>10 DEF IsLoop
<1> QED BY <1>2, <1>11
-----------------------------------------------------------------------------
(* Sums *)

\* A sum is there, number by number.
LEMMA AddedSum ==
    ASSUME NEW s \in Seq(Nat)
    PROVE  \E f \in [0 .. Len(s) -> Nat] :
              /\ f[0] = 0 /\ \A i \in 1 .. Len(s) : f[i] = f[i - 1] + s[i]
              /\ Added(s) = f[Len(s)]
<1> DEFINE n   == Len(s)
           F   == [p \in Nat \X (1 .. n) |-> p[1] + s[p[2]]]
           sum == CHOOSE g : g = [i \in 0 .. n |-> IF i = 0 THEN 0 ELSE g[i - 1] + s[i]]
<1>1. n \in Nat /\ \A i \in 1 .. n : s[i] \in Nat
  OBVIOUS
<1>2. F \in [Nat \X (1 .. n) -> Nat]
  BY <1>1
<1>3. \A x \in Nat, i \in 1 .. n : F[<<x, i>>] = x + s[i]
  BY <1>1
<1>4. Added(s) = sum[n]
  BY DEF Added
<1> HIDE DEF n, F
<1>5. PICK f \in [0 .. n -> Nat] : f = [i \in 0 .. n |-> IF i = 0 THEN 0 ELSE F[<<f[i - 1], i>>]]
  <2>1. 0 \in Nat /\ n \in Nat
    BY <1>1
  <2>2. \E f : IsLoop(f, n, Nat, 0, F)
    BY <1>2, <2>1, LoopRuns
  <2> QED BY <2>2 DEF IsLoop
<1>6. \A i \in 0 .. n : f[i] = IF i = 0 THEN 0 ELSE f[i - 1] + s[i]
  <2> SUFFICES ASSUME NEW i \in 0 .. n PROVE f[i] = IF i = 0 THEN 0 ELSE f[i - 1] + s[i]
    OBVIOUS
  <2>1. CASE i = 0
    BY <1>5, <2>1
  <2>2. CASE i # 0
    <3>1. i \in 1 .. n /\ i - 1 \in 0 .. n
      BY <1>1, <2>2
    <3>2. f[i] = F[<<f[i - 1], i>>] /\ f[i - 1] \in Nat
      BY <1>5, <2>2, <3>1
    <3> QED BY <1>3, <2>2, <3>1, <3>2
  <2> QED BY <2>1, <2>2
<1>7. f = [i \in 0 .. n |-> IF i = 0 THEN 0 ELSE f[i - 1] + s[i]]
  BY <1>5, <1>6
<1>8. sum = [i \in 0 .. n |-> IF i = 0 THEN 0 ELSE sum[i - 1] + s[i]]
  BY <1>7
<1> HIDE DEF sum
<1>9. \A i \in 0 .. n : sum[i] \in Nat
  <2>1. sum[0] \in Nat
    <3>1. 0 \in 0 .. n
      BY <1>1
    <3> QED BY <1>8, <3>1
  <2>2. \A i \in 1 .. n : sum[i - 1] \in Nat => sum[i] \in Nat
    <3> SUFFICES ASSUME NEW i \in 1 .. n, sum[i - 1] \in Nat PROVE sum[i] \in Nat
      OBVIOUS
    <3>1. i \in 0 .. n /\ i # 0
      BY <1>1
    <3>2. sum[i] = sum[i - 1] + s[i]
      BY <1>8, <3>1
    <3> QED BY <1>1, <3>2
  <2> QED BY <1>1, <2>1, <2>2, AlongLoop
<1>10. sum \in [0 .. n -> Nat]
  BY <1>8, <1>9
<1>11. sum[0] = 0 /\ \A i \in 1 .. n : sum[i] = sum[i - 1] + s[i]
  <2>1. 0 \in 0 .. n /\ \A i \in 1 .. n : i \in 0 .. n /\ i # 0
    BY <1>1
  <2> QED BY <1>8, <2>1
<1> QED BY <1>4, <1>10, <1>11 DEF n

\* The sum of naturals is one.
LEMMA AddedNat ==
    ASSUME NEW s \in Seq(Nat)
    PROVE  Added(s) \in Nat
<1>1. Len(s) \in 0 .. Len(s)
  OBVIOUS
<1> QED BY <1>1, AddedSum

\* Nothing given adds up to nothing.
LEMMA AddedZeros ==
    ASSUME NEW s \in Seq(Nat), \A i \in DOMAIN s : s[i] = 0
    PROVE  Added(s) = 0
<1>1. PICK f \in [0 .. Len(s) -> Nat] :
              /\ f[0] = 0 /\ \A i \in 1 .. Len(s) : f[i] = f[i - 1] + s[i]
              /\ Added(s) = f[Len(s)]
  BY AddedSum
<1>2. Len(s) \in Nat /\ DOMAIN s = 1 .. Len(s) /\ f[0] \in {0}
  BY <1>1
<1>3. \A i \in 1 .. Len(s) : f[i - 1] \in {0} => f[i] \in {0}
  BY <1>1, <1>2
<1>4. \A i \in 0 .. Len(s) : f[i] \in {0}
  BY <1>2, <1>3, AlongLoop
<1> QED BY <1>1, <1>2, <1>4

\* One number larger by d makes the sum larger by d.
LEMMA AddedMore ==
    ASSUME NEW s \in Seq(Nat), NEW t \in Seq(Nat), Len(s) = Len(t), NEW at \in DOMAIN s, NEW d \in Nat,
           t[at] = s[at] + d, \A i \in DOMAIN s : i # at => t[i] = s[i]
    PROVE  Added(t) = Added(s) + d
<1>1. /\ Len(s) \in Nat /\ DOMAIN s = 1 .. Len(s) /\ at \in 1 .. Len(s)
      /\ \A i \in 1 .. Len(s) : s[i] \in Nat /\ t[i] \in Nat
  <2>1. /\ Len(s) \in Nat /\ DOMAIN s = 1 .. Len(s) /\ at \in 1 .. Len(s)
        /\ \A i \in 1 .. Len(s) : s[i] \in Nat
    OBVIOUS
  <2>2. \A i \in 1 .. Len(t) : t[i] \in Nat
    OBVIOUS
  <2> QED BY <2>1, <2>2
<1>2. PICK f \in [0 .. Len(s) -> Nat] :
              /\ f[0] = 0 /\ \A i \in 1 .. Len(s) : f[i] = f[i - 1] + s[i]
              /\ Added(s) = f[Len(s)]
  BY AddedSum
<1>3. PICK g \in [0 .. Len(s) -> Nat] :
              /\ g[0] = 0 /\ \A i \in 1 .. Len(s) : g[i] = g[i - 1] + t[i]
              /\ Added(t) = g[Len(s)]
  <2>1. \E g \in [0 .. Len(t) -> Nat] :
              /\ g[0] = 0 /\ \A i \in 1 .. Len(t) : g[i] = g[i - 1] + t[i]
              /\ Added(t) = g[Len(t)]
    BY AddedSum
  <2> QED BY <2>1, Zenon
<1> DEFINE Holds(i) == g[i] = f[i] + (IF i >= at THEN d ELSE 0)
           off      == [i \in 0 .. Len(s) |-> IF Holds(i) THEN 0 ELSE 1]
<1>4. off[0] \in {0}
  <2>1. 0 \in 0 .. Len(s) /\ ~(0 >= at)
    BY <1>1
  <2>2. Holds(0)
    BY <1>2, <1>3, <2>1
  <2> QED BY <2>1, <2>2
<1>5. \A i \in 1 .. Len(s) : off[i - 1] \in {0} => off[i] \in {0}
  <2> SUFFICES ASSUME NEW i \in 1 .. Len(s), off[i - 1] = 0 PROVE off[i] = 0
    OBVIOUS
  <2>1. i - 1 \in 0 .. Len(s) /\ i \in 0 .. Len(s) /\ i \in Nat /\ at \in Nat
    BY <1>1
  <2>2. g[i - 1] = f[i - 1] + (IF i - 1 >= at THEN d ELSE 0)
    BY <2>1
  <2>3. g[i] = g[i - 1] + t[i] /\ f[i] = f[i - 1] + s[i]
    BY <1>2, <1>3
  <2>4. g[i] \in Nat /\ f[i] \in Nat /\ f[i - 1] \in Nat /\ s[i] \in Nat /\ t[i] \in Nat
    BY <1>2, <1>3, <1>1, <2>1
  <2>5. (i = at => t[i] = s[i] + d) /\ (i # at => t[i] = s[i])
    BY <1>1
  <2>6. g[i] = f[i] + (IF i >= at THEN d ELSE 0)
    <3> HIDE DEF off
    <3>1. CASE i < at
      <4>1. ~(i - 1 >= at) /\ ~(i >= at) /\ i # at
        BY <2>1, <3>1
      <4> QED BY <2>2, <2>3, <2>4, <2>5, <4>1
    <3>2. CASE i = at
      <4>1. ~(i - 1 >= at) /\ i >= at
        BY <2>1, <3>2
      <4> QED BY <2>2, <2>3, <2>4, <2>5, <3>2, <4>1
    <3>3. CASE i > at
      <4>1. i - 1 >= at /\ i >= at /\ i # at
        BY <2>1, <3>3
      <4> QED BY <2>2, <2>3, <2>4, <2>5, <4>1
    <3> QED BY <2>1, <3>1, <3>2, <3>3
  <2> QED BY <2>1, <2>6
<1>6. \A i \in 0 .. Len(s) : off[i] \in {0}
  <2> HIDE DEF off
  <2> QED BY <1>1, <1>4, <1>5, AlongLoop
<1>7. Len(s) >= at /\ Len(s) \in 0 .. Len(s)
  BY <1>1
<1>8. g[Len(s)] = f[Len(s)] + d
  BY <1>6, <1>7
<1> QED BY <1>2, <1>3, <1>8
-----------------------------------------------------------------------------
(* Sums over a finite set *)

\* What holds of the empty set, and of a subset with one element more if it does without it, holds of a
\* finite set; P holds of its members.
LEMMA SetBuilds ==
    ASSUME NEW S, IsFiniteSet(S), NEW P, {} \in P,
           \A T \in SUBSET S : \A x \in S \ T : T \in P => T \cup {x} \in P
    PROVE  S \in P
<1> DEFINE Bad == {T \in SUBSET S : T \notin P}
           B   == {Cardinality(T) : T \in Bad}
<1>1. \A T \in SUBSET S : IsFiniteSet(T) /\ Cardinality(T) \in Nat
  BY FS_Subset, FS_CardinalityType
<1> SUFFICES ASSUME S \notin P PROVE FALSE
  OBVIOUS
<1>2. B \in SUBSET Nat /\ B # {}
  BY <1>1
<1> HIDE DEF B
<1>3. PICK n \in B : \A k \in B : n <= k
  BY <1>2, LeastNatural
<1>4. PICK T \in Bad : Cardinality(T) = n
  BY <1>3 DEF B
<1>5. PICK x : x \in T
  BY <1>4
<1>6. IsFiniteSet(T) /\ Cardinality(T \ {x}) = n - 1 /\ n \in Nat
  BY <1>1, <1>2, <1>4, <1>5, FS_RemoveElement
<1>7. T \ {x} \notin Bad
  <2> SUFFICES ASSUME T \ {x} \in Bad PROVE FALSE
    OBVIOUS
  <2>1. n - 1 \in B
    BY <1>6 DEF B
  <2> QED BY <1>3, <1>6, <2>1
<1>8. T \ {x} \in SUBSET S /\ x \in S \ (T \ {x}) /\ (T \ {x}) \cup {x} = T
  BY <1>4, <1>5
<1> QED BY <1>4, <1>7, <1>8

\* G gives every subset of S its sum of f.
Sums(G, f, S) ==
    /\ G \in [SUBSET S -> Int] /\ G[{}] = 0
    /\ \A T \in SUBSET S : \A x \in S \ T : G[T \cup {x}] = f[x] + G[T]

\* There is such a G.
LEMMA SumsExist ==
    ASSUME NEW S, IsFiniteSet(S), NEW f, \A x \in S : f[x] \in Int
    PROVE  \E G : Sums(G, f, S)
<1> DEFINE P == {T \in SUBSET S : \E G : Sums(G, f, T)}
<1>1. {} \in P
  <2> DEFINE G == [T \in SUBSET {} |-> 0]
  <2>1. Sums(G, f, {})
    BY DEF Sums
  <2> QED BY <2>1
<1>2. ASSUME NEW T \in SUBSET S, NEW x \in S \ T, T \in P
      PROVE  T \cup {x} \in P
  <2>1. PICK G : Sums(G, f, T)
    BY <1>2
  <2> DEFINE H == [U \in SUBSET (T \cup {x}) |-> IF x \in U THEN f[x] + G[U \ {x}] ELSE G[U]]
  <2>2. \A U \in SUBSET (T \cup {x}) : U \ {x} \in SUBSET T /\ (x \notin U => U \in SUBSET T)
    OBVIOUS
  <2>3. G \in [SUBSET T -> Int] /\ G[{}] = 0 /\ f[x] \in Int
    BY <2>1 DEF Sums
  <2>4. H \in [SUBSET (T \cup {x}) -> Int]
    BY <2>2, <2>3
  <2>5. H[{}] = 0
    BY <2>3
  <2>6. ASSUME NEW U \in SUBSET (T \cup {x}), NEW y \in (T \cup {x}) \ U
        PROVE  H[U \cup {y}] = f[y] + H[U]
    <3>1. CASE y = x
      <4>1. x \notin U /\ (U \cup {x}) \ {x} = U /\ U \cup {x} \in SUBSET (T \cup {x})
        BY <3>1
      <4> QED BY <3>1, <4>1
    <3>2. CASE y # x /\ x \notin U
      <4>1. U \in SUBSET T /\ y \in T \ U /\ U \cup {y} \in SUBSET (T \cup {x}) /\ x \notin U \cup {y}
        BY <3>2
      <4>2. G[U \cup {y}] = f[y] + G[U]
        BY <2>1, <4>1 DEF Sums
      <4> QED BY <3>2, <4>1, <4>2
    <3>3. CASE y # x /\ x \in U
      <4> DEFINE Rest == U \ {x}
      <4>1. Rest \in SUBSET T /\ y \in T \ Rest /\ U \cup {y} \in SUBSET (T \cup {x}) /\ x \in U \cup {y}
        BY <3>3
      <4>2. (U \cup {y}) \ {x} = Rest \cup {y}
        BY <3>3
      <4>3. G[Rest \cup {y}] = f[y] + G[Rest]
        BY <2>1, <4>1 DEF Sums
      <4>4. H[U \cup {y}] = f[x] + G[Rest \cup {y}] /\ H[U] = f[x] + G[Rest]
        BY <3>3, <4>1, <4>2
      <4>5. G[Rest] \in Int /\ f[y] \in Int /\ f[x] \in Int
        BY <2>3, <4>1
      <4> QED BY <4>3, <4>4, <4>5
    <3> QED BY <3>1, <3>2, <3>3
  <2> HIDE DEF H
  <2>7. Sums(H, f, T \cup {x})
    BY <2>4, <2>5, <2>6 DEF Sums
  <2> QED BY <2>7
<1> HIDE DEF P
<1>3. S \in P
  BY <1>1, <1>2, SetBuilds
<1> QED BY <1>3 DEF P

\* It is what the library's sum computes, which takes the elements in an order of its own.
LEMMA SumIsSums ==
    ASSUME NEW S, IsFiniteSet(S), NEW f, NEW G, Sums(G, f, S)
    PROVE  SumFunctionOnSet(f, S) = G[S]
<1> DEFINE one(s) == CHOOSE x \in s : TRUE
           g == CHOOSE h : h = [s \in SUBSET S |-> IF s = {} THEN 0 ELSE f[one(s)] + h[s \ {one(s)}]]
<1>1. SumFunctionOnSet(f, S) = g[S]
  BY Zenon DEF SumFunctionOnSet, FoldFunctionOnSet, MapThenFoldSet
<1>2. \A s \in SUBSET S : s # {} => one(s) \in s
  OBVIOUS
<1> HIDE DEF one
<1>3. ASSUME NEW s \in SUBSET S, s # {} PROVE G[s] = f[one(s)] + G[s \ {one(s)}]
  <2>1. s \ {one(s)} \in SUBSET S /\ one(s) \in S \ (s \ {one(s)}) /\ (s \ {one(s)}) \cup {one(s)} = s
    BY <1>2, <1>3
  <2> QED BY <2>1 DEF Sums
<1>4. G = [s \in SUBSET S |-> IF s = {} THEN 0 ELSE f[one(s)] + G[s \ {one(s)}]]
  <2>1. G = [s \in SUBSET S |-> G[s]] /\ G[{}] = 0
    BY DEF Sums
  <2> QED BY <1>3, <2>1
<1>5. g = [s \in SUBSET S |-> IF s = {} THEN 0 ELSE f[one(s)] + g[s \ {one(s)}]]
  BY <1>4
<1> HIDE DEF g
<1> DEFINE Bad == {T \in SUBSET S : g[T] # G[T]}
           B   == {Cardinality(T) : T \in Bad}
<1>6. SUFFICES ASSUME Bad # {} PROVE FALSE
  BY <1>1
<1>7. \A T \in SUBSET S : IsFiniteSet(T) /\ Cardinality(T) \in Nat
  BY FS_Subset, FS_CardinalityType
<1>8. B \in SUBSET Nat /\ B # {}
  BY <1>6, <1>7
<1> HIDE DEF B
<1>9. PICK n \in B : \A k \in B : n <= k
  BY <1>8, LeastNatural
<1>10. PICK T \in Bad : Cardinality(T) = n
  BY <1>9 DEF B
<1>11. T # {}
  BY <1>5, <1>10 DEF Sums
<1> DEFINE x == one(T)
           U == T \ {x}
<1>12. x \in T /\ U \in SUBSET S /\ Cardinality(U) = n - 1 /\ n \in Nat
  BY <1>2, <1>7, <1>8, <1>10, <1>11, FS_RemoveElement
<1>13. U \notin Bad
  <2> SUFFICES ASSUME U \in Bad PROVE FALSE
    OBVIOUS
  <2>1. n - 1 \in B
    BY <1>12 DEF B
  <2> QED BY <1>9, <1>12, <2>1
<1>14. g[T] = f[x] + g[U]
  BY <1>5, <1>10, <1>11
<1> QED BY <1>3, <1>10, <1>11, <1>12, <1>13, <1>14

\* Sums step by step, over any subset of S.
LEMMA SumFits ==
    ASSUME NEW S, IsFiniteSet(S), NEW f, \A x \in S : f[x] \in Int
    PROVE  /\ \A T \in SUBSET S : SumFunctionOnSet(f, T) \in Int
           /\ SumFunctionOnSet(f, {}) = 0
           /\ \A T \in SUBSET S : \A x \in S \ T :
                 SumFunctionOnSet(f, T \cup {x}) = f[x] + SumFunctionOnSet(f, T)
<1>1. PICK G : Sums(G, f, S)
  BY SumsExist
<1>2. ASSUME NEW T \in SUBSET S PROVE SumFunctionOnSet(f, T) = G[T]
  <2> DEFINE H == [U \in SUBSET T |-> G[U]]
  <2>1. SUBSET T \subseteq SUBSET S /\ \A U \in SUBSET T : \A x \in T \ U : U \cup {x} \in SUBSET T
    OBVIOUS
  <2>2. Sums(H, f, T)
    BY <1>1, <2>1 DEF Sums
  <2>3. H[T] = G[T]
    OBVIOUS
  <2> HIDE DEF H
  <2>4. IsFiniteSet(T)
    BY FS_Subset
  <2> QED BY <2>2, <2>3, <2>4, SumIsSums
<1>3. {} \in SUBSET S /\ \A T \in SUBSET S : \A x \in S \ T : T \cup {x} \in SUBSET S
  OBVIOUS
<1>4. /\ \A T \in SUBSET S : G[T] \in Int
      /\ G[{}] = 0 /\ \A T \in SUBSET S : \A x \in S \ T : G[T \cup {x}] = f[x] + G[T]
  BY <1>1 DEF Sums
<1> QED BY <1>2, <1>3, <1>4

\* A sum of naturals is a natural, over any subset.
LEMMA SumNat ==
    ASSUME NEW S, IsFiniteSet(S), NEW f, \A x \in S : f[x] \in Nat
    PROVE  SumFunctionOnSet(f, S) \in Nat
<1> DEFINE P == {T \in SUBSET S : SumFunctionOnSet(f, T) \in Nat}
<1>1. \A x \in S : f[x] \in Int
  OBVIOUS
<1>2. {} \in P
  BY <1>1, SumFits
<1>3. ASSUME NEW T \in SUBSET S, NEW x \in S \ T, T \in P PROVE T \cup {x} \in P
  <2>1. SumFunctionOnSet(f, T \cup {x}) = f[x] + SumFunctionOnSet(f, T)
    BY <1>1, SumFits
  <2> QED BY <1>3, <2>1
<1> HIDE DEF P
<1>4. S \in P
  BY <1>2, <1>3, SetBuilds
<1> QED BY <1>4 DEF P

\* Where h is f at most, so is its sum.
LEMMA SumAtMost ==
    ASSUME NEW S, IsFiniteSet(S), NEW f, NEW h, \A x \in S : f[x] \in Int /\ h[x] \in Int /\ h[x] <= f[x]
    PROVE  SumFunctionOnSet(h, S) <= SumFunctionOnSet(f, S)
<1> DEFINE P == {T \in SUBSET S : SumFunctionOnSet(h, T) <= SumFunctionOnSet(f, T)}
<1>1. /\ \A T \in SUBSET S : SumFunctionOnSet(f, T) \in Int
      /\ SumFunctionOnSet(f, {}) = 0
      /\ \A T \in SUBSET S : \A x \in S \ T : SumFunctionOnSet(f, T \cup {x}) = f[x] + SumFunctionOnSet(f, T)
  BY SumFits
<1>2. /\ \A T \in SUBSET S : SumFunctionOnSet(h, T) \in Int
      /\ SumFunctionOnSet(h, {}) = 0
      /\ \A T \in SUBSET S : \A x \in S \ T : SumFunctionOnSet(h, T \cup {x}) = h[x] + SumFunctionOnSet(h, T)
  BY SumFits
<1>3. {} \in P
  BY <1>1, <1>2
<1>4. ASSUME NEW T \in SUBSET S, NEW x \in S \ T, T \in P PROVE T \cup {x} \in P
  BY <1>1, <1>2, <1>4
<1> HIDE DEF P
<1>5. S \in P
  BY <1>3, <1>4, SetBuilds
<1> QED BY <1>5 DEF P

\* Where h is f, their sums are the same.
LEMMA SumSame ==
    ASSUME NEW S, IsFiniteSet(S), NEW f, NEW h, \A x \in S : f[x] \in Int /\ h[x] = f[x]
    PROVE  SumFunctionOnSet(h, S) = SumFunctionOnSet(f, S)
<1>1. SumFunctionOnSet(h, S) <= SumFunctionOnSet(f, S) /\ SumFunctionOnSet(f, S) <= SumFunctionOnSet(h, S)
  BY SumAtMost
<1>2. SumFunctionOnSet(h, S) \in Int /\ SumFunctionOnSet(f, S) \in Int
  BY SumFits
<1> QED BY <1>1, <1>2

\* Where f differs from h on T only, its sum differs by the sum of the differences there.
LEMMA SumChanged ==
    ASSUME NEW S, IsFiniteSet(S), NEW f, NEW h, \A x \in S : f[x] \in Int /\ h[x] \in Int,
           NEW T \in SUBSET S, \A x \in S \ T : f[x] = h[x], NEW d, \A x \in T : d[x] = f[x] - h[x]
    PROVE  SumFunctionOnSet(f, S) = SumFunctionOnSet(h, S) + SumFunctionOnSet(d, T)
<1> DEFINE P == {U \in SUBSET S :
                    SumFunctionOnSet(f, U) = SumFunctionOnSet(h, U) + SumFunctionOnSet(d, U \cap T)}
<1>1. /\ \A U \in SUBSET S : SumFunctionOnSet(f, U) \in Int
      /\ SumFunctionOnSet(f, {}) = 0
      /\ \A U \in SUBSET S : \A x \in S \ U : SumFunctionOnSet(f, U \cup {x}) = f[x] + SumFunctionOnSet(f, U)
  BY SumFits
<1>2. /\ \A U \in SUBSET S : SumFunctionOnSet(h, U) \in Int
      /\ SumFunctionOnSet(h, {}) = 0
      /\ \A U \in SUBSET S : \A x \in S \ U : SumFunctionOnSet(h, U \cup {x}) = h[x] + SumFunctionOnSet(h, U)
  BY SumFits
<1>3. /\ \A U \in SUBSET T : SumFunctionOnSet(d, U) \in Int
      /\ SumFunctionOnSet(d, {}) = 0
      /\ \A U \in SUBSET T : \A x \in T \ U : SumFunctionOnSet(d, U \cup {x}) = d[x] + SumFunctionOnSet(d, U)
  <2>1. IsFiniteSet(T) /\ \A x \in T : d[x] \in Int
    BY FS_Subset
  <2> QED BY <2>1, SumFits
<1>4. {} \in P
  <2>1. {} \cap T = {}
    OBVIOUS
  <2> QED BY <1>1, <1>2, <1>3, <2>1
<1>5. ASSUME NEW U \in SUBSET S, NEW x \in S \ U, U \in P PROVE U \cup {x} \in P
  <2> DEFINE F == SumFunctionOnSet(f, U)
             H == SumFunctionOnSet(h, U)
             D == SumFunctionOnSet(d, U \cap T)
  <2>1. F \in Int /\ H \in Int /\ D \in Int /\ F = H + D
    BY <1>1, <1>2, <1>3, <1>5
  <2>2. SumFunctionOnSet(f, U \cup {x}) = f[x] + F /\ SumFunctionOnSet(h, U \cup {x}) = h[x] + H
    BY <1>1, <1>2
  <2>3. CASE x \in T
    <3>1. (U \cup {x}) \cap T = (U \cap T) \cup {x} /\ x \in T \ (U \cap T) /\ U \cap T \in SUBSET T
      BY <2>3
    <3>2. SumFunctionOnSet(d, (U \cup {x}) \cap T) = d[x] + D /\ d[x] = f[x] - h[x]
      BY <1>3, <2>3, <3>1
    <3>3. f[x] \in Int /\ h[x] \in Int
      OBVIOUS
    <3> HIDE DEF F, H, D
    <3> QED BY <2>1, <2>2, <3>2, <3>3
  <2>4. CASE x \notin T
    <3>1. (U \cup {x}) \cap T = U \cap T /\ f[x] = h[x]
      BY <2>4
    <3>2. f[x] \in Int /\ SumFunctionOnSet(d, (U \cup {x}) \cap T) = D
      BY <3>1
    <3> HIDE DEF F, H, D
    <3> QED BY <2>1, <2>2, <3>1, <3>2
  <2> QED BY <2>3, <2>4
<1> HIDE DEF P
<1>6. S \in P
  BY <1>4, <1>5, SetBuilds
<1>7. S \cap T = T
  OBVIOUS
<1> QED BY <1>6, <1>7 DEF P

\* A sum may be taken over other names of its elements.
LEMMA SumMoved ==
    ASSUME NEW S, IsFiniteSet(S), NEW R, NEW b \in Bijection(S, R),
           NEW f, NEW h, \A x \in S : f[b[x]] \in Int /\ h[x] = f[b[x]]
    PROVE  SumFunctionOnSet(h, S) = SumFunctionOnSet(f, R) /\ IsFiniteSet(R)
<1> DEFINE Im(T) == {b[x] : x \in T}
           P     == {T \in SUBSET S : SumFunctionOnSet(h, T) = SumFunctionOnSet(f, Im(T))}
<1>1. b \in [S -> R] /\ (\A y \in R : \E x \in S : b[x] = y) /\ \A x, y \in S : b[x] = b[y] => x = y
  BY DEF Bijection, Injection, IsInjective, Surjection
<1>2. IsFiniteSet(R)
  <2>1. b \in Surjection(S, R)
    BY <1>1 DEF Surjection
  <2> QED BY <2>1, FS_Surjection
<1>3. /\ SumFunctionOnSet(h, {}) = 0
      /\ \A T \in SUBSET S : \A x \in S \ T : SumFunctionOnSet(h, T \cup {x}) = h[x] + SumFunctionOnSet(h, T)
  BY SumFits
<1>4. /\ SumFunctionOnSet(f, {}) = 0
      /\ \A T \in SUBSET R : \A x \in R \ T : SumFunctionOnSet(f, T \cup {x}) = f[x] + SumFunctionOnSet(f, T)
  <2>1. \A y \in R : f[y] \in Int
    BY <1>1
  <2> QED BY <1>2, <2>1, SumFits
<1>5. {} \in P
  <2>1. Im({}) = {}
    OBVIOUS
  <2> QED BY <1>3, <1>4, <2>1
<1>6. ASSUME NEW T \in SUBSET S, NEW x \in S \ T, T \in P PROVE T \cup {x} \in P
  <2>1. Im(T \cup {x}) = Im(T) \cup {b[x]} /\ Im(T) \in SUBSET R /\ b[x] \in R \ Im(T)
    BY <1>1
  <2>2. SumFunctionOnSet(f, Im(T) \cup {b[x]}) = f[b[x]] + SumFunctionOnSet(f, Im(T))
    BY <1>4, <2>1
  <2>3. SumFunctionOnSet(h, T \cup {x}) = h[x] + SumFunctionOnSet(h, T) /\ h[x] = f[b[x]]
    BY <1>3
  <2> HIDE DEF Im
  <2>4. SumFunctionOnSet(h, T) = SumFunctionOnSet(f, Im(T))
    BY <1>6
  <2>5. SumFunctionOnSet(h, T \cup {x}) = SumFunctionOnSet(f, Im(T \cup {x}))
    BY <2>1, <2>2, <2>3, <2>4
  <2> QED BY <2>5
<1> HIDE DEF P
<1>7. S \in P
  BY <1>5, <1>6, SetBuilds
<1>8. Im(S) = R
  BY <1>1
<1> QED BY <1>2, <1>7, <1>8 DEF P

\* A sum of the same number is a product.
LEMMA SumOfOne ==
    ASSUME NEW S, IsFiniteSet(S), NEW f, NEW c \in Int, \A x \in S : f[x] = c
    PROVE  SumFunctionOnSet(f, S) = c * Cardinality(S)
<1> DEFINE P == {T \in SUBSET S : SumFunctionOnSet(f, T) = c * Cardinality(T)}
<1>1. /\ SumFunctionOnSet(f, {}) = 0
      /\ \A T \in SUBSET S : \A x \in S \ T : SumFunctionOnSet(f, T \cup {x}) = f[x] + SumFunctionOnSet(f, T)
  BY SumFits
<1>2. {} \in P
  <2>1. Cardinality({}) = 0 /\ c * 0 = 0
    BY FS_EmptySet
  <2> QED BY <1>1, <2>1
<1>3. ASSUME NEW T \in SUBSET S, NEW x \in S \ T, T \in P PROVE T \cup {x} \in P
  <2> DEFINE n == Cardinality(T)
  <2>1. IsFiniteSet(T) /\ n \in Nat /\ Cardinality(T \cup {x}) = n + 1
    BY FS_Subset, FS_CardinalityType, FS_AddElement
  <2>2. SumFunctionOnSet(f, T \cup {x}) = c + c * n
    BY <1>1, <1>3
  <2> HIDE DEF n
  <2>3. c + c * n = c * (n + 1)
    BY <2>1
  <2> QED BY <2>1, <2>2, <2>3
<1> HIDE DEF P
<1>4. S \in P
  BY <1>2, <1>3, SetBuilds
<1> QED BY <1>4 DEF P

\* Some of several naturals are no more than all of them.
LEMMA SumOfSome ==
    ASSUME NEW S, IsFiniteSet(S), NEW f, \A x \in S : f[x] \in Nat, NEW T \in SUBSET S
    PROVE  SumFunctionOnSet(f, T) <= SumFunctionOnSet(f, S)
<1> DEFINE h == [x \in S |-> IF x \in T THEN 0 ELSE f[x]]
           d == [x \in T |-> f[x]]
<1>1. /\ \A x \in S : f[x] \in Int /\ h[x] \in Int /\ h[x] \in Nat
      /\ \A x \in S \ T : f[x] = h[x]
      /\ \A x \in T : d[x] = f[x] - h[x] /\ f[x] = d[x] /\ d[x] \in Int
  OBVIOUS
<1> HIDE DEF h, d
<1>2. SumFunctionOnSet(f, S) = SumFunctionOnSet(h, S) + SumFunctionOnSet(d, T)
  BY <1>1, SumChanged
<1>3. SumFunctionOnSet(h, S) \in Nat
  BY <1>1, SumNat
<1>4. SumFunctionOnSet(f, T) = SumFunctionOnSet(d, T) /\ SumFunctionOnSet(d, T) \in Int
  <2>1. IsFiniteSet(T)
    BY FS_Subset
  <2> QED BY <1>1, <2>1, SumSame, SumFits
<1> QED BY <1>2, <1>3, <1>4

\* A sum along a sequence is the sum over its places.
LEMMA SumAlong ==
    ASSUME NEW s \in Seq(Int)
    PROVE  Added(s) = SumFunctionOnSet(s, DOMAIN s) /\ IsFiniteSet(DOMAIN s)
<1> DEFINE n    == Len(s)
           S    == 1 .. n
           g    == [i \in 0 .. n |-> SumFunctionOnSet(s, 1 .. i)]
           sum  == CHOOSE h : h = [i \in 0 .. n |-> IF i = 0 THEN 0 ELSE h[i - 1] + s[i]]
           same == [i \in 0 .. n |-> sum[i] = g[i]]
<1>1. n \in Nat /\ S = DOMAIN s /\ IsFiniteSet(S) /\ \A i \in S : s[i] \in Int
  BY FS_Interval
<1>2. Added(s) = sum[n]
  BY DEF Added
<1> HIDE DEF n
<1>3. /\ \A T \in SUBSET S : SumFunctionOnSet(s, T) \in Int
      /\ SumFunctionOnSet(s, {}) = 0
      /\ \A T \in SUBSET S : \A x \in S \ T : SumFunctionOnSet(s, T \cup {x}) = s[x] + SumFunctionOnSet(s, T)
  <2> HIDE DEF S
  <2> QED BY <1>1, SumFits
<1>4. g[0] = 0
  <2>1. 1 .. 0 = {} /\ 0 \in 0 .. n
    BY <1>1
  <2> QED BY <1>3, <2>1
<1>5. ASSUME NEW i \in 1 .. n PROVE g[i] = g[i - 1] + s[i]
  <2>1. /\ 1 .. i = (1 .. (i - 1)) \cup {i} /\ 1 .. (i - 1) \in SUBSET S /\ i \in S \ (1 .. (i - 1))
        /\ i \in 0 .. n /\ i - 1 \in 0 .. n
    BY <1>1
  <2>2. g[i] = s[i] + g[i - 1] /\ g[i - 1] \in Int
    BY <1>3, <2>1
  <2> QED BY <1>1, <2>2
<1> HIDE DEF g
<1>6. g = [i \in 0 .. n |-> IF i = 0 THEN 0 ELSE g[i - 1] + s[i]]
  <2>1. g = [i \in 0 .. n |-> g[i]]
    BY DEF g
  <2>2. \A i \in 0 .. n : i = 0 \/ i \in 1 .. n
    BY <1>1
  <2> QED BY <1>4, <1>5, <2>1, <2>2
<1>7. sum = [i \in 0 .. n |-> IF i = 0 THEN 0 ELSE sum[i - 1] + s[i]]
  BY <1>6
<1> HIDE DEF sum
<1>8. same[0] \in {TRUE}
  <2>1. 0 \in 0 .. n
    BY <1>1
  <2>2. sum[0] = 0
    BY <1>7, <2>1
  <2> QED BY <1>4, <2>1, <2>2
<1>9. \A i \in 1 .. n : same[i - 1] \in {TRUE} => same[i] \in {TRUE}
  <2> SUFFICES ASSUME NEW i \in 1 .. n, same[i - 1] \in {TRUE} PROVE same[i] \in {TRUE}
    OBVIOUS
  <2>1. i \in 0 .. n /\ i - 1 \in 0 .. n /\ i # 0
    BY <1>1
  <2>2. sum[i] = sum[i - 1] + s[i]
    BY <1>7, <2>1
  <2>3. sum[i - 1] = g[i - 1]
    BY <2>1
  <2>4. sum[i] = g[i]
    BY <1>5, <2>2, <2>3
  <2> QED BY <2>1, <2>4
<1> HIDE DEF same
<1>10. \A i \in 0 .. n : same[i] \in {TRUE}
  BY <1>1, <1>8, <1>9, AlongLoop
<1>11. n \in 0 .. n
  BY <1>1
<1>12. sum[n] = g[n]
  BY <1>10, <1>11 DEF same
<1> QED BY <1>1, <1>2, <1>11, <1>12 DEF g

\* A sum of integers is one.
LEMMA AddedInt ==
    ASSUME NEW s \in Seq(Int)
    PROVE  Added(s) \in Int
<1>1. \A i \in DOMAIN s : s[i] \in Int
  OBVIOUS
<1>2. IsFiniteSet(DOMAIN s) /\ Added(s) = SumFunctionOnSet(s, DOMAIN s)
  BY SumAlong
<1> QED BY <1>1, <1>2, SumFits
-----------------------------------------------------------------------------
(* Rows, marks and verdicts *)

\* Of several places in a sequence one is the first.
LEMMA MinIsOne ==
    ASSUME NEW B \in SUBSET Nat, B # {}
    PROVE  Min(B) \in B /\ \A k \in B : Min(B) <= k
BY LeastNatural DEF Min

\* Of several places in a sequence one is the last.
LEMMA MaxIsOne ==
    ASSUME NEW n \in Nat, NEW B \in SUBSET (1 .. n), B # {}
    PROVE  Max(B) \in B
<1> DEFINE C == {n - k : k \in B}
<1>1. C \in SUBSET Nat /\ C # {}
  <2>1. \A k \in B : k \in 1 .. n /\ n - k \in Nat
    OBVIOUS
  <2>2. \E k \in B : TRUE
    OBVIOUS
  <2> QED BY <2>1, <2>2
<1>2. PICK c \in C : \A d \in C : c <= d
  BY <1>1, LeastNatural
<1>3. PICK k \in B : c = n - k
  BY <1>2
<1>4. \A j \in B : k >= j
  <2> SUFFICES ASSUME NEW j \in B PROVE k >= j
    OBVIOUS
  <2>1. n - j \in C
    OBVIOUS
  <2>2. n - k <= n - j
    BY <1>2, <1>3, <2>1
  <2> QED BY <2>2
<1> QED BY <1>4 DEF Max

\* The first mark, or row, of a key is one of its marks.
LEMMA FirstFits ==
    ASSUME NEW T, NEW s \in Seq(T), NEW k \in Keys(s)
    PROVE  /\ FirstAt(s, k) \in DOMAIN s
           /\ FirstOf(s, k) \in T /\ FirstOf(s, k).key = k
<1> DEFINE B == {i \in DOMAIN s : s[i].key = k}
<1>1. B \in SUBSET Nat /\ B # {} /\ \A i \in DOMAIN s : s[i] \in T
  BY DEF Keys
<1>2. Min(B) \in B
  BY <1>1, MinIsOne
<1>3. FirstAt(s, k) \in B /\ FirstOf(s, k) = s[FirstAt(s, k)]
  BY <1>2 DEF FirstAt, FirstOf
<1> QED BY <1>1, <1>3

\* The last verdict on a key is one on it.
LEMMA LastFits ==
    ASSUME NEW T, NEW s \in Seq(T), NEW k \in Keys(s)
    PROVE  LastOf(s, k) \in T /\ LastOf(s, k).key = k
<1> DEFINE B == {i \in DOMAIN s : s[i].key = k}
<1>1. Len(s) \in Nat /\ B \in SUBSET (1 .. Len(s)) /\ B # {} /\ \A i \in DOMAIN s : s[i] \in T
  BY DEF Keys
<1>2. Max(B) \in B
  BY <1>1, MaxIsOne
<1> QED BY <1>1, <1>2 DEF LastOf

\* A label's marks are those of an allocation of the row.
LEMMA RowMarksFit ==
    ASSUME NEW row \in SchemeRow, NEW l \in DOMAIN RowMarks(row)
    PROVE  /\ l \in Label /\ RowMarks(row)[l] \in Nat
           /\ [label |-> l, marks |-> RowMarks(row)[l]] \in ToSet(row.points)
<1> DEFINE p == row.points
           B == {i \in DOMAIN p : p[i].label = l}
<1>1. p \in Seq(SchemePoint)
  BY DEF SchemeRow
<1>2. /\ Len(p) \in Nat /\ B \in SUBSET (1 .. Len(p))
      /\ \A i \in DOMAIN p : p[i] \in SchemePoint
  BY <1>1
<1>3. l \in {p[i].label : i \in DOMAIN p} /\ RowMarks(row)[l] = p[Max(B)].marks
  BY DEF RowMarks
<1>4. B # {}
  BY <1>3
<1>5. Max(B) \in B
  BY <1>2, <1>4, MaxIsOne
<1>6. p[Max(B)] \in SchemePoint /\ p[Max(B)].label = l /\ p[Max(B)] \in ToSet(p)
  BY <1>2, <1>5 DEF ToSet
<1>7. p[Max(B)] = [label |-> l, marks |-> p[Max(B)].marks]
  BY <1>6 DEF SchemePoint
<1> QED BY <1>3, <1>6, <1>7 DEF SchemePoint

\* What the allocations give, one by one.
Gifts(awarded) == [i \in DOMAIN awarded |-> IF awarded[i].got THEN awarded[i].marks ELSE 0]

\* A sum of allocations is a natural, and none if none was got.
LEMMA GivenFits ==
    ASSUME NEW a \in Seq(Allocation)
    PROVE  /\ Gifts(a) \in Seq(Nat) /\ Len(Gifts(a)) = Len(a) /\ Given(a) = Added(Gifts(a)) /\ Given(a) \in Nat
           /\ (\A i \in DOMAIN a : ~a[i].got) => Given(a) = 0
<1>1. Len(a) \in Nat /\ DOMAIN a = 1 .. Len(a) /\ \A i \in DOMAIN a : a[i] \in Allocation
  OBVIOUS
<1>2. Gifts(a) \in [1 .. Len(a) -> Nat]
  BY <1>1 DEF Gifts, Allocation
<1>3. Gifts(a) \in Seq(Nat) /\ Len(Gifts(a)) = Len(a) /\ DOMAIN Gifts(a) = DOMAIN a
  BY <1>1, <1>2
<1>4. Given(a) = Added(Gifts(a))
  BY DEF Given, Gifts
<1>5. Added(Gifts(a)) \in Nat
  BY <1>3, AddedNat
<1>6. ASSUME \A i \in DOMAIN a : ~a[i].got
      PROVE  Added(Gifts(a)) = 0
  <2>1. \A i \in DOMAIN Gifts(a) : Gifts(a)[i] = 0
    BY <1>3, <1>6 DEF Gifts
  <2> QED BY <1>3, <2>1, AddedZeros
<1> QED BY <1>3, <1>4, <1>5, <1>6
\* A mark's total is what its allocations give, and they are the row's.
AddsUp(m, row) ==
    /\ m.total = Given(m.awarded)
    /\ \A i \in DOMAIN m.awarded : [label |-> m.awarded[i].label, marks |-> m.awarded[i].marks] \in ToSet(row.points)

\* A mark has a total and allocations.
Counts(m) == m.total \in Nat /\ m.awarded \in Seq(Allocation)

\* A row all of whose allocations are lost.
LEMMA AllLostFits ==
    ASSUME NEW row \in SchemeRow
    PROVE  /\ AllLost(row) \in Seq(Allocation) /\ Given(AllLost(row)) = 0
           /\ \A i \in DOMAIN AllLost(row) :
                 [label |-> AllLost(row)[i].label, marks |-> AllLost(row)[i].marks] \in ToSet(row.points)
<1> DEFINE p == row.points
           a == AllLost(row)
<1>1. p \in Seq(SchemePoint)
  BY DEF SchemeRow
<1>2. Len(p) \in Nat /\ DOMAIN p = 1 .. Len(p) /\ \A i \in DOMAIN p : p[i] \in SchemePoint
  BY <1>1
<1>3. DOMAIN a = DOMAIN p /\ \A i \in DOMAIN p :
            a[i] = [label |-> p[i].label, marks |-> p[i].marks, got |-> FALSE]
  BY DEF AllLost
<1>4. \A i \in DOMAIN p : a[i] \in Allocation /\ ~a[i].got /\ p[i] = [label |-> a[i].label, marks |-> a[i].marks]
  <2> SUFFICES ASSUME NEW i \in DOMAIN p
               PROVE  a[i] \in Allocation /\ ~a[i].got /\ p[i] = [label |-> a[i].label, marks |-> a[i].marks]
    OBVIOUS
  <2>1. PICK l \in Label, k \in Nat : p[i] = [label |-> l, marks |-> k]
    BY <1>2 DEF SchemePoint
  <2>2. a[i] = [label |-> l, marks |-> k, got |-> FALSE]
    BY <1>3, <2>1
  <2> QED BY <2>1, <2>2 DEF Allocation
<1>5. a \in [1 .. Len(p) -> Allocation]
  BY <1>2, <1>3, <1>4 DEF AllLost
<1>6. a \in Seq(Allocation)
  BY <1>2, <1>5
<1>7. Given(a) = 0
  BY <1>3, <1>4, <1>6, GivenFits
<1>8. \A i \in DOMAIN p : p[i] \in ToSet(p)
  BY DEF ToSet
<1> QED BY <1>3, <1>4, <1>6, <1>7, <1>8

\* A mark with other allocations and another total.
With(m, a, t) == [m EXCEPT !.awarded = a, !.total = t]

\* It is otherwise the same.
LEMMA Remarked ==
    ASSUME NEW m \in Marking, NEW a \in Seq(Allocation), NEW t \in Nat
    PROVE  /\ With(m, a, t) \in Marking /\ With(m, a, t).awarded = a /\ With(m, a, t).total = t
           /\ With(m, a, t).key = m.key /\ With(m, a, t).confidence = m.confidence
           /\ With(m, a, t).in_scheme = m.in_scheme
BY DEF Marking, With

\* A part's mark reconciled with its row is a mark of the same part and confidence, and adds up if the
\* scheme accounts for it.
LEMMA PartNormalises ==
    ASSUME NEW m \in Marking, NEW row \in SchemeRow
    PROVE  LET n == NormalisePart(m, row)
           IN  /\ n.in_scheme \in BOOLEAN /\ n.empty \in BOOLEAN
               /\ n.mark \in Marking /\ n.mark.key = m.key /\ n.mark.confidence = m.confidence
               /\ n.mark.in_scheme = m.in_scheme
               /\ n.in_scheme => m.in_scheme /\ AddsUp(n.mark, row)
<1> DEFINE n  == NormalisePart(m, row)
           rm == RowMarks(row)
           aw == [i \in DOMAIN m.awarded |-> [m.awarded[i] EXCEPT !.marks = rm[m.awarded[i].label]]]
           unknown == \E i \in DOMAIN m.awarded : m.awarded[i].label \notin DOMAIN rm
<1>1. CASE ~m.in_scheme
  BY <1>1 DEF NormalisePart
<1>2. CASE m.in_scheme /\ m.awarded = <<>>
  <2>1. n = [mark |-> With(m, AllLost(row), 0), in_scheme |-> TRUE, empty |-> TRUE]
    BY <1>2 DEF NormalisePart, With
  <2>2. AllLost(row) \in Seq(Allocation) /\ 0 \in Nat
    BY AllLostFits
  <2> DEFINE r == With(m, AllLost(row), 0)
  <2>3. /\ r \in Marking /\ r.awarded = AllLost(row) /\ r.total = 0
        /\ r.key = m.key /\ r.confidence = m.confidence /\ r.in_scheme = m.in_scheme
    BY <2>2, Remarked
  <2>4. n = [mark |-> r, in_scheme |-> TRUE, empty |-> TRUE]
    BY <2>1
  <2> HIDE DEF r
  <2>5. AddsUp(r, row)
    BY <2>3, AllLostFits DEF AddsUp
  <2> HIDE DEF n
  <2>6. n.mark = r /\ n.in_scheme = TRUE /\ n.empty = TRUE
    BY <2>4
  <2>7. /\ n.in_scheme \in BOOLEAN /\ n.empty \in BOOLEAN
        /\ n.mark \in Marking /\ n.mark.key = m.key /\ n.mark.confidence = m.confidence
        /\ n.mark.in_scheme = m.in_scheme
        /\ n.in_scheme => m.in_scheme /\ AddsUp(n.mark, row)
    BY <1>2, <2>3, <2>5, <2>6
  <2> QED BY <2>7 DEF n
<1>3. CASE m.in_scheme /\ m.awarded # <<>> /\ unknown
  <2>1. n = [mark |-> m, in_scheme |-> FALSE, empty |-> FALSE]
    BY <1>3 DEF NormalisePart
  <2> QED BY <2>1
<1>4. CASE m.in_scheme /\ m.awarded # <<>> /\ ~unknown
  <2>1. n = [mark |-> With(m, aw, Given(aw)), in_scheme |-> TRUE, empty |-> FALSE]
    BY <1>4 DEF NormalisePart, With
  <2>2. m.awarded \in Seq(Allocation)
    BY DEF Marking
  <2>3. /\ Len(m.awarded) \in Nat /\ DOMAIN m.awarded = 1 .. Len(m.awarded)
        /\ \A i \in DOMAIN m.awarded : m.awarded[i] \in Allocation /\ m.awarded[i].label \in DOMAIN rm
    BY <1>4, <2>2
  <2>4. \A i \in DOMAIN m.awarded :
            /\ rm[m.awarded[i].label] \in Nat
            /\ [label |-> m.awarded[i].label, marks |-> rm[m.awarded[i].label]] \in ToSet(row.points)
    BY <2>3, RowMarksFit
  <2>5. \A i \in DOMAIN m.awarded :
            /\ aw[i] \in Allocation
            /\ aw[i].label = m.awarded[i].label /\ aw[i].marks = rm[m.awarded[i].label]
    BY <2>3, <2>4 DEF Allocation
  <2>6. aw \in Seq(Allocation) /\ DOMAIN aw = DOMAIN m.awarded
    <3>1. aw \in [1 .. Len(m.awarded) -> Allocation]
      BY <2>3, <2>5
    <3> QED BY <2>3, <3>1
  <2>7. Given(aw) \in Nat
    BY <2>6, GivenFits
  <2> DEFINE r == With(m, aw, Given(aw))
  <2>8. n = [mark |-> r, in_scheme |-> TRUE, empty |-> FALSE]
    BY <2>1
  <2> HIDE DEF aw
  <2>9. /\ r \in Marking /\ r.awarded = aw /\ r.total = Given(aw)
        /\ r.key = m.key /\ r.confidence = m.confidence /\ r.in_scheme = m.in_scheme
    BY <2>6, <2>7, Remarked
  <2> HIDE DEF r
  <2>10. AddsUp(r, row)
    BY <2>4, <2>5, <2>6, <2>9 DEF AddsUp
  <2> HIDE DEF n
  <2>11. n.mark = r /\ n.in_scheme = TRUE /\ n.empty = FALSE
    BY <2>8
  <2>12. /\ n.in_scheme \in BOOLEAN /\ n.empty \in BOOLEAN
         /\ n.mark \in Marking /\ n.mark.key = m.key /\ n.mark.confidence = m.confidence
         /\ n.mark.in_scheme = m.in_scheme
         /\ n.in_scheme => m.in_scheme /\ AddsUp(n.mark, row)
    BY <1>4, <2>9, <2>10, <2>11
  <2> QED BY <2>12 DEF n
<1> QED BY <1>1, <1>2, <1>3, <1>4

\* A criterion's mark reconciled with its bands is a mark of the same criterion and confidence.
LEMMA BandNormalises ==
    ASSUME NEW m \in Marking, NEW row \in SchemeRow
    PROVE  LET n == NormaliseBand(m, row)
           IN  /\ n.in_scheme \in BOOLEAN /\ n.empty \in BOOLEAN
               /\ n.mark \in Marking /\ n.mark.key = m.key /\ n.mark.confidence = m.confidence
               /\ n.mark.in_scheme = m.in_scheme
<1> DEFINE n == NormaliseBand(m, row)
<1>1. CASE m.band \in DOMAIN RowMarks(row)
  <2>1. n = [mark |-> [m EXCEPT !.total = RowMarks(row)[m.band]], in_scheme |-> TRUE, empty |-> FALSE]
    BY <1>1 DEF NormaliseBand
  <2>2. RowMarks(row)[m.band] \in Nat
    BY <1>1, RowMarksFit
  <2> QED BY <2>1, <2>2 DEF Marking
<1>2. CASE m.band \notin DOMAIN RowMarks(row)
  BY <1>2 DEF NormaliseBand
<1> QED BY <1>1, <1>2

\* So either way.
LEMMA MarkNormalises ==
    ASSUME NEW K \in V2Kinds, NEW m \in Marking, NEW row \in SchemeRow
    PROVE  LET n == Normalise(K, m, row)
           IN  /\ n.in_scheme \in BOOLEAN /\ n.empty \in BOOLEAN
               /\ n.mark \in Marking /\ n.mark.key = m.key /\ n.mark.confidence = m.confidence
               /\ n.mark.in_scheme = m.in_scheme
               /\ K = "mark_scheme" /\ n.in_scheme => m.in_scheme /\ AddsUp(n.mark, row)
<1>1. CASE K = "mark_scheme"
  BY <1>1, PartNormalises DEF Normalise
<1>2. CASE K # "mark_scheme"
  BY <1>2, BandNormalises DEF Normalise
<1> QED BY <1>1, <1>2
\* The reviewer's corrected mark, where it is adopted, has the marker's marks and adds up as its own did.
LEMMA AdoptedFits ==
    ASSUME NEW K \in V2Kinds, NEW m \in Marking, NEW adj \in Marking, NEW row \in SchemeRow,
           Adopts(K, m, adj, row)
    PROVE  /\ Adopted(K, m, adj, row) \in Marking
           /\ Adopted(K, m, adj, row).total = m.total /\ Adopted(K, m, adj, row).in_scheme = m.in_scheme
           /\ K = "mark_scheme" => AddsUp(Adopted(K, m, adj, row), row)
<1> DEFINE x == Normalise(K, adj, row).mark
           c == Min({m.confidence, x.confidence})
           a == [x EXCEPT !.key = m.key, !.in_scheme = m.in_scheme, !.confidence = c]
<1>1. /\ x \in Marking /\ x.total = m.total
      /\ K = "mark_scheme" => AddsUp(x, row)
  BY MarkNormalises DEF Adopts
<1>2. Adopted(K, m, adj, row) = a
  BY <1>1 DEF Adopted, Marking
<1>3. c \in Nat
  <2>1. {m.confidence, x.confidence} \in SUBSET Nat /\ {m.confidence, x.confidence} # {}
    BY <1>1 DEF Marking
  <2> QED BY <2>1, MinIsOne
<1> HIDE DEF x, c
<1>4. /\ a \in Marking /\ a.total = x.total /\ a.in_scheme = m.in_scheme /\ a.awarded = x.awarded
  BY <1>1, <1>3 DEF Marking
<1>5. K = "mark_scheme" => AddsUp(a, row)
  <2> HIDE DEF a
  <2> QED BY <1>1, <1>4 DEF AddsUp
<1> HIDE DEF a
<1> QED BY <1>1, <1>2, <1>4, <1>5

\* Every reason the merge gives, and the lack of one.
Reasons == {Illegible, NotInScheme, Escalated, LowConfidence, Disagree, InputTruncated, DoublePenalty, NoReason}

\* A reason to ask a teacher is not the lack of one.
LEMMA ReasonsDiffer ==
    /\ {Illegible, NotInScheme, Escalated, LowConfidence, Disagree, NoReason} \subseteq Reasons
    /\ NoReason \notin {Illegible, NotInScheme, Escalated, LowConfidence, Disagree}
<1>1. {Illegible, NotInScheme, Escalated, LowConfidence, Disagree, NoReason} \subseteq Reasons
  BY DEF Reasons
<1>2. NoReason \notin {Illegible, NotInScheme, Escalated, LowConfidence, Disagree}
  BY DEF NoReason, Illegible, NotInScheme, Escalated, LowConfidence, Disagree
<1> QED BY <1>1, <1>2

\* No doubt was raised about a part: f is its merged mark.
Undoubted(K, m, row, v, ill, f) ==
    LET n == Normalise(K, m, row)
    IN  /\ ~ill /\ n.in_scheme /\ ~n.empty /\ v.verdict # "ESCALATE"
        /\ f \in Marking /\ f.confidence >= Threshold /\ f.total = n.mark.total
        /\ K = "mark_scheme" => f.in_scheme

\* A mark that is put outside the scheme keeps its numbers.
LEMMA OutsideCounts ==
    ASSUME NEW K, NEW m \in Marking
    PROVE  Counts(m) /\ Counts(OutOfScheme(K, m))
<1>1. Counts(m)
  BY DEF Counts, Marking
<1>2. CASE K = "mark_scheme"
  <2>1. OutOfScheme(K, m).total = m.total /\ OutOfScheme(K, m).awarded = m.awarded
    BY <1>2 DEF OutOfScheme, Marking
  <2> QED BY <1>1, <2>1 DEF Counts
<1>3. CASE K # "mark_scheme"
  BY <1>1, <1>3 DEF OutOfScheme
<1> QED BY <1>1, <1>2, <1>3

\* One part merged: what the scheme accounts for adds up, and no reason to ask a teacher means no doubt.
LEMMA OneMerges ==
    ASSUME NEW K \in V2Kinds, NEW m \in Marking, NEW row \in SchemeRow, NEW v \in Verdict, NEW ill \in BOOLEAN
    PROVE  LET r == MergeOne(K, m, row, v, ill)
           IN  /\ r.reason \in Reasons /\ Counts(r.mark)
               /\ K = "mark_scheme" /\ r.mark.in_scheme => AddsUp(r.mark, row)
               /\ r.reason = NoReason => Undoubted(K, m, row, v, ill, r.mark)
<1> DEFINE n      == Normalise(K, m, row)
           stored == IF n.in_scheme THEN n.mark ELSE OutOfScheme(K, n.mark)
           adjust == v.verdict = "ADJUST"
           agreed == adjust /\ v.adjusted # {} /\ Adopts(K, n.mark, The(v.adjusted), row)
           quiet  == IF agreed THEN Adopted(K, n.mark, The(v.adjusted), row) ELSE n.mark
           r      == MergeOne(K, m, row, v, ill)
<1>1. /\ n.in_scheme \in BOOLEAN /\ n.empty \in BOOLEAN /\ n.mark \in Marking
      /\ n.mark.in_scheme = m.in_scheme
      /\ K = "mark_scheme" /\ n.in_scheme => m.in_scheme /\ AddsUp(n.mark, row)
  BY MarkNormalises
<1>2. r = CASE ill -> [mark |-> stored, reason |-> Illegible]
            [] ~ill /\ ~n.in_scheme -> [mark |-> stored, reason |-> NotInScheme]
            [] ~ill /\ n.in_scheme /\ n.empty -> [mark |-> stored, reason |-> LowConfidence]
            [] OTHER ->
                  CASE v.verdict = "ESCALATE" -> [mark |-> n.mark, reason |-> Escalated]
                    [] adjust /\ ~agreed -> [mark |-> n.mark, reason |-> Disagree]
                    [] OTHER -> [mark |-> quiet, reason |-> IF Threshold # 0 /\ quiet.confidence < Threshold
                                                            THEN LowConfidence ELSE NoReason]
  BY DEF MergeOne
<1>3. K = "mark_scheme" /\ stored.in_scheme => AddsUp(stored, row)
  <2>1. CASE n.in_scheme
    BY <1>1, <2>1
  <2>2. CASE ~n.in_scheme /\ K = "mark_scheme"
    <3>1. stored = [n.mark EXCEPT !.in_scheme = FALSE]
      BY <2>2 DEF OutOfScheme
    <3>2. stored.in_scheme = FALSE
      BY <1>1, <3>1 DEF Marking
    <3> QED BY <3>2
  <2> QED BY <2>1, <2>2
<1>4. /\ quiet \in Marking /\ quiet.total = n.mark.total /\ quiet.in_scheme = n.mark.in_scheme
      /\ K = "mark_scheme" /\ n.in_scheme => AddsUp(quiet, row)
  <2>1. CASE agreed
    <3>1. The(v.adjusted) \in Marking
      BY <2>1 DEF The, Verdict
    <3> QED BY <1>1, <2>1, <3>1, AdoptedFits
  <2>2. CASE ~agreed
    BY <1>1, <2>2
  <2> QED BY <2>1, <2>2
<1>5. Counts(stored) /\ Counts(n.mark) /\ Counts(quiet)
  <2>1. Counts(n.mark) /\ Counts(OutOfScheme(K, n.mark))
    BY <1>1, OutsideCounts
  <2> QED BY <1>4, <2>1 DEF Counts, Marking
<1>6. Threshold \in Nat /\ quiet.confidence \in Nat
  BY <1>4, ThresholdAssumption DEF Marking
<1> HIDE DEF n, stored, quiet, agreed
<1>7. CASE ill
  <2>1. r = [mark |-> stored, reason |-> Illegible]
    BY <1>2, <1>7
  <2>2. r.mark = stored /\ r.reason \in Reasons /\ r.reason # NoReason
    BY <2>1, ReasonsDiffer
  <2> QED BY <1>3, <1>5, <2>2
<1>8. CASE ~ill /\ ~n.in_scheme
  <2>1. r = [mark |-> stored, reason |-> NotInScheme]
    BY <1>2, <1>8
  <2>2. r.mark = stored /\ r.reason \in Reasons /\ r.reason # NoReason
    BY <2>1, ReasonsDiffer
  <2> QED BY <1>3, <1>5, <2>2
<1>9. CASE ~ill /\ n.in_scheme /\ n.empty
  <2>1. r = [mark |-> stored, reason |-> LowConfidence]
    BY <1>2, <1>9
  <2>2. r.mark = stored /\ r.reason \in Reasons /\ r.reason # NoReason
    BY <2>1, ReasonsDiffer
  <2> QED BY <1>3, <1>5, <2>2
<1>10. CASE ~ill /\ n.in_scheme /\ ~n.empty
  <2>1. CASE v.verdict = "ESCALATE"
    <3>1. r = [mark |-> n.mark, reason |-> Escalated]
      BY <1>2, <1>10, <2>1
    <3>2. r.mark = n.mark /\ r.reason \in Reasons /\ r.reason # NoReason
      BY <3>1, ReasonsDiffer
    <3> QED BY <1>1, <1>10, <1>5, <3>2
  <2>2. CASE v.verdict # "ESCALATE" /\ adjust /\ ~agreed
    <3>1. r = [mark |-> n.mark, reason |-> Disagree]
      BY <1>2, <1>10, <2>2
    <3>2. r.mark = n.mark /\ r.reason \in Reasons /\ r.reason # NoReason
      BY <3>1, ReasonsDiffer
    <3> QED BY <1>1, <1>10, <1>5, <3>2
  <2>3. CASE v.verdict # "ESCALATE" /\ ~(adjust /\ ~agreed)
    <3>1. r = [mark |-> quiet, reason |-> IF Threshold # 0 /\ quiet.confidence < Threshold
                                         THEN LowConfidence ELSE NoReason]
      BY <1>2, <1>10, <2>3
    <3>2. r.mark = quiet /\ r.reason \in Reasons /\ (r.reason = NoReason => quiet.confidence >= Threshold)
      BY <1>6, <3>1, ReasonsDiffer
    <3>3. r.reason = NoReason => Undoubted(K, m, row, v, ill, r.mark)
      BY <1>1, <1>4, <1>10, <2>3, <3>2 DEF Undoubted, n
    <3> QED BY <1>4, <1>10, <1>5, <3>2, <3>3
  <2> QED BY <2>1, <2>2, <2>3
<1> QED BY <1>1, <1>7, <1>8, <1>9, <1>10

\* A merge, of the marks of b or those marks with what they lost restored.
Held(b)   == {b.final[k] : k \in DOMAIN b.final} \cup {Restored(b.final[k]) : k \in DOMAIN b.final}
Merges(b) == [final : [DOMAIN b.final -> Held(b)], reasons : UNION {[S -> Reasons] : S \in SUBSET DOMAIN b.final}]

\* The parts of a merge, before slips are looked at: each part is there once, what the marker skipped or
\* invented is asked about, what the scheme accounts for adds up, and what is not asked about is undoubted.
BaseSound(K, R, M, Rv, I, b) ==
    /\ DOMAIN b.final = Keys(R) \cup Keys(M) /\ b \in Merges(b) /\ \A k \in DOMAIN b.final : Counts(b.final[k])
    /\ (Keys(R) \ Keys(M)) \cup (Keys(M) \ Keys(R)) \subseteq DOMAIN b.reasons
    /\ \A k \in Keys(R) : K = "mark_scheme" /\ b.final[k].in_scheme => AddsUp(b.final[k], FirstOf(R, k))
    /\ \A k \in DOMAIN b.final \ DOMAIN b.reasons :
          Undoubted(K, FirstOf(M, k), FirstOf(R, k), VerdictOn(Rv, k), k \in I, b.final[k])

\* There is a verdict on every part that the marker marked.
LEMMA VerdictFits ==
    ASSUME NEW Rv, Rv.verdicts \in Seq(Verdict), NEW k \in DOMAIN Norm
    PROVE  VerdictOn(Rv, k) \in Verdict
<1>1. CASE k \in Keys(Rv.verdicts)
  BY <1>1, LastFits DEF VerdictOn
<1>2. CASE k \notin Keys(Rv.verdicts)
  BY <1>2 DEF VerdictOn, Verdict
<1> QED BY <1>1, <1>2

\* The parts merge soundly, whatever the marker and the reviewer sent.
LEMMA PartsMerge ==
    ASSUME NEW K \in V2Kinds, NEW R \in Seq(SchemeRow), NEW M \in Seq(Marking),
           NEW Rv, Rv.verdicts \in Seq(Verdict), NEW I
    PROVE  BaseSound(K, R, M, Rv, I, MergeParts(K, R, M, Rv, I))
<1> DEFINE all == Keys(R) \cup Keys(M)
           one == [k \in all |->
                    IF k \notin Keys(R)
                    THEN [mark |-> OutOfScheme(K, FirstOf(M, k)), reason |-> NotInScheme]
                    ELSE IF k \notin Keys(M)
                    THEN [mark |-> MissingMark(K, FirstOf(R, k)),
                          reason |-> IF k \in I THEN Illegible ELSE LowConfidence]
                    ELSE MergeOne(K, FirstOf(M, k), FirstOf(R, k), VerdictOn(Rv, k), k \in I)]
           asked == {k \in all : one[k].reason # NoReason}
           b     == MergeParts(K, R, M, Rv, I)
<1>1. b = [final |-> [k \in all |-> one[k].mark], reasons |-> [k \in asked |-> one[k].reason]]
  BY DEF MergeParts
<1>2. \A k \in Keys(M) : FirstOf(M, k) \in Marking /\ FirstOf(M, k).key = k /\ k \in DOMAIN Norm
  <2> SUFFICES ASSUME NEW k \in Keys(M) PROVE FirstOf(M, k) \in Marking /\ FirstOf(M, k).key = k /\ k \in DOMAIN Norm
    OBVIOUS
  <2>1. FirstOf(M, k) \in Marking /\ FirstOf(M, k).key = k
    BY FirstFits
  <2> QED BY <2>1 DEF Marking
<1>3. \A k \in Keys(R) : FirstOf(R, k) \in SchemeRow
  BY FirstFits
<1>4. \A k \in all \ Keys(R) : one[k].reason = NotInScheme /\ one[k].mark = OutOfScheme(K, FirstOf(M, k))
  OBVIOUS
<1>5. \A k \in all \ Keys(M) : /\ one[k].mark = MissingMark(K, FirstOf(R, k))
                               /\ one[k].reason \in {Illegible, LowConfidence}
  OBVIOUS
<1>6. \A k \in Keys(R) \cap Keys(M) :
            one[k] = MergeOne(K, FirstOf(M, k), FirstOf(R, k), VerdictOn(Rv, k), k \in I)
  OBVIOUS
<1> HIDE DEF one
<1>7. \A k \in Keys(R) \cap Keys(M) :
         /\ one[k].reason \in Reasons /\ Counts(one[k].mark)
         /\ K = "mark_scheme" /\ one[k].mark.in_scheme => AddsUp(one[k].mark, FirstOf(R, k))
         /\ one[k].reason = NoReason =>
               Undoubted(K, FirstOf(M, k), FirstOf(R, k), VerdictOn(Rv, k), k \in I, one[k].mark)
  <2> TAKE k \in Keys(R) \cap Keys(M)
  <2>1. /\ FirstOf(M, k) \in Marking /\ FirstOf(R, k) \in SchemeRow /\ VerdictOn(Rv, k) \in Verdict
        /\ (k \in I) \in BOOLEAN
    BY <1>2, <1>3, VerdictFits
  <2> QED BY <1>6, <2>1, OneMerges
<1>8. ASSUME K = "mark_scheme", NEW k \in all \ Keys(M)
      PROVE  AddsUp(one[k].mark, FirstOf(R, k))
  <2> DEFINE row == FirstOf(R, k)
             m   == MissingMark(K, row)
  <2>1. row \in SchemeRow /\ one[k].mark = m
    BY <1>3, <1>5
  <2>2. m.awarded = AllLost(row) /\ m.total = 0
    BY <1>8 DEF MissingMark
  <2> HIDE DEF m, row
  <2>3. AddsUp(m, row)
    BY <2>1, <2>2, AllLostFits DEF AddsUp
  <2> QED BY <2>1, <2>3 DEF row
<1>9. \A k \in all : one[k].reason \in Reasons
  BY <1>4, <1>5, <1>7, ReasonsDiffer
<1>10. \A k \in all : Counts(one[k].mark)
  <2> SUFFICES ASSUME NEW k \in all PROVE Counts(one[k].mark)
    OBVIOUS
  <2>1. CASE k \notin Keys(R)
    BY <1>2, <1>4, <2>1, OutsideCounts
  <2>2. CASE k \notin Keys(M)
    <3> DEFINE row == FirstOf(R, k)
               m   == MissingMark(K, row)
    <3>1. row \in SchemeRow /\ one[k].mark = m
      BY <1>3, <1>5, <2>2
    <3>2. m.total = 0 /\ m.awarded = IF K = "mark_scheme" THEN AllLost(row) ELSE <<>>
      BY DEF MissingMark
    <3> HIDE DEF m, row
    <3>3. m.awarded \in Seq(Allocation)
      BY <3>1, <3>2, AllLostFits
    <3> QED BY <3>1, <3>2, <3>3 DEF Counts
  <2>3. CASE k \in Keys(R) \cap Keys(M)
    BY <1>7, <2>3
  <2> QED BY <2>1, <2>2, <2>3
<1> DEFINE final   == [k \in all |-> one[k].mark]
           reasons == [k \in asked |-> one[k].reason]
<1>11. b.final = final /\ b.reasons = reasons
  BY <1>1
<1>12. asked \in SUBSET all /\ reasons \in [asked -> Reasons] /\ DOMAIN reasons = asked /\ DOMAIN final = all
  BY <1>9
<1>13. (Keys(R) \ Keys(M)) \cup (Keys(M) \ Keys(R)) \subseteq asked
  BY <1>4, <1>5, ReasonsDiffer
<1>14. \A k \in Keys(R) : K = "mark_scheme" /\ final[k].in_scheme => AddsUp(final[k], FirstOf(R, k))
  BY <1>7, <1>8
<1>15. \A k \in all \ asked :
            Undoubted(K, FirstOf(M, k), FirstOf(R, k), VerdictOn(Rv, k), k \in I, final[k])
  <2> TAKE k \in all \ asked
  <2>1. k \in Keys(R) \cap Keys(M) /\ one[k].reason = NoReason /\ final[k] = one[k].mark
    BY <1>13
  <2> QED BY <1>7, <2>1
<1>16. b \in Merges(b) /\ DOMAIN b.final = all
  <2>1. DOMAIN b.final = all /\ b = [final |-> final, reasons |-> reasons]
    BY <1>1
  <2>2. final \in [all -> Held(b)]
    BY <1>11, <2>1 DEF Held
  <2>3. reasons \in UNION {[S -> Reasons] : S \in SUBSET all}
    BY <1>12
  <2> HIDE DEF all, final, reasons, b
  <2> QED BY <2>1, <2>2, <2>3 DEF Merges
<1>17. \A k \in all : Counts(final[k])
  BY <1>10
<1> HIDE DEF all, asked, final, reasons, b
<1>18. BaseSound(K, R, M, Rv, I, b)
  BY <1>11, <1>12, <1>13, <1>14, <1>15, <1>16, <1>17 DEF BaseSound, all
<1> QED BY <1>18 DEF b
-----------------------------------------------------------------------------
(* Slips that cost marks twice *)

\* One lost allocation restored: the total is larger by its marks, and the mark adds up as before.
LEMMA RestoredFits ==
    ASSUME NEW m \in Marking, NEW i, Lost(m) = {i}, m.total = Given(m.awarded)
    PROVE  /\ Restored(m) \in Marking /\ Lost(Restored(m)) = {}
           /\ Restored(m).confidence = m.confidence /\ Restored(m).in_scheme = m.in_scheme
           /\ i \in DOMAIN Restored(m).awarded /\ Restored(m).total = m.total + Restored(m).awarded[i].marks
           /\ \A row : AddsUp(m, row) => AddsUp(Restored(m), row)
<1> DEFINE a  == m.awarded
           aw == [j \in DOMAIN a |-> [a[j] EXCEPT !.got = TRUE]]
<1>1. a \in Seq(Allocation)
  BY DEF Marking
<1>2. /\ Len(a) \in Nat /\ DOMAIN a = 1 .. Len(a) /\ \A j \in DOMAIN a : a[j] \in Allocation
  BY <1>1
<1>3. i \in DOMAIN a /\ ~a[i].got /\ \A j \in DOMAIN a : j # i => a[j].got
  BY DEF Lost
<1>4. \A j \in DOMAIN a : /\ aw[j] \in Allocation /\ aw[j].got
                          /\ aw[j].label = a[j].label /\ aw[j].marks = a[j].marks
  BY <1>2 DEF Allocation
<1>5. aw \in Seq(Allocation) /\ DOMAIN aw = DOMAIN a /\ Len(aw) = Len(a)
  <2>1. aw \in [1 .. Len(a) -> Allocation]
    BY <1>2, <1>4
  <2> QED BY <1>2, <2>1
<1>6. Restored(m) = With(m, aw, Given(aw))
  BY DEF Restored, With
<1> HIDE DEF aw
<1>7. /\ Gifts(a) \in Seq(Nat) /\ Gifts(aw) \in Seq(Nat) /\ Len(Gifts(a)) = Len(Gifts(aw))
      /\ Given(a) = Added(Gifts(a)) /\ Given(aw) = Added(Gifts(aw)) /\ Given(aw) \in Nat /\ Given(a) \in Nat
  BY <1>1, <1>5, GivenFits
<1>8. DOMAIN Gifts(a) = DOMAIN a /\ DOMAIN Gifts(aw) = DOMAIN a
  BY <1>5 DEF Gifts
<1>9. a[i].marks \in Nat /\ Gifts(a)[i] = 0 /\ Gifts(aw)[i] = a[i].marks
  BY <1>2, <1>3, <1>4, <1>5 DEF Gifts, Allocation
<1>10. \A j \in DOMAIN a : j # i => Gifts(aw)[j] = Gifts(a)[j]
  BY <1>3, <1>4, <1>5 DEF Gifts
<1>11. Given(aw) = Given(a) + a[i].marks
  <2> DEFINE x == Gifts(a)
             y == Gifts(aw)
             d == a[i].marks
  <2>1. /\ x \in Seq(Nat) /\ y \in Seq(Nat) /\ Len(x) = Len(y) /\ i \in DOMAIN x /\ d \in Nat
        /\ y[i] = x[i] + d /\ \A j \in DOMAIN x : j # i => y[j] = x[j]
    BY <1>3, <1>7, <1>8, <1>9, <1>10
  <2>2. Given(a) = Added(x) /\ Given(aw) = Added(y)
    BY <1>7
  <2> HIDE DEF a, x, y, d
  <2>3. Added(y) = Added(x) + d
    BY <2>1, AddedMore
  <2> QED BY <2>2, <2>3 DEF d
<1> DEFINE r == With(m, aw, Given(aw))
<1>12. /\ r \in Marking /\ r.awarded = aw /\ r.total = Given(aw)
       /\ r.confidence = m.confidence /\ r.in_scheme = m.in_scheme
  BY <1>5, <1>7, Remarked
<1> HIDE DEF r
<1>13. Lost(r) = {}
  BY <1>4, <1>5, <1>12 DEF Lost
<1>14. i \in DOMAIN r.awarded /\ r.total = m.total + r.awarded[i].marks
  BY <1>3, <1>4, <1>5, <1>11, <1>12
<1>15. \A row : AddsUp(m, row) => AddsUp(r, row)
  BY <1>4, <1>5, <1>12 DEF AddsUp
<1> QED BY <1>6, <1>12, <1>13, <1>14, <1>15 DEF r

\* The part that a reviewer's id names is one of those whose ids are compared like it.
LEMMA NamedFits ==
    ASSUME NEW K, NEW R \in Seq(SchemeRow), NEW M \in Seq(Marking), NEW acc, NEW id,
           DOMAIN acc.final \subseteq Keys(R) \cup Keys(M), Alike(K, acc, id) # {}
    PROVE  Named(K, R, M, acc, id) \in Alike(K, acc, id)
<1> DEFINE B        == Alike(K, acc, id)
           place(k) == Place(R, M, k)
           most     == Len(R) + Len(M)
           C        == {most - place(k) : k \in B}
<1>1. \A k \in B : place(k) \in Nat /\ place(k) <= most /\ most \in Nat
  <2> SUFFICES ASSUME NEW k \in B PROVE place(k) \in Nat /\ place(k) <= most /\ most \in Nat
    OBVIOUS
  <2>1. k \in Keys(R) \cup Keys(M)
    BY DEF Alike
  <2>2. Len(R) \in Nat /\ Len(M) \in Nat /\ DOMAIN R = 1 .. Len(R) /\ DOMAIN M = 1 .. Len(M)
    OBVIOUS
  <2>3. CASE k \in Keys(R)
    <3>1. FirstAt(R, k) \in 1 .. Len(R)
      BY <2>2, <2>3, FirstFits
    <3> QED BY <2>2, <2>3, <3>1 DEF Place
  <2>4. CASE k \notin Keys(R)
    <3>1. FirstAt(M, k) \in 1 .. Len(M)
      BY <2>1, <2>2, <2>4, FirstFits
    <3> QED BY <2>2, <2>4, <3>1 DEF Place
  <2> QED BY <2>3, <2>4
<1> HIDE DEF place, most
<1>2. C \in SUBSET Nat /\ C # {}
  <2>1. \A k \in B : most - place(k) \in Nat
    BY <1>1
  <2> QED BY <2>1
<1>3. PICK c \in C : \A d \in C : c <= d
  BY <1>2, LeastNatural
<1>4. PICK k \in B : c = most - place(k)
  BY <1>3
<1>5. \A j \in B : place(j) <= place(k)
  <2> SUFFICES ASSUME NEW j \in B PROVE place(j) <= place(k)
    OBVIOUS
  <2>1. most - place(k) <= most - place(j)
    BY <1>3, <1>4
  <2>2. most \in Nat /\ place(j) \in Nat /\ place(k) \in Nat
    BY <1>1
  <2> QED BY <2>1, <2>2
<1> QED BY <1>5 DEF Named, place
\* Some slip has a part with an id like k among those it cost marks in later.
PaidFor(Rv, k) ==
    \E i \in DOMAIN Rv.penalties : \E j \in 2 .. Len(Rv.penalties[i]) : Norm[Rv.penalties[i][j]] = Norm[k]

\* f is the mark of part k as it was merged, or with the one allocation it lost to such a slip restored.
FinalFits(K, Rv, b, f, k) ==
    \/ f = b.final[k]
    \/ /\ K = "mark_scheme" /\ k \notin DOMAIN b.reasons /\ PaidFor(Rv, k)
       /\ f = Restored(b.final[k]) /\ \E i : Lost(b.final[k]) = {i}

\* What looking at slips may make of the merge b.
Settled(K, Rv, b) ==
    {acc \in Merges(b) : /\ DOMAIN b.reasons \subseteq DOMAIN acc.reasons
                         /\ \A k \in DOMAIN b.final : FinalFits(K, Rv, b, acc.final[k], k)}

\* A part that is not asked about is a mark, and adds up.
LEMMA QuietFits ==
    ASSUME NEW K, NEW R, NEW M, NEW Rv, NEW I, NEW b, BaseSound(K, R, M, Rv, I, b), K = "mark_scheme",
           NEW k \in DOMAIN b.final \ DOMAIN b.reasons
    PROVE  /\ b.final[k] \in Marking /\ b.final[k].in_scheme /\ k \in Keys(R) \cap Keys(M)
           /\ AddsUp(b.final[k], FirstOf(R, k))
<1>1. b.final[k] \in Marking /\ b.final[k].in_scheme
  BY DEF BaseSound, Undoubted
<1>2. k \in Keys(R) \cap Keys(M)
  BY DEF BaseSound
<1> QED BY <1>1, <1>2 DEF BaseSound

\* To ask about more parts keeps a merge settled.
LEMMA AskFits ==
    ASSUME NEW K, NEW Rv, NEW b, NEW acc \in Settled(K, Rv, b), NEW S \in SUBSET DOMAIN b.final, NEW why \in Reasons
    PROVE  /\ Ask(acc, S, why) \in Settled(K, Rv, b) /\ Ask(acc, S, why).final = acc.final
           /\ DOMAIN Ask(acc, S, why).reasons = S \cup DOMAIN acc.reasons
<1> DEFINE rs == [k \in S \cup DOMAIN acc.reasons |-> IF k \in DOMAIN acc.reasons THEN acc.reasons[k] ELSE why]
           a  == Ask(acc, S, why)
<1>1. acc \in Merges(b)
  BY DEF Settled
<1>2. PICK D \in SUBSET DOMAIN b.final : acc.reasons \in [D -> Reasons]
  BY <1>1 DEF Merges
<1>3. rs \in [S \cup D -> Reasons] /\ DOMAIN rs = S \cup D /\ DOMAIN acc.reasons = D
  BY <1>2
<1>4. a = [acc EXCEPT !.reasons = rs]
  BY DEF Ask
<1> HIDE DEF rs
<1>5. a = [final |-> acc.final, reasons |-> rs]
  BY <1>1, <1>4 DEF Merges
<1> HIDE DEF a
<1>6. a.final = acc.final /\ a.reasons = rs
  BY <1>5
<1>7. a \in Merges(b)
  <2>1. acc.final \in [DOMAIN b.final -> Held(b)]
    BY <1>1 DEF Merges
  <2>2. rs \in UNION {[T -> Reasons] : T \in SUBSET DOMAIN b.final}
    BY <1>2, <1>3
  <2> QED BY <1>5, <2>1, <2>2 DEF Merges
<1>8. a \in Settled(K, Rv, b)
  BY <1>3, <1>6, <1>7 DEF Settled
<1> QED BY <1>3, <1>6, <1>8 DEF a

\* A part at which a slip is taken up keeps the merge settled.
LEMMA UnpenaliseFits ==
    ASSUME NEW K, NEW R, NEW M, NEW Rv, NEW I, NEW b, BaseSound(K, R, M, Rv, I, b),
           NEW acc \in Settled(K, Rv, b), NEW k \in DOMAIN b.final, K = "mark_scheme" => PaidFor(Rv, k)
    PROVE  Unpenalise(K, acc, k) \in Settled(K, Rv, b)
<1> DEFINE m == acc.final[k]
           u == Unpenalise(K, acc, k)
<1>1. /\ acc \in Merges(b) /\ DOMAIN b.reasons \subseteq DOMAIN acc.reasons
      /\ \A j \in DOMAIN b.final : FinalFits(K, Rv, b, acc.final[j], j)
  BY DEF Settled
<1>2. CASE K # "mark_scheme" \/ k \in DOMAIN acc.reasons \/ Lost(m) = {}
  BY <1>2 DEF Unpenalise
<1>3. CASE K = "mark_scheme" /\ k \notin DOMAIN acc.reasons /\ Lost(m) # {} /\ \E i \in DOMAIN m.awarded : Lost(m) = {i}
  <2>1. u = [acc EXCEPT !.final[k] = Restored(m)]
    BY <1>3 DEF Unpenalise
  <2>2. k \notin DOMAIN b.reasons /\ PaidFor(Rv, k)
    BY <1>1, <1>3
  <2>3. b.final[k] \in Marking /\ b.final[k].total = Given(b.final[k].awarded)
    BY <1>3, <2>2, QuietFits DEF AddsUp
  <2>4. m = b.final[k]
    <3>1. CASE m = Restored(b.final[k]) /\ \E i : Lost(b.final[k]) = {i}
      BY <1>3, <2>3, <3>1, RestoredFits
    <3> QED BY <1>1, <3>1 DEF FinalFits
  <2>5. FinalFits(K, Rv, b, Restored(m), k) /\ Restored(m) \in Held(b)
    BY <1>3, <2>2, <2>4 DEF FinalFits, Held
  <2> DEFINE f == [acc.final EXCEPT ![k] = Restored(m)]
  <2>6. acc.final \in [DOMAIN b.final -> Held(b)]
    BY <1>1 DEF Merges
  <2> HIDE DEF m
  <2>7. f \in [DOMAIN b.final -> Held(b)] /\ \A j \in DOMAIN b.final : f[j] = IF j = k THEN Restored(m) ELSE acc.final[j]
    BY <2>5, <2>6
  <2>8. u = [final |-> f, reasons |-> acc.reasons]
    BY <1>1, <2>1 DEF Merges
  <2> HIDE DEF f, u
  <2>9. u.final = f /\ u.reasons = acc.reasons
    BY <2>8
  <2>10. u \in Merges(b)
    BY <1>1, <2>7, <2>8 DEF Merges
  <2>11. \A j \in DOMAIN b.final : FinalFits(K, Rv, b, u.final[j], j)
    BY <1>1, <2>5, <2>7, <2>9
  <2>12. u \in Settled(K, Rv, b)
    BY <1>1, <2>9, <2>10, <2>11 DEF Settled
  <2> QED BY <2>12 DEF u
<1>4. CASE K = "mark_scheme" /\ k \notin DOMAIN acc.reasons /\ Lost(m) # {} /\ ~(\E i \in DOMAIN m.awarded : Lost(m) = {i})
  <2>1. u = Ask(acc, {k}, DoublePenalty)
    BY <1>4 DEF Unpenalise
  <2>2. DoublePenalty \in Reasons
    BY DEF Reasons
  <2> QED BY <2>1, <2>2, AskFits
<1> QED BY <1>2, <1>3, <1>4
\* So does a slip at one of its later parts,
LEMMA ForgivenFits ==
    ASSUME NEW K, NEW R \in Seq(SchemeRow), NEW M \in Seq(Marking), NEW Rv, NEW I, NEW b,
           BaseSound(K, R, M, Rv, I, b), NEW acc \in Settled(K, Rv, b),
           NEW i \in DOMAIN Rv.penalties, NEW j \in 2 .. Len(Rv.penalties[i])
    PROVE  Forgiven(K, R, M, acc, Rv.penalties[i][j]) \in Settled(K, Rv, b)
<1> DEFINE id == Rv.penalties[i][j]
           k  == Named(K, R, M, acc, id)
<1>1. CASE Alike(K, acc, id) = {}
  BY <1>1 DEF Forgiven
<1>2. CASE Alike(K, acc, id) # {}
  <2>1. DOMAIN acc.final = DOMAIN b.final /\ DOMAIN b.final = Keys(R) \cup Keys(M)
    BY DEF Settled, Merges, BaseSound
  <2> HIDE DEF id
  <2>2. k \in Alike(K, acc, id)
    BY <1>2, <2>1, NamedFits
  <2> HIDE DEF k
  <2>3. k \in DOMAIN b.final /\ (K = "mark_scheme" => Norm[k] = Norm[id])
    BY <2>1, <2>2 DEF Alike
  <2>4. K = "mark_scheme" => PaidFor(Rv, k)
    BY <2>3 DEF PaidFor, id
  <2>5. Unpenalise(K, acc, k) \in Settled(K, Rv, b)
    BY <2>3, <2>4, UnpenaliseFits
  <2>6. Forgiven(K, R, M, acc, id) = Unpenalise(K, acc, k)
    BY <1>2 DEF Forgiven, k
  <2> QED BY <2>5, <2>6 DEF id
<1> QED BY <1>1, <1>2

\* at all of its parts in turn,
LEMMA OneSlipFits ==
    ASSUME NEW K, NEW R \in Seq(SchemeRow), NEW M \in Seq(Marking), NEW Rv, NEW I, NEW b,
           BaseSound(K, R, M, Rv, I, b), NEW acc \in Settled(K, Rv, b),
           NEW i \in DOMAIN Rv.penalties, Len(Rv.penalties[i]) \in Nat
    PROVE  OneSlip(K, R, M, acc, Rv.penalties[i]) \in Settled(K, Rv, b)
<1> DEFINE ids   == Rv.penalties[i]
           n     == Len(ids)
           X     == Settled(K, Rv, b)
           Round(x, j) == IF j <= 1 THEN acc ELSE Forgiven(K, R, M, x, ids[j])
           F     == [p \in X \X (1 .. n) |-> Round(p[1], p[2])]
           after == CHOOSE g : g = [j \in 0 .. n |-> IF j <= 1 THEN acc ELSE Forgiven(K, R, M, g[j - 1], ids[j])]
<1>1. \A x \in X, j \in 1 .. n : Round(x, j) \in X
  <2> SUFFICES ASSUME NEW x \in X, NEW j \in 1 .. n PROVE Round(x, j) \in X
    OBVIOUS
  <2>1. CASE j <= 1
    BY <2>1
  <2>2. CASE ~(j <= 1)
    <3>1. j \in 2 .. Len(Rv.penalties[i])
      BY <2>2
    <3>2. Forgiven(K, R, M, x, Rv.penalties[i][j]) \in Settled(K, Rv, b)
      BY <3>1, ForgivenFits
    <3> QED BY <2>2, <3>2
  <2> QED BY <2>1, <2>2
<1>2. n \in Nat /\ acc \in X /\ OneSlip(K, R, M, acc, ids) = after[n]
  BY DEF OneSlip
<1> HIDE DEF X, n, ids, Round
<1>3. F \in [X \X (1 .. n) -> X] /\ \A x \in X, j \in 1 .. n : F[<<x, j>>] = Round(x, j)
  BY <1>1
<1> HIDE DEF F
<1>4. PICK f : IsLoop(f, n, X, acc, F)
  BY <1>2, <1>3, LoopRuns
<1>5. \A j \in 0 .. n : f[j] = IF j <= 1 THEN acc ELSE Forgiven(K, R, M, f[j - 1], ids[j])
  <2> SUFFICES ASSUME NEW j \in 0 .. n
               PROVE  f[j] = IF j <= 1 THEN acc ELSE Forgiven(K, R, M, f[j - 1], ids[j])
    OBVIOUS
  <2>1. CASE j = 0
    <3>1. f[j] = acc /\ j <= 1
      BY <1>4, <2>1 DEF IsLoop
    <3> QED BY <3>1
  <2>2. CASE j # 0
    <3>1. j \in 1 .. n /\ j - 1 \in 0 .. n
      BY <1>2, <2>2
    <3>2. f[j] = F[<<f[j - 1], j>>] /\ f[j - 1] \in X
      BY <1>4, <2>2, <3>1 DEF IsLoop
    <3> QED BY <1>3, <3>1, <3>2 DEF Round
  <2> QED BY <2>1, <2>2
<1>6. f = [j \in 0 .. n |-> IF j <= 1 THEN acc ELSE Forgiven(K, R, M, f[j - 1], ids[j])]
  BY <1>4, <1>5 DEF IsLoop
<1>7. after = [j \in 0 .. n |-> IF j <= 1 THEN acc ELSE Forgiven(K, R, M, after[j - 1], ids[j])]
  BY <1>6
<1> HIDE DEF after
<1>8. after[0] \in X
  <2>1. 0 \in 0 .. n /\ 0 <= 1
    BY <1>2
  <2> QED BY <1>2, <1>7, <2>1
<1>9. \A j \in 1 .. n : after[j - 1] \in X => after[j] \in X
  <2> SUFFICES ASSUME NEW j \in 1 .. n, after[j - 1] \in X PROVE after[j] \in X
    OBVIOUS
  <2>1. j \in 0 .. n
    BY <1>2
  <2>2. after[j] = Round(after[j - 1], j)
    BY <1>7, <2>1 DEF Round
  <2> QED BY <1>1, <2>2
<1>10. n \in 0 .. n /\ \A j \in 0 .. n : after[j] \in X
  <2>1. n \in Nat
    BY <1>2
  <2>2. \A j \in 0 .. n : after[j] \in X
    BY <1>8, <1>9, <2>1, AlongLoop
  <2> QED BY <2>1, <2>2
<1> QED BY <1>2, <1>10 DEF X, ids

\* and all slips do.
LEMMA PenaltiesFit ==
    ASSUME NEW K, NEW R \in Seq(SchemeRow), NEW M \in Seq(Marking), NEW Rv, NEW I, NEW b,
           BaseSound(K, R, M, Rv, I, b), Rv.penalties \in Seq(Seq(DOMAIN Norm))
    PROVE  ApplyDoublePenalties(K, R, M, Rv, b) \in Settled(K, Rv, b)
<1> DEFINE n     == Len(Rv.penalties)
           X     == Settled(K, Rv, b)
           Round(x, j) == OneSlip(K, R, M, x, Rv.penalties[j])
           F     == [p \in X \X (1 .. n) |-> Round(p[1], p[2])]
           after == CHOOSE g : g = [j \in 0 .. n |-> IF j = 0 THEN b ELSE OneSlip(K, R, M, g[j - 1], Rv.penalties[j])]
<1>1. \A x \in X, j \in 1 .. n : Round(x, j) \in X
  <2> SUFFICES ASSUME NEW x \in X, NEW j \in 1 .. n PROVE Round(x, j) \in X
    OBVIOUS
  <2>1. j \in DOMAIN Rv.penalties /\ Rv.penalties[j] \in Seq(DOMAIN Norm)
    OBVIOUS
  <2>2. Len(Rv.penalties[j]) \in Nat
    BY <2>1
  <2> QED BY <2>1, <2>2, OneSlipFits
<1>2. n \in Nat /\ ApplyDoublePenalties(K, R, M, Rv, b) = after[n]
  BY DEF ApplyDoublePenalties
<1>3. b \in X
  BY DEF BaseSound, Settled, FinalFits
<1> HIDE DEF X, n, Round
<1>4. F \in [X \X (1 .. n) -> X] /\ \A x \in X, j \in 1 .. n : F[<<x, j>>] = Round(x, j)
  BY <1>1
<1> HIDE DEF F
<1>5. PICK f : IsLoop(f, n, X, b, F)
  BY <1>2, <1>3, <1>4, LoopRuns
<1>6. \A j \in 0 .. n : f[j] = IF j = 0 THEN b ELSE OneSlip(K, R, M, f[j - 1], Rv.penalties[j])
  <2> SUFFICES ASSUME NEW j \in 0 .. n
               PROVE  f[j] = IF j = 0 THEN b ELSE OneSlip(K, R, M, f[j - 1], Rv.penalties[j])
    OBVIOUS
  <2>1. CASE j = 0
    BY <1>5, <2>1 DEF IsLoop
  <2>2. CASE j # 0
    <3>1. j \in 1 .. n /\ j - 1 \in 0 .. n
      BY <1>2, <2>2
    <3>2. f[j] = F[<<f[j - 1], j>>] /\ f[j - 1] \in X
      BY <1>5, <2>2, <3>1 DEF IsLoop
    <3> QED BY <1>4, <2>2, <3>1, <3>2 DEF Round
  <2> QED BY <2>1, <2>2
<1>7. f = [j \in 0 .. n |-> IF j = 0 THEN b ELSE OneSlip(K, R, M, f[j - 1], Rv.penalties[j])]
  BY <1>5, <1>6 DEF IsLoop
<1>8. after = [j \in 0 .. n |-> IF j = 0 THEN b ELSE OneSlip(K, R, M, after[j - 1], Rv.penalties[j])]
  BY <1>7
<1> HIDE DEF after
<1>9. after[0] \in X
  <2>1. 0 \in 0 .. n
    BY <1>2
  <2> QED BY <1>3, <1>8, <2>1
<1>10. \A j \in 1 .. n : after[j - 1] \in X => after[j] \in X
  <2> SUFFICES ASSUME NEW j \in 1 .. n, after[j - 1] \in X PROVE after[j] \in X
    OBVIOUS
  <2>1. j \in 0 .. n /\ j # 0
    BY <1>2
  <2>2. after[j] = Round(after[j - 1], j)
    BY <1>8, <2>1 DEF Round
  <2> QED BY <1>1, <2>2
<1>11. n \in 0 .. n /\ \A j \in 0 .. n : after[j] \in X
  <2>1. n \in Nat
    BY <1>2
  <2>2. \A j \in 0 .. n : after[j] \in X
    BY <1>9, <1>10, <2>1, AlongLoop
  <2> QED BY <2>1, <2>2
<1> QED BY <1>2, <1>11 DEF X
-----------------------------------------------------------------------------
(* The merge of a script *)

\* A merge is sound up to the slips, and what they settle.
MergeSound(K, R, M, Rv, doubts, w) ==
    \E b : BaseSound(K, R, M, Rv, IllegibleKeys(K, R, doubts), b) /\ w \in Settled(K, Rv, b)

\* The merge of a script is sound, with its files whole and with them cut.
LEMMA MergeFits ==
    ASSUME NEW K \in V2Kinds, NEW R \in Seq(SchemeRow), NEW M \in Seq(Marking), NEW Rv, NEW doubts,
           Rv.verdicts \in Seq(Verdict), Rv.penalties \in Seq(Seq(DOMAIN Norm))
    PROVE  /\ MergeSound(K, R, M, Rv, doubts, Merge(K, R, M, Rv, doubts))
           /\ MergeSound(K, R, M, Rv, doubts, Truncated(Merge(K, R, M, Rv, doubts)))
<1> DEFINE I == IllegibleKeys(K, R, doubts)
           b == MergeParts(K, R, M, Rv, I)
           w == Merge(K, R, M, Rv, doubts)
<1>1. BaseSound(K, R, M, Rv, I, b)
  BY PartsMerge
<1>2. w = ApplyDoublePenalties(K, R, M, Rv, b)
  BY DEF Merge
<1> HIDE DEF b, w, I
<1>3. w \in Settled(K, Rv, b)
  BY <1>1, <1>2, PenaltiesFit
<1>4. Truncated(w) \in Settled(K, Rv, b)
  <2>1. DOMAIN w.final \in SUBSET DOMAIN b.final
    BY <1>3 DEF Settled, Merges
  <2>2. InputTruncated \in Reasons
    BY DEF Reasons
  <2> QED BY <1>3, <2>1, <2>2, AskFits DEF Truncated
<1> QED BY <1>1, <1>3, <1>4 DEF MergeSound, I, w

\* Of what the scheme accounts for the marks add up.
LEMMA MergeAddsUp ==
    ASSUME NEW R \in Seq(SchemeRow), NEW M \in Seq(Marking), NEW Rv, NEW doubts, NEW w,
           MergeSound("mark_scheme", R, M, Rv, doubts, w),
           NEW k \in DOMAIN w.final \cap Keys(R), w.final[k].in_scheme
    PROVE  AddsUp(w.final[k], FirstOf(R, k))
<1> DEFINE K == "mark_scheme"
           I == IllegibleKeys(K, R, doubts)
<1>1. PICK b : BaseSound(K, R, M, Rv, I, b) /\ w \in Settled(K, Rv, b)
  BY DEF MergeSound
<1>2. DOMAIN w.final = DOMAIN b.final /\ FinalFits(K, Rv, b, w.final[k], k)
  BY <1>1 DEF Settled, Merges
<1> HIDE DEF I
<1>3. CASE w.final[k] = b.final[k]
  BY <1>1, <1>3 DEF BaseSound
<1>4. CASE /\ k \notin DOMAIN b.reasons
           /\ w.final[k] = Restored(b.final[k]) /\ \E i : Lost(b.final[k]) = {i}
  <2>1. k \in DOMAIN b.final \ DOMAIN b.reasons
    BY <1>2, <1>4
  <2>2. b.final[k] \in Marking /\ AddsUp(b.final[k], FirstOf(R, k))
    BY <1>1, <2>1, QuietFits
  <2>3. b.final[k].total = Given(b.final[k].awarded)
    BY <2>2 DEF AddsUp
  <2> QED BY <1>4, <2>2, <2>3, RestoredFits
<1> QED BY <1>2, <1>3, <1>4 DEF FinalFits

\* Every mark of a merge has its numbers.
LEMMA MergeCounts ==
    ASSUME NEW K, NEW R, NEW M, NEW Rv, NEW doubts, NEW w, MergeSound(K, R, M, Rv, doubts, w)
    PROVE  DOMAIN w.reasons \subseteq DOMAIN w.final /\ \A k \in DOMAIN w.final : Counts(w.final[k])
<1> DEFINE I == IllegibleKeys(K, R, doubts)
<1>1. PICK b : BaseSound(K, R, M, Rv, I, b) /\ w \in Settled(K, Rv, b)
  BY DEF MergeSound
<1>2. /\ w \in Merges(b) /\ DOMAIN w.final = DOMAIN b.final
      /\ \A k \in DOMAIN b.final : Counts(b.final[k]) /\ FinalFits(K, Rv, b, w.final[k], k)
  BY <1>1 DEF BaseSound, Settled, Merges
<1>3. DOMAIN w.reasons \subseteq DOMAIN w.final
  BY <1>2 DEF Merges
<1>4. ASSUME NEW k \in DOMAIN b.final PROVE Counts(w.final[k])
  <2>1. CASE w.final[k] = b.final[k]
    BY <1>2, <2>1
  <2>2. CASE w.final[k] # b.final[k]
    <3>1. /\ K = "mark_scheme" /\ k \notin DOMAIN b.reasons
          /\ w.final[k] = Restored(b.final[k]) /\ \E i : Lost(b.final[k]) = {i}
      BY <1>2, <2>2 DEF FinalFits
    <3>2. b.final[k] \in Marking /\ b.final[k].total = Given(b.final[k].awarded)
      BY <1>1, <3>1, QuietFits DEF AddsUp
    <3>3. w.final[k] \in Marking
      BY <3>1, <3>2, RestoredFits
    <3> QED BY <3>3 DEF Counts, Marking
  <2> QED BY <2>1, <2>2
<1> QED BY <1>2, <1>3, <1>4

\* What a quiet part of the merge is: QuietPart, of a merge.
QuietIn(K, R, M, Rv, doubts, w, k) ==
    LET n == Normalise(K, FirstOf(M, k), FirstOf(R, k))
        f == w.final[k]
    IN  /\ k \in Keys(R) /\ k \in Keys(M)
        /\ Norm[k] \notin {Norm[q] : q \in doubts}
        /\ n.in_scheme /\ ~n.empty
        /\ VerdictOn(Rv, k).verdict # "ESCALATE"
        /\ f.confidence >= Threshold
        /\ \/ f.total = n.mark.total
           \/ /\ K = "mark_scheme" /\ PaidFor(Rv, k)
              /\ \E i \in DOMAIN f.awarded : f.total = n.mark.total + f.awarded[i].marks

\* A part that a sound merge asks nobody about was beyond doubt.
LEMMA MergeIsQuiet ==
    ASSUME NEW K \in V2Kinds, NEW R \in Seq(SchemeRow), NEW M \in Seq(Marking), NEW Rv, NEW doubts, NEW w,
           MergeSound(K, R, M, Rv, doubts, w), NEW k \in DOMAIN w.final \ DOMAIN w.reasons
    PROVE  QuietIn(K, R, M, Rv, doubts, w, k)
<1> DEFINE I == IllegibleKeys(K, R, doubts)
           n == Normalise(K, FirstOf(M, k), FirstOf(R, k))
           f == w.final[k]
<1>1. PICK b : BaseSound(K, R, M, Rv, I, b) /\ w \in Settled(K, Rv, b)
  BY DEF MergeSound
<1>2. /\ DOMAIN w.final = DOMAIN b.final /\ DOMAIN b.reasons \subseteq DOMAIN w.reasons
      /\ FinalFits(K, Rv, b, f, k)
  BY <1>1 DEF Settled, Merges
<1>3. k \in DOMAIN b.final \ DOMAIN b.reasons
  BY <1>2
<1>4. k \in Keys(R) /\ k \in Keys(M)
  BY <1>1, <1>3 DEF BaseSound
<1>5. Undoubted(K, FirstOf(M, k), FirstOf(R, k), VerdictOn(Rv, k), k \in I, b.final[k])
  BY <1>1, <1>3 DEF BaseSound
<1>6. Norm[k] \notin {Norm[q] : q \in doubts}
  <2>1. k \notin I
    BY <1>5 DEF Undoubted
  <2> QED BY <1>4, <2>1 DEF IllegibleKeys
<1>7. /\ n.in_scheme /\ ~n.empty /\ VerdictOn(Rv, k).verdict # "ESCALATE"
      /\ b.final[k] \in Marking /\ b.final[k].confidence >= Threshold /\ b.final[k].total = n.mark.total
  BY <1>5 DEF Undoubted
<1> HIDE DEF I, n, f
<1>8. CASE f = b.final[k]
  BY <1>4, <1>6, <1>7, <1>8 DEF QuietIn, n, f
<1>9. CASE /\ K = "mark_scheme" /\ PaidFor(Rv, k)
           /\ f = Restored(b.final[k]) /\ \E i : Lost(b.final[k]) = {i}
  <2>1. b.final[k].total = Given(b.final[k].awarded)
    BY <1>1, <1>3, <1>9, QuietFits DEF AddsUp
  <2>2. PICK i : Lost(b.final[k]) = {i}
    BY <1>9
  <2>3. /\ f.confidence = b.final[k].confidence /\ i \in DOMAIN f.awarded
        /\ f.total = b.final[k].total + f.awarded[i].marks
    BY <1>7, <1>9, <2>1, <2>2, RestoredFits
  <2>4. f.confidence >= Threshold /\ f.total = n.mark.total + f.awarded[i].marks
    BY <1>7, <2>3
  <2> QED BY <1>4, <1>6, <1>7, <1>9, <2>3, <2>4 DEF QuietIn, n, f
<1> QED BY <1>2, <1>8, <1>9 DEF FinalFits
\* Every part is in the merge, and what the marker skipped or invented is asked about; if a file was cut
\* everything is.
LEMMA MergeIsWhole ==
    ASSUME NEW K, NEW R, NEW M, NEW Rv, NEW doubts, NEW w, MergeSound(K, R, M, Rv, doubts, w)
    PROVE  /\ DOMAIN w.final = Keys(R) \cup Keys(M)
           /\ Keys(R) \ Keys(M) \subseteq DOMAIN w.reasons /\ Keys(M) \ Keys(R) \subseteq DOMAIN w.reasons
           /\ DOMAIN Truncated(w).final = Keys(R) \cup Keys(M)
           /\ DOMAIN Truncated(w).final = DOMAIN Truncated(w).reasons
<1>1. PICK b : BaseSound(K, R, M, Rv, IllegibleKeys(K, R, doubts), b) /\ w \in Settled(K, Rv, b)
  BY DEF MergeSound
<1>2. /\ DOMAIN w.final = DOMAIN b.final /\ DOMAIN b.reasons \subseteq DOMAIN w.reasons
      /\ DOMAIN w.reasons \subseteq DOMAIN w.final
  BY <1>1 DEF Settled, Merges
<1>3. /\ DOMAIN b.final = Keys(R) \cup Keys(M)
      /\ (Keys(R) \ Keys(M)) \cup (Keys(M) \ Keys(R)) \subseteq DOMAIN b.reasons
  BY <1>1 DEF BaseSound
<1>4. InputTruncated \in Reasons /\ DOMAIN w.final \in SUBSET DOMAIN b.final
  BY <1>2 DEF Reasons
<1>5. /\ Truncated(w).final = w.final
      /\ DOMAIN Truncated(w).reasons = DOMAIN w.final \cup DOMAIN w.reasons
  BY <1>1, <1>4, AskFits DEF Truncated
<1> QED BY <1>2, <1>3, <1>5

\* Without a scheme: a question that is not asked about was readable, and taken as the reviewer or a
\* confident marker left it.
LEMMA QuestionsMerge ==
    ASSUME NEW M \in Seq(QuestionMark), NEW Rv, Rv.verdicts \in Seq(QuestionVerdict), NEW doubts,
           NEW i \in DOMAIN MergeCriteria(M, Rv, doubts).final
    PROVE  LET f == MergeCriteria(M, Rv, doubts).final[i]
               v == CriteriaVerdictOn(Rv, f.key)
           IN  f.key \notin DOMAIN MergeCriteria(M, Rv, doubts).reasons =>
                   /\ f.key \notin doubts /\ v.verdict # "ESCALATE"
                   /\ v.verdict = "APPROVE" => f = M[i] /\ f.confidence >= Threshold
<1> DEFINE w == MergeCriteria(M, Rv, doubts)
           f == w.final[i]
           m == M[i]
           v == CriteriaVerdictOn(Rv, m.key)
           Reason(j) == CriteriaReason(M[j], CriteriaVerdictOn(Rv, M[j].key), doubts)
           asked == {j \in DOMAIN M : Reason(j) # NoReason}
<1>1. /\ w.final = [j \in DOMAIN M |-> CriteriaMark(M[j], CriteriaVerdictOn(Rv, M[j].key), doubts)]
      /\ DOMAIN w.reasons = {M[j].key : j \in asked}
  BY DEF MergeCriteria
<1>2. i \in DOMAIN M /\ f = CriteriaMark(m, v, doubts) /\ m \in QuestionMark
  BY <1>1
<1>3. f.key = m.key
  BY <1>2 DEF CriteriaMark, QuestionMark
<1>4. v \in QuestionVerdict
  <2>1. m.key \in DOMAIN Norm
    BY <1>2 DEF QuestionMark
  <2>2. CASE m.key \in Keys(Rv.verdicts)
    BY <2>2, LastFits DEF CriteriaVerdictOn
  <2>3. CASE m.key \notin Keys(Rv.verdicts)
    BY <2>1, <2>3 DEF CriteriaVerdictOn, QuestionVerdict
  <2> QED BY <2>2, <2>3
<1>5. ASSUME f.key \notin DOMAIN w.reasons
      PROVE  /\ m.key \notin doubts /\ v.verdict # "ESCALATE"
             /\ v.verdict = "APPROVE" => f = m /\ m.confidence >= Threshold
  <2>1. Reason(i) = NoReason
    BY <1>1, <1>2, <1>3, <1>5
  <2>2. CriteriaReason(m, v, doubts) = NoReason
    BY <2>1
  <2> HIDE DEF v, m, f
  <2>3. v.verdict \in {"APPROVE", "ADJUST", "ESCALATE"}
    BY <1>4 DEF QuestionVerdict
  <2>4. m.confidence \in Nat /\ Threshold \in Nat
    BY <1>2, ThresholdAssumption DEF QuestionMark
  <2>5. m.key \notin doubts /\ v.verdict # "ESCALATE"
    BY <2>2, <2>3 DEF CriteriaReason, InDoubt, NoReason, IllegibleText, Escalated
  <2>6. ASSUME v.verdict = "APPROVE" PROVE f = m /\ m.confidence >= Threshold
    <3>1. f = m
      BY <1>2, <2>6 DEF CriteriaMark
    <3>2. (IF Threshold # 0 /\ m.confidence < Threshold THEN LowMarkerConfidence ELSE NoReason) = NoReason
      BY <2>2, <2>5, <2>6 DEF CriteriaReason, InDoubt
    <3>3. LowMarkerConfidence # NoReason
      BY DEF LowMarkerConfidence, NoReason
    <3> QED BY <2>4, <3>1, <3>2, <3>3
  <2> QED BY <2>5, <2>6
<1> HIDE DEF w, f, v, m
<1>6. f.key \notin DOMAIN w.reasons =>
          /\ f.key \notin doubts /\ CriteriaVerdictOn(Rv, f.key).verdict # "ESCALATE"
          /\ CriteriaVerdictOn(Rv, f.key).verdict = "APPROVE" => f = M[i] /\ f.confidence >= Threshold
  BY <1>3, <1>5 DEF v, m
<1> QED BY <1>6 DEF f, w
-----------------------------------------------------------------------------
(* A script on its way *)

\* What is in memory is one assignment's, as its marker and its reviewer returned it, and is merged at once;
\* what is stored adds up.
ScriptSound ==
    /\ assignment \in Assignments
    /\ work = [doubts |-> work.doubts, truncated |-> work.truncated, marked |-> work.marked,
               reviewed |-> work.reviewed, merged |-> work.merged]
    /\ stage \in {"check", "merged"} => work.marked \in MarkerOutputs(assignment)
    /\ stage = "merged" => work.reviewed \in ReviewerOutputs(assignment) /\ work.merged = Merged(work.reviewed)
    /\ StoredMarksAddUp

\* The parts of a script merged are sound, cut files or not.
LEMMA MergedFits ==
    ASSUME ScriptSound, stage = "merged", kind \in V2Kinds
    PROVE  /\ kind \in V2Kinds /\ rows \in Seq(SchemeRow)
           /\ MergeSound(kind, rows, work.marked, work.reviewed, work.doubts, work.merged)
           /\ DOMAIN work.merged.final = Keys(rows) \cup Keys(work.marked)
           /\ Keys(rows) \ Keys(work.marked) \subseteq DOMAIN work.merged.reasons
           /\ Keys(work.marked) \ Keys(rows) \subseteq DOMAIN work.merged.reasons
           /\ work.truncated => DOMAIN work.merged.final = DOMAIN work.merged.reasons
<1> DEFINE w == Merge(kind, rows, work.marked, work.reviewed, work.doubts)
<1>1. /\ rows \in Seq(SchemeRow) /\ work.marked \in Seq(Marking)
      /\ work.reviewed.verdicts \in Seq(Verdict) /\ work.reviewed.penalties \in Seq(Seq(DOMAIN Norm))
  BY OutputsAssumption DEF ScriptSound, Assignment, kind, rows
<1>2. /\ MergeSound(kind, rows, work.marked, work.reviewed, work.doubts, w)
      /\ MergeSound(kind, rows, work.marked, work.reviewed, work.doubts, Truncated(w))
  BY <1>1, MergeFits
<1>3. work.merged = IF work.truncated THEN Truncated(w) ELSE w
  BY DEF ScriptSound, Merged
<1> HIDE DEF w
<1>4. /\ DOMAIN w.final = Keys(rows) \cup Keys(work.marked)
      /\ Keys(rows) \ Keys(work.marked) \subseteq DOMAIN w.reasons
      /\ Keys(work.marked) \ Keys(rows) \subseteq DOMAIN w.reasons
      /\ DOMAIN Truncated(w).final = Keys(rows) \cup Keys(work.marked)
      /\ DOMAIN Truncated(w).final = DOMAIN Truncated(w).reasons
  BY <1>2, MergeIsWhole
<1>5. CASE work.truncated
  BY <1>1, <1>2, <1>3, <1>4, <1>5
<1>6. CASE ~work.truncated
  BY <1>1, <1>2, <1>3, <1>4, <1>6
<1> QED BY <1>5, <1>6

\* What a merge says of its marks is what is asked of them when they are stored.
LEMMA MergedAddsUp ==
    ASSUME ScriptSound, stage = "merged", kind = "mark_scheme"
    PROVE  \A k \in DOMAIN work.merged.final :
              k \in Keys(rows) /\ work.merged.final[k].in_scheme => AddsUp(work.merged.final[k], FirstOf(rows, k))
<1>1. /\ rows \in Seq(SchemeRow)
      /\ MergeSound("mark_scheme", rows, work.marked, work.reviewed, work.doubts, work.merged)
  BY MergedFits DEF V2Kinds
<1>2. work.marked \in Seq(Marking)
  BY OutputsAssumption DEF ScriptSound, kind, V2Kinds
<1> QED BY <1>1, <1>2, MergeAddsUp

\* Every step of the pipeline and of the queue keeps the script sound.
LEMMA StepKeepsScript ==
    ASSUME ScriptSound, ScriptNext
    PROVE  ScriptSound'
<1>1. CASE Read
  <2>1. PICK doubts, truncated : work' = [work EXCEPT !.doubts = doubts, !.truncated = truncated]
    BY <1>1 DEF Read
  <2>2. assignment' = assignment /\ stage' = "mark"
    BY <1>1 DEF Read
  <2>3. work' = [doubts |-> doubts, truncated |-> truncated, marked |-> work.marked,
                 reviewed |-> work.reviewed, merged |-> work.merged]
    BY <2>1 DEF ScriptSound
  <2> QED BY <2>2, <2>3 DEF ScriptSound, StoredMarksAddUp
<1>2. CASE Mark
  <2>1. PICK marked \in MarkerOutputs(assignment) : work' = [work EXCEPT !.marked = marked]
    BY <1>2 DEF Mark
  <2>2. assignment' = assignment /\ stage' = "check"
    BY <1>2 DEF Mark
  <2>3. work' = [doubts |-> work.doubts, truncated |-> work.truncated, marked |-> marked,
                 reviewed |-> work.reviewed, merged |-> work.merged]
    BY <2>1 DEF ScriptSound
  <2> QED BY <2>2, <2>3 DEF ScriptSound, StoredMarksAddUp
<1>3. CASE Check
  <2>1. PICK reviewed \in ReviewerOutputs(assignment) :
            work' = [work EXCEPT !.reviewed = reviewed, !.merged = Merged(reviewed)]
    BY <1>3 DEF Check
  <2>2. assignment' = assignment /\ stage = "check" /\ stage' = "merged"
    BY <1>3 DEF Check
  <2>3. work' = [doubts |-> work.doubts, truncated |-> work.truncated, marked |-> work.marked,
                 reviewed |-> reviewed, merged |-> Merged(reviewed)]
    BY <2>1 DEF ScriptSound
  <2>4. /\ work'.marked = work.marked /\ work'.doubts = work.doubts /\ work'.truncated = work.truncated
        /\ work'.reviewed = reviewed /\ work'.merged = Merged(reviewed)
    BY <2>3
  <2>5. Merged(work.reviewed)' = Merged(reviewed)
    BY <2>2, <2>4 DEF Merged, kind, rows
  <2> QED BY <2>2, <2>3, <2>4, <2>5 DEF ScriptSound, StoredMarksAddUp
<1>4. CASE Persist
  <2>1. /\ assignment' = assignment /\ stage = "merged" /\ stage' = "stored" /\ work' = NoWork
        /\ run' = [final |-> work.merged.final]
    BY <1>4 DEF Persist
  <2>2. run'.final = work.merged.final /\ kind' = kind /\ rows' = rows
    BY <2>1 DEF kind, rows
  <2>3. StoredMarksAddUp'
    <3> SUFFICES ASSUME kind = "mark_scheme", NEW k \in DOMAIN work.merged.final,
                        k \in Keys(rows), work.merged.final[k].in_scheme
                 PROVE  AddsUp(work.merged.final[k], FirstOf(rows, k))
      BY <2>1, <2>2 DEF StoredMarksAddUp, AddsUp, StoredMark, HasRow, RowOf
    <3> QED BY <2>1, MergedAddsUp
  <2> QED BY <2>1, <2>3 DEF ScriptSound, NoWork
<1>5. ASSUME NEW k \in DOMAIN queue, Resolve(k)
      PROVE  ScriptSound'
  <2>1. UNCHANGED <<assignment, stage, work, run>>
    BY <1>5 DEF Resolve
  <2> QED BY <2>1 DEF ScriptSound, StoredMarksAddUp, Merged, kind, rows, StoredMark, HasRow, RowOf
<1> QED BY <1>1, <1>2, <1>3, <1>4, <1>5 DEF ScriptNext

\* So a script stays sound.
LEMMA OfficeKeepsScripts == OfficeSpec => []ScriptSound
<1>1. OfficeInit => ScriptSound
  BY DEF OfficeInit, ScriptInit, ScriptSound, NoWork, StoredMarksAddUp
<1>2. ScriptSound /\ [OfficeNext]_<<which, scriptVars, choiceVars, bulkVars>> => ScriptSound'
  <2> SUFFICES ASSUME ScriptSound, [OfficeNext]_<<which, scriptVars, choiceVars, bulkVars>>
               PROVE  ScriptSound'
    OBVIOUS
  <2>1. CASE ScriptNext
    BY <2>1, StepKeepsScript
  <2>2. CASE UNCHANGED scriptVars
    <3>1. UNCHANGED <<assignment, stage, work, run>>
      BY <2>2 DEF scriptVars
    <3> QED BY <3>1 DEF ScriptSound, StoredMarksAddUp, Merged, kind, rows, StoredMark, HasRow, RowOf
  <2> QED BY <2>1, <2>2 DEF OfficeNext
<1> QED BY <1>1, <1>2, PTL DEF OfficeSpec

\* What is stored of a part that the scheme accounts for is the scheme's own arithmetic, whatever the marker
\* and the reviewer answer.
THEOREM MarksAreTheSchemes == OfficeSpec => []StoredMarksAddUp
<1>1. ScriptSound => StoredMarksAddUp
  BY DEF ScriptSound
<1> QED BY <1>1, OfficeKeepsScripts, PTL

\* A mark that could be wrong reaches the teacher, for any scheme and any answers; with criteria that is said of the
\* questions the marker returned.
THEOREM DoubtIsSeen == OfficeSpec => []DoubtReachesTeacher
<1>1. ScriptSound => QuietMeansAgreed
  <2> SUFFICES ASSUME ScriptSound, stage = "merged", kind \in V2Kinds,
                      NEW k \in DOMAIN work.merged.final \ DOMAIN work.merged.reasons
               PROVE  QuietPart(k)
    BY DEF QuietMeansAgreed
  <2>1. /\ kind \in V2Kinds /\ rows \in Seq(SchemeRow)
        /\ MergeSound(kind, rows, work.marked, work.reviewed, work.doubts, work.merged)
    BY MergedFits
  <2>2. work.marked \in Seq(Marking)
    BY OutputsAssumption DEF ScriptSound, kind, V2Kinds
  <2>3. QuietIn(kind, rows, work.marked, work.reviewed, work.doubts, work.merged, k)
    BY <2>1, <2>2, MergeIsQuiet
  <2> QED BY <2>3 DEF QuietIn, QuietPart, PaidFor, HasRow, RowOf
<1>2. ScriptSound => NothingSlipsBy
  BY MergedFits DEF NothingSlipsBy
<1>3. ScriptSound => QuietQuestionReviewed
  <2> SUFFICES ASSUME ScriptSound, stage = "merged", kind = "criteria", NEW i \in DOMAIN work.merged.final,
                      work.merged.final[i].key \notin DOMAIN work.merged.reasons
               PROVE  LET f == work.merged.final[i]
                          v == CriteriaVerdictOn(work.reviewed, f.key)
                      IN  /\ f.key \notin work.doubts /\ v.verdict # "ESCALATE"
                          /\ v.verdict = "APPROVE" => f = work.marked[i] /\ f.confidence >= Threshold
    BY DEF QuietQuestionReviewed
  <2>1. work.marked \in Seq(QuestionMark) /\ work.reviewed.verdicts \in Seq(QuestionVerdict)
    BY OutputsAssumption DEF ScriptSound, kind
  <2>2. work.merged = MergeCriteria(work.marked, work.reviewed, work.doubts)
    BY DEF ScriptSound, Merged, V2Kinds
  <2> QED BY <2>1, <2>2, QuestionsMerge
<1>4. ScriptSound => DoubtReachesTeacher
  BY <1>1, <1>2, <1>3 DEF DoubtReachesTeacher
<1> QED BY <1>4, OfficeKeepsScripts, PTL

-----------------------------------------------------------------------------
(* What a teacher may answer *)

\* Of finitely many numbers one is the largest.
LEMMA MaxIsMost ==
    ASSUME NEW B \in SUBSET Int, IsFiniteSet(B), B # {}
    PROVE  Max(B) \in B /\ \A k \in B : k <= Max(B)
<1> DEFINE P == {T \in SUBSET B : T = {} \/ \E m \in T : \A k \in T : k <= m}
<1>1. {} \in P
  OBVIOUS
<1>2. ASSUME NEW T \in SUBSET B, NEW x \in B \ T, T \in P PROVE T \cup {x} \in P
  <2>1. CASE T = {}
    BY <2>1
  <2>2. CASE T # {}
    <3>1. PICK m \in T : \A k \in T : k <= m
      BY <1>2, <2>2
    <3>2. CASE x <= m
      BY <3>1, <3>2
    <3>3. CASE ~(x <= m)
      <4>1. \A k \in T \cup {x} : k <= x
        BY <3>1, <3>3
      <4> QED BY <4>1
    <3> QED BY <3>2, <3>3
  <2> QED BY <2>1, <2>2
<1> HIDE DEF P
<1>3. B \in P
  BY <1>1, <1>2, SetBuilds
<1>4. PICK m \in B : \A k \in B : k <= m
  BY <1>3 DEF P
<1>5. \A k \in B : m >= k
  BY <1>4
<1> QED BY <1>5 DEF Max

\* What is listed of a row by its labels is, label by label, at a place of its own.
LEMMA TicksFit ==
    ASSUME NEW T, \A p \in T : p.marks \in Nat, NEW row, row.points \in Seq(T)
    PROVE  \E at \in [DOMAIN RowMarks(row) -> DOMAIN row.points] :
              \A l \in DOMAIN RowMarks(row) :
                 RowMarks(row)[l] = row.points[at[l]].marks /\ row.points[at[l]].label = l
<1> DEFINE p      == row.points
           L      == {p[i].label : i \in DOMAIN p}
           Of(l)  == {i \in DOMAIN p : p[i].label = l}
           at     == [l \in L |-> Max(Of(l))]
<1>1. Len(p) \in Nat /\ DOMAIN p = 1 .. Len(p) /\ \A i \in DOMAIN p : p[i] \in T
  OBVIOUS
<1>2. RowMarks(row) = [l \in L |-> p[at[l]].marks]
  BY DEF RowMarks
<1>3. \A l \in L : at[l] \in Of(l)
  <2> SUFFICES ASSUME NEW l \in L PROVE Max(Of(l)) \in Of(l)
    OBVIOUS
  <2>1. Of(l) \in SUBSET (1 .. Len(p)) /\ Of(l) # {}
    BY <1>1
  <2> HIDE DEF Of
  <2> QED BY <1>1, <2>1, MaxIsOne
<1> HIDE DEF at
<1>4. at \in [L -> DOMAIN p]
  BY <1>3 DEF at
<1> QED BY <1>2, <1>3, <1>4

\* So its labels are finitely many, and any of them have no more marks than the row.
LEMMA TicksAddUp ==
    ASSUME NEW T, \A p \in T : p.marks \in Nat, NEW row, row.points \in Seq(T),
           NEW got \in SUBSET DOMAIN RowMarks(row)
    PROVE  /\ SumFunctionOnSet(RowMarks(row), got) \in Nat
           /\ SumMarks(row.points) \in Nat
           /\ SumFunctionOnSet(RowMarks(row), got) <= SumMarks(row.points)
<1> DEFINE p     == row.points
           marks == [i \in DOMAIN p |-> p[i].marks]
           valid == RowMarks(row)
<1>1. PICK at \in [DOMAIN valid -> DOMAIN p] :
          \A l \in DOMAIN valid : valid[l] = p[at[l]].marks /\ p[at[l]].label = l
  BY TicksFit
<1>2. Len(p) \in Nat /\ DOMAIN p = 1 .. Len(p) /\ IsFiniteSet(DOMAIN p) /\ \A i \in DOMAIN p : p[i] \in T
  BY FS_Interval
<1>3. marks \in Seq(Int) /\ DOMAIN marks = DOMAIN p /\ \A i \in DOMAIN p : marks[i] \in Nat
  BY <1>2
<1>4. SumMarks(p) = SumFunctionOnSet(marks, DOMAIN p)
  <2>1. SumMarks(p) = Added(marks)
    BY DEF SumMarks
  <2> HIDE DEF marks
  <2> QED BY <1>3, <2>1, SumAlong
<1>5. \A l \in got : marks[at[l]] = valid[l]
  BY <1>1
<1> HIDE DEF marks, valid
<1> DEFINE R == {at[l] : l \in got}
<1>6. R \in SUBSET DOMAIN p /\ \A x, y \in got : at[x] = at[y] => x = y
  BY <1>1 DEF valid
<1>7. IsFiniteSet(got)
  <2>1. got \subseteq DOMAIN valid
    BY DEF valid
  <2>2. [l \in got |-> at[l]] \in Injection(got, DOMAIN p)
    BY <1>1, <1>6, <2>1 DEF Injection, IsInjective
  <2> QED BY <1>2, <2>2, FS_Injection
<1>8. \A l \in got : marks[at[l]] \in Int /\ marks[at[l]] \in Nat
  BY <1>1, <1>3, <1>6
<1> DEFINE b == [l \in got |-> at[l]]
<1>9. b \in Bijection(got, R)
  BY <1>6 DEF Bijection, Injection, IsInjective, Surjection
<1>10. \A l \in got : marks[b[l]] \in Int /\ valid[l] = marks[b[l]]
  BY <1>5, <1>8
<1> HIDE DEF R, b
<1>11. SumFunctionOnSet(valid, got) = SumFunctionOnSet(marks, R) /\ IsFiniteSet(R)
  BY <1>7, <1>9, <1>10, SumMoved
<1>12. SumFunctionOnSet(marks, R) <= SumFunctionOnSet(marks, DOMAIN p)
  BY <1>2, <1>3, <1>6, SumOfSome
<1>13. SumFunctionOnSet(marks, DOMAIN p) \in Nat
  BY <1>2, <1>3, SumNat
<1>14. SumFunctionOnSet(valid, got) \in Nat
  BY <1>5, <1>7, <1>8, SumNat
<1> QED BY <1>4, <1>11, <1>12, <1>13, <1>14 DEF valid

\* A row's maximum is a natural, and no band has more.
LEMMA RowMaxFits ==
    ASSUME NEW K, NEW row \in SchemeRow
    PROVE  /\ RowMax(K, row) \in Nat
           /\ K # "mark_scheme" => \A l \in DOMAIN RowMarks(row) : RowMarks(row)[l] <= RowMax(K, row)
<1> DEFINE p == row.points
           B == {0} \cup {p[i].marks : i \in DOMAIN p}
<1>1. p \in Seq(SchemePoint) /\ \A x \in SchemePoint : x.marks \in Nat
  BY DEF SchemeRow, SchemePoint
<1>2. CASE K = "mark_scheme"
  <2>1. {} \in SUBSET DOMAIN RowMarks(row)
    OBVIOUS
  <2> QED BY <1>1, <1>2, <2>1, TicksAddUp DEF RowMax
<1>3. CASE K # "mark_scheme"
  <2>1. Len(p) \in Nat /\ DOMAIN p = 1 .. Len(p) /\ \A i \in DOMAIN p : p[i].marks \in Nat
    BY <1>1
  <2>2. IsFiniteSet(B)
    <3> DEFINE m == [i \in 0 .. Len(p) |-> IF i = 0 THEN 0 ELSE p[i].marks]
    <3>1. m \in Surjection(0 .. Len(p), B)
      BY <2>1 DEF Surjection
    <3>2. IsFiniteSet(0 .. Len(p))
      BY <2>1, FS_Interval
    <3> QED BY <3>1, <3>2, FS_Surjection
  <2>3. B \in SUBSET Int /\ B # {} /\ B \in SUBSET Nat
    BY <2>1
  <2>4. RowMax(K, row) = Max(B)
    BY <1>3 DEF RowMax
  <2> HIDE DEF B
  <2>5. Max(B) \in B /\ \A k \in B : k <= Max(B)
    BY <2>2, <2>3, MaxIsMost
  <2>6. PICK at \in [DOMAIN RowMarks(row) -> DOMAIN p] :
          \A l \in DOMAIN RowMarks(row) : RowMarks(row)[l] = p[at[l]].marks /\ p[at[l]].label = l
    BY <1>1, TicksFit
  <2>7. \A l \in DOMAIN RowMarks(row) : RowMarks(row)[l] \in B
    BY <2>6 DEF B
  <2> QED BY <2>3, <2>4, <2>5, <2>7
<1> QED BY <1>2, <1>3

\* Criterion by criterion, an answer has no more marks than a question.
LEMMA CriteriaAnswersFit ==
    ASSUME NEW c \in Seq(SchemePoint), NEW answer \in CriteriaAnswers(c)
    PROVE  answer.total \in Nat /\ QuestionMax(c) \in Nat /\ answer.total <= QuestionMax(c)
<1> DEFINE most  == Max({0} \cup {c[i].marks : i \in DOMAIN c})
           marks == [i \in DOMAIN c |-> c[i].marks]
<1>1. PICK s \in [DOMAIN c -> 0 .. most] : answer = [total |-> SumScores(s)] /\ \A i \in DOMAIN c : s[i] <= c[i].marks
  BY DEF CriteriaAnswers
<1>2. Len(c) \in Nat /\ DOMAIN c = 1 .. Len(c) /\ IsFiniteSet(DOMAIN c) /\ \A i \in DOMAIN c : c[i].marks \in Nat
  <2>1. Len(c) \in Nat /\ DOMAIN c = 1 .. Len(c) /\ \A i \in DOMAIN c : c[i] \in SchemePoint
    OBVIOUS
  <2>2. IsFiniteSet(1 .. Len(c))
    BY <2>1, FS_Interval
  <2>3. \A x \in SchemePoint : x.marks \in Nat
    BY DEF SchemePoint
  <2> HIDE DEF most, marks
  <2> QED BY <2>1, <2>2, <2>3
<1>3. marks \in Seq(Int) /\ DOMAIN marks = DOMAIN c /\ \A i \in DOMAIN c : marks[i] \in Nat /\ marks[i] = c[i].marks
  BY <1>2
<1> HIDE DEF most
<1>4. s \in Seq(Int) /\ DOMAIN s = DOMAIN c /\ \A i \in DOMAIN c : s[i] \in Nat
  BY <1>1, <1>2
<1>5. QuestionMax(c) = Added(marks) /\ answer.total = Added(s)
  BY <1>1 DEF QuestionMax, SumMarks, SumScores
<1> HIDE DEF marks
<1>6. QuestionMax(c) = SumFunctionOnSet(marks, DOMAIN c) /\ answer.total = SumFunctionOnSet(s, DOMAIN c)
  BY <1>3, <1>4, <1>5, SumAlong
<1>7. SumFunctionOnSet(marks, DOMAIN c) \in Nat /\ SumFunctionOnSet(s, DOMAIN c) \in Nat
  BY <1>2, <1>3, <1>4, SumNat
<1>8. \A i \in DOMAIN c : marks[i] \in Int /\ s[i] \in Int /\ s[i] <= marks[i]
  BY <1>1, <1>3, <1>4
<1>9. SumFunctionOnSet(s, DOMAIN c) <= SumFunctionOnSet(marks, DOMAIN c)
  BY <1>2, <1>8, SumAtMost
<1> QED BY <1>6, <1>7, <1>9

-----------------------------------------------------------------------------
(* What is stored *)

\* A stored script has every part of its assignment and more, each with its numbers; what a teacher is asked
\* is stored, and nothing was asked or answered before.
StoredSound ==
    /\ ScriptTypeOK
    /\ stage # "stored" => corrections = <<>>
    /\ stage = "stored" /\ kind \in V2Kinds =>
          /\ Keys(rows) \subseteq DOMAIN run.final /\ IsFiniteSet(DOMAIN run.final)
          /\ DOMAIN queue \subseteq DOMAIN run.final
          /\ \A k \in DOMAIN run.final : Counts(run.final[k])
    /\ stage = "stored" /\ kind = "criteria" =>
          run.final \in Seq(QuestionMark) /\ DOMAIN queue \subseteq Keys(run.final)

\* A sequence has finitely many keys.
LEMMA KeysFinite ==
    ASSUME NEW T, NEW s \in Seq(T)
    PROVE  IsFiniteSet(Keys(s))
<1> DEFINE m == [i \in DOMAIN s |-> s[i].key]
<1>1. m \in Surjection(DOMAIN s, Keys(s))
  BY DEF Surjection, Keys
<1>2. IsFiniteSet(DOMAIN s)
  <2>1. DOMAIN s = 1 .. Len(s) /\ Len(s) \in Nat
    OBVIOUS
  <2> QED BY <2>1, FS_Interval
<1> QED BY <1>1, <1>2, FS_Surjection

\* A question is given a question's mark.
LEMMA QuestionCounts ==
    ASSUME NEW m \in QuestionMark, NEW v \in QuestionVerdict, NEW doubts
    PROVE  CriteriaMark(m, v, doubts) \in QuestionMark /\ CriteriaMark(m, v, doubts).key = m.key
<1>1. CASE CriteriaReason(m, v, doubts) = NoReason /\ v.verdict = "ADJUST"
  <2>1. v.scores # {}
    BY <1>1 DEF CriteriaReason, InDoubt, IllegibleText, Escalated, NoReason
  <2>2. The(v.scores) \in Seq(Int) /\ (v.total # {} => The(v.total) \in Int)
    BY <2>1 DEF The, QuestionVerdict
  <2> DEFINE t == IF v.total # {} THEN The(v.total) ELSE SumScores(The(v.scores))
  <2>3. SumScores(The(v.scores)) \in Int
    BY <2>2, AddedInt DEF SumScores
  <2>4. t \in Int
    BY <2>2, <2>3
  <2>5. CriteriaMark(m, v, doubts) = [m EXCEPT !.scores = The(v.scores), !.total = t]
    BY <1>1 DEF CriteriaMark
  <2> HIDE DEF t
  <2> QED BY <2>2, <2>4, <2>5 DEF QuestionMark
<1>2. CASE ~(CriteriaReason(m, v, doubts) = NoReason /\ v.verdict = "ADJUST")
  BY <1>2 DEF CriteriaMark
<1> QED BY <1>1, <1>2

\* What a question is given is a question's mark, and what is asked is about one of them.
LEMMA QuestionsCount ==
    ASSUME NEW M \in Seq(QuestionMark), NEW Rv, Rv.verdicts \in Seq(QuestionVerdict), NEW doubts
    PROVE  /\ MergeCriteria(M, Rv, doubts).final \in Seq(QuestionMark)
           /\ DOMAIN MergeCriteria(M, Rv, doubts).reasons \subseteq Keys(MergeCriteria(M, Rv, doubts).final)
<1> DEFINE Said(i)      == CriteriaVerdictOn(Rv, M[i].key)
           Reason(i) == CriteriaReason(M[i], Said(i), doubts)
           asked     == {i \in DOMAIN M : Reason(i) # NoReason}
           final     == [i \in DOMAIN M |-> CriteriaMark(M[i], Said(i), doubts)]
           reasons   == [k \in {M[i].key : i \in asked} |-> Reason(Max({i \in asked : M[i].key = k}))]
<1>1. MergeCriteria(M, Rv, doubts) = [final |-> final, reasons |-> reasons]
  BY DEF MergeCriteria
<1>2. Len(M) \in Nat /\ DOMAIN M = 1 .. Len(M) /\ \A i \in DOMAIN M : M[i] \in QuestionMark
  OBVIOUS
<1>3. ASSUME NEW i \in DOMAIN M
      PROVE  CriteriaMark(M[i], Said(i), doubts) \in QuestionMark /\ CriteriaMark(M[i], Said(i), doubts).key = M[i].key
  <2>1. M[i] \in QuestionMark /\ M[i].key \in DOMAIN Norm
    BY <1>2 DEF QuestionMark
  <2>2. Said(i) \in QuestionVerdict
    <3>1. CASE M[i].key \in Keys(Rv.verdicts)
      BY <3>1, LastFits DEF CriteriaVerdictOn
    <3>2. CASE M[i].key \notin Keys(Rv.verdicts)
      <4>1. Said(i) = [key |-> M[i].key, verdict |-> "APPROVE", scores |-> {}, total |-> {}]
        BY <3>2 DEF CriteriaVerdictOn
      <4> QED BY <2>1, <4>1 DEF QuestionVerdict
    <3> QED BY <3>1, <3>2
  <2> HIDE DEF Said
  <2> QED BY <2>1, <2>2, QuestionCounts
<1>4. \A i \in DOMAIN M : final[i] \in QuestionMark /\ final[i].key = M[i].key
  BY <1>3
<1> HIDE DEF Said
<1>5. final \in [1 .. Len(M) -> QuestionMark]
  BY <1>2, <1>4
<1>6. final \in Seq(QuestionMark)
  BY <1>2, <1>5
<1>7. DOMAIN reasons \subseteq Keys(final)
  <2> SUFFICES ASSUME NEW i \in asked PROVE M[i].key \in Keys(final)
    OBVIOUS
  <2>1. i \in DOMAIN final /\ final[i].key = M[i].key
    BY <1>4
  <2> HIDE DEF final
  <2> QED BY <2>1 DEF Keys
<1> HIDE DEF final, reasons
<1> QED BY <1>1, <1>6, <1>7

\* An answer is a number, and it is no more than a row that lists something to award, or a question, can give.
LEMMA AnswersFit ==
    ASSUME ScriptSound, StoredSound, stage = "stored", NEW k \in DOMAIN queue, NEW answer \in Answers(k)
    PROVE  /\ answer.total \in Nat
           /\ kind \in V2Kinds /\ HasRow(k) /\ RowOf(k).points # <<>> => answer.total <= RowMax(kind, RowOf(k))
           /\ kind = "criteria" => answer.total <= QuestionMax(assignment.criteria)
<1> DEFINE row == RowOf(k)
           m   == StoredMark(k)
<1>1. /\ kind \in {"mark_scheme", "rubric", "criteria"} /\ rows \in Seq(SchemeRow)
      /\ assignment.criteria \in Seq(SchemePoint)
  BY OutputsAssumption DEF ScriptSound, Assignment, V2Kinds, kind, rows
<1>2. HasRow(k) => row \in SchemeRow /\ row.points \in Seq(SchemePoint) /\ RowMax(kind, row) \in Nat
  <2> SUFFICES ASSUME HasRow(k) PROVE row \in SchemeRow /\ row.points \in Seq(SchemePoint) /\ RowMax(kind, row) \in Nat
    OBVIOUS
  <2>1. row \in SchemeRow
    BY <1>1, FirstFits DEF HasRow, RowOf
  <2>2. row.points \in Seq(SchemePoint)
    BY <2>1 DEF SchemeRow
  <2> QED BY <2>1, <2>2, RowMaxFits
<1>3. kind \in V2Kinds => m.total \in Nat /\ m.awarded \in Seq(Allocation)
  BY DEF StoredSound, StoredMark, Counts
<1>4. (\A p \in SchemePoint : p.marks \in Nat) /\ \A p \in Allocation : p.marks \in Nat
  BY DEF SchemePoint, Allocation
<1>5. CASE kind = "mark_scheme"
  <2> DEFINE valid == TickList(k)
             most  == IF HasRow(k) THEN RowMax(kind, row) ELSE 0
             upper == Max({m.total, most})
  <2>1. answer \in IF DOMAIN valid = {} THEN {[total |-> t] : t \in 0 .. upper}
                   ELSE {[total |-> SumFunctionOnSet(valid, got)] : got \in SUBSET DOMAIN valid}
    BY <1>5 DEF Answers, PartAnswers
  <2>2. CASE DOMAIN valid = {}
    <3>1. PICK t \in 0 .. upper : answer = [total |-> t]
      BY <2>1, <2>2
    <3>2. upper \in Nat
      <4>1. {m.total, most} \in SUBSET Nat /\ {m.total, most} # {}
        BY <1>2, <1>3, <1>5 DEF V2Kinds
      <4>2. IsFiniteSet({m.total, most})
        <5> HIDE DEF m, most
        <5>1. {m.total, most} = {m.total} \cup {most} /\ IsFiniteSet({m.total}) /\ IsFiniteSet({most})
          BY FS_Singleton
        <5> QED BY <5>1, FS_Union
      <4> HIDE DEF most, m
      <4>3. upper \in {m.total, most}
        BY <4>1, <4>2, MaxIsMost
      <4> QED BY <4>1, <4>3
    <3>3. HasRow(k) => row.points = <<>>
      <4> SUFFICES ASSUME HasRow(k), row.points # <<>> PROVE FALSE
        OBVIOUS
      <4>1. 1 \in DOMAIN row.points
        BY <1>2
      <4>2. DOMAIN valid = {row.points[i].label : i \in DOMAIN row.points}
        BY DEF TickList, RowMarks
      <4> QED BY <2>2, <4>1, <4>2
    <3> HIDE DEF upper
    <3> QED BY <1>5, <3>1, <3>2, <3>3
  <2>3. CASE DOMAIN valid # {}
    <3>1. PICK got \in SUBSET DOMAIN valid : answer.total = SumFunctionOnSet(valid, got)
      BY <2>1, <2>3
    <3>2. CASE HasRow(k)
      <4>1. valid = RowMarks(row)
        BY <3>2 DEF TickList
      <4> HIDE DEF valid, row
      <4>2. got \in SUBSET DOMAIN RowMarks(row)
        BY <4>1
      <4>3. /\ SumFunctionOnSet(RowMarks(row), got) \in Nat
            /\ SumFunctionOnSet(RowMarks(row), got) <= SumMarks(row.points)
        BY <1>2, <1>4, <3>2, <4>2, TicksAddUp
      <4>4. RowMax(kind, row) = SumMarks(row.points)
        BY <1>5 DEF RowMax
      <4> QED BY <1>5, <3>1, <4>1, <4>3, <4>4 DEF row
    <3>3. CASE ~HasRow(k)
      <4> DEFINE own == [points |-> m.awarded]
      <4>1. valid = RowMarks(own) /\ own.points \in Seq(Allocation)
        BY <1>3, <1>5, <3>3 DEF TickList, V2Kinds
      <4> HIDE DEF valid, own
      <4>2. got \in SUBSET DOMAIN RowMarks(own)
        BY <4>1
      <4>3. SumFunctionOnSet(RowMarks(own), got) \in Nat
        BY <1>4, <4>1, <4>2, TicksAddUp
      <4> QED BY <1>5, <3>1, <3>3, <4>1, <4>3
    <3> QED BY <3>2, <3>3
  <2> QED BY <2>2, <2>3
<1>6. CASE kind = "rubric"
  <2> DEFINE bands == IF HasRow(k) THEN RowMarks(row) ELSE <<>>
  <2>1. answer \in IF DOMAIN bands = {} THEN {[total |-> t] : t \in 0 .. m.total}
                   ELSE {[total |-> bands[b]] : b \in DOMAIN bands}
    BY <1>6 DEF Answers, BandAnswers
  <2>2. CASE HasRow(k) /\ DOMAIN bands # {}
    <3>1. PICK b \in DOMAIN RowMarks(row) : answer.total = RowMarks(row)[b]
      BY <2>1, <2>2
    <3>2. row \in SchemeRow
      BY <1>2, <2>2
    <3>3. RowMarks(row)[b] \in Nat /\ RowMarks(row)[b] <= RowMax(kind, row)
      <4> HIDE DEF row
      <4> QED BY <1>6, <3>2, RowMarksFit, RowMaxFits
    <3> QED BY <1>6, <3>1, <3>3
  <2>3. CASE DOMAIN bands = {}
    <3>1. PICK t \in 0 .. m.total : answer = [total |-> t]
      BY <2>1, <2>3
    <3>2. HasRow(k) => row.points = <<>>
      <4> SUFFICES ASSUME HasRow(k), row.points # <<>> PROVE FALSE
        OBVIOUS
      <4>1. 1 \in DOMAIN row.points
        BY <1>2
      <4>2. DOMAIN bands = {row.points[i].label : i \in DOMAIN row.points}
        BY DEF RowMarks
      <4> QED BY <2>3, <4>1, <4>2
    <3> QED BY <1>3, <1>6, <3>1, <3>2 DEF V2Kinds
  <2>4. ~HasRow(k) => DOMAIN bands = {}
    OBVIOUS
  <2> QED BY <2>2, <2>3, <2>4
<1>7. CASE kind = "criteria"
  <2>1. answer \in CriteriaAnswers(assignment.criteria)
    BY <1>7 DEF Answers
  <2>2. answer.total \in Nat /\ answer.total <= QuestionMax(assignment.criteria)
    BY <1>1, <2>1, CriteriaAnswersFit
  <2> QED BY <1>7, <2>2 DEF V2Kinds
<1> QED BY <1>1, <1>5, <1>6, <1>7

\* Every step keeps what is stored sound.
LEMMA StepKeepsStored ==
    ASSUME ScriptSound, StoredSound, ScriptNext
    PROVE  StoredSound'
<1>1. /\ assignment \in Assignments /\ assignment' = assignment /\ kind' = kind /\ rows' = rows
      /\ kind \in {"mark_scheme", "rubric", "criteria"}
  BY OutputsAssumption DEF ScriptSound, ScriptNext, Read, Mark, Check, Persist, Resolve, Assignment, V2Kinds, kind, rows
<1>2. CASE Read
  <2>1. PICK doubts \in DoubtSets(assignment), truncated \in BOOLEAN :
            work' = [work EXCEPT !.doubts = doubts, !.truncated = truncated]
    BY <1>2 DEF Read
  <2>2. stage = "read" /\ stage' = "mark" /\ UNCHANGED <<run, queue, corrections>>
    BY <1>2 DEF Read
  <2>3. work' = [doubts |-> doubts, truncated |-> truncated, marked |-> work.marked,
                 reviewed |-> work.reviewed, merged |-> work.merged]
    BY <2>1 DEF ScriptSound
  <2>4. doubts \subseteq DOMAIN Norm
    BY <1>1, OutputsAssumption
  <2>5. work'.truncated \in BOOLEAN /\ work'.doubts \subseteq DOMAIN Norm
    BY <2>3, <2>4
  <2> QED BY <1>1, <2>2, <2>5 DEF StoredSound, ScriptTypeOK
<1>3. CASE Mark \/ Check
  <2>1. /\ UNCHANGED <<run, queue, corrections>> /\ work'.truncated = work.truncated /\ work'.doubts = work.doubts
        /\ stage # "stored" /\ stage' \in {"check", "merged"}
    BY <1>3 DEF Mark, Check, ScriptSound
  <2> QED BY <1>1, <2>1 DEF StoredSound, ScriptTypeOK
<1>4. CASE Persist
  <2>1. /\ stage = "merged" /\ stage' = "stored" /\ run' = [final |-> work.merged.final]
        /\ queue' = work.merged.reasons /\ work' = NoWork /\ corrections' = corrections
    BY <1>4 DEF Persist
  <2>2. run'.final = work.merged.final /\ corrections = <<>> /\ work'.truncated = FALSE /\ work'.doubts = {}
    BY <2>1 DEF StoredSound, NoWork
  <2>3. ScriptTypeOK'
    <3>1. DOMAIN corrections' = {}
      BY <2>1, <2>2
    <3>2. assignment' \in Assignments /\ stage' \in {"stored"} /\ work'.truncated \in BOOLEAN /\ work'.doubts \subseteq DOMAIN Norm
      BY <1>1, <2>1, <2>2
    <3> HIDE <2>1, <2>2
    <3> QED BY <3>1, <3>2 DEF ScriptTypeOK
  <2>4. ASSUME kind \in V2Kinds
        PROVE  /\ Keys(rows) \subseteq DOMAIN run'.final /\ IsFiniteSet(DOMAIN run'.final)
               /\ DOMAIN queue' \subseteq DOMAIN run'.final
               /\ \A k \in DOMAIN run'.final : Counts(run'.final[k])
    <3>1. /\ rows \in Seq(SchemeRow)
          /\ MergeSound(kind, rows, work.marked, work.reviewed, work.doubts, work.merged)
          /\ DOMAIN work.merged.final = Keys(rows) \cup Keys(work.marked)
      BY <2>1, <2>4, MergedFits
    <3>2. work.marked \in Seq(Marking)
      BY <2>1, <2>4, OutputsAssumption DEF ScriptSound, kind
    <3>3. /\ DOMAIN work.merged.reasons \subseteq DOMAIN work.merged.final
          /\ \A k \in DOMAIN work.merged.final : Counts(work.merged.final[k])
      BY <3>1, MergeCounts
    <3>4. IsFiniteSet(Keys(rows) \cup Keys(work.marked))
      <4>1. IsFiniteSet(Keys(rows)) /\ IsFiniteSet(Keys(work.marked))
        BY <3>1, <3>2, KeysFinite
      <4> QED BY <4>1, FS_Union
    <3> QED BY <2>1, <2>2, <3>1, <3>3, <3>4
  <2>5. ASSUME kind = "criteria"
        PROVE  run'.final \in Seq(QuestionMark) /\ DOMAIN queue' \subseteq Keys(run'.final)
    <3>1. work.marked \in Seq(QuestionMark) /\ work.reviewed.verdicts \in Seq(QuestionVerdict)
      BY <2>1, <2>5, OutputsAssumption DEF ScriptSound, kind
    <3>2. work.merged = MergeCriteria(work.marked, work.reviewed, work.doubts)
      BY <2>1, <2>5 DEF ScriptSound, Merged, V2Kinds
    <3>3. /\ work.merged.final \in Seq(QuestionMark)
          /\ DOMAIN work.merged.reasons \subseteq Keys(work.merged.final)
      BY <3>1, <3>2, QuestionsCount
    <3> QED BY <2>1, <2>2, <3>3
  <2> QED BY <1>1, <2>1, <2>3, <2>4, <2>5 DEF StoredSound
<1>5. ASSUME NEW k \in DOMAIN queue, Resolve(k)
      PROVE  StoredSound'
  <2>1. PICK answer \in Answers(k) : corrections' = Answered(k, answer)
    BY <1>5 DEF Resolve
  <2>2. /\ stage = "stored" /\ UNCHANGED <<stage, work, run>>
        /\ queue' = [o \in DOMAIN queue \ {k} |-> queue[o]]
    BY <1>5 DEF Resolve
  <2>3. answer.total \in Nat
    BY <2>1, <2>2, AnswersFit
  <2>4. /\ DOMAIN corrections' = DOMAIN corrections \cup {k}
        /\ \A o \in DOMAIN corrections' : corrections'[o] = IF o = k THEN answer ELSE corrections[o]
    BY <2>1 DEF Answered
  <2>5. DOMAIN queue' = DOMAIN queue \ {k}
    BY <2>2
  <2>6. ScriptTypeOK'
    BY <1>1, <2>2, <2>3, <2>4, <2>5 DEF StoredSound, ScriptTypeOK
  <2> QED BY <1>1, <2>2, <2>5, <2>6 DEF StoredSound
<1> QED BY <1>2, <1>3, <1>4, <1>5 DEF ScriptNext

\* So it stays sound.
LEMMA OfficeKeepsStored == OfficeSpec => []StoredSound
<1>1. OfficeInit => StoredSound
  BY DEF OfficeInit, ScriptInit, StoredSound, ScriptTypeOK, NoWork
<1>2. ScriptSound /\ StoredSound /\ [OfficeNext]_<<which, scriptVars, choiceVars, bulkVars>> => StoredSound'
  <2> SUFFICES ASSUME ScriptSound, StoredSound, [OfficeNext]_<<which, scriptVars, choiceVars, bulkVars>>
               PROVE  StoredSound'
    OBVIOUS
  <2>1. CASE ScriptNext
    BY <2>1, StepKeepsStored
  <2>2. CASE UNCHANGED scriptVars
    <3>1. UNCHANGED <<assignment, stage, work, run, queue, corrections>>
      BY <2>2 DEF scriptVars
    <3> QED BY <3>1 DEF StoredSound, ScriptTypeOK, kind, rows
  <2> QED BY <2>1, <2>2 DEF OfficeNext
<1> QED BY <1>1, <1>2, OfficeKeepsScripts, PTL DEF OfficeSpec

-----------------------------------------------------------------------------
(* The totals *)

\* What a part counts for, and the most it can still count for.
CountedOf(k) == IF k \in DOMAIN corrections THEN corrections[k].total ELSE StoredTotal(k)
UpperOf(k)   == IF k \in DOMAIN queue \ DOMAIN corrections THEN RowMax(kind, RowOf(k)) ELSE CountedOf(k)

\* The same of the question stored at a place.
CountedAt(i) == IF run.final[i].key \in DOMAIN corrections THEN corrections[run.final[i].key].total
                                                         ELSE run.final[i].total
UpperAt(i)   == IF run.final[i].key \in DOMAIN queue \ DOMAIN corrections THEN QuestionMax(assignment.criteria)
                                                                        ELSE CountedAt(i)

\* What a script against a scheme counts for is natural, part by part, and its parts are finitely many.
LEMMA PartsCount ==
    ASSUME ScriptSound, StoredSound, stage = "stored", kind \in V2Kinds
    PROVE  /\ IsFiniteSet(Keys(rows))
           /\ \A q \in Keys(rows) : RowMax(kind, RowOf(q)) \in Nat /\ CountedOf(q) \in Nat /\ UpperOf(q) \in Nat
<1>1. rows \in Seq(SchemeRow)
  BY OutputsAssumption DEF ScriptSound, Assignment, rows
<1>2. IsFiniteSet(Keys(rows))
  BY <1>1, KeysFinite
<1>3. ASSUME NEW q \in Keys(rows)
      PROVE  RowMax(kind, RowOf(q)) \in Nat /\ CountedOf(q) \in Nat /\ UpperOf(q) \in Nat
  <2>1. RowOf(q) \in SchemeRow
    BY <1>1, FirstFits DEF RowOf
  <2>2. RowMax(kind, RowOf(q)) \in Nat
    BY <2>1, RowMaxFits
  <2>3. CountedOf(q) \in Nat
    BY DEF CountedOf, StoredSound, ScriptTypeOK, StoredTotal, StoredMark, Counts
  <2> QED BY <2>2, <2>3 DEF UpperOf
<1> QED BY <1>2, <1>3

\* What a question counts for is a number.
LEMMA QuestionsAdd ==
    ASSUME ScriptSound, StoredSound, stage = "stored", kind = "criteria"
    PROVE  /\ assignment.criteria \in Seq(SchemePoint) /\ QuestionMax(assignment.criteria) \in Nat
           /\ IsFiniteSet(DOMAIN run.final) /\ DOMAIN run.final = 1 .. Len(run.final) /\ Len(run.final) \in Nat
           /\ \A i \in DOMAIN run.final : CountedAt(i) \in Int /\ UpperAt(i) \in Int
<1>1. assignment.criteria \in Seq(SchemePoint)
  BY OutputsAssumption DEF ScriptSound, Assignment
<1>2. QuestionMax(assignment.criteria) \in Nat
  <2> DEFINE c    == assignment.criteria
             none == [i \in DOMAIN c |-> 0]
             most == Max({0} \cup {c[i].marks : i \in DOMAIN c})
  <2>1. \A p \in SchemePoint : p.marks \in Nat
    BY DEF SchemePoint
  <2>2. [points |-> c].points \in Seq(SchemePoint) /\ {} \in SUBSET DOMAIN RowMarks([points |-> c])
    BY <1>1
  <2>3. SumMarks(c) \in Nat
    <3> HIDE DEF c
    <3> DEFINE row == [points |-> c]
    <3>1. row.points \in Seq(SchemePoint) /\ {} \in SUBSET DOMAIN RowMarks(row) /\ row.points = c
      BY <2>2
    <3> HIDE DEF row
    <3> QED BY <2>1, <3>1, TicksAddUp
  <2> QED BY <2>3 DEF QuestionMax
<1>3. run.final \in Seq(QuestionMark)
  BY DEF StoredSound
<1>4. DOMAIN run.final = 1 .. Len(run.final) /\ Len(run.final) \in Nat /\ \A i \in DOMAIN run.final : run.final[i] \in QuestionMark
  BY <1>3
<1>5. IsFiniteSet(DOMAIN run.final)
  BY <1>4, FS_Interval
<1>6. \A i \in DOMAIN run.final : CountedAt(i) \in Int
  BY <1>4 DEF CountedAt, StoredSound, ScriptTypeOK, QuestionMark
<1> QED BY <1>1, <1>2, <1>4, <1>5, <1>6 DEF UpperAt

\* An answer does not raise the most a script can get.
LEMMA UpperFalls ==
    ASSUME ScriptSound, StoredSound, NEW k \in DOMAIN queue, Resolve(k),
           ~(kind \in V2Kinds /\ HasRow(k) /\ RowOf(k).points = <<>>)
    PROVE  Totals'.total_upper <= Totals.total_upper
<1>1. PICK a \in Answers(k) : corrections' = Answered(k, a)
  BY DEF Resolve
<1>2. /\ stage = "stored" /\ UNCHANGED <<assignment, run>> /\ kind' = kind /\ rows' = rows
      /\ DOMAIN queue' = DOMAIN queue \ {k} /\ k \notin DOMAIN corrections
      /\ kind \in V2Kinds \cup {"criteria"}
  BY OutputsAssumption DEF Resolve, kind, rows, StoredSound, ScriptTypeOK, Assignment
<1>3. /\ DOMAIN corrections' = DOMAIN corrections \cup {k}
      /\ \A q \in DOMAIN corrections' : corrections'[q] = IF q = k THEN a ELSE corrections[q]
  BY <1>1 DEF Answered
<1>4. /\ a.total \in Nat
      /\ kind \in V2Kinds /\ HasRow(k) /\ RowOf(k).points # <<>> => a.total <= RowMax(kind, RowOf(k))
      /\ kind = "criteria" => a.total <= QuestionMax(assignment.criteria)
  BY <1>1, <1>2, AnswersFit
<1>5. CASE kind \in V2Kinds
  <2> DEFINE f == [q \in Keys(rows) |-> UpperOf(q)]
             h == [q \in Keys(rows) |-> IF q = k THEN a.total ELSE UpperOf(q)]
  <2>1. Totals.total_upper = SumFunctionOnSet(f, Keys(rows))
    BY <1>5 DEF Totals, SchemeTotals, UpperOf, CountedOf, SumFunction
  <2>2. \A q : UpperOf(q)' = IF q = k THEN a.total ELSE UpperOf(q)
    BY <1>2, <1>3 DEF UpperOf, CountedOf, StoredTotal, StoredMark, RowOf
  <2>3. Totals'.total_upper = SumFunctionOnSet([q \in Keys(rows)' |-> UpperOf(q)'], Keys(rows)')
    BY <1>2, <1>5 DEF Totals, SchemeTotals, UpperOf, CountedOf, SumFunction
  <2>4. Totals'.total_upper = SumFunctionOnSet(h, Keys(rows))
    BY <1>2, <2>2, <2>3
  <2>5. \A q \in Keys(rows) : f[q] \in Int /\ h[q] \in Int /\ h[q] <= f[q]
    <3>1. \A q \in Keys(rows) : UpperOf(q) \in Nat
      BY <1>2, <1>5, PartsCount
    <3>2. k \in Keys(rows) => UpperOf(k) = RowMax(kind, RowOf(k)) /\ a.total <= RowMax(kind, RowOf(k))
      BY <1>2, <1>4, <1>5 DEF UpperOf, HasRow
    <3> QED BY <1>4, <3>1, <3>2
  <2>6. IsFiniteSet(Keys(rows))
    BY <1>2, <1>5, PartsCount
  <2> HIDE DEF f, h
  <2> QED BY <2>1, <2>4, <2>5, <2>6, SumAtMost
<1>6. CASE kind = "criteria"
  <2> DEFINE f == [i \in DOMAIN run.final |-> UpperAt(i)]
             h == [i \in DOMAIN run.final |-> IF run.final[i].key = k THEN a.total ELSE UpperAt(i)]
  <2>1. Totals.total_upper = Added(f)
    BY <1>6 DEF Totals, CriteriaTotals, UpperAt, CountedAt, V2Kinds
  <2>2. \A i : UpperAt(i)' = IF run.final[i].key = k THEN a.total ELSE UpperAt(i)
    BY <1>2, <1>3 DEF UpperAt, CountedAt
  <2>3. Totals'.total_upper = Added([i \in DOMAIN run'.final |-> UpperAt(i)'])
    BY <1>2, <1>6 DEF Totals, CriteriaTotals, UpperAt, CountedAt, V2Kinds
  <2>4. Totals'.total_upper = Added(h)
    BY <1>2, <2>2, <2>3
  <2>5. /\ IsFiniteSet(DOMAIN run.final) /\ DOMAIN run.final = 1 .. Len(run.final) /\ Len(run.final) \in Nat
        /\ \A i \in DOMAIN run.final : UpperAt(i) \in Int
    BY <1>2, <1>6, QuestionsAdd
  <2>6. \A i \in DOMAIN run.final : f[i] \in Int /\ h[i] \in Int /\ h[i] <= f[i]
    <3>1. \A i \in DOMAIN run.final : run.final[i].key = k => UpperAt(i) = QuestionMax(assignment.criteria)
      BY <1>2 DEF UpperAt
    <3>2. QuestionMax(assignment.criteria) \in Nat
      BY <1>2, <1>6, QuestionsAdd
    <3> QED BY <1>4, <1>6, <2>5, <3>1, <3>2
  <2>7. f \in Seq(Int) /\ h \in Seq(Int) /\ DOMAIN f = DOMAIN run.final /\ DOMAIN h = DOMAIN run.final
    <3>1. DOMAIN f = 1 .. Len(run.final) /\ DOMAIN h = 1 .. Len(run.final)
      BY <2>5
    <3>2. f \in [1 .. Len(run.final) -> Int] /\ h \in [1 .. Len(run.final) -> Int]
      BY <2>5, <2>6, <3>1
    <3> HIDE DEF f, h
    <3> QED BY <2>5, <3>1, <3>2
  <2> HIDE DEF f, h
  <2>8. Added(f) = SumFunctionOnSet(f, DOMAIN run.final) /\ Added(h) = SumFunctionOnSet(h, DOMAIN run.final)
    BY <2>7, SumAlong
  <2> QED BY <2>1, <2>4, <2>5, <2>6, <2>8, SumAtMost
<1> QED BY <1>2, <1>5, <1>6

\* A teacher's answer never raises the most a script can still get, for every scheme, every list of criteria and
\* every mark the marker and the reviewer may give, except for a part whose row lists nothing to award.
THEOREM UpperStays == OfficeSpec => UpperNeverRises
<1>1. ScriptSound /\ StoredSound /\ [OfficeNext]_<<which, scriptVars, choiceVars, bulkVars>> =>
         [\A k \in DOMAIN queue \ DOMAIN queue' :
             \/ Totals'.total_upper <= Totals.total_upper
             \/ kind \in V2Kinds /\ HasRow(k) /\ RowOf(k).points = <<>>]_scriptVars
  <2> DEFINE Falls == \A k \in DOMAIN queue \ DOMAIN queue' :
                         \/ Totals'.total_upper <= Totals.total_upper
                         \/ kind \in V2Kinds /\ HasRow(k) /\ RowOf(k).points = <<>>
  <2> SUFFICES ASSUME ScriptSound, StoredSound, [OfficeNext]_<<which, scriptVars, choiceVars, bulkVars>>
               PROVE  Falls \/ UNCHANGED scriptVars
    OBVIOUS
  <2>1. CASE Read \/ Mark \/ Check
    BY <2>1 DEF Read, Mark, Check
  <2>2. CASE Persist
    <3>1. queue = <<>>
      BY <2>2 DEF Persist, StoredSound, ScriptTypeOK
    <3>2. DOMAIN queue = {}
      BY <3>1
    <3> QED BY <3>2
  <2>3. ASSUME NEW q \in DOMAIN queue, Resolve(q)
        PROVE  Falls
    <3>1. DOMAIN queue \ DOMAIN queue' \subseteq {q}
      BY <2>3 DEF Resolve
    <3> QED BY <2>3, <3>1, UpperFalls
  <2> QED BY <2>1, <2>2, <2>3 DEF OfficeNext, ScriptNext
<1>2. OfficeSpec => [][\A k \in DOMAIN queue \ DOMAIN queue' :
                         \/ Totals'.total_upper <= Totals.total_upper
                         \/ kind \in V2Kinds /\ HasRow(k) /\ RowOf(k).points = <<>>]_scriptVars
  BY <1>1, OfficeKeepsScripts, OfficeKeepsStored, PTL DEF OfficeSpec
<1> QED BY <1>2 DEF UpperNeverRises

-----------------------------------------------------------------------------
(* The rows a teacher is shown *)

\* What is shown of a part.
ShownRow(q) == DetailRow(q, StoredTotal(q), IF HasRow(q) THEN RowMax(kind, RowOf(q)) ELSE 0)

\* A finite set is listed without repetition, to its last element.
LEMMA Listed ==
    ASSUME NEW S, IsFiniteSet(S)
    PROVE  /\ Cardinality(S) \in Nat
           /\ SetToSeq(S) \in [1 .. Cardinality(S) -> S]
           /\ \A i, j \in 1 .. Cardinality(S) : SetToSeq(S)[i] = SetToSeq(S)[j] => i = j
           /\ \A x \in S : \E i \in 1 .. Cardinality(S) : SetToSeq(S)[i] = x
<1> DEFINE n == Cardinality(S)
           s == SetToSeq(S)
<1>1. n \in Nat /\ ExistsBijection(1 .. n, S)
  BY FS_CardinalityType
<1>2. PICK b : b \in Bijection(1 .. n, S)
  BY <1>1 DEF ExistsBijection
<1>3. b \in [1 .. n -> S] /\ IsInjective(b)
  BY <1>2 DEF Bijection, Injection, IsInjective
<1>4. s \in [1 .. n -> S] /\ IsInjective(s)
  BY <1>3 DEF SetToSeq
<1> HIDE DEF s
<1>5. \A i, j \in 1 .. n : s[i] = s[j] => i = j
  BY <1>4 DEF IsInjective
<1>6. s \in Injection(1 .. n, S)
  BY <1>4, <1>5 DEF Injection, IsInjective
<1>7. IsFiniteSet(1 .. n) /\ Cardinality(1 .. n) = n
  BY <1>1, FS_Interval
<1>8. s \in Surjection(1 .. n, S)
  BY <1>6, <1>7, FS_Injection
<1>9. \A x \in S : \E i \in 1 .. n : s[i] = x
  BY <1>8 DEF Surjection
<1> QED BY <1>1, <1>4, <1>5, <1>9 DEF s

\* The sequence s has one row of each of the keys A.
Lines(s, A, row) ==
    /\ Len(s) \in Nat /\ DOMAIN s = 1 .. Len(s)
    /\ \A i \in DOMAIN s : s[i].key \in A /\ s[i] = row[s[i].key]
    /\ \A i, j \in DOMAIN s : s[i].key = s[j].key => i = j
    /\ \A q \in A : \E i \in DOMAIN s : s[i].key = q

\* Rows that are listed as a set are listed once each.
LEMMA SetLines ==
    ASSUME NEW A, IsFiniteSet(A), NEW row, NEW R, \A x \in R : x.key \in A /\ x = row[x.key],
           \A q \in A : row[q] \in R /\ row[q].key = q
    PROVE  SetToSeq(R) \in Seq(R) /\ Lines(SetToSeq(R), A, row)
<1> DEFINE s == SetToSeq(R)
           n == Cardinality(R)
<1>1. IsFiniteSet(R)
  <2>1. [q \in A |-> row[q]] \in Surjection(A, R)
    BY DEF Surjection
  <2> QED BY <2>1, FS_Surjection
<1>2. /\ n \in Nat /\ s \in [1 .. n -> R]
      /\ \A i, j \in 1 .. n : s[i] = s[j] => i = j
      /\ \A x \in R : \E i \in 1 .. n : s[i] = x
  BY <1>1, Listed
<1> HIDE DEF s, n
<1>3. s \in Seq(R) /\ Len(s) = n /\ DOMAIN s = 1 .. n
  BY <1>2
<1>4. \A i \in 1 .. n : s[i].key \in A /\ s[i] = row[s[i].key]
  BY <1>2
<1>5. \A i, j \in 1 .. n : s[i].key = s[j].key => i = j
  BY <1>2, <1>4
<1>6. \A q \in A : \E i \in 1 .. n : s[i].key = q
  BY <1>2
<1> QED BY <1>2, <1>3, <1>4, <1>5, <1>6 DEF Lines, s

\* The places of one list, and of another after it.
LEMMA OneAfterOther ==
    ASSUME NEW T, NEW a \in Seq(T), NEW b \in Seq(T)
    PROVE  /\ Len(a) \in Nat /\ Len(b) \in Nat
           /\ Len(a \o b) = Len(a) + Len(b) /\ DOMAIN (a \o b) = 1 .. Len(a) + Len(b)
           /\ \A i \in 1 .. Len(a) : i \in DOMAIN (a \o b) /\ (a \o b)[i] = a[i]
           /\ \A i \in 1 .. Len(b) : Len(a) + i \in DOMAIN (a \o b) /\ (a \o b)[Len(a) + i] = b[i]
           /\ \A k \in DOMAIN (a \o b) : k \in 1 .. Len(a) \/ \E i \in 1 .. Len(b) : k = Len(a) + i
<1>1. Len(a) \in Nat /\ Len(b) \in Nat
  OBVIOUS
<1>2. Len(a \o b) = Len(a) + Len(b) /\ DOMAIN (a \o b) = 1 .. Len(a) + Len(b)
  OBVIOUS
<1>3. \A i \in 1 .. Len(a) : i \in DOMAIN (a \o b) /\ (a \o b)[i] = a[i]
  BY <1>1, <1>2
<1>4. \A i \in 1 .. Len(b) : Len(a) + i \in DOMAIN (a \o b) /\ (a \o b)[Len(a) + i] = b[i]
  BY <1>1, <1>2
<1>5. ASSUME NEW k \in 1 .. Len(a) + Len(b), ~(k \in 1 .. Len(a))
      PROVE  \E i \in 1 .. Len(b) : k = Len(a) + i
  <2>1. k - Len(a) \in 1 .. Len(b) /\ k = Len(a) + (k - Len(a))
    BY <1>1, <1>5
  <2> QED BY <2>1
<1> QED BY <1>1, <1>2, <1>3, <1>4, <1>5

\* Two lists of rows of other keys, one after the other.
LEMMA JoinedLines ==
    ASSUME NEW T, NEW a \in Seq(T), NEW b \in Seq(T), NEW A, NEW B, A \cap B = {}, NEW row,
           Lines(a, A, row), Lines(b, B, row)
    PROVE  Lines(a \o b, A \cup B, row)
<1> DEFINE n == Len(a)
           m == Len(b)
           D == a \o b
<1>1. /\ n \in Nat /\ m \in Nat /\ Len(D) = n + m /\ DOMAIN D = 1 .. n + m
      /\ \A i \in 1 .. n : i \in DOMAIN D /\ D[i] = a[i]
      /\ \A i \in 1 .. m : n + i \in DOMAIN D /\ D[n + i] = b[i]
      /\ \A k \in DOMAIN D : k \in 1 .. n \/ \E i \in 1 .. m : k = n + i
  BY OneAfterOther
<1>2. /\ \A i \in 1 .. n : a[i].key \in A /\ a[i] = row[a[i].key]
      /\ \A i, j \in 1 .. n : a[i].key = a[j].key => i = j
      /\ \A q \in A : \E i \in 1 .. n : a[i].key = q
  BY DEF Lines
<1>3. /\ \A i \in 1 .. m : b[i].key \in B /\ b[i] = row[b[i].key]
      /\ \A i, j \in 1 .. m : b[i].key = b[j].key => i = j
      /\ \A q \in B : \E i \in 1 .. m : b[i].key = q
  BY DEF Lines
<1> HIDE DEF n, m, D
<1>4. ASSUME NEW i \in DOMAIN D
      PROVE  D[i].key \in A \cup B /\ D[i] = row[D[i].key]
  <2>1. CASE i \in 1 .. n
    <3>1. D[i] = a[i] /\ a[i].key \in A /\ a[i] = row[a[i].key]
      BY <1>1, <1>2, <2>1
    <3> QED BY <3>1
  <2>2. ASSUME NEW l \in 1 .. m, i = n + l
        PROVE  D[i].key \in A \cup B /\ D[i] = row[D[i].key]
    <3>1. D[i] = b[l] /\ b[l].key \in B /\ b[l] = row[b[l].key]
      BY <1>1, <1>3, <2>2
    <3> QED BY <3>1
  <2> QED BY <1>1, <2>1, <2>2
<1>5. ASSUME NEW i \in DOMAIN D, NEW j \in DOMAIN D, D[i].key = D[j].key
      PROVE  i = j
  <2>1. CASE i \in 1 .. n
    <3>1. CASE j \in 1 .. n
      BY <1>1, <1>2, <1>5, <2>1, <3>1
    <3>2. ASSUME NEW l \in 1 .. m, j = n + l PROVE FALSE
      <4>1. D[i].key \in A
        BY <1>1, <1>2, <2>1
      <4>2. D[j].key \in B
        BY <1>1, <1>3, <3>2
      <4> QED BY <1>5, <4>1, <4>2
    <3> QED BY <1>1, <3>1, <3>2
  <2>2. ASSUME NEW k \in 1 .. m, i = n + k PROVE i = j
    <3>1. CASE j \in 1 .. n
      <4>1. D[j].key \in A
        BY <1>1, <1>2, <3>1
      <4>2. D[i].key \in B
        BY <1>1, <1>3, <2>2
      <4> QED BY <1>5, <4>1, <4>2
    <3>2. ASSUME NEW l \in 1 .. m, j = n + l PROVE i = j
      <4>1. b[k].key = b[l].key
        BY <1>1, <1>5, <2>2, <3>2
      <4> QED BY <1>3, <2>2, <3>2, <4>1
    <3> QED BY <1>1, <3>1, <3>2
  <2> QED BY <1>1, <2>1, <2>2
<1>6. ASSUME NEW q \in A \cup B
      PROVE  \E i \in DOMAIN D : D[i].key = q
  <2>1. CASE q \in A
    <3>1. PICK i \in 1 .. n : a[i].key = q
      BY <1>2, <2>1
    <3>2. i \in DOMAIN D /\ D[i].key = q
      BY <1>1, <3>1
    <3> QED BY <3>2
  <2>2. CASE q \in B
    <3>1. PICK i \in 1 .. m : b[i].key = q
      BY <1>3, <2>2
    <3>2. n + i \in DOMAIN D /\ D[n + i].key = q
      BY <1>1, <3>1
    <3> QED BY <3>2
  <2> QED BY <2>1, <2>2
<1>7. Len(D) \in Nat /\ DOMAIN D = 1 .. Len(D)
  BY <1>1
<1> QED BY <1>4, <1>5, <1>6, <1>7 DEF Lines, D

\* Against a scheme each stored part is shown once.
LEMMA PartsShown ==
    ASSUME ScriptSound, StoredSound, stage = "stored", kind \in V2Kinds
    PROVE  /\ Len(DetailRows) \in Nat /\ DOMAIN DetailRows = 1 .. Len(DetailRows)
           /\ \A i \in DOMAIN DetailRows : /\ DetailRows[i].key \in DOMAIN run.final
                                           /\ DetailRows[i] = ShownRow(DetailRows[i].key)
           /\ \A i, j \in DOMAIN DetailRows : DetailRows[i].key = DetailRows[j].key => i = j
           /\ \A q \in DOMAIN run.final : \E i \in DOMAIN DetailRows : DetailRows[i].key = q
           /\ Keys(DetailRows) = DOMAIN run.final
           /\ \A q \in DOMAIN run.final : LastOf(DetailRows, q) = ShownRow(q)
<1> DEFINE A   == Keys(rows)
           B   == DOMAIN run.final \ Keys(rows)
           row == [q \in DOMAIN run.final |-> ShownRow(q)]
           D   == DetailRows
<1>1. A \cup B = DOMAIN run.final /\ A \cap B = {} /\ IsFiniteSet(DOMAIN run.final)
  BY DEF StoredSound
<1>2. IsFiniteSet(A) /\ IsFiniteSet(B)
  <2>1. A \in SUBSET DOMAIN run.final /\ B \in SUBSET DOMAIN run.final
    BY <1>1
  <2> HIDE DEF A, B
  <2> QED BY <1>1, <2>1, FS_Subset
<1>3. \A q \in DOMAIN run.final : row[q].key = q /\ row[q] = ShownRow(q)
  BY DEF ShownRow, DetailRow
<1> DEFINE RA == {ShownRow(q) : q \in A}
           RB == {ShownRow(q) : q \in B}
<1>4. /\ \A x \in RA : x.key \in A /\ x = row[x.key]
      /\ \A q \in A : row[q] \in RA /\ row[q].key = q
      /\ \A x \in RB : x.key \in B /\ x = row[x.key]
      /\ \A q \in B : row[q] \in RB /\ row[q].key = q
  <2> HIDE DEF A, B, row
  <2> QED BY <1>1, <1>3
<1>5. D = (SetToSeq(RA) \o SetToSeq(RB))
  BY DEF DetailRows, DetailParts, ShownRow
<1> HIDE DEF A, B, row, D, RA, RB
<1>6. /\ Len(D) \in Nat /\ DOMAIN D = 1 .. Len(D)
      /\ \A i \in DOMAIN D : D[i].key \in A \cup B /\ D[i] = row[D[i].key]
      /\ \A i, j \in DOMAIN D : D[i].key = D[j].key => i = j
      /\ \A q \in A \cup B : \E i \in DOMAIN D : D[i].key = q
  <2>1. SetToSeq(RA) \in Seq(RA) /\ Lines(SetToSeq(RA), A, row)
    BY <1>2, <1>4, SetLines
  <2>2. SetToSeq(RB) \in Seq(RB) /\ Lines(SetToSeq(RB), B, row)
    BY <1>2, <1>4, SetLines
  <2> DEFINE T == RA \cup RB
  <2>3. SetToSeq(RA) \in Seq(T) /\ SetToSeq(RB) \in Seq(T)
    BY <2>1, <2>2
  <2> HIDE DEF T
  <2>4. Lines(D, A \cup B, row)
    BY <1>1, <1>5, <2>1, <2>2, <2>3, JoinedLines
  <2> QED BY <2>4 DEF Lines
<1>7. Keys(D) = DOMAIN run.final
  BY <1>1, <1>6 DEF Keys
<1>8. ASSUME NEW q \in DOMAIN run.final PROVE LastOf(D, q) = ShownRow(q)
  <2>1. PICK i \in DOMAIN D : D[i].key = q
    BY <1>1, <1>6
  <2>2. {j \in DOMAIN D : D[j].key = q} = {i}
    BY <1>6, <2>1
  <2>3. Max({j \in DOMAIN D : D[j].key = q}) = i
    <3> DEFINE X == {j \in DOMAIN D : D[j].key = q}
    <3>1. X \in SUBSET (1 .. Len(D)) /\ X # {} /\ X = {i}
      BY <1>6, <2>1, <2>2
    <3> HIDE DEF X
    <3>2. Max(X) \in X
      BY <1>6, <3>1, MaxIsOne
    <3> QED BY <3>1, <3>2 DEF X
  <2> QED BY <1>1, <1>3, <1>6, <2>1, <2>3 DEF LastOf
<1> QED BY <1>1, <1>3, <1>6, <1>7, <1>8 DEF D


\* Without a scheme each stored question is shown at its place.
LEMMA QuestionsShown ==
    ASSUME ScriptSound, StoredSound, stage = "stored", kind = "criteria"
    PROVE  /\ DOMAIN DetailRows = DOMAIN run.final /\ Len(DetailRows) = Len(run.final)
           /\ DOMAIN run.final = 1 .. Len(run.final) /\ Len(run.final) \in Nat
           /\ \A i \in DOMAIN run.final :
                 DetailRows[i] = DetailRow(run.final[i].key, run.final[i].total, QuestionMax(assignment.criteria))
           /\ Keys(DetailRows) = Keys(run.final)
           /\ \A q \in Keys(DetailRows) : \E i \in DOMAIN DetailRows :
                 LastOf(DetailRows, q) = DetailRows[i] /\ DetailRows[i].key = q
<1> DEFINE D == DetailRows
           f == run.final
<1>1. D = [i \in DOMAIN f |-> DetailRow(f[i].key, f[i].total, QuestionMax(assignment.criteria))]
  BY DEF DetailRows, DetailMarks, V2Kinds
<1>2. DOMAIN f = 1 .. Len(f) /\ Len(f) \in Nat
  BY DEF StoredSound
<1> HIDE DEF D, f
<1>3. DOMAIN D = DOMAIN f /\ Len(D) = Len(f)
  BY <1>1, <1>2
<1>4. \A i \in DOMAIN f : D[i] = DetailRow(f[i].key, f[i].total, QuestionMax(assignment.criteria)) /\ D[i].key = f[i].key
  BY <1>1 DEF DetailRow
<1>5. Keys(D) = Keys(f)
  BY <1>3, <1>4 DEF Keys
<1>6. ASSUME NEW q \in Keys(D)
      PROVE  \E i \in DOMAIN D : LastOf(D, q) = D[i] /\ D[i].key = q
  <2> DEFINE X == {i \in DOMAIN D : D[i].key = q}
  <2>1. X \in SUBSET (1 .. Len(D)) /\ X # {} /\ Len(D) \in Nat
    BY <1>2, <1>3 DEF Keys
  <2>2. \A i \in X : i \in DOMAIN D /\ D[i].key = q
    OBVIOUS
  <2>3. LastOf(D, q) = D[Max(X)]
    BY DEF LastOf
  <2> HIDE DEF X
  <2>4. Max(X) \in X
    BY <2>1, MaxIsOne
  <2> QED BY <2>2, <2>3, <2>4
<1> QED BY <1>2, <1>3, <1>4, <1>5, <1>6 DEF D, f

\* Once nothing is pending the most a script can get is what it has.
LEMMA NothingPending ==
    ASSUME ScriptSound, StoredSound, stage = "stored", queue = <<>>
    PROVE  Totals.total = Totals.total_upper
<1>1. DOMAIN queue = {}
  OBVIOUS
<1>2. CASE kind \in V2Kinds
  BY <1>1, <1>2 DEF Totals, SchemeTotals
<1>3. CASE ~(kind \in V2Kinds)
  BY <1>1, <1>3 DEF Totals, CriteriaTotals
<1> QED BY <1>2, <1>3

\* The one value of a set.
LEMMA TheOne ==
    ASSUME NEW x
    PROVE  The({x}) = x
  BY DEF The

\* A row of the record, field by field.
LEMMA RecordFields ==
    ASSUME NEW d
    PROVE  /\ RecordRow(d).key = d.key
           /\ RecordRow(d).to_review = (d.teacher = {} /\ d.escalated)
           /\ RecordRow(d).awarded = IF d.teacher # {} THEN d.teacher ELSE IF d.escalated THEN {} ELSE {d.total}
  BY DEF RecordRow

\* The marking record agrees with the queue and with the totals.
LEMMA RecordFits ==
    ASSUME ScriptSound, StoredSound
    PROVE  RecordAgrees
<1> SUFFICES ASSUME stage = "stored" PROVE RecordAgrees
  BY DEF RecordAgrees
<1> DEFINE D        == DetailRows
           record   == RecordRows
           toReview == {i \in DOMAIN record : record[i].to_review}
           counted  == {i \in DOMAIN record : kind \in V2Kinds => HasRow(record[i].key)}
           awarded  == [i \in counted |-> The(record[i].awarded)]
<1>1. kind \in V2Kinds \cup {"criteria"} /\ DOMAIN queue \cap DOMAIN corrections = {}
  BY OutputsAssumption DEF ScriptSound, StoredSound, ScriptTypeOK, Assignment, kind
<1>2. DOMAIN record = DOMAIN D /\ \A i \in DOMAIN D : record[i] = RecordRow(D[i])
  BY DEF RecordRows
<1> HIDE DEF record, D
<1>3. ASSUME \A i \in DOMAIN D : \E t, x : D[i] = DetailRow(D[i].key, t, x),
             DOMAIN queue \subseteq Keys(D)
      PROVE  /\ {record[i].key : i \in toReview} = DOMAIN queue
             /\ queue = <<>> => \A i \in DOMAIN D :
                   /\ record[i].key = D[i].key
                   /\ record[i].awarded = IF D[i].key \in DOMAIN corrections THEN {corrections[D[i].key].total}
                                                                              ELSE {D[i].total}
  <2>1. ASSUME NEW i \in DOMAIN D
        PROVE  /\ D[i].escalated <=> D[i].key \in DOMAIN queue
               /\ D[i].teacher = IF D[i].key \in DOMAIN corrections THEN {corrections[D[i].key].total} ELSE {}
    <3>1. PICK t, x : D[i] = DetailRow(D[i].key, t, x)
      BY <1>3
    <3> DEFINE q == D[i].key
    <3>2. DetailRow(q, t, x).escalated = (q \in DOMAIN queue)
      BY DEF DetailRow
    <3>3. DetailRow(q, t, x).teacher = IF q \in DOMAIN corrections THEN {corrections[q].total} ELSE {}
      BY DEF DetailRow
    <3> QED BY <3>1, <3>2, <3>3
  <2>2. ASSUME NEW i \in DOMAIN D
        PROVE  /\ record[i].key = D[i].key /\ (record[i].to_review <=> D[i].key \in DOMAIN queue)
               /\ record[i].awarded = IF D[i].key \in DOMAIN corrections THEN {corrections[D[i].key].total}
                                      ELSE IF D[i].key \in DOMAIN queue THEN {} ELSE {D[i].total}
    <3>1. record[i] = RecordRow(D[i])
      BY <1>2
    <3> DEFINE d == D[i]
    <3>2. /\ RecordRow(d).key = d.key
          /\ RecordRow(d).to_review = (d.teacher = {} /\ d.escalated)
          /\ RecordRow(d).awarded = IF d.teacher # {} THEN d.teacher ELSE IF d.escalated THEN {} ELSE {d.total}
      BY RecordFields
    <3>3. (d.escalated <=> d.key \in DOMAIN queue) /\ (d.teacher # {} <=> d.key \in DOMAIN corrections)
      BY <2>1
    <3>4. record[i].key = d.key
      BY <3>1, <3>2
    <3>5. record[i].to_review <=> d.key \in DOMAIN queue
      BY <1>1, <3>1, <3>2, <3>3
    <3>6. record[i].awarded = IF d.teacher # {} THEN d.teacher ELSE IF d.escalated THEN {} ELSE {d.total}
      BY <3>1, <3>2
    <3> QED BY <2>1, <3>3, <3>4, <3>5, <3>6
  <2>3. {record[i].key : i \in toReview} = DOMAIN queue
    <3>1. \A i \in toReview : i \in DOMAIN D /\ record[i].to_review
      BY <1>2
    <3>2. \A i \in toReview : record[i].key \in DOMAIN queue
      BY <2>2, <3>1
    <3>3. ASSUME NEW q \in DOMAIN queue PROVE \E i \in toReview : record[i].key = q
      <4>1. PICK i \in DOMAIN D : D[i].key = q
        BY <1>3 DEF Keys
      <4>2. record[i].key = q /\ record[i].to_review
        BY <2>2, <4>1
      <4>3. i \in toReview
        BY <1>2, <4>2
      <4> QED BY <4>2, <4>3
    <3> HIDE DEF toReview
    <3> QED BY <3>2, <3>3
  <2>4. ASSUME queue = <<>>, NEW i \in DOMAIN D
        PROVE  record[i].awarded = IF D[i].key \in DOMAIN corrections THEN {corrections[D[i].key].total} ELSE {D[i].total}
    <3>1. DOMAIN queue = {}
      BY <2>4
    <3> QED BY <2>2, <3>1
  <2> QED BY <2>2, <2>3, <2>4
<1>4. CASE kind \in V2Kinds
  <2>1. /\ Len(D) \in Nat /\ DOMAIN D = 1 .. Len(D)
        /\ \A i \in DOMAIN D : D[i].key \in DOMAIN run.final /\ D[i] = ShownRow(D[i].key)
        /\ \A i, j \in DOMAIN D : D[i].key = D[j].key => i = j
        /\ \A q \in DOMAIN run.final : \E i \in DOMAIN D : D[i].key = q
        /\ Keys(D) = DOMAIN run.final
    BY <1>4, PartsShown DEF D
  <2>2. \A i \in DOMAIN D : \E t, x : D[i] = DetailRow(D[i].key, t, x)
    BY <2>1 DEF ShownRow
  <2>3. DOMAIN queue \subseteq Keys(D) /\ Keys(rows) \subseteq DOMAIN run.final
    BY <1>4, <2>1 DEF StoredSound
  <2>4. {record[i].key : i \in toReview} = DOMAIN queue
    BY <1>3, <2>2, <2>3
  <2>5. ASSUME queue = <<>>
        PROVE  Totals.total = SumFunctionOnSet(awarded, counted)
    <3> DEFINE c == [q \in Keys(rows) |-> CountedOf(q)]
               b == [i \in counted |-> record[i].key]
    <3>1. Totals.total = SumFunctionOnSet(c, Keys(rows))
      BY <1>4 DEF Totals, SchemeTotals, CountedOf, SumFunction
    <3>2. \A i \in DOMAIN D : record[i].key = D[i].key /\ awarded[i] = awarded[i]
      BY <1>3, <2>2, <2>3, <2>5
    <3>3. counted = {i \in DOMAIN D : D[i].key \in Keys(rows)}
      BY <1>2, <1>4, <3>2 DEF HasRow
    <3>4. b \in Bijection(counted, Keys(rows))
      <4>1. b \in [counted -> Keys(rows)] /\ \A i, j \in counted : b[i] = b[j] => i = j
        BY <2>1, <3>2, <3>3
      <4>2. \A q \in Keys(rows) : \E i \in counted : b[i] = q
        BY <2>1, <2>3, <3>2, <3>3
      <4> QED BY <4>1, <4>2 DEF Bijection, Injection, IsInjective, Surjection
    <3>5. IsFiniteSet(counted)
      <4>1. IsFiniteSet(DOMAIN D)
        BY <2>1, FS_Interval
      <4> QED BY <3>3, <4>1, FS_Subset
    <3>6. ASSUME NEW i \in counted
          PROVE  c[b[i]] \in Int /\ awarded[i] = c[b[i]]
      <4>1. i \in DOMAIN D /\ D[i].key \in Keys(rows) /\ b[i] = D[i].key
        BY <3>2, <3>3
      <4>2. c[b[i]] = CountedOf(D[i].key) /\ CountedOf(D[i].key) \in Nat
        BY <1>4, <4>1, PartsCount
      <4>3. D[i].total = StoredTotal(D[i].key)
        BY <2>1, <4>1 DEF ShownRow, DetailRow
      <4>4. record[i].awarded = {CountedOf(D[i].key)}
        <5>1. record[i].awarded = IF D[i].key \in DOMAIN corrections THEN {corrections[D[i].key].total}
                                                                      ELSE {D[i].total}
          BY <1>3, <2>2, <2>3, <2>5, <4>1
        <5> QED BY <4>3, <5>1 DEF CountedOf
      <4>5. awarded[i] = CountedOf(D[i].key)
        BY <4>4, TheOne
      <4> QED BY <4>2, <4>5
    <3> HIDE DEF b, c, awarded, counted
    <3> QED BY <3>1, <3>4, <3>5, <3>6, SumMoved
  <2> QED BY <2>4, <2>5, NothingPending DEF RecordAgrees, record, SumFunction
<1>5. CASE kind = "criteria"
  <2>1. /\ DOMAIN D = DOMAIN run.final
        /\ \A i \in DOMAIN run.final :
                 D[i] = DetailRow(run.final[i].key, run.final[i].total, QuestionMax(assignment.criteria))
        /\ Keys(D) = Keys(run.final)
    BY <1>5, QuestionsShown DEF D
  <2>2. ASSUME NEW i \in DOMAIN D
        PROVE  D[i].key = run.final[i].key /\ D[i].total = run.final[i].total
    <3> DEFINE q == run.final[i].key
               t == run.final[i].total
               x == QuestionMax(assignment.criteria)
    <3>1. D[i] = DetailRow(q, t, x)
      BY <2>1
    <3>2. DetailRow(q, t, x).key = q /\ DetailRow(q, t, x).total = t
      BY DEF DetailRow
    <3> QED BY <3>1, <3>2
  <2>3. \A i \in DOMAIN D : \E t, x : D[i] = DetailRow(D[i].key, t, x)
    BY <2>1, <2>2
  <2>4. DOMAIN queue \subseteq Keys(D)
    BY <1>5, <2>1 DEF StoredSound
  <2>5. {record[i].key : i \in toReview} = DOMAIN queue
    BY <1>3, <2>3, <2>4
  <2>6. ASSUME queue = <<>>
        PROVE  Totals.total = SumFunctionOnSet(awarded, counted)
    <3> DEFINE c == [i \in DOMAIN run.final |-> CountedAt(i)]
    <3>1. Totals.total = Added(c)
      BY <1>5 DEF Totals, CriteriaTotals, CountedAt, V2Kinds
    <3>2. counted = DOMAIN run.final
      BY <1>2, <1>5, <2>1 DEF V2Kinds
    <3>3. \A i \in DOMAIN run.final : record[i].awarded = {CountedAt(i)}
      BY <1>3, <2>1, <2>2, <2>3, <2>4, <2>6 DEF CountedAt
    <3>4. awarded = c
      BY <3>2, <3>3, TheOne
    <3>5. c \in Seq(Int) /\ DOMAIN c = DOMAIN run.final
      <4>1. DOMAIN run.final = 1 .. Len(run.final) /\ Len(run.final) \in Nat /\ \A i \in DOMAIN run.final : CountedAt(i) \in Int
        BY <1>5, QuestionsAdd
      <4> QED BY <4>1
    <3> HIDE DEF c, awarded, counted
    <3>6. Added(c) = SumFunctionOnSet(c, DOMAIN c)
      BY <3>5, SumAlong
    <3> QED BY <3>1, <3>2, <3>4, <3>5, <3>6
  <2> QED BY <2>5, <2>6, NothingPending DEF RecordAgrees, record, SumFunction
<1> QED BY <1>1, <1>4, <1>5

-----------------------------------------------------------------------------
(* What is shown of a class *)

\* What is read off a row of the detail page.
LEMMA CellFits ==
    ASSUME NEW q, NEW t, NEW x, NEW d, d = DetailRow(q, t, x), DOMAIN queue \cap DOMAIN corrections = {}
    PROVE  /\ d.key = q /\ d.max = x
           /\ d.escalated <=> q \in DOMAIN queue
           /\ MarkOf(d) = IF q \in DOMAIN corrections THEN corrections[q].total ELSE t
           /\ FinalMark(d) = IF q \in DOMAIN queue THEN Review ELSE {MarkOf(d)}
<1>1. /\ d.key = q /\ d.max = x /\ d.total = t
      /\ d.teacher = IF q \in DOMAIN corrections THEN {corrections[q].total} ELSE {}
  BY DEF DetailRow
<1>2. d.escalated <=> q \in DOMAIN queue
  BY DEF DetailRow
<1>3. MarkOf(d) = IF q \in DOMAIN corrections THEN corrections[q].total ELSE t
  BY <1>1, TheOne DEF MarkOf
<1>4. FinalMark(d) = IF q \in DOMAIN queue THEN Review ELSE {MarkOf(d)}
  BY <1>1, <1>2, <1>3 DEF FinalMark
<1> QED BY <1>1, <1>2, <1>3, <1>4

\* The views of a script against a scheme: they have its rows, each with what it counts for.
LEMMA SchemeViews ==
    ASSUME ScriptSound, StoredSound, stage = "stored", kind \in V2Kinds
    PROVE  /\ DOMAIN PartColumns = Keys(rows) /\ DOMAIN FinalMarkByKey = DOMAIN run.final
           /\ Keys(rows) \subseteq DOMAIN run.final
           /\ \A q \in DOMAIN run.final :
                 /\ MarkOf(ShownRow(q)) = CountedOf(q)
                 /\ FinalMarkByKey[q] = IF q \in DOMAIN queue THEN Review ELSE {CountedOf(q)}
           /\ Scored = Keys(rows) \ DOMAIN queue
           /\ \A q \in Keys(rows) : PartMarks[q].total = CountedOf(q)
           /\ MaxTotal = Totals.total_max
<1>1. /\ Keys(DetailRows) = DOMAIN run.final
      /\ \A q \in DOMAIN run.final : LastOf(DetailRows, q) = ShownRow(q)
  BY PartsShown
<1>2. DOMAIN PartColumns = Keys(rows) /\ Keys(rows) \subseteq DOMAIN run.final
  BY DEF PartColumns, StoredSound
<1>3. ASSUME NEW q \in DOMAIN run.final
      PROVE  /\ (ShownRow(q).escalated <=> q \in DOMAIN queue) /\ MarkOf(ShownRow(q)) = CountedOf(q)
             /\ FinalMark(ShownRow(q)) = IF q \in DOMAIN queue THEN Review ELSE {CountedOf(q)}
  <2> DEFINE d == ShownRow(q)
             t == StoredTotal(q)
             x == IF HasRow(q) THEN RowMax(kind, RowOf(q)) ELSE 0
  <2>1. d = DetailRow(q, t, x) /\ DOMAIN queue \cap DOMAIN corrections = {}
    BY DEF ShownRow, StoredSound, ScriptTypeOK
  <2> HIDE DEF d, t, x
  <2>2. /\ d.escalated <=> q \in DOMAIN queue
        /\ MarkOf(d) = IF q \in DOMAIN corrections THEN corrections[q].total ELSE t
        /\ FinalMark(d) = IF q \in DOMAIN queue THEN Review ELSE {MarkOf(d)}
    BY <2>1, CellFits
  <2>3. MarkOf(d) = CountedOf(q)
    BY <2>2 DEF CountedOf, t
  <2> QED BY <2>2, <2>3 DEF d
<1>4. /\ DOMAIN FinalMarkByKey = DOMAIN run.final
      /\ \A q \in DOMAIN run.final : FinalMarkByKey[q] = FinalMark(ShownRow(q))
  BY <1>1 DEF FinalMarkByKey
<1>5. /\ DOMAIN PartMarks = DOMAIN run.final
      /\ \A q \in DOMAIN run.final : PartMarks[q] = [total |-> MarkOf(ShownRow(q)), pending |-> ShownRow(q).escalated]
  BY <1>1 DEF PartMarks
<1>6. ASSUME NEW q \in Keys(rows)
      PROVE  PartMarks[q].total = CountedOf(q) /\ (PartMarks[q].pending <=> q \in DOMAIN queue)
  <2>1. q \in DOMAIN run.final
    BY <1>2
  <2> DEFINE d == ShownRow(q)
  <2>2. (d.escalated <=> q \in DOMAIN queue) /\ MarkOf(d) = CountedOf(q)
    BY <1>3, <2>1
  <2>3. PartMarks[q] = [total |-> MarkOf(d), pending |-> d.escalated]
    BY <1>5, <2>1
  <2> HIDE DEF d
  <2> QED BY <2>2, <2>3
<1>7. Scored = Keys(rows) \ DOMAIN queue
  BY <1>2, <1>5, <1>6 DEF Scored
<1>8. MaxTotal = Totals.total_max
  BY DEF MaxTotal, PartColumns, Totals, SchemeTotals, RowOf
<1> QED BY <1>2, <1>3, <1>4, <1>6, <1>7, <1>8

\* The views of a script without one: they have its questions, each with what its last row counts for.
LEMMA QuestionViews ==
    ASSUME ScriptSound, StoredSound, stage = "stored", kind = "criteria"
    PROVE  /\ DOMAIN PartColumns = Keys(run.final) /\ DOMAIN FinalMarkByKey = Keys(run.final)
           /\ Scored = Keys(run.final) \ DOMAIN queue
           /\ \A q \in Keys(run.final) :
                 /\ FinalMarkByKey[q] = IF q \in DOMAIN queue THEN Review ELSE {PartMarks[q].total}
                 /\ \E i \in DOMAIN run.final : run.final[i].key = q /\ PartMarks[q].total = CountedAt(i)
                 /\ PartColumns[q] = QuestionMax(assignment.criteria)
<1>1. /\ DOMAIN DetailRows = DOMAIN run.final /\ Keys(DetailRows) = Keys(run.final)
      /\ \A i \in DOMAIN run.final :
            DetailRows[i] = DetailRow(run.final[i].key, run.final[i].total, QuestionMax(assignment.criteria))
      /\ \A q \in Keys(DetailRows) : \E i \in DOMAIN DetailRows :
            LastOf(DetailRows, q) = DetailRows[i] /\ DetailRows[i].key = q
  BY QuestionsShown
<1>2. /\ DOMAIN PartColumns = Keys(run.final)
      /\ \A q \in Keys(run.final) : PartColumns[q] = QuestionMax(assignment.criteria)
  BY <1>1 DEF PartColumns, V2Kinds
<1>3. ASSUME NEW q \in Keys(run.final)
      PROVE  \E i \in DOMAIN run.final :
                /\ run.final[i].key = q
                /\ LastOf(DetailRows, q).escalated <=> q \in DOMAIN queue
                /\ MarkOf(LastOf(DetailRows, q)) = CountedAt(i)
                /\ FinalMark(LastOf(DetailRows, q)) = IF q \in DOMAIN queue THEN Review ELSE {CountedAt(i)}
  <2>1. PICK i \in DOMAIN run.final : LastOf(DetailRows, q) = DetailRows[i] /\ DetailRows[i].key = q
    BY <1>1
  <2> DEFINE d == DetailRows[i]
             k == run.final[i].key
             t == run.final[i].total
             x == QuestionMax(assignment.criteria)
  <2>2. d = DetailRow(k, t, x) /\ DOMAIN queue \cap DOMAIN corrections = {}
    BY <1>1 DEF StoredSound, ScriptTypeOK
  <2>3. CountedAt(i) = IF k \in DOMAIN corrections THEN corrections[k].total ELSE t
    BY DEF CountedAt
  <2> HIDE DEF d, k, t, x
  <2>4. /\ d.key = k
        /\ d.escalated <=> k \in DOMAIN queue
        /\ MarkOf(d) = IF k \in DOMAIN corrections THEN corrections[k].total ELSE t
        /\ FinalMark(d) = IF k \in DOMAIN queue THEN Review ELSE {MarkOf(d)}
    BY <2>2, CellFits
  <2>5. d.key = q /\ k = q /\ d = LastOf(DetailRows, q)
    BY <2>1, <2>4 DEF d
  <2> QED BY <2>3, <2>4, <2>5 DEF k
<1>4. /\ DOMAIN FinalMarkByKey = Keys(run.final)
      /\ \A q \in Keys(run.final) : FinalMarkByKey[q] = FinalMark(LastOf(DetailRows, q))
  BY <1>1 DEF FinalMarkByKey
<1>5. /\ DOMAIN PartMarks = Keys(run.final)
      /\ \A q \in Keys(run.final) :
            PartMarks[q] = [total |-> MarkOf(LastOf(DetailRows, q)), pending |-> LastOf(DetailRows, q).escalated]
  BY <1>1 DEF PartMarks
<1>6. \A q \in Keys(run.final) : PartMarks[q].pending <=> q \in DOMAIN queue
  BY <1>3, <1>5
<1>7. Scored = Keys(run.final) \ DOMAIN queue
  BY <1>2, <1>5, <1>6 DEF Scored
<1>8. ASSUME NEW q \in Keys(run.final)
      PROVE  /\ FinalMarkByKey[q] = IF q \in DOMAIN queue THEN Review ELSE {PartMarks[q].total}
             /\ \E i \in DOMAIN run.final : run.final[i].key = q /\ PartMarks[q].total = CountedAt(i)
  <2>1. PICK i \in DOMAIN run.final :
                /\ run.final[i].key = q
                /\ MarkOf(LastOf(DetailRows, q)) = CountedAt(i)
                /\ FinalMark(LastOf(DetailRows, q)) = IF q \in DOMAIN queue THEN Review ELSE {CountedAt(i)}
    BY <1>3
  <2>2. PartMarks[q].total = CountedAt(i)
    BY <1>5, <2>1
  <2> QED BY <1>4, <2>1, <2>2
<1> QED BY <1>2, <1>4, <1>7, <1>8

\* The views of the class agree.
LEMMA ViewsFit ==
    ASSUME ScriptSound, StoredSound
    PROVE  ViewsAgree
<1> SUFFICES ASSUME stage = "stored" PROVE ViewsAgree
  BY DEF ViewsAgree
<1> DEFINE cells == DOMAIN PartColumns \cap DOMAIN FinalMarkByKey
           mark  == [q \in cells |-> The(FinalMarkByKey[q])]
           part  == [q \in Scored |-> PartMarks[q].total]
<1>1. kind \in V2Kinds \cup {"criteria"}
  BY OutputsAssumption DEF ScriptSound, Assignment, kind
<1>2. CASE kind \in V2Kinds
  <2>1. /\ DOMAIN PartColumns = Keys(rows) /\ DOMAIN FinalMarkByKey = DOMAIN run.final
        /\ Keys(rows) \subseteq DOMAIN run.final
        /\ \A q \in DOMAIN run.final : FinalMarkByKey[q] = IF q \in DOMAIN queue THEN Review ELSE {CountedOf(q)}
        /\ Scored = Keys(rows) \ DOMAIN queue
        /\ \A q \in Keys(rows) : PartMarks[q].total = CountedOf(q)
        /\ MaxTotal = Totals.total_max
    BY <1>2, SchemeViews
  <2>2. cells = Keys(rows)
    BY <2>1
  <2>3. ASSUME NEW q \in cells
        PROVE  (FinalMarkByKey[q] = Review) = (q \in DOMAIN queue)
    <3>1. q \in DOMAIN queue => FinalMarkByKey[q] = {}
      BY <2>1, <2>2 DEF Review
    <3>2. q \notin DOMAIN queue => FinalMarkByKey[q] # {}
      BY <2>1, <2>2
    <3> QED BY <3>1, <3>2 DEF Review
  <2>4. ASSUME queue = <<>>
        PROVE  Totals.total = SumFunction(mark) /\ Totals.total = SumFunction(part)
    <3> DEFINE c == [q \in Keys(rows) |-> CountedOf(q)]
    <3>1. Totals.total = SumFunction(c)
      BY <1>2 DEF Totals, SchemeTotals, CountedOf
    <3>2. DOMAIN queue = {}
      BY <2>4
    <3>3. part = c
      BY <2>1, <3>2
    <3>4. mark = c
      BY <2>1, <2>2, <3>2, TheOne
    <3> QED BY <3>1, <3>3, <3>4
  <2> QED BY <2>1, <2>2, <2>3, <2>4 DEF ViewsAgree
<1>3. CASE kind = "criteria"
  <2>1. /\ DOMAIN PartColumns = Keys(run.final) /\ DOMAIN FinalMarkByKey = Keys(run.final)
        /\ Scored = Keys(run.final) \ DOMAIN queue
        /\ \A q \in Keys(run.final) :
              /\ FinalMarkByKey[q] = IF q \in DOMAIN queue THEN Review ELSE {PartMarks[q].total}
              /\ \E i \in DOMAIN run.final : run.final[i].key = q /\ PartMarks[q].total = CountedAt(i)
              /\ PartColumns[q] = QuestionMax(assignment.criteria)
    BY <1>3, QuestionViews
  <2>2. cells = Keys(run.final)
    BY <2>1
  <2>3. ASSUME NEW q \in cells
        PROVE  (FinalMarkByKey[q] = Review) = (q \in DOMAIN queue)
    <3>1. q \in DOMAIN queue => FinalMarkByKey[q] = {}
      BY <2>1, <2>2 DEF Review
    <3>2. q \notin DOMAIN queue => FinalMarkByKey[q] # {}
      BY <2>1, <2>2
    <3> QED BY <3>1, <3>2 DEF Review
  <2>4. ASSUME queue = <<>>, EachOnce
        PROVE  /\ Totals.total = SumFunction(mark) /\ Totals.total = SumFunction(part)
               /\ Totals.total_max = MaxTotal
    <3> DEFINE N == DOMAIN run.final
               K == Keys(run.final)
               c == [i \in N |-> CountedAt(i)]
               b == [i \in N |-> run.final[i].key]
    <3>1. /\ QuestionMax(assignment.criteria) \in Nat /\ IsFiniteSet(N) /\ N = 1 .. Len(run.final) /\ Len(run.final) \in Nat
          /\ \A i \in N : CountedAt(i) \in Int
      BY <1>3, QuestionsAdd
    <3>2. Len(run.final) = Cardinality(K) /\ Cardinality(N) = Len(run.final)
      <4>1. Len(run.final) = Cardinality(K)
        BY <1>3, <2>4, QuestionsShown DEF EachOnce
      <4>2. Cardinality(1 .. Len(run.final)) = Len(run.final)
        BY <3>1, FS_Interval
      <4> QED BY <3>1, <4>1, <4>2
    <3>3. b \in Bijection(N, K)
      <4>1. b \in Surjection(N, K)
        BY DEF Surjection, Keys
      <4> HIDE DEF b, N, K
      <4>2. b \in Injection(N, K)
        BY <3>1, <3>2, <4>1, FS_Surjection
      <4> QED BY <4>1, <4>2 DEF Bijection
    <3>4. \A i, j \in N : run.final[i].key = run.final[j].key => i = j
      BY <3>3 DEF Bijection, Injection, IsInjective
    <3>5. ASSUME NEW i \in N
          PROVE  part[b[i]] \in Int /\ c[i] = part[b[i]]
      <4>1. b[i] \in K /\ b[i] \in Scored
        BY <2>1, <2>4 DEF Keys
      <4>2. PICK j \in N : run.final[j].key = b[i] /\ PartMarks[b[i]].total = CountedAt(j)
        BY <2>1, <4>1
      <4>3. j = i
        BY <3>4, <4>2
      <4> QED BY <3>1, <4>1, <4>2, <4>3
    <3>6. DOMAIN part = K /\ Scored = K
      BY <2>1, <2>4
    <3>7. mark = part
      BY <2>1, <2>2, <2>4, <3>6, TheOne
    <3>8. Totals.total = Added(c)
      BY <1>3 DEF Totals, CriteriaTotals, CountedAt, V2Kinds
    <3>9. c \in Seq(Int) /\ DOMAIN c = N
      BY <3>1
    <3> HIDE DEF N, K, b, c, mark, part
    <3>10. Added(c) = SumFunctionOnSet(c, N)
      BY <3>9, SumAlong
    <3>11. SumFunctionOnSet(c, N) = SumFunctionOnSet(part, K) /\ IsFiniteSet(K)
      <4>1. IsFiniteSet(N) /\ b \in Bijection(N, K) /\ \A i \in N : part[b[i]] \in Int /\ c[i] = part[b[i]]
        BY <3>1, <3>3, <3>5
      <4> QED BY <4>1, SumMoved
    <3>12. Totals.total_max = QuestionMax(assignment.criteria) * Len(run.final)
      BY <1>3 DEF Totals, CriteriaTotals, V2Kinds
    <3>13. \A q \in K : PartColumns[q] = QuestionMax(assignment.criteria)
      BY <2>1 DEF K
    <3>14. SumFunctionOnSet(PartColumns, K) = QuestionMax(assignment.criteria) * Cardinality(K)
      BY <3>1, <3>11, <3>13, SumOfOne
    <3> QED BY <2>1, <3>2, <3>6, <3>7, <3>8, <3>10, <3>11, <3>12, <3>14 DEF MaxTotal, SumFunction, K
  <2> QED BY <2>1, <2>2, <2>3, <2>4 DEF ViewsAgree
<1> QED BY <1>1, <1>2, <1>3

\* The quotient of a division, from below and above.
LEMMA Quotient ==
    ASSUME NEW a \in Int, NEW n \in Nat \ {0}
    PROVE  a \div n \in Int /\ n * (a \div n) <= a /\ a < n * (a \div n) + n
  OBVIOUS

\* The larger and the smaller of two numbers.
LEMMA MaxOfTwo ==
    ASSUME NEW a \in Int, NEW b \in Int
    PROVE  Max({a, b}) = (IF a >= b THEN a ELSE b) /\ Min({a, b}) = (IF a <= b THEN a ELSE b)
<1> DEFINE X == {a, b}
<1>1. Max(X) = IF a >= b THEN a ELSE b
  <2> DEFINE m == IF a >= b THEN a ELSE b
  <2>1. m \in X /\ \A y \in X : m >= y
    OBVIOUS
  <2>2. Max(X) \in X /\ \A y \in X : Max(X) >= y
    <3> HIDE DEF m
    <3> QED BY <2>1 DEF Max
  <2> QED BY <2>1, <2>2
<1>2. Min(X) = IF a <= b THEN a ELSE b
  <2> DEFINE m == IF a <= b THEN a ELSE b
  <2>1. m \in X /\ \A y \in X : m <= y
    OBVIOUS
  <2>2. Min(X) \in X /\ \A y \in X : Min(X) <= y
    <3> HIDE DEF m
    <3> QED BY <2>1 DEF Min
  <2> QED BY <2>1, <2>2
<1> QED BY <1>1, <1>2

\* The edge of a band is the least whole mark of its share.
LEMMA EdgeFits ==
    ASSUME NEW k \in Nat, NEW x \in Nat
    PROVE  LET e == -((-(k * x)) \div BUCKETS)
           IN  e \in Int /\ \A c \in Int : (e <= c <=> k * x <= c * BUCKETS)
<1> DEFINE p == k * x
           q == (-p) \div BUCKETS
<1>1. BUCKETS \in Nat \ {0} /\ p \in Nat
  BY BucketsAssumption
<1> HIDE DEF p
<1>2. q \in Int /\ BUCKETS * q <= -p /\ -p < BUCKETS * q + BUCKETS
  BY <1>1, Quotient
<1> HIDE DEF q
<1>3. ASSUME NEW c \in Int, -q <= c
      PROVE  p <= c * BUCKETS
  <2>1. BUCKETS * (-q) <= BUCKETS * c
    BY <1>1, <1>2, <1>3
  <2>2. BUCKETS * (-q) = -(BUCKETS * q) /\ BUCKETS * c = c * BUCKETS
    BY <1>1, <1>2
  <2> QED BY <1>1, <1>2, <2>1, <2>2
<1>4. ASSUME NEW c \in Int, ~(-q <= c)
      PROVE  ~(p <= c * BUCKETS)
  <2>1. c + 1 <= -q
    BY <1>2, <1>4
  <2>2. BUCKETS * (c + 1) <= BUCKETS * (-q)
    BY <1>1, <1>2, <2>1
  <2>3. BUCKETS * (c + 1) = c * BUCKETS + BUCKETS /\ BUCKETS * (-q) = -(BUCKETS * q)
    BY <1>1, <1>2
  <2> QED BY <1>1, <1>2, <2>2, <2>3
<1> QED BY <1>2, <1>3, <1>4 DEF p, q

\* A mark is in the band it is counted in.
LEMMA BandFits ==
    ASSUME NEW t \in Nat, NEW max \in Nat
    PROVE  LET span == BandSpan(BandOf(t, max), max)
           IN  span.from <= Clamped(t, max) /\ Clamped(t, max) <= span.to
<1> DEFINE c       == Clamped(t, max)
           B       == BUCKETS
           i       == BandOf(t, max)
           Edge(k) == -((-(k * max)) \div B)
           span    == BandSpan(i, max)
<1>1. B \in Nat \ {0}
  BY BucketsAssumption
<1>2. c \in Nat /\ c <= max
  BY MaxOfTwo DEF Clamped
<1>3. span.from = Edge(i) /\ span.to = IF i = B - 1 THEN max ELSE Max({Edge(i), Edge(i + 1) - 1})
  BY DEF BandSpan
<1>4. \A k \in Nat : Edge(k) \in Int /\ \A d \in Int : (Edge(k) <= d <=> k * max <= d * B)
  BY EdgeFits
<1>5. i \in Nat /\ i * max <= c * B /\ (i # B - 1 => c * B < (i + 1) * max \/ max = 0)
  <2>1. CASE max = 0
    <3>1. i = 0 /\ c = 0
      BY <1>2, <2>1 DEF BandOf
    <3> HIDE DEF i, c
    <3> QED BY <1>1, <2>1, <3>1
  <2>2. CASE max # 0
    <3> DEFINE q == (c * B) \div max
    <3>1. c * B \in Nat /\ max \in Nat \ {0}
      BY <1>1, <1>2, <2>2
    <3>2. q \in Int /\ max * q <= c * B /\ c * B < max * q + max
      <4> DEFINE p == c * B
      <4>1. p \in Int
        BY <3>1
      <4> HIDE DEF p
      <4>2. p \div max \in Int /\ max * (p \div max) <= p /\ p < max * (p \div max) + max
        BY <3>1, <4>1, Quotient
      <4> QED BY <4>2 DEF p
    <3>3. i = Min({B - 1, q})
      BY <2>2 DEF BandOf
    <3> HIDE DEF q, c, i
    <3>4. q >= 0
      <4> SUFFICES ASSUME q <= -1 PROVE FALSE
        BY <3>2
      <4>1. max * q <= max * (-1)
        BY <3>1, <3>2
      <4> QED BY <3>1, <3>2, <4>1
    <3>5. i = IF B - 1 <= q THEN B - 1 ELSE q
      <4> DEFINE r == B - 1
      <4>1. r \in Int /\ q \in Int /\ i = Min({r, q})
        BY <1>1, <3>2, <3>3
      <4> HIDE DEF r
      <4>2. i = IF r <= q THEN r ELSE q
        BY <4>1, MaxOfTwo
      <4> QED BY <4>2 DEF r
    <3>6. i \in Nat /\ i <= q
      BY <1>1, <3>2, <3>4, <3>5
    <3>7. i * max <= q * max /\ q * max = max * q
      BY <3>1, <3>2, <3>6
    <3>8. i # B - 1 => i = q
      BY <3>5
    <3>9. (q + 1) * max = max * q + max
      BY <3>1, <3>2
    <3>10. i * max \in Int /\ q * max \in Int
      BY <3>1, <3>2, <3>6
    <3> QED BY <3>1, <3>2, <3>6, <3>7, <3>8, <3>9, <3>10
  <2> QED BY <2>1, <2>2
<1> HIDE DEF i, c, span, Edge
<1>6. Edge(i) <= c /\ Edge(i) \in Int /\ Edge(i + 1) \in Int
  BY <1>2, <1>4, <1>5
<1>7. c <= span.to
  <2>1. CASE i = B - 1
    BY <1>2, <1>3, <2>1
  <2>2. CASE i # B - 1
    <3>1. span.to = IF Edge(i) >= Edge(i + 1) - 1 THEN Edge(i) ELSE Edge(i + 1) - 1
      BY <1>3, <1>6, <2>2, MaxOfTwo
    <3>2. CASE max = 0
      <4>1. c = 0
        BY <1>2, <3>2
      <4>2. i * max = 0 /\ (-1) * B < 0
        BY <1>1, <1>5, <3>2
      <4>3. ~(Edge(i) <= -1)
        <5> DEFINE d == -1
        <5>1. d \in Int /\ d * B < 0 /\ i \in Nat
          BY <1>5, <4>2
        <5> HIDE DEF d
        <5>2. Edge(i) <= d <=> i * max <= d * B
          BY <1>4, <5>1
        <5>3. d * B \in Int
          BY <1>1, <5>1
        <5>4. ~(Edge(i) <= d)
          BY <4>2, <5>1, <5>2, <5>3
        <5> QED BY <5>4 DEF d
      <4> QED BY <1>6, <3>1, <4>1, <4>3
    <3>3. CASE max # 0
      <4>1. c * B < (i + 1) * max
        BY <1>5, <2>2, <3>3
      <4>2. (i + 1) * max \in Int /\ c * B \in Int
        BY <1>1, <1>2, <1>5
      <4>3. ~(Edge(i + 1) <= c)
        BY <1>2, <1>4, <1>5, <4>1, <4>2
      <4> QED BY <1>2, <1>6, <3>1, <4>3
    <3> QED BY <3>2, <3>3
  <2> QED BY <2>1, <2>2
<1> QED BY <1>3, <1>6, <1>7 DEF span, i, c

\* Every total is in the band it is counted in.
LEMMA BandsFit ==
    ASSUME ScriptSound, StoredSound
    PROVE  BandsHold
<1> SUFFICES ASSUME stage = "stored", NEW t \in 0 .. Max({MaxTotal, Totals.total})
             PROVE  LET span == BandSpan(BandOf(t, MaxTotal), MaxTotal)
                    IN  span.from <= Clamped(t, MaxTotal) /\ Clamped(t, MaxTotal) <= span.to
  BY DEF BandsHold
<1>1. kind \in V2Kinds \cup {"criteria"}
  BY OutputsAssumption DEF ScriptSound, Assignment, kind
<1>2. MaxTotal \in Nat
  <2>1. CASE kind \in V2Kinds
    <3>1. /\ DOMAIN PartColumns = Keys(rows)
          /\ \A q \in Keys(rows) : PartColumns[q] = RowMax(kind, RowOf(q))
      BY <2>1 DEF PartColumns, RowOf
    <3>2. IsFiniteSet(Keys(rows)) /\ \A q \in Keys(rows) : PartColumns[q] \in Nat
      BY <2>1, <3>1, PartsCount
    <3> QED BY <3>1, <3>2, SumNat DEF MaxTotal, SumFunction
  <2>2. CASE kind = "criteria"
    <3>1. /\ DOMAIN PartColumns = Keys(run.final)
          /\ \A q \in Keys(run.final) : PartColumns[q] = QuestionMax(assignment.criteria)
      BY <2>2, QuestionViews
    <3>2. QuestionMax(assignment.criteria) \in Nat
      BY <2>2, QuestionsAdd
    <3>3. IsFiniteSet(Keys(run.final))
      <4>1. run.final \in Seq(QuestionMark)
        BY <2>2 DEF StoredSound
      <4> QED BY <4>1, KeysFinite
    <3>4. \A q \in Keys(run.final) : PartColumns[q] \in Nat
      BY <3>1, <3>2
    <3> QED BY <3>1, <3>3, <3>4, SumNat DEF MaxTotal, SumFunction
  <2> QED BY <1>1, <2>1, <2>2
<1>3. t \in Nat
  OBVIOUS
<1> QED BY <1>2, <1>3, BandFits

\* A part that lost marks is a row's, and only it is compared like itself.
LEMMA LostFits ==
    ASSUME ScriptSound, StoredSound, stage = "stored", kind \in V2Kinds, ~Lookalike,
           NEW id \in DOMAIN Correctable
    PROVE  \E i \in DOMAIN DetailRows :
              /\ {j \in DOMAIN DetailRows : Norm[DetailRows[j].key] = id} = {i}
              /\ DetailRows[i].key \in Keys(rows) /\ Norm[DetailRows[i].key] = id
              /\ Max({j \in DOMAIN DetailRows : Norm[DetailRows[j].key] = id}) = i
<1> DEFINE D    == DetailRows
           lost == {i \in DOMAIN D : MarkOf(D[i]) < D[i].max}
<1>1. DOMAIN Correctable = {Norm[D[i].key] : i \in lost}
  BY DEF Correctable
<1>2. PICK i \in lost : id = Norm[D[i].key]
  BY <1>1
<1>3. /\ Len(D) \in Nat /\ DOMAIN D = 1 .. Len(D) /\ i \in DOMAIN D
      /\ D[i].key \in DOMAIN run.final /\ D[i] = ShownRow(D[i].key)
  BY PartsShown
<1>4. D[i].key \in Keys(rows)
  <2> SUFFICES ASSUME D[i].key \notin Keys(rows) PROVE FALSE
    OBVIOUS
  <2>1. D[i].max = 0
    BY <1>3 DEF ShownRow, DetailRow, HasRow
  <2>2. MarkOf(D[i]) = CountedOf(D[i].key)
    BY <1>3, SchemeViews
  <2>3. CountedOf(D[i].key) \in Nat
    BY <1>3 DEF CountedOf, StoredSound, ScriptTypeOK, StoredTotal, StoredMark, Counts
  <2>4. MarkOf(D[i]) < D[i].max
    BY <1>2
  <2> QED BY <2>1, <2>2, <2>3, <2>4
<1> DEFINE X == {j \in DOMAIN D : Norm[D[j].key] = id}
<1>5. X = {i}
  BY <1>2, <1>3 DEF Lookalike
<1>6. X \in SUBSET (1 .. Len(D)) /\ X # {}
  BY <1>3, <1>5
<1> HIDE DEF X
<1>7. Max(X) \in X
  BY <1>3, <1>6, MaxIsOne
<1> QED BY <1>2, <1>3, <1>4, <1>5, <1>7 DEF X, D

\* Released marks take the place of the original ones in the total.
LEMMA ReflectionFits ==
    ASSUME ScriptSound, StoredSound
    PROVE  ReflectionSwaps
<1> SUFFICES ASSUME stage = "stored", kind \in V2Kinds, queue = <<>>, ~Lookalike,
                    NEW sent \in SUBSET DOMAIN Correctable,
                    NEW released \in [sent -> 0 .. Max({0} \cup {Correctable[id] : id \in sent})]
             PROVE  AfterReflectionTotal(released) =
                        SumFunction([k \in Scored |-> IF Norm[k] \in sent THEN released[Norm[k]]
                                                                          ELSE PartMarks[k].total])
  BY DEF ReflectionSwaps
<1> DEFINE D            == DetailRows
           alike(id)    == {i \in DOMAIN D : Norm[D[i].key] = id}
           mark(id)     == FinalMarkByKey[D[Max(alike(id))].key]
           Original(id) == IF alike(id) = {} \/ mark(id) = Review THEN 0 ELSE The(mark(id))
           K == Keys(rows)
           T == {k \in K : Norm[k] \in sent}
           c == [k \in K |-> CountedOf(k)]
           f == [k \in K |-> IF Norm[k] \in sent THEN released[Norm[k]] ELSE CountedOf(k)]
           d == [k \in T |-> released[Norm[k]] - CountedOf(k)]
           o == [id \in sent |-> released[id] - Original(id)]
           b == [k \in T |-> Norm[k]]
<1>1. /\ \A q \in DOMAIN run.final : FinalMarkByKey[q] = IF q \in DOMAIN queue THEN Review ELSE {CountedOf(q)}
      /\ K \subseteq DOMAIN run.final /\ DOMAIN queue = {}
      /\ Scored = K /\ \A q \in K : PartMarks[q].total = CountedOf(q)
  <2>1. DOMAIN queue = {}
    OBVIOUS
  <2> QED BY <2>1, SchemeViews
<1>2. IsFiniteSet(K) /\ \A q \in K : CountedOf(q) \in Int
  BY PartsCount
<1>3. DOMAIN released = sent /\ \A id \in sent : released[id] \in Int
  <2> DEFINE most == Max({0} \cup {Correctable[id] : id \in sent})
  <2>1. released \in [sent -> 0 .. most]
    OBVIOUS
  <2> HIDE DEF most, D, alike, mark, Original, K, T, c, f, d, o, b
  <2>2. \A n \in 0 .. most : n \in Int
    OBVIOUS
  <2>3. DOMAIN released = sent /\ \A id \in sent : released[id] \in 0 .. most
    BY <2>1
  <2> QED BY <2>2, <2>3
<1>4. AfterReflectionTotal(released) = Totals.total + SumFunctionOnSet(o, sent)
  BY <1>3 DEF AfterReflectionTotal, SumFunction
<1>5. Totals.total = SumFunctionOnSet(c, K)
  BY DEF Totals, SchemeTotals, CountedOf, SumFunction
<1>6. [k \in Scored |-> IF Norm[k] \in sent THEN released[Norm[k]] ELSE PartMarks[k].total] = f
  BY <1>1
<1>7. ASSUME NEW id \in sent
      PROVE  \E k \in K : Norm[k] = id /\ Original(id) = CountedOf(k) /\ \A q \in K : Norm[q] = id => q = k
  <2>1. PICK i \in DOMAIN D : /\ alike(id) = {i} /\ D[i].key \in K /\ Norm[D[i].key] = id
                              /\ Max(alike(id)) = i
    BY LostFits
  <2>2. mark(id) = {CountedOf(D[i].key)}
    BY <1>1, <2>1
  <2>3. Original(id) = CountedOf(D[i].key)
    <3> HIDE DEF alike, mark
    <3> QED BY <2>1, <2>2, TheOne DEF Review
  <2>4. ASSUME NEW q \in K, Norm[q] = id PROVE q = D[i].key
    <3>1. PICK j \in DOMAIN D : D[j].key = q
      BY <1>1, PartsShown
    <3>2. j \in alike(id)
      BY <2>4, <3>1
    <3> QED BY <2>1, <3>1, <3>2
  <2> HIDE DEF Original
  <2> QED BY <2>1, <2>3, <2>4
<1> HIDE DEF Original
<1>8. b \in Bijection(T, sent)
  <2>1. b \in [T -> sent] /\ \A x, y \in T : b[x] = b[y] => x = y
    BY <1>7
  <2>2. \A id \in sent : \E k \in T : b[k] = id
    BY <1>7
  <2> QED BY <2>1, <2>2 DEF Bijection, Injection, IsInjective, Surjection
<1>9. ASSUME NEW k \in T
      PROVE  o[b[k]] \in Int /\ d[k] = o[b[k]] /\ d[k] = f[k] - c[k]
  <2>1. Norm[k] \in sent /\ k \in K /\ b[k] = Norm[k]
    OBVIOUS
  <2>2. Original(Norm[k]) = CountedOf(k)
    BY <1>7, <2>1
  <2> QED BY <1>2, <1>3, <2>1, <2>2
<1>10. \A k \in K : f[k] \in Int /\ c[k] \in Int
  BY <1>2, <1>3
<1>11. T \in SUBSET K /\ \A k \in K \ T : f[k] = c[k]
  OBVIOUS
<1> HIDE DEF K, T, c, f, d, o, b
<1>12. IsFiniteSet(T)
  BY <1>2, <1>11, FS_Subset
<1>13. SumFunctionOnSet(d, T) = SumFunctionOnSet(o, sent)
  <2>1. \A k \in T : o[b[k]] \in Int /\ d[k] = o[b[k]]
    BY <1>9
  <2> QED BY <1>8, <1>12, <2>1, SumMoved
<1>14. SumFunctionOnSet(f, K) = SumFunctionOnSet(c, K) + SumFunctionOnSet(d, T)
  <2>1. \A k \in T : d[k] = f[k] - c[k]
    BY <1>9
  <2> QED BY <1>2, <1>10, <1>11, <2>1, SumChanged
<1>15. SumFunction(f) = SumFunctionOnSet(f, K)
  BY DEF f, SumFunction
<1> QED BY <1>4, <1>5, <1>6, <1>13, <1>14, <1>15

\* The marks add up, in what is stored, in the record of it and in what is shown of the class, for every scheme,
\* every list of criteria, every spelling of ids and every answer of the marker, the reviewer and the teacher.
THEOREM MarksHold == OfficeSpec => []MarksAddUp
<1>1. ScriptSound /\ StoredSound => MarksAddUp
  <2> SUFFICES ASSUME ScriptSound, StoredSound PROVE MarksAddUp
    OBVIOUS
  <2>1. StoredMarksAddUp
    BY DEF ScriptSound
  <2> QED BY <2>1, RecordFits, ViewsFit, BandsFit, ReflectionFits DEF MarksAddUp
<1> QED BY <1>1, OfficeKeepsScripts, OfficeKeepsStored, PTL
=============================================================================

-------------------------- MODULE SyncTable_proofs --------------------------
(***************************************************************************)
(* Proofs about SyncTable, for every set of names, tasks, columns and      *)
(* number of changes.                                                      *)
(*                                                                         *)
(* SortedInv: types, and the rows sorted by the column they were sorted    *)
(* by.  OnceInv: between two events that add a task one deletes it, and an *)
(* event that adds a task that is gone is followed by one that deletes it; *)
(* so no row is added for a task that has one.  SavedInv: a deletion comes *)
(* right after the event that takes the task out of the vector.  ShowsInv: *)
(* the rows, changed by all events that are queued, are the tasks.         *)
(*                                                                         *)
(* The functions of SyncTable.qml recur over sequences: facts about them   *)
(* come from Least, at the first place at which they might fail.           *)
(***************************************************************************)
EXTENDS SyncTable, FiniteSetTheorems, SequenceTheorems, FunctionTheorems,
        WellFoundedInduction, TLAPS

-----------------------------------------------------------------------------
\* Sets of numbers and sequences.

\* The least number takes the place of induction: a fact that fails somewhere fails
\* at a least place, and holds right before it.
LEMMA Least ==
    ASSUME NEW T \in SUBSET Nat, T # {}
    PROVE  /\ Min(T) \in T
           /\ \A y \in T : Min(T) <= y
<1> DEFINE Below == {0 .. k - 1 : k \in T}
<1>1. \A k \in T : IsFiniteSet(0 .. k - 1) /\ 0 .. k - 1 \in SUBSET Nat
  BY FS_Interval
<1>2. Below \subseteq FiniteSubsetsOf(Nat) /\ Below # {}
  BY <1>1 DEF FiniteSubsetsOf
<1>3. PICK s \in Below : \A r \in Below : <<r, s>> \notin StrictSubsetOrdering(Nat)
  <2>1. IsWellFoundedOn(StrictSubsetOrdering(Nat), FiniteSubsetsOf(Nat))
    BY FS_StrictSubsetOrderingWellFounded
  <2> HIDE DEF Below
  <2>2. QED
    BY <2>1, <1>2, WFMin
<1>4. PICK x \in T : s = 0 .. x - 1
  OBVIOUS
<1>5. ASSUME NEW y \in T, y < x PROVE FALSE
  <2>1. 0 .. y - 1 \in Below
    OBVIOUS
  <2>2. y \in s /\ y \notin 0 .. y - 1
    BY <1>4, <1>5
  <2>3. 0 .. y - 1 \subseteq s
    BY <1>4, <1>5
  <2>4. <<0 .. y - 1, s>> \in StrictSubsetOrdering(Nat)
    BY <2>2, <2>3, <1>1, <1>4 DEF StrictSubsetOrdering
  <2>5. QED
    BY <2>1, <2>4, <1>3
<1>6. \A y \in T : x <= y
  BY <1>5
<1>7. QED
  BY <1>6 DEF Min

\* What is TRUE at 0, and at every place that follows one where it is, is so everywhere.
LEMMA EveryPlace ==
    ASSUME NEW n \in Nat, NEW Good \in SUBSET Nat,
           0 \in Good,
           \A k \in 0 .. n : k > 0 /\ k - 1 \in Good => k \in Good
    PROVE  0 .. n \subseteq Good
<1> DEFINE Bad == (0 .. n) \ Good
<1> SUFFICES ASSUME Bad # {} PROVE FALSE
  OBVIOUS
<1>1. /\ Min(Bad) \in Bad
      /\ \A y \in Bad : Min(Bad) <= y
  BY Least
<1>2. PICK k \in Bad : \A y \in Bad : k <= y
  BY <1>1
<1>3. k > 0 /\ k - 1 \in 0 .. n
  BY <1>2
<1>4. k - 1 \in Good
  BY <1>2, <1>3
<1>5. QED
  BY <1>2, <1>3, <1>4

\* A sequence that lists a finite set without repeating an element lists all of it.
LEMMA Listing ==
    ASSUME NEW S, IsFiniteSet(S), NEW q \in SetToSeqs(S)
    PROVE  /\ q \in Seq(S)
           /\ DOMAIN q = 1 .. Cardinality(S)
           /\ \A i, j \in DOMAIN q : q[i] = q[j] => i = j
           /\ ToSet(q) = S
<1>1. Cardinality(S) \in Nat
  BY FS_CardinalityType
<1>2. /\ q \in [1 .. Cardinality(S) -> S]
      /\ \A i, j \in 1 .. Cardinality(S) : i # j => q[i] # q[j]
  BY DEF SetToSeqs
<1>3. q \in Injection(1 .. Cardinality(S), S)
  BY <1>2 DEF Injection, IsInjective
<1>4. Cardinality(1 .. Cardinality(S)) = Cardinality(S)
  BY <1>1, FS_Interval
<1>5. q \in Surjection(1 .. Cardinality(S), S)
  <2>1. Cardinality(1 .. Cardinality(S)) = Cardinality(S) <=> q \in Surjection(1 .. Cardinality(S), S)
    BY <1>3, FS_Injection, Zenon
  <2>2. QED
    BY <1>4, <2>1, Zenon
<1>6. \A t \in S : \E i \in 1 .. Cardinality(S) : q[i] = t
  BY <1>5 DEF Surjection
<1>7. ToSet(q) = S
  BY <1>2, <1>6 DEF ToSet
<1>8. QED
  BY <1>1, <1>2, <1>7

-----------------------------------------------------------------------------
\* What Kept returns.

\* The numbers of I, in order.
Lists(pos, I) ==
    /\ pos \in Seq(Nat)
    /\ \A a \in 1 .. Len(pos) : pos[a] \in I
    /\ \A a, b \in 1 .. Len(pos) : a < b => pos[a] < pos[b]
    /\ \A i \in I : \E a \in 1 .. Len(pos) : pos[a] = i

At(s, pos) == [a \in 1 .. Len(pos) |-> s[pos[a]]]

\* The recursive function in the definition of Kept.
KeptStep(s, I, k, before) ==
    IF k = 0 THEN <<>> ELSE IF k \in I THEN Append(before, s[k]) ELSE before

LEMMA KeptRecursion ==
    ASSUME NEW S, NEW s \in Seq(S), NEW I
    PROVE  \E f : /\ f = [k \in 0 .. Len(s) |-> KeptStep(s, I, k, f[k - 1])]
                  /\ Kept(s, I) = f[Len(s)]
<1> DEFINE Good == {n \in Nat : \E f : f = [k \in 0 .. n |-> KeptStep(s, I, k, f[k - 1])]}
<1>1. 0 \in Good
  <2>1. [k \in 0 .. 0 |-> <<>>] = [k \in 0 .. 0 |-> KeptStep(s, I, k, [j \in 0 .. 0 |-> <<>>][k - 1])]
    BY DEF KeptStep
  <2>2. QED
    BY <2>1
<1>2. ASSUME NEW n \in 0 .. Len(s), n > 0, n - 1 \in Good
      PROVE  n \in Good
  <2>1. PICK f : f = [k \in 0 .. n - 1 |-> KeptStep(s, I, k, f[k - 1])]
    BY <1>2
  <2> DEFINE g == [k \in 0 .. n |-> IF k = n THEN KeptStep(s, I, n, f[n - 1]) ELSE f[k]]
  <2>2. \A k \in 0 .. n - 1 : f[k] = KeptStep(s, I, k, f[k - 1])
    BY <2>1
  <2>3. ASSUME NEW k \in 0 .. n
        PROVE  g[k] = KeptStep(s, I, k, g[k - 1])
    <3>1. CASE k = n
      BY <3>1, <1>2
    <3>2. CASE k # n /\ k > 0
      <4>1. k \in 0 .. n - 1 /\ k - 1 \in 0 .. n /\ k - 1 # n
        BY <3>2
      <4>2. g[k] = f[k] /\ g[k - 1] = f[k - 1]
        BY <4>1
      <4>3. QED
        BY <2>2, <4>1, <4>2
    <3>3. CASE k # n /\ k = 0
      <4>1. g[k] = f[k] /\ f[k] = KeptStep(s, I, k, f[k - 1])
        BY <2>2, <3>3, <1>2
      <4>2. QED
        BY <4>1, <3>3 DEF KeptStep
    <3>4. QED
      BY <3>1, <3>2, <3>3
  <2>4. g = [k \in 0 .. n |-> KeptStep(s, I, k, g[k - 1])]
    <3>1. g = [k \in 0 .. n |-> g[k]]
      OBVIOUS
    <3> HIDE DEF g
    <3>2. QED
      BY <2>3, <3>1
  <2>5. n \in Nat
    OBVIOUS
  <2> HIDE DEF g
  <2>6. QED
    BY <2>4, <2>5
<1>3. Len(s) \in Good
  <2> HIDE DEF Good
  <2>1. Len(s) \in Nat
    OBVIOUS
  <2>2. Good \in SUBSET Nat
    BY DEF Good
  <2>3. \A k \in 0 .. Len(s) : k > 0 /\ k - 1 \in Good => k \in Good
    BY <1>2
  <2>4. 0 .. Len(s) \subseteq Good
    BY <1>1, <2>1, <2>2, <2>3, EveryPlace
  <2>5. QED
    BY <2>1, <2>4
<1>4. \E f : f = [k \in 0 .. Len(s) |-> KeptStep(s, I, k, f[k - 1])]
  BY <1>3
<1> DEFINE h == CHOOSE f : f = [k \in 0 .. Len(s) |-> KeptStep(s, I, k, f[k - 1])]
<1>5. h = [k \in 0 .. Len(s) |-> KeptStep(s, I, k, h[k - 1])]
  <2> HIDE DEF Good
  <2>1. QED
    BY <1>4, Zenon
<1>6. Kept(s, I) = h[Len(s)]
  BY Zenon DEF Kept, KeptStep
<1> HIDE DEF h
<1>7. QED
  BY <1>5, <1>6, Zenon

\* Listing one number more, above all the others.
LEMMA ListsAppend ==
    ASSUME NEW I \in SUBSET Nat, NEW pos, Lists(pos, I), NEW n \in Nat, \A i \in I : i < n
    PROVE  Lists(Append(pos, n), I \cup {n})
<1>1. pos \in Seq(Nat)
  BY DEF Lists
<1> DEFINE q == Append(pos, n)
<1>2. /\ q \in Seq(Nat)
      /\ Len(pos) \in Nat
      /\ Len(q) = Len(pos) + 1
      /\ \A a \in 1 .. Len(pos) : q[a] = pos[a]
      /\ q[Len(pos) + 1] = n
  BY <1>1
<1> HIDE DEF q
<1>3. \A a \in 1 .. Len(q) : a \in 1 .. Len(pos) \/ a = Len(pos) + 1
  BY <1>2
<1>4. \A a \in 1 .. Len(q) : q[a] \in I \cup {n}
  BY <1>2, <1>3 DEF Lists
<1>5. ASSUME NEW a \in 1 .. Len(q), NEW b \in 1 .. Len(q), a < b
      PROVE  q[a] < q[b]
  <2>1. a \in 1 .. Len(pos)
    BY <1>2, <1>3, <1>5
  <2>2. CASE b \in 1 .. Len(pos)
    BY <1>2, <1>5, <2>1, <2>2 DEF Lists
  <2>3. CASE b = Len(pos) + 1
    <3>1. pos[a] \in I
      BY <2>1 DEF Lists
    <3>2. QED
      BY <1>2, <2>1, <2>3, <3>1
  <2>4. QED
    BY <1>3, <2>2, <2>3
<1>6. ASSUME NEW i \in I \cup {n}
      PROVE  \E a \in 1 .. Len(q) : q[a] = i
  <2>1. CASE i = n
    <3>1. Len(pos) + 1 \in 1 .. Len(q)
      BY <1>2
    <3>2. QED
      BY <1>2, <2>1, <3>1
  <2>2. CASE i \in I
    <3>1. PICK a \in 1 .. Len(pos) : pos[a] = i
      BY <2>2 DEF Lists
    <3>2. a \in 1 .. Len(q)
      BY <1>2
    <3>3. QED
      BY <1>2, <3>1, <3>2
  <2>3. QED
    BY <2>1, <2>2
<1>7. QED
  BY <1>2, <1>4, <1>5, <1>6 DEF Lists, q

LEMMA AtAppend ==
    ASSUME NEW pos \in Seq(Nat), NEW s, NEW n \in Nat
    PROVE  At(s, Append(pos, n)) = Append(At(s, pos), s[n])
BY DEF At

LEMMA AtIsSeq ==
    ASSUME NEW S, NEW s \in Seq(S), NEW pos, NEW I, Lists(pos, I), I \subseteq 1 .. Len(s)
    PROVE  /\ At(s, pos) \in Seq(S)
           /\ Len(At(s, pos)) = Len(pos)
           /\ \A a \in 1 .. Len(pos) : At(s, pos)[a] = s[pos[a]]
<1>1. pos \in Seq(Nat) /\ Len(pos) \in Nat
  BY DEF Lists
<1>2. \A a \in 1 .. Len(pos) : s[pos[a]] \in S
  BY DEF Lists
<1>3. At(s, pos) \in [1 .. Len(pos) -> S]
  BY <1>2 DEF At
<1>4. QED
  BY <1>1, <1>3 DEF At

\* The elements of s at the indices in I, in order.
LEMMA KeptLists ==
    ASSUME NEW S, NEW s \in Seq(S), NEW I
    PROVE  \E pos : Lists(pos, I \cap (1 .. Len(s))) /\ Kept(s, I) = At(s, pos)
<1>1. PICK f : /\ f = [k \in 0 .. Len(s) |-> KeptStep(s, I, k, f[k - 1])]
               /\ Kept(s, I) = f[Len(s)]
  BY KeptRecursion
<1>2. \A k \in 0 .. Len(s) : f[k] = KeptStep(s, I, k, f[k - 1])
  BY <1>1
<1>3. Len(s) \in Nat
  OBVIOUS
<1> DEFINE Listed(k) == \E pos : Lists(pos, I \cap (1 .. k)) /\ f[k] = At(s, pos)
           Good == {k \in 0 .. Len(s) : Listed(k)}
<1>4. 0 \in Good
  <2>1. f[0] = <<>>
    BY <1>2, <1>3 DEF KeptStep
  <2>2. Lists(<<>>, I \cap (1 .. 0))
    <3>1. I \cap (1 .. 0) = {} /\ \A a : a \notin 1 .. 0
      OBVIOUS
    <3>2. <<>> \in Seq(Nat) /\ Len(<<>>) = 0
      OBVIOUS
    <3>3. QED
      BY <3>1, <3>2 DEF Lists
  <2>3. At(s, <<>>) = <<>>
    BY DEF At
  <2>4. QED
    BY <2>1, <2>2, <2>3, <1>3
<1>5. ASSUME NEW k \in 0 .. Len(s), k > 0, k - 1 \in Good
      PROVE  k \in Good
  <2>1. PICK pos : Lists(pos, I \cap (1 .. k - 1)) /\ f[k - 1] = At(s, pos)
    BY <1>5
  <2>2. f[k] = IF k \in I THEN Append(f[k - 1], s[k]) ELSE f[k - 1]
    BY <1>2, <1>5 DEF KeptStep
  <2>3. CASE k \in I
    <3>1. I \cap (1 .. k) = (I \cap (1 .. k - 1)) \cup {k}
      BY <1>5, <2>3
    <3>2. I \cap (1 .. k - 1) \in SUBSET Nat /\ k \in Nat /\ \A i \in I \cap (1 .. k - 1) : i < k
      BY <1>5
    <3>3. Lists(Append(pos, k), I \cap (1 .. k))
      BY <2>1, <3>1, <3>2, ListsAppend
    <3>4. pos \in Seq(Nat)
      BY <2>1 DEF Lists
    <3>5. f[k] = At(s, Append(pos, k))
      BY <2>1, <2>2, <2>3, <3>2, <3>4, AtAppend
    <3>6. QED
      BY <3>3, <3>5
  <2>4. CASE k \notin I
    <3>1. I \cap (1 .. k) = I \cap (1 .. k - 1)
      BY <1>5, <2>4
    <3>2. QED
      BY <2>1, <2>2, <2>4, <3>1
  <2>5. QED
    BY <2>3, <2>4
<1>6. Len(s) \in Good
  <2> HIDE DEF Good
  <2>1. Good \in SUBSET Nat
    BY DEF Good
  <2>2. \A k \in 0 .. Len(s) : k > 0 /\ k - 1 \in Good => k \in Good
    BY <1>5
  <2>3. 0 .. Len(s) \subseteq Good
    BY <1>3, <1>4, <2>1, <2>2, EveryPlace
  <2>4. QED
    BY <1>3, <2>3
<1>7. QED
  BY <1>1, <1>6

\* There is one order.
LEMMA ListsOnce ==
    ASSUME NEW I \in SUBSET Nat, NEW p, NEW q, Lists(p, I), Lists(q, I)
    PROVE  p = q
<1>1. /\ p \in Seq(Nat) /\ Len(p) \in Nat
      /\ q \in Seq(Nat) /\ Len(q) \in Nat
  BY DEF Lists
<1> DEFINE Agree(k) == k \in 1 .. Len(p) \/ k \in 1 .. Len(q) =>
                          k \in 1 .. Len(p) /\ k \in 1 .. Len(q) /\ p[k] = q[k]
           Good == {k \in Nat : Agree(k)}
<1>2. ASSUME NEW k \in Nat \ Good, \A j \in 1 .. k - 1 : j \in Good
      PROVE  FALSE
  <2>1. \A j \in 1 .. k - 1 : Agree(j)
    BY <1>2
  <2>2. CASE k \in 1 .. Len(p) /\ k \in 1 .. Len(q)
    <3>1. PICK a \in 1 .. Len(q) : q[a] = p[k]
      BY <2>2 DEF Lists
    <3>2. ~(a < k)
      <4> SUFFICES ASSUME a < k PROVE FALSE
        OBVIOUS
      <4>1. a \in 1 .. k - 1
        BY <1>1
      <4>2. a \in 1 .. Len(p) /\ p[a] = q[a]
        BY <2>1, <4>1
      <4>3. p[a] < p[k]
        BY <2>2, <4>2 DEF Lists
      <4>4. p[k] \in Nat
        BY <1>1, <2>2
      <4>5. QED
        BY <3>1, <4>2, <4>3, <4>4
    <3>3. PICK b \in 1 .. Len(p) : p[b] = q[k]
      BY <2>2 DEF Lists
    <3>4. ~(b < k)
      <4> SUFFICES ASSUME b < k PROVE FALSE
        OBVIOUS
      <4>1. b \in 1 .. k - 1
        BY <1>1
      <4>2. b \in 1 .. Len(q) /\ p[b] = q[b]
        BY <2>1, <4>1
      <4>3. q[b] < q[k]
        BY <2>2, <4>2 DEF Lists
      <4>4. q[k] \in Nat
        BY <1>1, <2>2
      <4>5. QED
        BY <3>3, <4>2, <4>3, <4>4
    <3>5. p[k] <= q[k]
      <4>1. b = k \/ k < b
        BY <3>4
      <4>2. p[k] \in Nat /\ q[k] \in Nat
        BY <1>1, <2>2
      <4>3. k < b => p[k] < p[b]
        BY <2>2 DEF Lists
      <4>4. QED
        BY <3>3, <4>1, <4>2, <4>3
    <3>6. q[k] <= p[k]
      <4>1. a = k \/ k < a
        BY <3>2
      <4>2. p[k] \in Nat /\ q[k] \in Nat
        BY <1>1, <2>2
      <4>3. k < a => q[k] < q[a]
        BY <2>2 DEF Lists
      <4>4. QED
        BY <3>1, <4>1, <4>2, <4>3
    <3>7. p[k] \in Nat /\ q[k] \in Nat
      BY <1>1, <2>2
    <3>8. p[k] = q[k]
      BY <3>5, <3>6, <3>7
    <3>9. QED
      BY <1>2, <2>2, <3>8
  <2>3. CASE k \in 1 .. Len(p) /\ k \notin 1 .. Len(q)
    <3>1. PICK a \in 1 .. Len(q) : q[a] = p[k]
      BY <2>3 DEF Lists
    <3>2. a \in 1 .. k - 1
      BY <1>1, <2>3
    <3>3. a \in 1 .. Len(p) /\ p[a] = q[a]
      BY <2>1, <3>2
    <3>4. a < k
      BY <3>2
    <3>5. p[a] < p[k]
      BY <2>3, <3>3, <3>4 DEF Lists
    <3>6. p[k] \in Nat
      BY <1>1, <2>3
    <3>7. QED
      BY <3>1, <3>3, <3>5, <3>6
  <2>4. CASE k \notin 1 .. Len(p) /\ k \in 1 .. Len(q)
    <3>1. PICK b \in 1 .. Len(p) : p[b] = q[k]
      BY <2>4 DEF Lists
    <3>2. b \in 1 .. k - 1
      BY <1>1, <2>4
    <3>3. b \in 1 .. Len(q) /\ p[b] = q[b]
      BY <2>1, <3>2
    <3>4. b < k
      BY <3>2
    <3>5. q[b] < q[k]
      BY <2>4, <3>3, <3>4 DEF Lists
    <3>6. q[k] \in Nat
      BY <1>1, <2>4
    <3>7. QED
      BY <3>1, <3>3, <3>5, <3>6
  <2>5. QED
    BY <1>2, <2>2, <2>3, <2>4
<1>3. Nat \subseteq Good
  <2> HIDE DEF Good
  <2> DEFINE Bad == Nat \ Good
  <2> SUFFICES ASSUME Bad # {} PROVE FALSE
    OBVIOUS
  <2>1. PICK k \in Bad : \A j \in Bad : k <= j
    BY Least
  <2>2. \A j \in 1 .. k - 1 : j \in Good
    BY <2>1
  <2>3. QED
    BY <1>2, <2>2
<1>4. \A k \in Nat : Agree(k)
  BY <1>3
<1>5. Len(p) = Len(q)
  <2>1. Len(p) > 0 => Len(p) \in 1 .. Len(q)
    BY <1>1, <1>4
  <2>2. Len(q) > 0 => Len(q) \in 1 .. Len(p)
    BY <1>1, <1>4
  <2>3. QED
    BY <1>1, <2>1, <2>2
<1>6. \A k \in 1 .. Len(p) : p[k] = q[k]
  BY <1>1, <1>4
<1>7. QED
  BY <1>1, <1>5, <1>6, SeqEqual

\* So whatever lists I tells what is kept.
LEMMA KeptAt ==
    ASSUME NEW S, NEW s \in Seq(S), NEW I, NEW pos, Lists(pos, I \cap (1 .. Len(s)))
    PROVE  Kept(s, I) = At(s, pos)
<1>1. PICK p : Lists(p, I \cap (1 .. Len(s))) /\ Kept(s, I) = At(s, p)
  BY KeptLists
<1>2. I \cap (1 .. Len(s)) \in SUBSET Nat
  OBVIOUS
<1>3. p = pos
  BY <1>1, <1>2, ListsOnce
<1>4. QED
  BY <1>1, <1>3

LEMMA KeptIsSeq ==
    ASSUME NEW S, NEW s \in Seq(S), NEW I
    PROVE  Kept(s, I) \in Seq(S)
<1>1. PICK pos : Lists(pos, I \cap (1 .. Len(s))) /\ Kept(s, I) = At(s, pos)
  BY KeptLists
<1>2. QED
  BY <1>1, AtIsSeq

\* An element more at the end, kept or not.
LEMMA KeptAppend ==
    ASSUME NEW S, NEW s \in Seq(S), NEW e \in S, NEW I \in SUBSET (1 .. Len(s))
    PROVE  /\ Kept(Append(s, e), I) = Kept(s, I)
           /\ Kept(Append(s, e), I \cup {Len(s) + 1}) = Append(Kept(s, I), e)
<1> DEFINE t == Append(s, e)
<1>1. /\ t \in Seq(S)
      /\ Len(s) \in Nat
      /\ Len(t) = Len(s) + 1
      /\ \A a \in 1 .. Len(s) : t[a] = s[a]
      /\ t[Len(s) + 1] = e
  OBVIOUS
<1> HIDE DEF t
<1>2. PICK pos : Lists(pos, I \cap (1 .. Len(s))) /\ Kept(s, I) = At(s, pos)
  BY KeptLists
<1>3. I \cap (1 .. Len(s)) = I /\ I \cap (1 .. Len(t)) = I /\ I \in SUBSET Nat
  <2>1. 1 .. Len(s) \subseteq 1 .. Len(t) /\ 1 .. Len(s) \subseteq Nat
    BY <1>1
  <2>2. QED
    BY <2>1
<1>4. pos \in Seq(Nat) /\ \A a \in 1 .. Len(pos) : pos[a] \in 1 .. Len(s)
  BY <1>2, <1>3 DEF Lists
<1>5. At(t, pos) = At(s, pos)
  BY <1>1, <1>4 DEF At
<1>6. Kept(t, I) = Kept(s, I)
  <2>1. Kept(t, I) = At(t, pos)
    BY <1>1, <1>2, <1>3, KeptAt
  <2>2. QED
    BY <1>2, <1>5, <2>1
<1> DEFINE n == Len(s) + 1
           J == I \cup {n}
<1>7. J \cap (1 .. Len(t)) = J /\ n \in Nat /\ \A i \in I : i < n
  <2>1. n \in Nat /\ n \in 1 .. Len(t) /\ \A i \in 1 .. Len(s) : i < n
    BY <1>1
  <2>2. J \cap (1 .. Len(t)) = J
    <3> HIDE DEF n
    <3>1. QED
      BY <1>3, <2>1
  <2>3. QED
    BY <2>1, <2>2
<1>8. Lists(Append(pos, n), J)
  <2> HIDE DEF n
  <2>1. Lists(pos, I)
    BY <1>2, <1>3
  <2>2. QED
    BY <1>3, <1>7, <2>1, ListsAppend
<1>9. Kept(t, J) = Append(Kept(s, I), e)
  <2>1. Kept(t, J) = At(t, Append(pos, n))
    <3> HIDE DEF J, n
    <3>1. QED
      BY <1>1, <1>7, <1>8, KeptAt
  <2>2. At(t, Append(pos, n)) = Append(At(t, pos), t[n])
    BY <1>4, <1>7, AtAppend
  <2>3. QED
    BY <1>1, <1>2, <1>5, <2>1, <2>2
<1>10. QED
  BY <1>6, <1>9 DEF t

\* An element less at the front, kept or not.
LEMMA KeptTail ==
    ASSUME NEW S, NEW s \in Seq(S), s # <<>>, NEW I \in SUBSET (1 .. Len(s)),
           NEW J, J = {i \in 1 .. Len(s) - 1 : i + 1 \in I}
    PROVE  /\ 1 \notin I => Kept(s, I) = Kept(Tail(s), J)
           /\ 1 \in I => /\ Kept(s, I) # <<>>
                         /\ Head(Kept(s, I)) = Head(s)
                         /\ Tail(Kept(s, I)) = Kept(Tail(s), J)
<1> DEFINE t == Tail(s)
<1>1. /\ t \in Seq(S)
      /\ Len(s) \in Nat /\ Len(s) > 0
      /\ Len(t) = Len(s) - 1
      /\ \A a \in 1 .. Len(t) : t[a] = s[a + 1]
      /\ Head(s) = s[1]
  OBVIOUS
<1> HIDE DEF t
<1>2. PICK pos : Lists(pos, I \cap (1 .. Len(s))) /\ Kept(s, I) = At(s, pos)
  BY KeptLists
<1>3. I \cap (1 .. Len(s)) = I /\ J \cap (1 .. Len(t)) = J
  BY <1>1
<1>4. Lists(pos, I)
  BY <1>2, <1>3
<1>5. pos \in Seq(Nat) /\ Len(pos) \in Nat /\ \A a \in 1 .. Len(pos) : pos[a] \in I
  BY <1>4 DEF Lists
<1>6. /\ At(s, pos) \in Seq(S)
      /\ Len(At(s, pos)) = Len(pos)
      /\ \A a \in 1 .. Len(pos) : At(s, pos)[a] = s[pos[a]]
  BY <1>2, AtIsSeq
<1>7. CASE 1 \notin I
  <2> DEFINE p == [a \in 1 .. Len(pos) |-> pos[a] - 1]
  <2>1. /\ \A a \in 1 .. Len(pos) : p[a] = pos[a] - 1 /\ pos[a] - 1 \in J /\ pos[a] - 1 \in Nat
        /\ p \in Seq(Nat)
        /\ Len(p) = Len(pos)
    <3>1. \A a \in 1 .. Len(pos) : pos[a] - 1 \in J /\ pos[a] - 1 \in Nat
      BY <1>5, <1>7
    <3>2. p \in [1 .. Len(pos) -> Nat]
      BY <3>1
    <3>3. QED
      BY <1>5, <3>1, <3>2
  <2> HIDE DEF p
  <2>2. Lists(p, J)
    <3>1. ASSUME NEW a \in 1 .. Len(p), NEW b \in 1 .. Len(p), a < b
          PROVE  p[a] < p[b]
      <4>1. pos[a] < pos[b]
        BY <1>4, <2>1, <3>1 DEF Lists
      <4>2. pos[a] \in Nat /\ pos[b] \in Nat
        <5>1. a \in 1 .. Len(pos) /\ b \in 1 .. Len(pos)
          BY <2>1
        <5>2. pos[a] \in I /\ pos[b] \in I
          BY <1>5, <5>1, Zenon
        <5>3. I \subseteq Nat
          OBVIOUS
        <5>4. QED
          BY <5>2, <5>3, Zenon
      <4>3. QED
        BY <2>1, <4>1, <4>2
    <3>2. ASSUME NEW i \in J
          PROVE  \E a \in 1 .. Len(p) : p[a] = i
      <4>1. i \in Nat /\ i + 1 \in I
        OBVIOUS
      <4>2. PICK a \in 1 .. Len(pos) : pos[a] = i + 1
        BY <1>4, <4>1 DEF Lists
      <4>3. p[a] = i /\ a \in 1 .. Len(p)
        BY <2>1, <4>1, <4>2
      <4>4. QED
        BY <4>3
    <3>3. QED
      BY <2>1, <3>1, <3>2 DEF Lists
  <2>3. Kept(t, J) = At(t, p)
    BY <1>1, <1>3, <2>2, KeptAt
  <2>4. At(t, p) = At(s, pos)
    <3>1. \A a \in 1 .. Len(pos) : t[p[a]] = s[pos[a]]
      <4> SUFFICES ASSUME NEW a \in 1 .. Len(pos) PROVE t[p[a]] = s[pos[a]]
        OBVIOUS
      <4>1. p[a] = pos[a] - 1 /\ pos[a] - 1 \in 1 .. Len(t) /\ pos[a] \in Nat
        BY <1>1, <1>5, <2>1
      <4>2. QED
        BY <1>1, <4>1
    <3>2. QED
      BY <2>1, <3>1 DEF At
  <2>5. QED
    BY <1>2, <1>7, <2>3, <2>4 DEF t
<1>8. CASE 1 \in I
  <2>1. PICK o \in 1 .. Len(pos) : pos[o] = 1
    BY <1>4, <1>8 DEF Lists
  <2>2. Len(pos) > 0 /\ 1 \in 1 .. Len(pos)
    BY <1>5, <2>1
  <2>3. pos[1] = 1
    <3>1. 1 < o => pos[1] < pos[o]
      BY <1>4, <2>2 DEF Lists
    <3>2. pos[1] \in 1 .. Len(s)
      BY <1>5, <2>2
    <3>3. QED
      BY <2>1, <3>1, <3>2
  <2> DEFINE p == [a \in 1 .. Len(pos) - 1 |-> pos[a + 1] - 1]
  <2>4. \A a \in 1 .. Len(pos) - 1 : pos[a + 1] - 1 \in J /\ pos[a + 1] - 1 \in Nat
    <3> SUFFICES ASSUME NEW a \in 1 .. Len(pos) - 1
                 PROVE  pos[a + 1] - 1 \in J /\ pos[a + 1] - 1 \in Nat
      OBVIOUS
    <3>1. a + 1 \in 1 .. Len(pos) /\ 1 < a + 1
      BY <1>5
    <3>2. pos[a + 1] \in I /\ pos[1] < pos[a + 1]
      BY <1>4, <2>2, <3>1 DEF Lists
    <3>3. pos[a + 1] \in 1 .. Len(s)
      BY <3>2
    <3>4. QED
      BY <2>3, <3>2, <3>3
  <2>5. /\ \A a \in 1 .. Len(pos) - 1 : p[a] = pos[a + 1] - 1 /\ p[a] \in J /\ p[a] \in Nat
        /\ p \in Seq(Nat)
        /\ Len(p) = Len(pos) - 1
    <3>1. p \in [1 .. Len(pos) - 1 -> Nat]
      BY <2>4
    <3>2. QED
      BY <1>5, <2>2, <2>4, <3>1
  <2> HIDE DEF p
  <2>6. Lists(p, J)
    <3>1. ASSUME NEW a \in 1 .. Len(p), NEW b \in 1 .. Len(p), a < b
          PROVE  p[a] < p[b]
      <4>1. a + 1 \in 1 .. Len(pos) /\ b + 1 \in 1 .. Len(pos) /\ a + 1 < b + 1
        BY <1>5, <2>5, <3>1
      <4>2. pos[a + 1] < pos[b + 1]
        BY <1>4, <4>1 DEF Lists
      <4>3. p[a] = pos[a + 1] - 1 /\ p[b] = pos[b + 1] - 1
        BY <2>5
      <4>4. pos[a + 1] \in Nat /\ pos[b + 1] \in Nat
        BY <1>5, <4>1
      <4>5. QED
        BY <4>2, <4>3, <4>4
    <3>2. ASSUME NEW i \in J
          PROVE  \E a \in 1 .. Len(p) : p[a] = i
      <4>1. PICK a \in 1 .. Len(pos) : pos[a] = i + 1
        BY <1>4 DEF Lists
      <4>2. a # 1
        BY <2>3, <4>1
      <4>3. a - 1 \in 1 .. Len(p) /\ (a - 1) + 1 = a
        BY <2>5, <4>2
      <4>4. p[a - 1] = pos[a] - 1
        BY <2>5, <4>3
      <4>5. QED
        BY <4>1, <4>3, <4>4
    <3>3. QED
      BY <2>5, <3>1, <3>2 DEF Lists
  <2>7. Kept(t, J) = At(t, p)
    BY <1>1, <1>3, <2>6, KeptAt
  <2>8. /\ At(s, pos) \in Seq(S)
        /\ Len(At(s, pos)) = Len(pos)
        /\ \A a \in 1 .. Len(pos) : At(s, pos)[a] = s[pos[a]]
    BY <1>6
  <2>9. /\ At(t, p) \in Seq(S)
        /\ Len(At(t, p)) = Len(p)
        /\ \A a \in 1 .. Len(p) : At(t, p)[a] = t[p[a]]
    BY <1>1, <1>3, <2>6, AtIsSeq
  <2> DEFINE K == At(s, pos)
             L == At(t, p)
  <2>10. \A a \in 1 .. Len(p) : K[a + 1] = L[a]
    <3> SUFFICES ASSUME NEW a \in 1 .. Len(p) PROVE K[a + 1] = L[a]
      OBVIOUS
    <3>1. a + 1 \in 1 .. Len(pos)
      BY <1>5, <2>5
    <3>2. p[a] = pos[a + 1] - 1 /\ p[a] \in J /\ pos[a + 1] \in Nat
      <4>1. pos[a + 1] \in Nat
        BY <1>5, <3>1
      <4>2. QED
        BY <2>5, <4>1
    <3>3. t[p[a]] = s[p[a] + 1]
      BY <1>1, <3>2
    <3>4. p[a] + 1 = pos[a + 1]
      BY <3>2
    <3>5. QED
      BY <2>8, <2>9, <3>1, <3>3, <3>4
  <2>11. K # <<>> /\ Head(K) = s[1] /\ K \in Seq(S)
    BY <2>2, <2>3, <2>8
  <2>12. Tail(K) = L
    <3> HIDE DEF K, L
    <3>1. /\ K \in Seq(S) /\ L \in Seq(S)
          /\ Len(K) = Len(pos) /\ Len(L) = Len(pos) - 1
      BY <2>5, <2>8, <2>9 DEF K, L
    <3>2. /\ Tail(K) \in Seq(S)
          /\ Len(Tail(K)) = Len(L)
          /\ \A a \in 1 .. Len(L) : Tail(K)[a] = K[a + 1]
      BY <2>11, <3>1
    <3>3. QED
      BY <2>5, <2>10, <3>1, <3>2, SeqEqual
  <2>13. QED
    BY <1>1, <1>2, <1>8, <2>7, <2>11, <2>12 DEF t
<1>9. QED
  BY <1>7, <1>8

-----------------------------------------------------------------------------
\* What the functions of SyncTable.qml do to the rows.

NamesIn(rs) == {rs[i].name : i \in DOMAIN rs}

Distinct(rs) == \A i, j \in DOMAIN rs : rs[i].name = rs[j].name => i = j

LEMMA CellIsNumber ==
    ASSUME NEW row \in Row, NEW col \in Columns
    PROVE  Cell(row, col) \in Nat
<1>1. row.name \in Names /\ row.progress \in Nat
  BY DEF Row
<1>2. CASE col = "progress"
  BY <1>1, <1>2 DEF Cell
<1>3. CASE col # "progress"
  <2>1. col \in TextColumns
    BY <1>3 DEF Columns
  <2>2. Text[col][row.name] \in Nat
    BY <1>1, <2>1, TableAssumption
  <2>3. QED
    BY <1>3, <2>2 DEF Cell
<1>4. QED
  BY <1>2, <1>3

LEMMA NewRowIsRow ==
    ASSUME NEW n \in Names
    PROVE  NewRow(n) \in Row /\ NewRow(n).name = n
BY DEF NewRow, Row

Inserted(s, e, k) == SubSeq(s, 1, k) \o <<e>> \o SubSeq(s, k + 1, Len(s))

\* r is s with e after its first k elements.
Pushed(s, e, k, r) ==
    /\ Len(r) = Len(s) + 1
    /\ \A i \in 1 .. k : r[i] = s[i]
    /\ r[k + 1] = e
    /\ \A i \in k + 1 .. Len(s) : r[i + 1] = s[i]

\* An element put into a sequence pushes those behind it down.
LEMMA Insertion ==
    ASSUME NEW S, NEW s \in Seq(S), NEW e \in S, NEW k \in 0 .. Len(s)
    PROVE  Inserted(s, e, k) \in Seq(S) /\ Pushed(s, e, k, Inserted(s, e, k))
<1> DEFINE r == Inserted(s, e, k)
           a == SubSeq(s, 1, k)
           b == SubSeq(s, k + 1, Len(s))
           m == a \o <<e>>
<1>1. /\ a \in Seq(S)
      /\ Len(a) = k
      /\ \A i \in 1 .. k : a[i] = s[i]
  OBVIOUS
<1>2. /\ b \in Seq(S)
      /\ Len(b) = Len(s) - k
      /\ \A i \in 1 .. Len(s) - k : b[i] = s[k + i]
  OBVIOUS
<1>3. k \in Nat /\ Len(s) \in Nat /\ k <= Len(s)
  OBVIOUS
<1> HIDE DEF a, b
<1>4. /\ m \in Seq(S)
      /\ Len(m) = k + 1
      /\ \A i \in 1 .. k : m[i] = a[i]
      /\ m[k + 1] = e
  BY <1>1, <1>3
<1> HIDE DEF m
<1>5. r = m \o b
  BY DEF m, a, b, Inserted
<1> HIDE DEF r
<1>6. /\ r \in Seq(S)
      /\ Len(r) = (k + 1) + (Len(s) - k)
      /\ \A i \in 1 .. Len(r) : r[i] = IF i <= k + 1 THEN m[i] ELSE b[i - (k + 1)]
  <2>1. m \in Seq(S) /\ b \in Seq(S)
    BY <1>2, <1>4
  <2>2. /\ r \in Seq(S)
        /\ Len(r) = Len(m) + Len(b)
        /\ \A i \in 1 .. Len(m) + Len(b) : r[i] = IF i <= Len(m) THEN m[i] ELSE b[i - Len(m)]
    BY <1>5, <2>1, ConcatProperties
  <2>3. Len(m) = k + 1 /\ Len(b) = Len(s) - k
    BY <1>2, <1>4
  <2>4. QED
    BY <2>2, <2>3
<1> DEFINE l == Len(s)
<1>7. /\ l \in Nat /\ k \in Nat /\ k <= l
      /\ Len(r) = l + 1
      /\ \A i \in 1 .. l + 1 : r[i] = IF i <= k + 1 THEN m[i] ELSE b[i - (k + 1)]
  <2>1. (k + 1) + (l - k) = l + 1
    BY <1>3
  <2>2. Len(r) = l + 1
    BY <1>6, <2>1
  <2>3. QED
    BY <1>3, <1>6, <2>2
<1> HIDE DEF l
<1>8. \A i \in 1 .. k : r[i] = s[i]
  <2> SUFFICES ASSUME NEW i \in 1 .. k PROVE r[i] = s[i]
    OBVIOUS
  <2>1. i \in 1 .. l + 1 /\ i <= k + 1
    BY <1>7
  <2>2. QED
    BY <1>1, <1>4, <1>7, <2>1
<1>9. r[k + 1] = e
  <2>1. k + 1 \in 1 .. l + 1 /\ k + 1 <= k + 1
    BY <1>7
  <2>2. r[k + 1] = m[k + 1]
    BY <1>7, <2>1
  <2>3. QED
    BY <1>4, <2>2
<1>10. ASSUME NEW i \in k + 1 .. l
       PROVE  r[i + 1] = s[i]
  <2>1. i - k \in 1 .. l - k /\ i + 1 \in 1 .. l + 1 /\ ~(i + 1 <= k + 1)
    BY <1>7
  <2>2. (i + 1) - (k + 1) = i - k /\ k + (i - k) = i
    BY <1>7
  <2>3. r[i + 1] = b[i - k]
    BY <1>7, <2>1, <2>2
  <2>4. b[i - k] = s[k + (i - k)]
    BY <1>2, <2>1 DEF l
  <2>5. QED
    BY <2>2, <2>3, <2>4
<1>11. QED
  BY <1>6, <1>7, <1>8, <1>9, <1>10 DEF l, r, Pushed

Fits(rs, n, k) ==
    /\ \A i \in 1 .. k : ComesAfter(n, rs[i])
    /\ k < Len(rs) => ~ComesAfter(n, rs[k + 1])

\* addModule finds a place: behind rows the new one comes after, before one it does not.
LEMMA Place ==
    ASSUME NEW rs \in Seq(Row), NEW n \in Names, column \in TextColumns
    PROVE  \E k \in 0 .. Len(rs) :
              Fits(rs, n, k) /\ AddModule(rs, n) = Inserted(rs, NewRow(n), k)
<1> DEFINE Ends == {k \in 0 .. Len(rs) : k < Len(rs) => ~ComesAfter(n, rs[k + 1])}
<1>1. Len(rs) \in Nat
  OBVIOUS
<1>2. \E k \in 0 .. Len(rs) : Fits(rs, n, k)
  <2>1. Len(rs) \in Ends /\ Ends \in SUBSET Nat
    BY <1>1
  <2>2. PICK k \in Ends : \A j \in Ends : k <= j
    BY <2>1, Least
  <2>3. ASSUME NEW i \in 1 .. k
        PROVE  ComesAfter(n, rs[i])
    <3>1. i - 1 \in 0 .. Len(rs) /\ i - 1 < Len(rs) /\ ~(k <= i - 1) /\ (i - 1) + 1 = i
      BY <1>1, <2>2
    <3>2. i - 1 \notin Ends
      BY <2>2, <3>1
    <3>3. QED
      BY <3>1, <3>2
  <2>4. Fits(rs, n, k)
    BY <2>2, <2>3 DEF Fits
  <2>5. QED
    BY <2>4
<1> DEFINE k == CHOOSE k \in 0 .. Len(rs) : Fits(rs, n, k)
<1>3. k \in 0 .. Len(rs) /\ Fits(rs, n, k)
  BY <1>2, Zenon
<1>4. column # "progress"
  BY TableAssumption
<1>5. AddModule(rs, n) = Inserted(rs, NewRow(n), k)
  BY <1>4, Zenon DEF AddModule, Inserted, Fits
<1> HIDE DEF k
<1>6. QED
  BY <1>3, <1>5

\* What adding the names in N to rs makes of it.
Grown(rs, r, N) ==
    /\ r \in Seq(Row)
    /\ NamesIn(r) \subseteq NamesIn(rs) \cup N
    /\ column \in TextColumns => NamesIn(r) = NamesIn(rs) \cup N
    /\ Distinct(rs) /\ N \cap NamesIn(rs) = {} => Distinct(r)
    /\ column \in TextColumns /\ InOrder(rs, column, ascending) => InOrder(r, column, ascending)

\* Where each element of r comes from.
ComesFrom(s, e, k, r) ==
    \A j \in 1 .. Len(r) :
        \/ j \in 1 .. k /\ r[j] = s[j]
        \/ j = k + 1 /\ r[j] = e
        \/ j - 1 \in k + 1 .. Len(s) /\ r[j] = s[j - 1]

\* A row put among others adds its name.
LEMMA InsertedNames ==
    ASSUME NEW rs \in Seq(Row), NEW row \in Row, NEW k \in 0 .. Len(rs), NEW r \in Seq(Row),
           Pushed(rs, row, k, r)
    PROVE  /\ NamesIn(r) = NamesIn(rs) \cup {row.name}
           /\ Distinct(rs) /\ row.name \notin NamesIn(rs) => Distinct(r)
           /\ ComesFrom(rs, row, k, r)
<1> DEFINE l == Len(rs)
<1>1. l \in Nat /\ k \in Nat /\ k <= l /\ DOMAIN rs = 1 .. l /\ DOMAIN r = 1 .. l + 1
  BY DEF Pushed
<1>2. /\ \A i \in 1 .. k : r[i] = rs[i]
      /\ r[k + 1] = row
      /\ \A i \in k + 1 .. l : r[i + 1] = rs[i]
      /\ Len(r) = l + 1
  BY DEF Pushed
<1> HIDE DEF l
<1>3. ASSUME NEW j \in 1 .. l + 1
      PROVE  \/ j \in 1 .. k /\ r[j] = rs[j]
             \/ j = k + 1 /\ r[j] = row
             \/ j - 1 \in k + 1 .. l /\ r[j] = rs[j - 1]
  <2>1. CASE j \in 1 .. k
    BY <1>2, <2>1
  <2>2. CASE j = k + 1
    BY <1>2, <2>2
  <2>3. CASE j > k + 1
    <3>1. j - 1 \in k + 1 .. l /\ (j - 1) + 1 = j
      BY <1>1, <2>3
    <3>2. QED
      BY <1>2, <3>1
  <2>4. QED
    BY <1>1, <2>1, <2>2, <2>3
<1>4. 1 .. k \subseteq 1 .. l /\ k + 1 .. l \subseteq 1 .. l
  BY <1>1
<1>5. NamesIn(r) \subseteq NamesIn(rs) \cup {row.name}
  <2> SUFFICES ASSUME NEW j \in 1 .. l + 1
               PROVE  r[j].name \in NamesIn(rs) \cup {row.name}
    BY <1>1 DEF NamesIn
  <2>1. \A m \in 1 .. l : rs[m].name \in NamesIn(rs)
    BY <1>1 DEF NamesIn
  <2>2. QED
    BY <1>3, <1>4, <2>1
<1>6. NamesIn(rs) \cup {row.name} \subseteq NamesIn(r)
  <2>1. k + 1 \in 1 .. l + 1
    BY <1>1
  <2>2. ASSUME NEW i \in 1 .. l
        PROVE  \E j \in 1 .. l + 1 : r[j] = rs[i]
    <3>1. CASE i \in 1 .. k
      <4>1. i \in 1 .. l + 1
        BY <1>1
      <4>2. QED
        BY <1>2, <3>1, <4>1
    <3>2. CASE i \in k + 1 .. l
      <4>1. i + 1 \in 1 .. l + 1
        BY <1>1
      <4>2. QED
        BY <1>2, <3>2, <4>1
    <3>3. QED
      BY <1>1, <3>1, <3>2
  <2>3. \A j \in 1 .. l + 1 : r[j].name \in NamesIn(r)
    BY <1>1 DEF NamesIn
  <2>4. row.name \in NamesIn(r)
    BY <1>2, <2>1, <2>3
  <2>5. \A i \in 1 .. l : rs[i].name \in NamesIn(r)
    BY <2>2, <2>3
  <2>6. QED
    BY <1>1, <2>4, <2>5 DEF NamesIn
<1>7. ASSUME Distinct(rs), row.name \notin NamesIn(rs),
             NEW i \in 1 .. l + 1, NEW j \in 1 .. l + 1, r[i].name = r[j].name
      PROVE  i = j
  <2>1. \A m \in 1 .. l : rs[m].name # row.name
    BY <1>1, <1>7 DEF NamesIn
  <2>2. \A m, n \in 1 .. l : rs[m].name = rs[n].name => m = n
    BY <1>1, <1>7 DEF Distinct
  <2>3. CASE i \in 1 .. k /\ r[i] = rs[i]
    <3>1. CASE j \in 1 .. k /\ r[j] = rs[j]
      BY <1>4, <1>7, <2>2, <2>3, <3>1
    <3>2. CASE j = k + 1 /\ r[j] = row
      BY <1>4, <1>7, <2>1, <2>3, <3>2
    <3>3. CASE j - 1 \in k + 1 .. l /\ r[j] = rs[j - 1]
      <4>1. i = j - 1
        BY <1>4, <1>7, <2>2, <2>3, <3>3
      <4>2. QED
        BY <1>1, <2>3, <3>3, <4>1
    <3>4. QED
      BY <1>3, <3>1, <3>2, <3>3
  <2>4. CASE i = k + 1 /\ r[i] = row
    <3>1. CASE j \in 1 .. k /\ r[j] = rs[j]
      BY <1>4, <1>7, <2>1, <2>4, <3>1
    <3>2. CASE j = k + 1 /\ r[j] = row
      BY <2>4, <3>2
    <3>3. CASE j - 1 \in k + 1 .. l /\ r[j] = rs[j - 1]
      BY <1>4, <1>7, <2>1, <2>4, <3>3
    <3>4. QED
      BY <1>3, <3>1, <3>2, <3>3
  <2>5. CASE i - 1 \in k + 1 .. l /\ r[i] = rs[i - 1]
    <3>1. CASE j \in 1 .. k /\ r[j] = rs[j]
      <4>1. j = i - 1
        BY <1>4, <1>7, <2>2, <2>5, <3>1
      <4>2. QED
        BY <1>1, <2>5, <3>1, <4>1
    <3>2. CASE j = k + 1 /\ r[j] = row
      BY <1>4, <1>7, <2>1, <2>5, <3>2
    <3>3. CASE j - 1 \in k + 1 .. l /\ r[j] = rs[j - 1]
      <4>1. i - 1 = j - 1
        BY <1>4, <1>7, <2>2, <2>5, <3>3
      <4>2. QED
        BY <4>1
    <3>4. QED
      BY <1>3, <3>1, <3>2, <3>3
  <2>6. QED
    BY <1>3, <2>3, <2>4, <2>5
<1>8. Distinct(rs) /\ row.name \notin NamesIn(rs) => Distinct(r)
  BY <1>1, <1>7 DEF Distinct
<1>9. QED
  BY <1>1, <1>2, <1>3, <1>5, <1>6, <1>8 DEF l, ComesFrom

\* A row put in its place leaves the rows in order.
LEMMA InsertedOrder ==
    ASSUME NEW rs \in Seq(Row), NEW n \in Names, NEW row \in Row, row.name = n,
           NEW k \in 0 .. Len(rs), NEW r \in Seq(Row),
           column \in TextColumns, ascending \in BOOLEAN,
           Fits(rs, n, k), Pushed(rs, row, k, r), ComesFrom(rs, row, k, r),
           InOrder(rs, column, ascending)
    PROVE  InOrder(r, column, ascending)
<1> DEFINE l == Len(rs)
           C(x) == Cell(x, column)
           Before(x, y) == IF ascending THEN C(x) <= C(y) ELSE C(x) >= C(y)
<1>1. l \in Nat /\ k \in Nat /\ k <= l /\ DOMAIN rs = 1 .. l /\ DOMAIN r = 1 .. l + 1 /\ Len(r) = l + 1
  BY DEF Pushed
<1>2. \A j \in 1 .. l + 1 :
        \/ j \in 1 .. k /\ r[j] = rs[j]
        \/ j = k + 1 /\ r[j] = row
        \/ j - 1 \in k + 1 .. l /\ r[j] = rs[j - 1]
  BY <1>1 DEF ComesFrom
<1>3. \A i \in 1 .. l : C(rs[i]) \in Nat
  <2>1. column \in Columns
    BY DEF Columns
  <2>2. \A i \in 1 .. l : rs[i] \in Row
    BY <1>1
  <2>3. QED
    BY <2>1, <2>2, CellIsNumber
<1>4. C(row) \in Nat /\ C(row) = Text[column][n]
  <2>1. column \in Columns /\ column # "progress"
    BY TableAssumption DEF Columns
  <2>2. QED
    BY <2>1, CellIsNumber DEF Cell
<1>5. \A i \in 1 .. l : ComesAfter(n, rs[i]) <=>
         IF ascending THEN C(row) >= C(rs[i]) ELSE C(row) < C(rs[i])
  <2>1. column # "progress"
    BY TableAssumption
  <2>2. QED
    BY <1>4, <2>1 DEF ComesAfter, Cell
<1>6. \A i, j \in 1 .. l : i < j => Before(rs[i], rs[j])
  BY <1>1 DEF InOrder
<1> HIDE DEF l, C
<1>7. \A i \in 1 .. k : Before(rs[i], row)
  <2> SUFFICES ASSUME NEW i \in 1 .. k PROVE Before(rs[i], row)
    OBVIOUS
  <2>1. i \in 1 .. l
    BY <1>1
  <2>2. ComesAfter(n, rs[i])
    BY DEF Fits
  <2>3. IF ascending THEN C(row) >= C(rs[i]) ELSE C(row) < C(rs[i])
    BY <1>5, <2>1, <2>2
  <2>4. C(rs[i]) \in Nat /\ C(row) \in Nat
    BY <1>3, <1>4, <2>1
  <2>5. QED
    BY <2>3, <2>4
<1>8. \A i \in k + 1 .. l : Before(row, rs[i])
  <2> SUFFICES ASSUME NEW i \in k + 1 .. l PROVE Before(row, rs[i])
    OBVIOUS
  <2>1. k < l /\ k + 1 \in 1 .. l /\ i \in 1 .. l
    BY <1>1
  <2>2. ~ComesAfter(n, rs[k + 1])
    BY <2>1 DEF l, Fits
  <2>3. IF ascending THEN C(row) < C(rs[k + 1]) ELSE C(row) >= C(rs[k + 1])
    <3>1. /\ C(rs[k + 1]) \in Nat /\ C(row) \in Nat
          /\ ~(IF ascending THEN C(row) >= C(rs[k + 1]) ELSE C(row) < C(rs[k + 1]))
      BY <1>3, <1>4, <1>5, <2>1, <2>2
    <3>2. QED
      BY <3>1
  <2>4. i = k + 1 \/ Before(rs[k + 1], rs[i])
    <3>1. i = k + 1 \/ k + 1 < i
      BY <1>1
    <3>2. QED
      BY <1>6, <2>1, <3>1
  <2>5. C(rs[i]) \in Nat /\ C(rs[k + 1]) \in Nat /\ C(row) \in Nat
    BY <1>3, <1>4, <2>1
  <2>6. CASE i = k + 1
    BY <2>3, <2>5, <2>6
  <2>7. CASE Before(rs[k + 1], rs[i])
    BY <2>3, <2>5, <2>7
  <2>8. QED
    BY <2>4, <2>6, <2>7
<1> HIDE DEF Before
<1>9. ASSUME NEW i \in 1 .. l + 1, NEW j \in 1 .. l + 1, i < j
      PROVE  Before(r[i], r[j])
  <2>1. CASE i \in 1 .. k /\ r[i] = rs[i]
    <3>1. CASE j \in 1 .. k /\ r[j] = rs[j]
      <4>1. i \in 1 .. l /\ j \in 1 .. l
        BY <1>1, <2>1, <3>1
      <4>2. QED
        BY <1>6, <1>9, <2>1, <3>1, <4>1
    <3>2. CASE j = k + 1 /\ r[j] = row
      BY <1>7, <2>1, <3>2
    <3>3. CASE j - 1 \in k + 1 .. l /\ r[j] = rs[j - 1]
      <4>1. i \in 1 .. l /\ j - 1 \in 1 .. l /\ i < j - 1
        BY <1>1, <2>1, <3>3
      <4>2. QED
        BY <1>6, <2>1, <3>3, <4>1
    <3>4. QED
      BY <1>2, <3>1, <3>2, <3>3
  <2>2. CASE i = k + 1 /\ r[i] = row
    <3>1. j - 1 \in k + 1 .. l /\ r[j] = rs[j - 1]
      <4>1. j \notin 1 .. k /\ j # k + 1
        BY <1>1, <1>9, <2>2
      <4>2. QED
        BY <1>2, <4>1
    <3>2. QED
      BY <1>8, <2>2, <3>1
  <2>3. CASE i - 1 \in k + 1 .. l /\ r[i] = rs[i - 1]
    <3>1. j - 1 \in k + 1 .. l /\ r[j] = rs[j - 1]
      <4>1. j \notin 1 .. k /\ j # k + 1
        BY <1>1, <1>9, <2>3
      <4>2. QED
        BY <1>2, <4>1
    <3>2. i - 1 \in 1 .. l /\ j - 1 \in 1 .. l /\ i - 1 < j - 1
      BY <1>1, <1>9, <2>3, <3>1
    <3>3. QED
      BY <1>6, <2>3, <3>1, <3>2
  <2>4. QED
    BY <1>2, <2>1, <2>2, <2>3
<1>10. QED
  BY <1>1, <1>9 DEF InOrder, Before, C

LEMMA AddModuleGrows ==
    ASSUME NEW rs \in Seq(Row), NEW n \in Names, column \in Columns, ascending \in BOOLEAN
    PROVE  Grown(rs, AddModule(rs, n), {n})
<1>1. NewRow(n) \in Row /\ NewRow(n).name = n
  BY NewRowIsRow
<1>2. CASE column = "progress"
  <2>1. column \notin TextColumns
    BY <1>2, TableAssumption
  <2>2. CASE rs = <<>>
    <3>1. AddModule(rs, n) = <<NewRow(n)>>
      BY <1>2, <2>2 DEF AddModule
    <3> DEFINE r == <<NewRow(n)>>
    <3>2. r \in Seq(Row) /\ DOMAIN r = {1} /\ r[1] = NewRow(n)
      BY <1>1
    <3>3. NamesIn(r) = {n} /\ Distinct(r)
      <4> HIDE DEF r
      <4>1. QED
        BY <1>1, <3>2 DEF NamesIn, Distinct
    <3>4. QED
      BY <2>1, <3>1, <3>2, <3>3 DEF Grown
  <2>3. CASE rs # <<>>
    <3>1. AddModule(rs, n) = rs
      BY <1>2, <2>3 DEF AddModule
    <3>2. QED
      BY <2>1, <3>1 DEF Grown
  <2>4. QED
    BY <2>2, <2>3
<1>3. CASE column # "progress"
  <2>1. column \in TextColumns
    BY <1>3 DEF Columns
  <2>2. PICK k \in 0 .. Len(rs) : Fits(rs, n, k) /\ AddModule(rs, n) = Inserted(rs, NewRow(n), k)
    BY <2>1, Place
  <2> DEFINE r == AddModule(rs, n)
             row == NewRow(n)
  <2>3. row \in Row /\ row.name = n
    BY <1>1
  <2>4. r = Inserted(rs, row, k)
    BY <2>2
  <2> HIDE DEF r, row
  <2>5. r \in Seq(Row) /\ Pushed(rs, row, k, r)
    BY <2>3, <2>4, Insertion
  <2>6. /\ NamesIn(r) = NamesIn(rs) \cup {row.name}
        /\ Distinct(rs) /\ row.name \notin NamesIn(rs) => Distinct(r)
        /\ ComesFrom(rs, row, k, r)
    BY <2>3, <2>5, InsertedNames
  <2>7. ASSUME InOrder(rs, column, ascending) PROVE InOrder(r, column, ascending)
    BY <2>1, <2>2, <2>3, <2>5, <2>6, <2>7, InsertedOrder
  <2>8. QED
    BY <2>3, <2>5, <2>6, <2>7 DEF Grown, r
<1>4. QED
  BY <1>2, <1>3

LEMMA GrowsMore ==
    ASSUME NEW rs, NEW r, NEW t, NEW N, NEW n, Grown(rs, r, N), Grown(r, t, {n}), n \notin N
    PROVE  Grown(rs, t, N \cup {n})
<1>1. t \in Seq(Row) /\ NamesIn(t) \subseteq NamesIn(rs) \cup (N \cup {n})
  BY DEF Grown
<1>2. column \in TextColumns => NamesIn(t) = NamesIn(rs) \cup (N \cup {n})
  BY DEF Grown
<1>3. ASSUME Distinct(rs), (N \cup {n}) \cap NamesIn(rs) = {} PROVE Distinct(t)
  <2>1. Distinct(r) /\ NamesIn(r) \subseteq NamesIn(rs) \cup N
    BY <1>3 DEF Grown
  <2>2. n \notin NamesIn(r)
    BY <1>3, <2>1
  <2>3. QED
    BY <2>1, <2>2 DEF Grown
<1>4. column \in TextColumns /\ InOrder(rs, column, ascending) => InOrder(t, column, ascending)
  BY DEF Grown
<1>5. QED
  BY <1>1, <1>2, <1>3, <1>4 DEF Grown

AddStep(rs, ns, i, before) == IF i = 0 THEN rs ELSE AddModule(before, ns[i])

LEMMA AddRecursion ==
    ASSUME NEW rs, NEW S, NEW ns \in Seq(S)
    PROVE  \E f : /\ f = [k \in 0 .. Len(ns) |-> AddStep(rs, ns, k, f[k - 1])]
                  /\ AddModules(rs, ns) = f[Len(ns)]
<1> DEFINE Good == {n \in Nat : \E f : f = [k \in 0 .. n |-> AddStep(rs, ns, k, f[k - 1])]}
<1>1. 0 \in Good
  <2>1. [k \in 0 .. 0 |-> rs] = [k \in 0 .. 0 |-> AddStep(rs, ns, k, [j \in 0 .. 0 |-> rs][k - 1])]
    BY DEF AddStep
  <2>2. QED
    BY <2>1
<1>2. ASSUME NEW n \in 0 .. Len(ns), n > 0, n - 1 \in Good
      PROVE  n \in Good
  <2>1. PICK f : f = [k \in 0 .. n - 1 |-> AddStep(rs, ns, k, f[k - 1])]
    BY <1>2
  <2> DEFINE g == [k \in 0 .. n |-> IF k = n THEN AddStep(rs, ns, n, f[n - 1]) ELSE f[k]]
  <2>2. \A k \in 0 .. n - 1 : f[k] = AddStep(rs, ns, k, f[k - 1])
    BY <2>1
  <2>3. ASSUME NEW k \in 0 .. n
        PROVE  g[k] = AddStep(rs, ns, k, g[k - 1])
    <3>1. CASE k = n
      BY <3>1, <1>2
    <3>2. CASE k # n /\ k > 0
      <4>1. k \in 0 .. n - 1 /\ k - 1 \in 0 .. n /\ k - 1 # n
        BY <3>2
      <4>2. g[k] = f[k] /\ g[k - 1] = f[k - 1]
        BY <4>1
      <4>3. QED
        BY <2>2, <4>1, <4>2
    <3>3. CASE k # n /\ k = 0
      <4>1. g[k] = f[k] /\ f[k] = AddStep(rs, ns, k, f[k - 1])
        BY <2>2, <3>3, <1>2
      <4>2. QED
        BY <4>1, <3>3 DEF AddStep
    <3>4. QED
      BY <3>1, <3>2, <3>3
  <2>4. g = [k \in 0 .. n |-> AddStep(rs, ns, k, g[k - 1])]
    <3>1. g = [k \in 0 .. n |-> g[k]]
      OBVIOUS
    <3> HIDE DEF g
    <3>2. QED
      BY <2>3, <3>1
  <2>5. n \in Nat
    OBVIOUS
  <2> HIDE DEF g
  <2>6. QED
    BY <2>4, <2>5
<1>3. Len(ns) \in Good
  <2> HIDE DEF Good
  <2>1. Len(ns) \in Nat
    OBVIOUS
  <2>2. Good \in SUBSET Nat
    BY DEF Good
  <2>3. \A k \in 0 .. Len(ns) : k > 0 /\ k - 1 \in Good => k \in Good
    BY <1>2
  <2>4. 0 .. Len(ns) \subseteq Good
    BY <1>1, <2>1, <2>2, <2>3, EveryPlace
  <2>5. QED
    BY <2>1, <2>4
<1>4. \E f : f = [k \in 0 .. Len(ns) |-> AddStep(rs, ns, k, f[k - 1])]
  BY <1>3
<1> DEFINE h == CHOOSE f : f = [k \in 0 .. Len(ns) |-> AddStep(rs, ns, k, f[k - 1])]
<1>5. h = [k \in 0 .. Len(ns) |-> AddStep(rs, ns, k, h[k - 1])]
  <2> HIDE DEF Good
  <2>1. QED
    BY <1>4, Zenon
<1>6. AddModules(rs, ns) = h[Len(ns)]
  BY Zenon DEF AddModules, AddStep
<1> HIDE DEF h
<1>7. QED
  BY <1>5, <1>6, Zenon

\* The rows after onModulesFetched.
LEMMA AddModulesGrows ==
    ASSUME NEW rs \in Seq(Row), NEW ns \in Seq(Names), column \in Columns, ascending \in BOOLEAN,
           \A i, j \in DOMAIN ns : ns[i] = ns[j] => i = j
    PROVE  Grown(rs, AddModules(rs, ns), ToSet(ns))
<1>1. PICK f : /\ f = [k \in 0 .. Len(ns) |-> AddStep(rs, ns, k, f[k - 1])]
               /\ AddModules(rs, ns) = f[Len(ns)]
  BY AddRecursion
<1>2. \A k \in 0 .. Len(ns) : f[k] = AddStep(rs, ns, k, f[k - 1])
  BY <1>1
<1>3. Len(ns) \in Nat /\ DOMAIN ns = 1 .. Len(ns) /\ \A i \in 1 .. Len(ns) : ns[i] \in Names
  OBVIOUS
<1> DEFINE Upto(k) == {ns[i] : i \in 1 .. k}
           Good == {k \in 0 .. Len(ns) : Grown(rs, f[k], Upto(k))}
<1>4. 0 \in Good
  <2>1. f[0] = rs /\ Upto(0) = {}
    BY <1>2, <1>3 DEF AddStep
  <2>2. Grown(rs, rs, {})
    BY DEF Grown
  <2>3. Grown(rs, f[0], Upto(0))
    <3> HIDE DEF Upto
    <3>1. QED
      BY <2>1, <2>2, Zenon
  <2>4. QED
    BY <1>3, <2>3
<1>5. ASSUME NEW k \in 0 .. Len(ns), k > 0, k - 1 \in Good
      PROVE  k \in Good
  <2>1. Grown(rs, f[k - 1], Upto(k - 1))
    BY <1>5
  <2>2. f[k] = AddModule(f[k - 1], ns[k])
    BY <1>2, <1>5 DEF AddStep
  <2>3. k \in 1 .. Len(ns) /\ ns[k] \in Names
    BY <1>3, <1>5
  <2>4. Grown(f[k - 1], f[k], {ns[k]})
    <3>1. f[k - 1] \in Seq(Row)
      BY <2>1 DEF Grown
    <3>2. QED
      BY <2>2, <2>3, <3>1, AddModuleGrows
  <2>5. ns[k] \notin Upto(k - 1)
    BY <1>3, <2>3
  <2>6. Upto(k) = Upto(k - 1) \cup {ns[k]}
    <3>1. 1 .. k = (1 .. k - 1) \cup {k}
      BY <2>3
    <3>2. QED
      BY <3>1
  <2>7. Grown(rs, f[k], Upto(k))
    <3> HIDE DEF Upto
    <3>1. QED
      BY <2>1, <2>4, <2>5, <2>6, GrowsMore
  <2>8. QED
    BY <2>7
<1>6. Len(ns) \in Good
  <2> HIDE DEF Good
  <2>1. Good \in SUBSET Nat
    BY DEF Good
  <2>2. \A k \in 0 .. Len(ns) : k > 0 /\ k - 1 \in Good => k \in Good
    BY <1>5
  <2>3. 0 .. Len(ns) \subseteq Good
    BY <1>3, <1>4, <2>1, <2>2, EveryPlace
  <2>4. QED
    BY <1>3, <2>3
<1>7. Upto(Len(ns)) = ToSet(ns)
  BY <1>3 DEF ToSet
<1>8. QED
  BY <1>1, <1>6, <1>7

\* deleteModule takes the rows of one name, whatever the case, and no other.
LEMMA DeleteModuleTakes ==
    ASSUME NEW rs \in Seq(Row), NEW n
    PROVE  LET r == DeleteModule(rs, n)
           IN  /\ r \in Seq(Row)
               /\ NamesIn(r) = {m \in NamesIn(rs) : Text["name"][m] # Text["name"][n]}
               /\ Distinct(rs) => Distinct(r)
               /\ \A col, asc : InOrder(rs, col, asc) => InOrder(r, col, asc)
<1> DEFINE I == DOMAIN rs \ Hits(rs, n)
           r == DeleteModule(rs, n)
<1>1. PICK pos : Lists(pos, I \cap (1 .. Len(rs))) /\ Kept(rs, I) = At(rs, pos)
  BY KeptLists
<1>2. r = At(rs, pos)
  BY <1>1 DEF DeleteModule
<1>3. I \cap (1 .. Len(rs)) = I /\ DOMAIN rs = 1 .. Len(rs) /\ Len(rs) \in Nat
  OBVIOUS
<1>4. /\ r \in Seq(Row)
      /\ Len(r) = Len(pos)
      /\ \A a \in 1 .. Len(pos) : r[a] = rs[pos[a]]
  BY <1>1, <1>2, AtIsSeq
<1>5. DOMAIN r = 1 .. Len(pos)
  BY <1>4
<1>6. /\ \A a \in 1 .. Len(pos) : pos[a] \in I
      /\ \A a, b \in 1 .. Len(pos) : a < b => pos[a] < pos[b]
      /\ \A i \in I : \E a \in 1 .. Len(pos) : pos[a] = i
      /\ Len(pos) \in Nat
  BY <1>1, <1>3 DEF Lists
<1>7. \A i \in 1 .. Len(rs) : i \in I <=> Text["name"][rs[i].name] # Text["name"][n]
  BY <1>3 DEF Hits
<1>8. I \subseteq 1 .. Len(rs)
  BY <1>3
<1> HIDE DEF I, r
<1>9. NamesIn(r) = {m \in NamesIn(rs) : Text["name"][m] # Text["name"][n]}
  <2>1. ASSUME NEW a \in 1 .. Len(pos)
        PROVE  r[a].name \in NamesIn(rs) /\ Text["name"][r[a].name] # Text["name"][n]
    <3>1. pos[a] \in 1 .. Len(rs) /\ r[a] = rs[pos[a]] /\ pos[a] \in I
      BY <1>4, <1>6, <1>8
    <3>2. QED
      BY <1>3, <1>7, <3>1 DEF NamesIn
  <2>2. ASSUME NEW i \in 1 .. Len(rs), Text["name"][rs[i].name] # Text["name"][n]
        PROVE  rs[i].name \in NamesIn(r)
    <3>1. PICK a \in 1 .. Len(pos) : pos[a] = i
      BY <1>6, <1>7, <2>2
    <3>2. r[a] = rs[i]
      BY <1>4, <3>1
    <3>3. QED
      BY <1>5, <3>2 DEF NamesIn
  <2>3. QED
    BY <1>3, <1>5, <2>1, <2>2 DEF NamesIn
<1>10. ASSUME Distinct(rs) PROVE Distinct(r)
  <2> SUFFICES ASSUME NEW a \in 1 .. Len(pos), NEW b \in 1 .. Len(pos), r[a].name = r[b].name
               PROVE  a = b
    BY <1>5 DEF Distinct
  <2>1. pos[a] \in 1 .. Len(rs) /\ pos[b] \in 1 .. Len(rs)
    BY <1>6, <1>8
  <2>2. pos[a] = pos[b]
    BY <1>3, <1>4, <1>10, <2>1 DEF Distinct
  <2>3. ~(a < b) /\ ~(b < a)
    <3>1. a < b => pos[a] < pos[b]
      BY <1>6
    <3>2. b < a => pos[b] < pos[a]
      BY <1>6
    <3>3. QED
      BY <2>1, <2>2, <3>1, <3>2
  <2>4. QED
    BY <2>3
<1>11. ASSUME NEW col, NEW asc, InOrder(rs, col, asc) PROVE InOrder(r, col, asc)
  <2> SUFFICES ASSUME NEW a \in 1 .. Len(pos), NEW b \in 1 .. Len(pos), a < b
               PROVE  IF asc THEN Cell(r[a], col) <= Cell(r[b], col)
                             ELSE Cell(r[a], col) >= Cell(r[b], col)
    BY <1>5 DEF InOrder
  <2>1. /\ pos[a] \in DOMAIN rs /\ pos[b] \in DOMAIN rs /\ pos[a] < pos[b]
        /\ r[a] = rs[pos[a]] /\ r[b] = rs[pos[b]]
    BY <1>3, <1>4, <1>6, <1>8
  <2>2. IF asc THEN Cell(rs[pos[a]], col) <= Cell(rs[pos[b]], col)
               ELSE Cell(rs[pos[a]], col) >= Cell(rs[pos[b]], col)
    BY <1>11, <2>1 DEF InOrder
  <2>3. QED
    BY <2>1, <2>2
<1>12. QED
  BY <1>4, <1>9, <1>10, <1>11 DEF r

\* A bar that moves changes neither names nor places.
LEMMA ModifyProgressKeeps ==
    ASSUME NEW rs \in Seq(Row), NEW text, NEW val \in Nat
    PROVE  LET r == ModifyProgress(rs, text, val)
           IN  /\ r \in Seq(Row)
               /\ NamesIn(r) = NamesIn(rs)
               /\ Distinct(rs) => Distinct(r)
               /\ \A col \in TextColumns : \A asc : InOrder(rs, col, asc) => InOrder(r, col, asc)
<1> DEFINE r == ModifyProgress(rs, text, val)
<1>1. DOMAIN rs = 1 .. Len(rs) /\ Len(rs) \in Nat /\ \A i \in 1 .. Len(rs) : rs[i] \in Row
  OBVIOUS
<1>2. ASSUME NEW i \in 1 .. Len(rs)
      PROVE  /\ r[i] \in {rs[i], [rs[i] EXCEPT !.progress = val]}
             /\ [rs[i] EXCEPT !.progress = val] \in Row
             /\ [rs[i] EXCEPT !.progress = val].name = rs[i].name
  <2>1. rs[i] \in Row
    BY <1>1
  <2>2. r[i] \in {rs[i], [rs[i] EXCEPT !.progress = val]}
    BY <1>1 DEF ModifyProgress
  <2>3. QED
    BY <2>1, <2>2 DEF Row
<1>3. \A i \in 1 .. Len(rs) : r[i] \in Row /\ r[i].name = rs[i].name
  BY <1>1, <1>2
<1>4. r = [i \in 1 .. Len(rs) |-> r[i]]
  BY <1>1 DEF ModifyProgress
<1> HIDE DEF r
<1>5. r \in Seq(Row) /\ DOMAIN r = 1 .. Len(rs)
  <2>1. r \in [1 .. Len(rs) -> Row]
    BY <1>3, <1>4
  <2>2. QED
    BY <1>1, <2>1
<1>6. NamesIn(r) = NamesIn(rs)
  BY <1>1, <1>3, <1>5 DEF NamesIn
<1>7. Distinct(rs) => Distinct(r)
  BY <1>1, <1>3, <1>5 DEF Distinct
<1>8. ASSUME NEW col \in TextColumns, NEW asc, InOrder(rs, col, asc) PROVE InOrder(r, col, asc)
  <2>1. \A i \in 1 .. Len(rs) : Cell(r[i], col) = Cell(rs[i], col)
    <3>1. col # "progress"
      BY TableAssumption
    <3>2. QED
      BY <1>3, <3>1 DEF Cell
  <2>2. QED
    BY <1>1, <1>5, <1>8, <2>1 DEF InOrder
<1>9. QED
  BY <1>5, <1>6, <1>7, <1>8 DEF r

\* Sorting loses no row and makes none.
LEMMA SortedKeeps ==
    ASSUME NEW rs \in Seq(Row), NEW col, NEW asc, NEW r \in Sorted(rs, col, asc)
    PROVE  /\ r \in Seq(Row)
           /\ NamesIn(r) = NamesIn(rs)
           /\ Distinct(rs) => Distinct(r)
           /\ InOrder(r, col, asc)
<1>1. DOMAIN rs = 1 .. Len(rs) /\ Len(rs) \in Nat
  OBVIOUS
<1>2. PICK p \in SetToSeqs(DOMAIN rs) : r = [i \in DOMAIN rs |-> rs[p[i]]]
  BY DEF Sorted
<1>3. IsFiniteSet(DOMAIN rs) /\ Cardinality(DOMAIN rs) = Len(rs)
  BY <1>1, FS_Interval
<1>4. /\ DOMAIN p = 1 .. Len(rs)
      /\ \A i, j \in 1 .. Len(rs) : p[i] = p[j] => i = j
      /\ ToSet(p) = 1 .. Len(rs)
  <2>1. /\ DOMAIN p = 1 .. Cardinality(DOMAIN rs)
        /\ \A i, j \in DOMAIN p : p[i] = p[j] => i = j
        /\ ToSet(p) = DOMAIN rs
    BY <1>3, Listing
  <2>2. QED
    BY <1>1, <1>3, <2>1
<1>5. /\ \A i \in 1 .. Len(rs) : p[i] \in 1 .. Len(rs)
      /\ \A j \in 1 .. Len(rs) : \E i \in 1 .. Len(rs) : p[i] = j
  BY <1>4 DEF ToSet
<1>6. DOMAIN r = 1 .. Len(rs) /\ \A i \in 1 .. Len(rs) : r[i] = rs[p[i]]
  BY <1>1, <1>2
<1>7. r \in Seq(Row)
  <2>1. \A i \in 1 .. Len(rs) : rs[p[i]] \in Row
    BY <1>5
  <2>2. r \in [1 .. Len(rs) -> Row]
    BY <1>1, <1>2, <2>1
  <2>3. QED
    BY <1>1, <2>2
<1>8. NamesIn(r) = NamesIn(rs)
  <2>1. ASSUME NEW i \in 1 .. Len(rs) PROVE r[i].name \in NamesIn(rs)
    <3>1. p[i] \in DOMAIN rs /\ r[i] = rs[p[i]]
      BY <1>1, <1>5, <1>6
    <3>2. QED
      BY <3>1 DEF NamesIn
  <2>2. ASSUME NEW j \in 1 .. Len(rs) PROVE rs[j].name \in NamesIn(r)
    <3>1. PICK i \in 1 .. Len(rs) : p[i] = j
      BY <1>5
    <3>2. r[i] = rs[j]
      BY <1>6, <3>1
    <3>3. QED
      BY <1>6, <3>2 DEF NamesIn
  <2>3. QED
    BY <1>1, <1>6, <2>1, <2>2 DEF NamesIn
<1>9. ASSUME Distinct(rs) PROVE Distinct(r)
  <2> SUFFICES ASSUME NEW i \in 1 .. Len(rs), NEW j \in 1 .. Len(rs), r[i].name = r[j].name
               PROVE  i = j
    BY <1>6 DEF Distinct
  <2>1. /\ p[i] \in DOMAIN rs /\ r[i] = rs[p[i]]
        /\ p[j] \in DOMAIN rs /\ r[j] = rs[p[j]]
    BY <1>1, <1>5, <1>6
  <2>2. p[i] = p[j]
    <3>1. rs[p[i]].name = rs[p[j]].name
      BY <2>1
    <3>2. QED
      BY <1>9, <2>1, <3>1 DEF Distinct
  <2>3. QED
    BY <1>4, <2>2
<1>10. InOrder(r, col, asc)
  BY DEF Sorted
<1>11. QED
  BY <1>7, <1>8, <1>9, <1>10

-----------------------------------------------------------------------------
\* The vector of modules.

NoTwice(s) == \A i, j \in DOMAIN s : s[i] = s[j] => i = j

LEMMA RemoveAtTakes ==
    ASSUME NEW S, NEW s \in Seq(S), NEW i \in 1 .. Len(s)
    PROVE  /\ RemoveAt(s, i) \in Seq(S)
           /\ Len(RemoveAt(s, i)) = Len(s) - 1
           /\ \A a \in 1 .. Len(s) - 1 : RemoveAt(s, i)[a] = IF a < i THEN s[a] ELSE s[a + 1]
<1> DEFINE a == SubSeq(s, 1, i - 1)
           b == SubSeq(s, i + 1, Len(s))
           l == Len(s)
<1>1. a \in Seq(S) /\ Len(a) = i - 1 /\ \A k \in 1 .. i - 1 : a[k] = s[k]
  OBVIOUS
<1>2. b \in Seq(S) /\ Len(b) = l - i /\ \A k \in 1 .. l - i : b[k] = s[i + k]
  OBVIOUS
<1>3. l \in Nat /\ i \in 1 .. l
  OBVIOUS
<1>4. RemoveAt(s, i) = a \o b
  BY DEF RemoveAt
<1> HIDE DEF a, b, l
<1>5. a \o b \in Seq(S) /\ Len(a \o b) = l - 1
  <2>1. a \o b \in Seq(S) /\ Len(a \o b) = Len(a) + Len(b)
    BY <1>1, <1>2, ConcatProperties
  <2>2. (i - 1) + (l - i) = l - 1
    BY <1>3
  <2>3. QED
    BY <1>1, <1>2, <2>1, <2>2
<1>6. ASSUME NEW k \in 1 .. l - 1
      PROVE  (a \o b)[k] = IF k < i THEN s[k] ELSE s[k + 1]
  <2>1. CASE k < i
    BY <1>1, <1>2, <1>3, <2>1
  <2>2. CASE ~(k < i)
    <3>1. k - (i - 1) \in 1 .. l - i /\ i + (k - (i - 1)) = k + 1
      BY <1>3, <2>2
    <3>2. (a \o b)[k] = b[k - (i - 1)]
      BY <1>1, <1>2, <1>3, <2>2
    <3>3. QED
      BY <1>2, <2>2, <3>1, <3>2
  <2>3. QED
    BY <2>1, <2>2
<1>7. QED
  BY <1>4, <1>5, <1>6 DEF l

\* The first of a vector is removed, and with it the only one if none is there twice.
LEMMA RemoveFirstTakes ==
    ASSUME NEW S, NEW s \in Seq(S), NEW n
    PROVE  LET r == RemoveFirst(s, n)
           IN  /\ r \in Seq(S)
               /\ ToSet(r) \subseteq ToSet(s)
               /\ NoTwice(s) => NoTwice(r) /\ ToSet(r) = ToSet(s) \ {n}
<1> DEFINE Places == {i \in 1 .. Len(s) : s[i] = n}
           r == RemoveFirst(s, n)
<1>1. DOMAIN s = 1 .. Len(s) /\ Len(s) \in Nat /\ ToSet(s) = {s[i] : i \in 1 .. Len(s)}
  BY DEF ToSet
<1>2. CASE \A i \in 1 .. Len(s) : s[i] # n
  <2>1. r = s
    BY <1>2 DEF RemoveFirst
  <2>2. n \notin ToSet(s)
    BY <1>1, <1>2
  <2> HIDE DEF r
  <2>3. QED
    BY <2>1, <2>2 DEF r
<1>3. CASE \E i \in 1 .. Len(s) : s[i] = n
  <2> DEFINE k == Min(Places)
  <2>1. k \in Places
    <3>1. Places \in SUBSET Nat /\ Places # {}
      BY <1>3
    <3> HIDE DEF Places
    <3>2. QED
      BY <3>1, Least
  <2>2. r = RemoveAt(s, k)
    BY <1>3 DEF RemoveFirst, SelectInSeq
  <2>3. k \in 1 .. Len(s) /\ s[k] = n
    BY <2>1
  <2> HIDE DEF k, r
  <2>4. /\ r \in Seq(S)
        /\ Len(r) = Len(s) - 1
        /\ \A a \in 1 .. Len(s) - 1 : r[a] = IF a < k THEN s[a] ELSE s[a + 1]
    BY <2>2, <2>3, RemoveAtTakes
  <2>5. DOMAIN r = 1 .. Len(s) - 1 /\ ToSet(r) = {r[i] : i \in 1 .. Len(s) - 1}
    BY <2>4 DEF ToSet
  <2>6. ASSUME NEW a \in 1 .. Len(s) - 1 PROVE r[a] \in ToSet(s)
    BY <1>1, <2>4
  <2>7. ASSUME NoTwice(s)
        PROVE  NoTwice(r) /\ ToSet(r) = ToSet(s) \ {n}
    <3>1. \A i, j \in 1 .. Len(s) : s[i] = s[j] => i = j
      BY <1>1, <2>7 DEF NoTwice
    <3>2. ASSUME NEW a \in 1 .. Len(s) - 1, NEW b \in 1 .. Len(s) - 1, r[a] = r[b]
          PROVE  a = b
      BY <1>1, <2>3, <2>4, <3>1, <3>2
    <3>3. ASSUME NEW a \in 1 .. Len(s) - 1 PROVE r[a] # n
      BY <1>1, <2>3, <2>4, <3>1
    <3>4. ASSUME NEW i \in 1 .. Len(s), s[i] # n PROVE s[i] \in ToSet(r)
      <4>1. CASE i < k
        <5>1. i \in 1 .. Len(s) - 1 /\ r[i] = s[i]
          BY <1>1, <2>3, <2>4, <4>1
        <5>2. QED
          BY <2>5, <5>1
      <4>2. CASE i > k
        <5>1. i - 1 \in 1 .. Len(s) - 1 /\ ~(i - 1 < k) /\ (i - 1) + 1 = i
          BY <1>1, <2>3, <4>2
        <5>2. r[i - 1] = s[i]
          BY <2>4, <5>1
        <5>3. QED
          BY <2>5, <5>1, <5>2
      <4>3. QED
        BY <2>3, <3>4, <4>1, <4>2
    <3>5. NoTwice(r)
      BY <2>5, <3>2 DEF NoTwice
    <3>6. ToSet(r) \subseteq ToSet(s) \ {n}
      BY <2>5, <2>6, <3>3
    <3>7. ToSet(s) \ {n} \subseteq ToSet(r)
      BY <1>1, <3>4
    <3>8. QED
      BY <3>5, <3>6, <3>7
  <2>8. QED
    BY <2>4, <2>5, <2>6, <2>7 DEF r
<1>4. QED
  BY <1>2, <1>3

-----------------------------------------------------------------------------
\* The types, and the order of the rows.

\* What is posted: no event but the one of "init" names several tasks, and that one
\* names none twice.
Events ==
    {e \in [what : {"fetched", "added", "forgotten", "deleted", "progress"},
            names : Seq(Tasks),
            val : {0} \cup Percents] :
        /\ e.what # "fetched" => Len(e.names) = 1
        /\ NoTwice(e.names)}

Typed ==
    /\ connected \in BOOLEAN
    /\ tasks \subseteq Tasks
    /\ queue \in Seq(Events)
    /\ rows \in Seq(Row)
    /\ column \in Columns
    /\ ascending \in BOOLEAN
    /\ modules \in Seq(Tasks)
    /\ changes \in 0 .. MaxChanges

SortedInv == Typed /\ RowsSorted

LEMMA TypedIsTypeOK == Typed => TypeOK
<1> SUFFICES ASSUME Typed PROVE TypeOK
  OBVIOUS
<1>1. \A i \in DOMAIN queue : queue[i] \in Events
  BY DEF Typed
<1>2. \A i \in DOMAIN queue :
         /\ queue[i].what \in {"fetched", "added", "forgotten", "deleted", "progress"}
         /\ queue[i].names \in Seq(Tasks)
         /\ queue[i].what # "fetched" => Len(queue[i].names) = 1
         /\ queue[i].val \in {0} \cup Percents
  BY <1>1 DEF Events
<1>3. QED
  BY <1>2 DEF Typed, TypeOK

\* The event of one task.
LEMMA EventOfOne ==
    ASSUME NEW n \in Tasks, NEW val \in {0} \cup Percents,
           NEW what \in {"added", "forgotten", "deleted", "progress"}
    PROVE  /\ Event(what, <<n>>, val) \in Events
           /\ ToSet(Event(what, <<n>>, val).names) = {n}
<1> DEFINE s == <<n>>
<1>1. s \in Seq(Tasks) /\ Len(s) = 1 /\ DOMAIN s = {1} /\ s[1] = n
  OBVIOUS
<1> HIDE DEF s
<1>2. NoTwice(s) /\ ToSet(s) = {n}
  BY <1>1 DEF NoTwice, ToSet
<1>3. Event(what, s, val) \in Events /\ Event(what, s, val).names = s
  BY <1>1, <1>2 DEF Event, Events
<1>4. QED
  BY <1>2, <1>3 DEF s

\* The event of "init".
LEMMA EventOfAll ==
    ASSUME NEW ts \in SUBSET Tasks, NEW s \in SetToSeqs(ts)
    PROVE  /\ Event("fetched", s, 0) \in Events
           /\ s \in Seq(Tasks) /\ NoTwice(s) /\ ToSet(s) = ts
<1>1. IsFiniteSet(ts)
  BY TableAssumption, FS_Subset
<1>2. s \in Seq(ts) /\ NoTwice(s) /\ ToSet(s) = ts
  BY <1>1, Listing DEF NoTwice
<1>3. s \in Seq(Tasks)
  BY <1>2
<1>4. QED
  BY <1>2, <1>3 DEF Event, Events

\* The task of an event at the head.
LEMMA HeadNames ==
    ASSUME Typed, queue # <<>>
    PROVE  /\ Head(queue) \in Events
           /\ Head(queue) = queue[1]
           /\ Tail(queue) \in Seq(Events)
           /\ Head(queue).names \in Seq(Tasks)
           /\ NoTwice(Head(queue).names)
           /\ Head(queue).val \in Nat
           /\ Head(queue).what # "fetched" =>
                 Argument \in Tasks /\ ToSet(Head(queue).names) = {Argument}
<1>1. queue \in Seq(Events)
  BY DEF Typed
<1> DEFINE e == Head(queue)
<1>2. e \in Events /\ e = queue[1] /\ Tail(queue) \in Seq(Events)
  BY <1>1
<1> HIDE DEF e
<1>3. /\ e.names \in Seq(Tasks)
      /\ NoTwice(e.names)
      /\ e.what # "fetched" => Len(e.names) = 1
      /\ e.val \in {0} \cup Percents
  BY <1>2 DEF Events
<1>4. e.val \in Nat
  <2>1. \A v \in {0} \cup Percents : v \in Nat
    BY TableAssumption
  <2>2. QED
    BY <1>3, <2>1, Zenon
<1>5. ASSUME e.what # "fetched"
      PROVE  e.names[1] \in Tasks /\ ToSet(e.names) = {e.names[1]}
  <2> DEFINE s == e.names
  <2>1. s \in Seq(Tasks) /\ Len(s) = 1
    BY <1>3, <1>5
  <2> HIDE DEF s
  <2>2. s[1] \in Tasks /\ ToSet(s) = {s[1]}
    BY <2>1 DEF ToSet
  <2>3. QED
    BY <2>2 DEF s
<1>6. QED
  BY <1>2, <1>3, <1>4, <1>5 DEF e, Argument

\* The rows after onModulesFetched.
LEMMA FetchedRows ==
    ASSUME Typed, NEW ns \in Seq(Tasks), NoTwice(ns),
           NEW r, r = ModifyProgress(AddModules(rows, ns), Text["name"][Module8], 80)
    PROVE  Grown(rows, r, ToSet(ns))
<1> DEFINE a == AddModules(rows, ns)
<1>1. ns \in Seq(Names) /\ rows \in Seq(Row) /\ column \in Columns /\ ascending \in BOOLEAN
  BY TableAssumption DEF Typed
<1>2. \A i, j \in DOMAIN ns : ns[i] = ns[j] => i = j
  BY DEF NoTwice
<1>3. Grown(rows, a, ToSet(ns))
  BY <1>1, <1>2, AddModulesGrows
<1> HIDE DEF a
<1>4. a \in Seq(Row)
  BY <1>3 DEF Grown
<1>5. /\ r \in Seq(Row)
      /\ NamesIn(r) = NamesIn(a)
      /\ Distinct(a) => Distinct(r)
      /\ \A col \in TextColumns : \A asc : InOrder(a, col, asc) => InOrder(r, col, asc)
  <2>1. r = ModifyProgress(a, Text["name"][Module8], 80)
    BY DEF a
  <2>2. QED
    BY <1>4, <2>1, ModifyProgressKeeps
<1>6. QED
  BY <1>3, <1>5 DEF Grown

LEMMA SortedAtFirst == Init => SortedInv
<1> SUFFICES ASSUME Init PROVE SortedInv
  OBVIOUS
<1>1. Placeholders \in Seq(Row) /\ "name" \in TextColumns /\ "name" \in Columns /\ MaxChanges \in Nat
  BY TableAssumption DEF Columns
<1>2. /\ connected = FALSE /\ tasks \subseteq Tasks /\ queue = <<>> /\ modules = <<>>
      /\ column = "name" /\ ascending = TRUE /\ changes = 0
      /\ rows \in Sorted(Placeholders, "name", TRUE)
  BY DEF Init
<1>3. rows \in Seq(Row) /\ InOrder(rows, "name", TRUE)
  BY <1>1, <1>2, SortedKeeps
<1>4. queue \in Seq(Events) /\ modules \in Seq(Tasks)
  BY <1>2
<1>5. Typed
  <2>1. changes \in 0 .. MaxChanges
    BY <1>1, <1>2
  <2>2. connected \in BOOLEAN /\ tasks \subseteq Tasks /\ column \in Columns /\ ascending \in BOOLEAN
    BY <1>1, <1>2, Zenon
  <2>3. QED
    BY <1>3, <1>4, <2>1, <2>2, Zenon DEF Typed
<1>6. QED
  BY <1>2, <1>3, <1>5 DEF SortedInv, RowsSorted

\* What is posted when: nothing before "init".
LEMMA Posting ==
    ASSUME Typed, NEW es \in Seq(Events), Post(es)
    PROVE  queue' \in Seq(Events)
BY DEF Typed, Post

LEMMA SortedService ==
    ASSUME SortedInv, Service
    PROVE  SortedInv'
<1> USE DEF SortedInv, RowsSorted
<1>1. Typed
  OBVIOUS
<1>2. UNCHANGED <<rows, sortVars, modules>>
  BY DEF Service, Connect, AddTask, RemoveTask, ReportProgress
<1>3. rows' = rows /\ column' = column /\ ascending' = ascending /\ modules' = modules
  BY <1>2 DEF sortVars
<1>4. RowsSorted'
  BY <1>3
<1>5. Typed'
  <2>1. CASE Connect
    <3>1. PICK s \in SetToSeqs(tasks) : queue' = Append(queue, Event("fetched", s, 0))
      BY <2>1 DEF Connect
    <3>2. Event("fetched", s, 0) \in Events
      BY <1>1, EventOfAll DEF Typed
    <3>3. queue' \in Seq(Events)
      <4> DEFINE e == Event("fetched", s, 0)
      <4>1. e \in Events
        BY <3>2
      <4> HIDE DEF e
      <4>2. queue \in Seq(Events)
        BY <1>1 DEF Typed
      <4>3. Append(queue, e) \in Seq(Events)
        BY <4>1, <4>2
      <4>4. QED
        BY <3>1, <4>3 DEF e
    <3>4. QED
      BY <1>1, <1>3, <2>1, <3>3 DEF Typed, Connect
  <2>2. ASSUME NEW n \in Tasks, AddTask(n) PROVE Typed'
    <3>1. queue' \in Seq(Events)
      <4>1. <<Event("added", <<n>>, 0)>> \in Seq(Events)
        BY EventOfOne
      <4>2. QED
        BY <1>1, <2>2, <4>1, Posting DEF AddTask
    <3>2. changes' \in 0 .. MaxChanges
      BY <1>1, <2>2, TableAssumption DEF Typed, AddTask
    <3>3. tasks' \subseteq Tasks
      BY <1>1, <2>2 DEF Typed, AddTask
    <3>4. connected' \in BOOLEAN
      BY <1>1, <2>2 DEF Typed, AddTask
    <3>5. QED
      BY <1>1, <1>3, <3>1, <3>2, <3>3, <3>4 DEF Typed
  <2>3. ASSUME NEW n \in Tasks, RemoveTask(n) PROVE Typed'
    <3>1. queue' \in Seq(Events)
      <4>1. Event("forgotten", <<n>>, 0) \in Events /\ Event("deleted", <<n>>, 0) \in Events
        BY EventOfOne
      <4>2. RemovalEvents(n) \in Seq(Events)
        BY <4>1 DEF RemovalEvents
      <4>3. QED
        BY <1>1, <2>3, <4>2, Posting DEF RemoveTask
    <3>2. changes' \in 0 .. MaxChanges
      BY <1>1, <2>3, TableAssumption DEF Typed, RemoveTask
    <3>3. tasks' \subseteq Tasks
      BY <1>1, <2>3 DEF Typed, RemoveTask
    <3>4. QED
      BY <1>1, <1>3, <2>3, <3>1, <3>2, <3>3 DEF Typed, RemoveTask
  <2>4. ASSUME NEW n \in Tasks, NEW val \in Percents, ReportProgress(n, val) PROVE Typed'
    <3>1. queue' \in Seq(Events)
      <4>1. Event("progress", <<n>>, val) \in Events
        BY EventOfOne
      <4>2. <<Event("progress", <<n>>, val)>> \in Seq(Events)
        BY <4>1
      <4>3. QED
        BY <1>1, <2>4, <4>2, Posting DEF ReportProgress
    <3>2. changes' \in 0 .. MaxChanges
      BY <1>1, <2>4, TableAssumption DEF Typed, ReportProgress
    <3>3. QED
      BY <1>1, <1>3, <2>4, <3>1, <3>2 DEF Typed, ReportProgress
  <2>5. QED
    BY <2>1, <2>2, <2>3, <2>4 DEF Service
<1>6. QED
  BY <1>4, <1>5

\* Whatever the GUI thread does to rows in order leaves rows in order.
LEMMA SortedRows ==
    ASSUME SortedInv, serviceVars' = serviceVars, sortVars' = sortVars,
           queue' \in Seq(Events), modules' \in Seq(Tasks), rows' \in Seq(Row),
           column \in TextColumns => InOrder(rows', column, ascending)
    PROVE  SortedInv'
BY DEF SortedInv, RowsSorted, Typed, serviceVars, sortVars

LEMMA SortedGui ==
    ASSUME SortedInv, Gui
    PROVE  SortedInv'
<1>1. /\ Typed
      /\ column \in TextColumns => InOrder(rows, column, ascending)
      /\ rows \in Seq(Row) /\ modules \in Seq(Tasks) /\ column \in Columns /\ ascending \in BOOLEAN
  BY DEF SortedInv, RowsSorted, Typed
<1>2. /\ queue # <<>> /\ queue' = Tail(queue)
      /\ serviceVars' = serviceVars /\ sortVars' = sortVars
  BY DEF Gui, ModulesFetched, ModuleAdded, Forget, ModuleDeleted, ModifyCompletion, Take
<1>3. /\ Tail(queue) \in Seq(Events)
      /\ Head(queue).names \in Seq(Tasks)
      /\ NoTwice(Head(queue).names)
      /\ Head(queue).val \in Nat
      /\ Head(queue).what # "fetched" => Argument \in Tasks
  BY <1>1, <1>2, HeadNames
<1>4. queue' \in Seq(Events)
  BY <1>2, <1>3
<1>5. CASE ModulesFetched
  <2> DEFINE ns == Head(queue).names
  <2>1. Grown(rows, rows', ToSet(ns))
    BY <1>1, <1>3, <1>5, FetchedRows DEF ModulesFetched
  <2>2. modules' \in Seq(Tasks)
    BY <1>1, <1>3, <1>5 DEF ModulesFetched
  <2>3. rows' \in Seq(Row) /\ (column \in TextColumns => InOrder(rows', column, ascending))
    BY <1>1, <2>1 DEF Grown
  <2>4. QED
    BY <1>2, <1>4, <2>2, <2>3, SortedRows
<1>6. CASE ModuleAdded
  <2>1. Argument \in Tasks
    BY <1>3, <1>6 DEF ModuleAdded, Take
  <2>2. Argument \in Names
    BY <2>1, TableAssumption
  <2>3. Grown(rows, rows', {Argument})
    BY <1>1, <1>6, <2>2, AddModuleGrows DEF ModuleAdded
  <2>4. rows' \in Seq(Row) /\ (column \in TextColumns => InOrder(rows', column, ascending))
    BY <1>1, <2>3 DEF Grown
  <2>5. modules' = modules
    BY <1>6 DEF ModuleAdded
  <2>6. QED
    BY <1>1, <1>2, <1>4, <2>4, <2>5, SortedRows
<1>7. CASE Forget
  <2>1. rows' = rows /\ modules' = RemoveFirst(modules, Argument)
    BY <1>7 DEF Forget
  <2>2. modules' \in Seq(Tasks)
    BY <1>1, <2>1, RemoveFirstTakes
  <2>3. QED
    BY <1>1, <1>2, <1>4, <2>1, <2>2, SortedRows
<1>8. CASE ModuleDeleted
  <2>1. rows' = DeleteModule(rows, Argument) /\ modules' = modules
    BY <1>8 DEF ModuleDeleted
  <2>2. rows' \in Seq(Row) /\ \A col, asc : InOrder(rows, col, asc) => InOrder(rows', col, asc)
    BY <1>1, <2>1, DeleteModuleTakes
  <2>3. QED
    BY <1>1, <1>2, <1>4, <2>1, <2>2, SortedRows
<1>9. CASE ModifyCompletion
  <2>1. rows' = ModifyProgress(rows, DumpText[Argument], Head(queue).val) /\ modules' = modules
    BY <1>9 DEF ModifyCompletion
  <2>2. /\ rows' \in Seq(Row)
        /\ \A col \in TextColumns : \A asc : InOrder(rows, col, asc) => InOrder(rows', col, asc)
    BY <1>1, <1>3, <2>1, ModifyProgressKeeps
  <2>3. QED
    BY <1>1, <1>2, <1>4, <2>1, <2>2, SortedRows
<1>10. QED
  BY <1>5, <1>6, <1>7, <1>8, <1>9 DEF Gui

LEMMA SortedClick ==
    ASSUME SortedInv, NEW col \in Clickable, ReverseSort(col)
    PROVE  SortedInv'
<1>1. Typed /\ rows \in Seq(Row)
  BY DEF SortedInv, Typed
<1>2. /\ column' = col
      /\ ascending' = (col = column /\ ~ascending)
      /\ rows' \in Sorted(rows, col, ascending')
      /\ serviceVars' = serviceVars /\ queue' = queue /\ modules' = modules
  BY DEF ReverseSort
<1>3. rows' \in Seq(Row) /\ InOrder(rows', col, ascending')
  BY <1>1, <1>2, SortedKeeps
<1>4. col \in Columns
  BY TableAssumption
<1>5. ascending' \in BOOLEAN
  BY <1>2
<1>6. Typed'
  BY <1>1, <1>2, <1>3, <1>4, <1>5 DEF Typed, serviceVars
<1>7. RowsSorted'
  BY <1>2, <1>3 DEF RowsSorted
<1>8. QED
  BY <1>6, <1>7 DEF SortedInv

LEMMA SortedStep == SortedInv /\ [Next]_vars => SortedInv'
<1> SUFFICES ASSUME SortedInv, [Next]_vars PROVE SortedInv'
  OBVIOUS
<1>1. CASE Service
  BY <1>1, SortedService
<1>2. CASE Gui
  BY <1>2, SortedGui
<1>3. CASE \E col \in Clickable : ReverseSort(col)
  BY <1>3, SortedClick
<1>4. CASE UNCHANGED vars
  BY <1>4 DEF SortedInv, RowsSorted, Typed, vars, serviceVars, sortVars
<1>5. QED
  BY <1>1, <1>2, <1>3, <1>4 DEF Next

\* Types, and the order of the rows, always.
THEOREM StaysSorted == Spec => []SortedInv
BY SortedAtFirst, SortedStep, PTL DEF Spec

\* Every variable keeps its type (TypeOK): in particular the names an event carries
\* are the service's, one for every event but that of "init".
THEOREM TypeCorrect == Spec => []TypeOK
<1>1. SortedInv => TypeOK
  BY TypedIsTypeOK DEF SortedInv
<1>2. QED
  BY <1>1, StaysSorted, PTL

\* Sorted by a column of text, up or down, the table stays sorted that way whatever is
\* added and removed (RowsSorted): addModule, SyncTable.qml:382-404, with any ties.
THEOREM OrderKept == Spec => []RowsSorted
<1>1. SortedInv => RowsSorted
  BY DEF SortedInv
<1>2. QED
  BY <1>1, StaysSorted, PTL

-----------------------------------------------------------------------------
\* What is on its way to the table.

\* Event i adds a row for n; what the table already has counts as event 0.
Adds(rs, q, i, n) ==
    IF i = 0 THEN n \in NamesIn(rs)
             ELSE q[i].what \in {"fetched", "added"} /\ n \in ToSet(q[i].names)

Deletes(q, i, n) == q[i].what = "deleted" /\ n \in ToSet(q[i].names)

\* Between two events that add n there is one that deletes it.
AddedOnce(rs, q, n) ==
    \A i, k \in 0 .. Len(q) :
        i < k /\ Adds(rs, q, i, n) /\ Adds(rs, q, k, n) => \E j \in i + 1 .. k - 1 : Deletes(q, j, n)

\* After any event that adds n there is one that deletes it.
Leaves(rs, q, n) ==
    \A i \in 0 .. Len(q) : Adds(rs, q, i, n) => \E j \in i + 1 .. Len(q) : Deletes(q, j, n)

LEMMA AppendedEvent ==
    ASSUME NEW rs, NEW q \in Seq(Events), NEW e \in Events, NEW n
    PROVE  LET adds    == e.what \in {"fetched", "added"} /\ n \in ToSet(e.names)
               deletes == e.what = "deleted" /\ n \in ToSet(e.names)
               r       == Append(q, e)
           IN  /\ AddedOnce(rs, q, n) /\ (adds => Leaves(rs, q, n)) => AddedOnce(rs, r, n)
               /\ Leaves(rs, q, n) /\ ~adds => Leaves(rs, r, n)
               /\ deletes => Leaves(rs, r, n)
<1> DEFINE adds    == e.what \in {"fetched", "added"} /\ n \in ToSet(e.names)
           deletes == e.what = "deleted" /\ n \in ToSet(e.names)
           r       == Append(q, e)
           l       == Len(q)
<1>1. /\ l \in Nat /\ Len(r) = l + 1
      /\ \A i \in 1 .. l : r[i] = q[i]
      /\ r[l + 1] = e
  OBVIOUS
<1> HIDE DEF r, l
<1>2. /\ \A i \in 0 .. l : Adds(rs, r, i, n) <=> Adds(rs, q, i, n)
      /\ Adds(rs, r, l + 1, n) <=> adds
  BY <1>1 DEF Adds
<1>3. /\ \A i \in 1 .. l : Deletes(r, i, n) <=> Deletes(q, i, n)
      /\ Deletes(r, l + 1, n) <=> deletes
  BY <1>1 DEF Deletes
<1> HIDE DEF adds, deletes
<1>4. ASSUME AddedOnce(rs, q, n), adds => Leaves(rs, q, n)
      PROVE  AddedOnce(rs, r, n)
  <2> SUFFICES ASSUME NEW i \in 0 .. l + 1, NEW k \in 0 .. l + 1,
                      i < k, Adds(rs, r, i, n), Adds(rs, r, k, n)
               PROVE  \E j \in i + 1 .. k - 1 : Deletes(r, j, n)
    BY <1>1 DEF AddedOnce
  <2>1. i \in 0 .. l /\ Adds(rs, q, i, n)
    BY <1>1, <1>2
  <2>2. CASE k \in 0 .. l
    <3>1. PICK j \in i + 1 .. k - 1 : Deletes(q, j, n)
      BY <1>2, <1>4, <2>1, <2>2 DEF AddedOnce, l
    <3>2. QED
      BY <1>1, <1>3, <2>1, <2>2, <3>1
  <2>3. CASE k = l + 1
    <3>1. adds
      BY <1>2, <2>3
    <3>2. PICK j \in i + 1 .. l : Deletes(q, j, n)
      BY <1>4, <2>1, <3>1 DEF Leaves, l
    <3>3. QED
      BY <1>1, <1>3, <2>1, <2>3, <3>2
  <2>4. QED
    BY <1>1, <2>2, <2>3
<1>5. ASSUME Leaves(rs, q, n), ~adds
      PROVE  Leaves(rs, r, n)
  <2> SUFFICES ASSUME NEW i \in 0 .. l + 1, Adds(rs, r, i, n)
               PROVE  \E j \in i + 1 .. l + 1 : Deletes(r, j, n)
    BY <1>1 DEF Leaves
  <2>1. i \in 0 .. l /\ Adds(rs, q, i, n)
    BY <1>1, <1>2, <1>5
  <2>2. PICK j \in i + 1 .. l : Deletes(q, j, n)
    BY <1>5, <2>1 DEF Leaves, l
  <2>3. QED
    BY <1>1, <1>3, <2>1, <2>2
<1>6. ASSUME deletes
      PROVE  Leaves(rs, r, n)
  <2> SUFFICES ASSUME NEW i \in 0 .. l + 1, Adds(rs, r, i, n)
               PROVE  \E j \in i + 1 .. l + 1 : Deletes(r, j, n)
    BY <1>1 DEF Leaves
  <2>1. ~adds
    BY <1>6 DEF adds, deletes
  <2>2. i \in 0 .. l
    BY <1>1, <1>2, <2>1
  <2>3. QED
    BY <1>1, <1>3, <1>6, <2>2
<1>7. QED
  BY <1>4, <1>5, <1>6 DEF adds, deletes, r

LEMMA TakenEvent ==
    ASSUME NEW rs, NEW q \in Seq(Events), q # <<>>, NEW r, NEW n,
           n \in NamesIn(r) => Adds(rs, q, 1, n) \/ (n \in NamesIn(rs) /\ ~Deletes(q, 1, n))
    PROVE  /\ AddedOnce(rs, q, n) => AddedOnce(r, Tail(q), n)
           /\ Leaves(rs, q, n) => Leaves(r, Tail(q), n)
<1> DEFINE t == Tail(q)
           l == Len(q)
<1>1. /\ l \in Nat /\ l > 0 /\ Len(t) = l - 1
      /\ \A i \in 1 .. l - 1 : t[i] = q[i + 1]
  OBVIOUS
<1> HIDE DEF t, l
<1>2. \A i \in 1 .. l - 1 : Adds(r, t, i, n) <=> Adds(rs, q, i + 1, n)
  BY <1>1 DEF Adds
<1>3. \A i \in 1 .. l - 1 : Deletes(t, i, n) <=> Deletes(q, i + 1, n)
  BY <1>1 DEF Deletes
<1>4. ASSUME NEW i \in 0 .. l - 1, Adds(r, t, i, n)
      PROVE  Adds(rs, q, i + 1, n) \/ (i = 0 /\ Adds(rs, q, 0, n) /\ ~Deletes(q, 1, n))
  <2>1. CASE i = 0
    BY <1>4, <2>1 DEF Adds
  <2>2. CASE i # 0
    <3>1. i \in 1 .. l - 1
      BY <1>1, <2>2
    <3>2. QED
      BY <1>2, <1>4, <3>1
  <2>3. QED
    BY <2>1, <2>2
<1>5. ASSUME NEW i \in 0 .. l - 1, NEW a \in 0 .. l, NEW m \in 0 .. l - 1,
             a = i + 1 \/ (a = 0 /\ i = 0 /\ ~Deletes(q, 1, n)),
             \E j \in a + 1 .. m + 1 : Deletes(q, j, n)
      PROVE  \E j \in i + 1 .. m : Deletes(t, j, n)
  <2>1. PICK j \in a + 1 .. m + 1 : Deletes(q, j, n)
    BY <1>5
  <2>2. j - 1 \in i + 1 .. m
    <3>1. CASE a = i + 1
      BY <1>1, <3>1
    <3>2. CASE a = 0 /\ i = 0 /\ ~Deletes(q, 1, n)
      <4>1. j # 1
        BY <2>1, <3>2
      <4>2. QED
        BY <1>1, <3>2, <4>1
    <3>3. QED
      BY <1>5, <3>1, <3>2
  <2>3. j - 1 \in 1 .. l - 1 /\ (j - 1) + 1 = j
    BY <1>1, <2>2
  <2>4. Deletes(t, j - 1, n)
    BY <1>3, <2>1, <2>3
  <2>5. QED
    BY <2>2, <2>4
<1>6. ASSUME AddedOnce(rs, q, n)
      PROVE  AddedOnce(r, t, n)
  <2> SUFFICES ASSUME NEW i \in 0 .. l - 1, NEW k \in 0 .. l - 1,
                      i < k, Adds(r, t, i, n), Adds(r, t, k, n)
               PROVE  \E j \in i + 1 .. k - 1 : Deletes(t, j, n)
    BY <1>1 DEF AddedOnce
  <2>1. k \in 1 .. l - 1 /\ k + 1 \in 0 .. l /\ Adds(rs, q, k + 1, n)
    BY <1>1, <1>2
  <2>2. PICK a \in 0 .. l : /\ Adds(rs, q, a, n)
                            /\ a = i + 1 \/ (a = 0 /\ i = 0 /\ ~Deletes(q, 1, n))
    <3>1. i + 1 \in 0 .. l /\ 0 \in 0 .. l
      BY <1>1
    <3>2. QED
      BY <1>4, <3>1
  <2>3. a < k + 1
    BY <1>1, <2>2
  <2>4. \E j \in a + 1 .. (k + 1) - 1 : Deletes(q, j, n)
    BY <1>6, <2>1, <2>2, <2>3 DEF AddedOnce, l
  <2>5. k - 1 \in 0 .. l - 1 /\ (k + 1) - 1 = (k - 1) + 1
    BY <1>1, <2>1
  <2>6. \E j \in a + 1 .. (k - 1) + 1 : Deletes(q, j, n)
    BY <2>4, <2>5
  <2>7. QED
    BY <1>5, <2>2, <2>5, <2>6
<1>7. ASSUME Leaves(rs, q, n)
      PROVE  Leaves(r, t, n)
  <2> SUFFICES ASSUME NEW i \in 0 .. l - 1, Adds(r, t, i, n)
               PROVE  \E j \in i + 1 .. l - 1 : Deletes(t, j, n)
    BY <1>1 DEF Leaves
  <2>1. PICK a \in 0 .. l : /\ Adds(rs, q, a, n)
                            /\ a = i + 1 \/ (a = 0 /\ i = 0 /\ ~Deletes(q, 1, n))
    <3>1. i + 1 \in 0 .. l /\ 0 \in 0 .. l
      BY <1>1
    <3>2. QED
      BY <1>4, <3>1
  <2>2. \E j \in a + 1 .. l : Deletes(q, j, n)
    BY <1>7, <2>1 DEF Leaves, l
  <2>3. l - 1 \in 0 .. l - 1 /\ (l - 1) + 1 = l
    BY <1>1
  <2>4. QED
    BY <1>5, <2>1, <2>2, <2>3
<1>8. QED
  BY <1>6, <1>7 DEF t

-----------------------------------------------------------------------------
\* One row for each task.

\* The tasks fetched are worked off first, into an empty vector.
FetchedFirst(q, ms) == \A i \in 1 .. Len(q) : q[i].what = "fetched" => i = 1 /\ ms = <<>>

OnceInv ==
    /\ SortedInv
    /\ Distinct(rows)
    /\ NoTwice(modules)
    /\ ~connected => queue = <<>> /\ modules = <<>> /\ NamesIn(rows) \cap Tasks = {}
    /\ FetchedFirst(queue, modules)
    /\ \A n \in Tasks : AddedOnce(rows, queue, n)
    /\ \A n \in Tasks \ tasks : Leaves(rows, queue, n)

\* The step of the service, for one task m.
LEMMA Posted ==
    ASSUME NEW rs, NEW q \in Seq(Events), NEW n \in Tasks, NEW m \in Tasks, NEW val \in {0} \cup Percents,
           AddedOnce(rs, q, m)
    PROVE  LET a == q \o <<Event("added", <<n>>, 0)>>
               d == q \o RemovalEvents(n)
               p == q \o <<Event("progress", <<n>>, val)>>
           IN  /\ (m = n => Leaves(rs, q, m)) => AddedOnce(rs, a, m)
               /\ m # n /\ Leaves(rs, q, m) => Leaves(rs, a, m)
               /\ AddedOnce(rs, d, m)
               /\ m = n \/ Leaves(rs, q, m) => Leaves(rs, d, m)
               /\ AddedOnce(rs, p, m)
               /\ Leaves(rs, q, m) => Leaves(rs, p, m)
<1> DEFINE ea == Event("added", <<n>>, 0)
           ef == Event("forgotten", <<n>>, 0)
           ed == Event("deleted", <<n>>, 0)
           ep == Event("progress", <<n>>, val)
<1>1. /\ ea \in Events /\ ea.what = "added" /\ ToSet(ea.names) = {n}
      /\ ef \in Events /\ ef.what = "forgotten"
      /\ ed \in Events /\ ed.what = "deleted" /\ ToSet(ed.names) = {n}
      /\ ep \in Events /\ ep.what = "progress"
  <2>1. ea.what = "added" /\ ef.what = "forgotten" /\ ed.what = "deleted" /\ ep.what = "progress"
    BY DEF Event
  <2>2. 0 \in {0} \cup Percents
    OBVIOUS
  <2>3. QED
    BY <2>1, <2>2, EventOfOne
<1>2. RemovalEvents(n) = <<ef, ed>>
  BY DEF RemovalEvents
<1> HIDE DEF ea, ef, ed, ep
<1> DEFINE qf == Append(q, ef)
<1>3. qf \in Seq(Events)
  BY <1>1
<1>4. /\ q \o <<ea>> = Append(q, ea)
      /\ q \o <<ep>> = Append(q, ep)
      /\ q \o <<ef, ed>> = Append(qf, ed)
  BY <1>1
<1>5. /\ (m = n => Leaves(rs, q, m)) => AddedOnce(rs, Append(q, ea), m)
      /\ m # n /\ Leaves(rs, q, m) => Leaves(rs, Append(q, ea), m)
  BY <1>1, AppendedEvent
<1>6. AddedOnce(rs, Append(q, ep), m) /\ (Leaves(rs, q, m) => Leaves(rs, Append(q, ep), m))
  BY <1>1, AppendedEvent
<1>7. AddedOnce(rs, qf, m) /\ (Leaves(rs, q, m) => Leaves(rs, qf, m))
  BY <1>1, AppendedEvent
<1> HIDE DEF qf
<1>8. AddedOnce(rs, Append(qf, ed), m) /\ (m = n \/ Leaves(rs, q, m) => Leaves(rs, Append(qf, ed), m))
  BY <1>1, <1>3, <1>7, AppendedEvent
<1>9. QED
  BY <1>2, <1>4, <1>5, <1>6, <1>8 DEF ea, ep

\* Nothing is on its way before "init".
LEMMA NothingComes ==
    ASSUME NEW rs, NEW n, n \notin NamesIn(rs)
    PROVE  AddedOnce(rs, <<>>, n) /\ Leaves(rs, <<>>, n)
<1>1. Len(<<>>) = 0 /\ 0 .. 0 = {0} /\ ~Adds(rs, <<>>, 0, n)
  BY DEF Adds
<1>2. QED
  BY <1>1 DEF AddedOnce, Leaves

LEMMA OnceAtFirst == ASSUME PlaceholdersApart PROVE Init => OnceInv
<1> SUFFICES ASSUME Init PROVE OnceInv
  OBVIOUS
<1>1. SortedInv
  BY SortedAtFirst
<1>2. /\ connected = FALSE /\ queue = <<>> /\ modules = <<>>
      /\ rows \in Sorted(Placeholders, "name", TRUE)
  BY DEF Init
<1>3. NamesIn(rows) = NamesIn(Placeholders) /\ Distinct(rows)
  <2>1. Distinct(Placeholders)
    BY DEF PlaceholdersApart, Distinct
  <2>2. QED
    BY <1>2, <2>1, SortedKeeps, TableAssumption
<1>4. \A n \in Tasks : n \notin NamesIn(rows)
  BY <1>3 DEF PlaceholdersApart, NamesIn
<1>5. \A n \in Tasks : AddedOnce(rows, queue, n) /\ Leaves(rows, queue, n)
  BY <1>2, <1>4, NothingComes
<1>6. NoTwice(modules) /\ FetchedFirst(queue, modules)
  BY <1>2 DEF NoTwice, FetchedFirst
<1>7. QED
  BY <1>1, <1>2, <1>3, <1>4, <1>5, <1>6 DEF OnceInv

LEMMA FetchedFirstPosted ==
    ASSUME NEW q \in Seq(Events), NEW ms, FetchedFirst(q, ms),
           NEW es \in Seq(Events), \A i \in 1 .. Len(es) : es[i].what # "fetched"
    PROVE  FetchedFirst(q \o es, ms)
<1> DEFINE l == Len(q)
           k == Len(es)
           r == q \o es
<1>1. /\ l \in Nat /\ k \in Nat /\ Len(r) = l + k
      /\ \A i \in 1 .. l + k : r[i] = IF i <= l THEN q[i] ELSE es[i - l]
  BY ConcatProperties
<1> HIDE DEF l, r, k
<1>2. ASSUME NEW i \in 1 .. l + k, r[i].what = "fetched"
      PROVE  i = 1 /\ ms = <<>>
  <2>1. i <= l
    <3> SUFFICES ASSUME ~(i <= l) PROVE FALSE
      OBVIOUS
    <3>1. i - l \in 1 .. k /\ r[i] = es[i - l]
      BY <1>1
    <3>2. QED
      BY <1>2, <3>1 DEF k
  <2>2. i \in 1 .. l /\ r[i] = q[i]
    BY <1>1, <2>1
  <2>3. QED
    BY <1>2, <2>2 DEF FetchedFirst, l
<1>3. QED
  BY <1>1, <1>2 DEF FetchedFirst, r

\* What the commands after "init" post.
LEMMA PostedEvents ==
    ASSUME NEW n \in Tasks, NEW val \in {0} \cup Percents,
           NEW es \in {<<Event("added", <<n>>, 0)>>, RemovalEvents(n), <<Event("progress", <<n>>, val)>>}
    PROVE  es \in Seq(Events) /\ \A i \in 1 .. Len(es) : es[i].what # "fetched"
<1> DEFINE ea == Event("added", <<n>>, 0)
           ef == Event("forgotten", <<n>>, 0)
           ed == Event("deleted", <<n>>, 0)
           ep == Event("progress", <<n>>, val)
<1>1. ea \in Events /\ ef \in Events /\ ed \in Events /\ ep \in Events
  <2>1. 0 \in {0} \cup Percents
    OBVIOUS
  <2>2. QED
    BY <2>1, EventOfOne
<1>2. ea.what # "fetched" /\ ef.what # "fetched" /\ ed.what # "fetched" /\ ep.what # "fetched"
  BY DEF Event
<1>3. es \in {<<ea>>, <<ef, ed>>, <<ep>>}
  BY DEF RemovalEvents
<1> HIDE DEF ea, ef, ed, ep
<1>4. ASSUME NEW e \in Events, e.what # "fetched", es = <<e>>
      PROVE  es \in Seq(Events) /\ \A i \in 1 .. Len(es) : es[i].what # "fetched"
  BY <1>4
<1>5. CASE es = <<ef, ed>>
  <2>1. Len(es) = 2 /\ es[1] = ef /\ es[2] = ed /\ es \in Seq(Events)
    BY <1>1, <1>5
  <2>2. QED
    BY <1>2, <2>1
<1>6. QED
  BY <1>1, <1>2, <1>3, <1>4, <1>5

LEMMA OnceService ==
    ASSUME OnceInv, Service
    PROVE  OnceInv'
<1>1. /\ Typed /\ queue \in Seq(Events)
      /\ Distinct(rows) /\ NoTwice(modules)
      /\ ~connected => queue = <<>> /\ modules = <<>> /\ NamesIn(rows) \cap Tasks = {}
      /\ FetchedFirst(queue, modules)
      /\ \A n \in Tasks : AddedOnce(rows, queue, n)
      /\ \A n \in Tasks : n \notin tasks => Leaves(rows, queue, n)
      /\ tasks \subseteq Tasks
  BY DEF OnceInv, SortedInv, Typed
<1>2. rows' = rows /\ modules' = modules
  BY DEF Service, Connect, AddTask, RemoveTask, ReportProgress
<1>3. SortedInv'
  BY SortedService DEF OnceInv
<1>4. Distinct(rows') /\ NoTwice(modules')
  BY <1>1, <1>2
<1>5. ASSUME ~connected' => queue' = <<>> /\ modules' = <<>> /\ NamesIn(rows') \cap Tasks = {},
             FetchedFirst(queue', modules'),
             \A n \in Tasks : AddedOnce(rows, queue', n),
             \A n \in Tasks : n \notin tasks' => Leaves(rows, queue', n)
      PROVE  OnceInv'
  <2>1. \A n \in Tasks : AddedOnce(rows', queue', n)
    BY <1>2, <1>5
  <2>2. \A n \in Tasks \ tasks' : Leaves(rows', queue', n)
    BY <1>2, <1>5
  <2>3. QED
    BY <1>3, <1>4, <1>5, <2>1, <2>2 DEF OnceInv
<1>6. CASE ~connected /\ ~Connect
  <2>1. connected' = connected /\ queue' = queue
    BY <1>6 DEF Service, AddTask, RemoveTask, ReportProgress, Post
  <2>2. queue = <<>> /\ \A n \in Tasks : n \notin NamesIn(rows)
    BY <1>1, <1>6
  <2>3. \A n \in Tasks : AddedOnce(rows, queue', n) /\ Leaves(rows, queue', n)
    BY <2>1, <2>2, NothingComes
  <2>4. QED
    BY <1>1, <1>2, <1>5, <2>1, <2>3
<1>7. CASE Connect
  <2>1. PICK s \in SetToSeqs(tasks) : queue' = Append(queue, Event("fetched", s, 0))
    BY <1>7 DEF Connect
  <2>2. queue = <<>> /\ modules = <<>> /\ tasks' = tasks /\ connected'
    BY <1>1, <1>7 DEF Connect
  <2> DEFINE e == Event("fetched", s, 0)
  <2>3. e \in Events /\ e.what = "fetched" /\ ToSet(e.names) = tasks
    BY <1>1, EventOfAll DEF Event
  <2> HIDE DEF e
  <2>4. queue' = Append(queue, e) /\ queue' = <<e>>
    BY <2>1, <2>2 DEF e
  <2>5. FetchedFirst(queue', modules')
    BY <1>2, <2>2, <2>4 DEF FetchedFirst
  <2>6. ASSUME NEW n \in Tasks
        PROVE  /\ AddedOnce(rows, queue', n)
               /\ n \notin tasks' => Leaves(rows, queue', n)
    <3>1. AddedOnce(rows, queue, n) /\ Leaves(rows, queue, n)
      BY <1>1, <1>7, <2>2, NothingComes DEF Connect
    <3>2. /\ AddedOnce(rows, Append(queue, e), n)
          /\ n \notin tasks => Leaves(rows, Append(queue, e), n)
      BY <1>1, <2>3, <3>1, AppendedEvent
    <3>3. QED
      BY <2>2, <2>4, <3>2
  <2>7. QED
    BY <1>5, <2>2, <2>5, <2>6
<1>8. CASE connected /\ ~Connect
  <2>1. connected'
    BY <1>8 DEF Service, AddTask, RemoveTask, ReportProgress
  <2>2. ASSUME NEW n \in Tasks, AddTask(n) PROVE OnceInv'
    <3>1. /\ queue' = queue \o <<Event("added", <<n>>, 0)>>
          /\ n \notin tasks /\ tasks' = tasks \cup {n}
      BY <1>8, <2>2 DEF AddTask, Post
    <3>2. FetchedFirst(queue', modules')
      BY <1>1, <1>2, <3>1, PostedEvents, FetchedFirstPosted
    <3>3. ASSUME NEW m \in Tasks
          PROVE  AddedOnce(rows, queue', m) /\ (m \notin tasks' => Leaves(rows, queue', m))
      BY <1>1, <3>1, Posted
    <3>4. QED
      BY <1>5, <2>1, <3>2, <3>3
  <2>3. ASSUME NEW n \in Tasks, RemoveTask(n) PROVE OnceInv'
    <3>1. /\ queue' = queue \o RemovalEvents(n)
          /\ tasks' = tasks \ {n}
      BY <1>8, <2>3 DEF RemoveTask, Post
    <3>2. FetchedFirst(queue', modules')
      BY <1>1, <1>2, <3>1, PostedEvents, FetchedFirstPosted
    <3>3. ASSUME NEW m \in Tasks
          PROVE  AddedOnce(rows, queue', m) /\ (m \notin tasks' => Leaves(rows, queue', m))
      BY <1>1, <3>1, Posted
    <3>4. QED
      BY <1>5, <2>1, <3>2, <3>3
  <2>4. ASSUME NEW n \in Tasks, NEW val \in Percents, ReportProgress(n, val) PROVE OnceInv'
    <3>1. /\ queue' = queue \o <<Event("progress", <<n>>, val)>>
          /\ tasks' = tasks /\ val \in {0} \cup Percents
      BY <1>8, <2>4 DEF ReportProgress, Post
    <3>2. FetchedFirst(queue', modules')
      BY <1>1, <1>2, <3>1, PostedEvents, FetchedFirstPosted
    <3>3. ASSUME NEW m \in Tasks
          PROVE  AddedOnce(rows, queue', m) /\ (m \notin tasks' => Leaves(rows, queue', m))
      BY <1>1, <3>1, Posted
    <3>4. QED
      BY <1>5, <2>1, <3>2, <3>3
  <2>5. QED
    BY <1>8, <2>2, <2>3, <2>4 DEF Service
<1>9. QED
  BY <1>6, <1>7, <1>8

\* An event is worked off: r is the table after it, for one task.
LEMMA OnceTaken ==
    ASSUME OnceInv, SortedInv', queue # <<>>, queue' = Tail(queue), serviceVars' = serviceVars,
           Distinct(rows'), NoTwice(modules'),
           \A n \in Tasks : n \in NamesIn(rows') =>
               Adds(rows, queue, 1, n) \/ (n \in NamesIn(rows) /\ ~Deletes(queue, 1, n))
    PROVE  OnceInv'
<1>1. /\ queue \in Seq(Events)
      /\ ~connected => queue = <<>>
      /\ FetchedFirst(queue, modules)
      /\ \A n \in Tasks : AddedOnce(rows, queue, n)
      /\ \A n \in Tasks \ tasks : Leaves(rows, queue, n)
  BY DEF OnceInv, SortedInv, Typed
<1>2. connected' /\ tasks' = tasks
  BY <1>1 DEF serviceVars
<1>3. ASSUME NEW n \in Tasks
      PROVE  /\ AddedOnce(rows', queue', n)
             /\ n \notin tasks => Leaves(rows', queue', n)
  BY <1>1, TakenEvent
<1>4. FetchedFirst(queue', modules')
  <2>1. ASSUME NEW i \in 1 .. Len(queue'), queue'[i].what = "fetched" PROVE FALSE
    <3>1. i + 1 \in 1 .. Len(queue) /\ queue'[i] = queue[i + 1] /\ i + 1 # 1
      BY <1>1
    <3>2. QED
      BY <1>1, <2>1, <3>1 DEF FetchedFirst
  <2>2. QED
    BY <2>1 DEF FetchedFirst
<1>5. QED
  BY <1>2, <1>3, <1>4 DEF OnceInv

LEMMA HeadIsNew ==
    ASSUME NEW rs, NEW q \in Seq(Events), q # <<>>, NEW n, AddedOnce(rs, q, n), Adds(rs, q, 1, n)
    PROVE  n \notin NamesIn(rs)
<1> SUFFICES ASSUME n \in NamesIn(rs) PROVE FALSE
  OBVIOUS
<1>1. Adds(rs, q, 0, n)
  BY DEF Adds
<1>2. 0 \in 0 .. Len(q) /\ 1 \in 0 .. Len(q) /\ 0 < 1 /\ 0 + 1 .. 1 - 1 = {}
  OBVIOUS
<1>3. \E j \in 0 + 1 .. 1 - 1 : Deletes(q, j, n)
  BY <1>1, <1>2 DEF AddedOnce
<1>4. QED
  BY <1>2, <1>3

LEMMA OnceGui ==
    ASSUME OnceInv, Gui
    PROVE  OnceInv'
<1>1. /\ SortedInv /\ Typed /\ queue \in Seq(Events)
      /\ Distinct(rows) /\ NoTwice(modules)
      /\ FetchedFirst(queue, modules)
      /\ \A n \in Tasks : AddedOnce(rows, queue, n)
      /\ rows \in Seq(Row) /\ modules \in Seq(Tasks) /\ column \in Columns /\ ascending \in BOOLEAN
  BY DEF OnceInv, SortedInv, Typed
<1>2. /\ queue # <<>> /\ queue' = Tail(queue)
      /\ serviceVars' = serviceVars /\ sortVars' = sortVars
  BY DEF Gui, ModulesFetched, ModuleAdded, Forget, ModuleDeleted, ModifyCompletion, Take
<1>3. SortedInv'
  BY <1>1, SortedGui
<1> DEFINE e == Head(queue)
           ns == e.names
<1>4. /\ e = queue[1]
      /\ ns \in Seq(Tasks)
      /\ NoTwice(ns)
      /\ e.val \in Nat
      /\ e.what # "fetched" => Argument \in Tasks /\ ToSet(ns) = {Argument}
  BY <1>1, <1>2, HeadNames
<1>5. ToSet(ns) \subseteq Tasks
  BY <1>4 DEF ToSet
<1> HIDE DEF e
<1>6. /\ \A n : Adds(rows, queue, 1, n) <=> e.what \in {"fetched", "added"} /\ n \in ToSet(ns)
      /\ \A n : Deletes(queue, 1, n) <=> e.what = "deleted" /\ n \in ToSet(ns)
  BY <1>4 DEF Adds, Deletes
<1>7. ASSUME e.what \in {"fetched", "added"} PROVE ToSet(ns) \cap NamesIn(rows) = {}
  <2> SUFFICES ASSUME NEW n \in ToSet(ns) PROVE n \notin NamesIn(rows)
    OBVIOUS
  <2>1. Adds(rows, queue, 1, n) /\ n \in Tasks
    BY <1>5, <1>6, <1>7
  <2>2. QED
    BY <1>1, <1>2, <2>1, HeadIsNew
<1>8. ASSUME Distinct(rows'), NoTwice(modules'),
             \A n \in Tasks : n \in NamesIn(rows') =>
                \/ e.what \in {"fetched", "added"} /\ n \in ToSet(ns)
                \/ n \in NamesIn(rows) /\ ~(e.what = "deleted" /\ n \in ToSet(ns))
      PROVE  OnceInv'
  <2>1. \A n \in Tasks : n \in NamesIn(rows') =>
            Adds(rows, queue, 1, n) \/ (n \in NamesIn(rows) /\ ~Deletes(queue, 1, n))
    BY <1>6, <1>8
  <2>2. QED
    BY <1>2, <1>3, <1>8, <2>1, OnceTaken
<1>9. CASE ModulesFetched
  <2>1. e.what = "fetched"
    BY <1>9 DEF ModulesFetched, Take, e
  <2>2. Grown(rows, rows', ToSet(ns))
    BY <1>1, <1>4, <1>9, FetchedRows DEF ModulesFetched, e
  <2>3. modules' = ns
    <3>1. 1 \in 1 .. Len(queue)
      BY <1>1, <1>2
    <3>2. modules = <<>>
      BY <1>1, <1>4, <2>1, <3>1 DEF FetchedFirst
    <3>3. modules' = modules \o ns
      BY <1>9 DEF ModulesFetched, e
    <3>4. QED
      BY <1>4, <3>2, <3>3
  <2>4. Distinct(rows') /\ NamesIn(rows') \subseteq NamesIn(rows) \cup ToSet(ns)
    BY <1>1, <1>7, <2>1, <2>2 DEF Grown
  <2>5. QED
    BY <1>4, <1>8, <2>1, <2>3, <2>4
<1>10. CASE ModuleAdded
  <2>1. e.what = "added" /\ rows' = AddModule(rows, Argument) /\ modules' = modules
    BY <1>10 DEF ModuleAdded, Take, e
  <2>2. Argument \in Names /\ ToSet(ns) = {Argument}
    BY <1>4, <2>1, TableAssumption
  <2>3. Grown(rows, rows', ToSet(ns))
    BY <1>1, <2>1, <2>2, AddModuleGrows
  <2>4. Distinct(rows') /\ NamesIn(rows') \subseteq NamesIn(rows) \cup ToSet(ns)
    BY <1>1, <1>7, <2>1, <2>3 DEF Grown
  <2>5. QED
    BY <1>1, <1>8, <2>1, <2>4
<1>11. CASE Forget
  <2>1. e.what = "forgotten" /\ rows' = rows /\ modules' = RemoveFirst(modules, Argument)
    BY <1>11 DEF Forget, Take, e
  <2>2. NoTwice(modules')
    BY <1>1, <2>1, RemoveFirstTakes
  <2>3. QED
    BY <1>1, <1>8, <2>1, <2>2
<1>12. CASE ModuleDeleted
  <2>1. e.what = "deleted" /\ rows' = DeleteModule(rows, Argument) /\ modules' = modules
    BY <1>12 DEF ModuleDeleted, Take, e
  <2>2. /\ NamesIn(rows') = {m \in NamesIn(rows) : Text["name"][m] # Text["name"][Argument]}
        /\ Distinct(rows')
    BY <1>1, <2>1, DeleteModuleTakes
  <2>3. \A n \in NamesIn(rows') : n \in NamesIn(rows) /\ n \notin ToSet(ns)
    BY <1>4, <2>1, <2>2
  <2>4. QED
    BY <1>1, <1>8, <2>1, <2>2, <2>3
<1>13. CASE ModifyCompletion
  <2>1. /\ e.what = "progress" /\ modules' = modules
        /\ rows' = ModifyProgress(rows, DumpText[Argument], e.val)
    BY <1>13 DEF ModifyCompletion, Take, e
  <2>2. NamesIn(rows') = NamesIn(rows) /\ Distinct(rows')
    BY <1>1, <1>4, <2>1, ModifyProgressKeeps
  <2>3. QED
    BY <1>1, <1>8, <2>1, <2>2
<1>14. QED
  BY <1>9, <1>10, <1>11, <1>12, <1>13 DEF Gui

\* Of the rows only their names matter to what is on its way.
LEMMA SameNames ==
    ASSUME NEW rs, NEW r, NamesIn(r) = NamesIn(rs), NEW q, NEW n
    PROVE  /\ AddedOnce(rs, q, n) => AddedOnce(r, q, n)
           /\ Leaves(rs, q, n) => Leaves(r, q, n)
<1>1. \A i : Adds(r, q, i, n) <=> Adds(rs, q, i, n)
  BY DEF Adds
<1>2. QED
  BY <1>1 DEF AddedOnce, Leaves

LEMMA OnceClick ==
    ASSUME OnceInv, NEW col \in Clickable, ReverseSort(col)
    PROVE  OnceInv'
<1>1. SortedInv'
  BY SortedClick DEF OnceInv
<1>2. /\ rows' \in Sorted(rows, col, ascending') /\ rows \in Seq(Row)
      /\ connected' = connected /\ tasks' = tasks /\ queue' = queue /\ modules' = modules
  BY DEF ReverseSort, OnceInv, SortedInv, Typed, serviceVars
<1>3. NamesIn(rows') = NamesIn(rows) /\ (Distinct(rows) => Distinct(rows'))
  BY <1>2, SortedKeeps
<1>4. \A n \in Tasks : AddedOnce(rows', queue', n)
  BY <1>2, <1>3, SameNames DEF OnceInv
<1>5. \A n \in Tasks \ tasks' : Leaves(rows', queue', n)
  BY <1>2, <1>3, SameNames DEF OnceInv
<1>6. QED
  BY <1>1, <1>2, <1>3, <1>4, <1>5 DEF OnceInv

LEMMA OnceStep == OnceInv /\ [Next]_vars => OnceInv'
<1> SUFFICES ASSUME OnceInv, [Next]_vars PROVE OnceInv'
  OBVIOUS
<1>1. CASE Service
  BY <1>1, OnceService
<1>2. CASE Gui
  BY <1>2, OnceGui
<1>3. CASE \E col \in Clickable : ReverseSort(col)
  BY <1>3, OnceClick
<1>4. CASE UNCHANGED vars
  <2>1. /\ connected' = connected /\ tasks' = tasks /\ queue' = queue /\ rows' = rows
        /\ modules' = modules
    BY <1>4 DEF vars, serviceVars
  <2>2. SortedInv'
    BY SortedStep, <1>4 DEF OnceInv
  <2>3. QED
    BY <2>1, <2>2 DEF OnceInv
<1>5. QED
  BY <1>1, <1>2, <1>3, <1>4 DEF Next

\* Nothing a task is added twice for without being deleted in between, always.
THEOREM StaysOnce == ASSUME PlaceholdersApart PROVE Spec => []OnceInv
BY OnceAtFirst, OnceStep, PTL DEF Spec

\* No task has two rows, and none is saved twice (OneRowPerTask): addModule and
\* onModulesFetched look for no row of that name before they add one.
THEOREM NoSecondRow == ASSUME PlaceholdersApart PROVE Spec => []OneRowPerTask
<1>1. OnceInv => OneRowPerTask
  BY DEF OnceInv, OneRowPerTask, Distinct, NoTwice
<1>2. QED
  BY <1>1, StaysOnce, PTL

-----------------------------------------------------------------------------
\* What is saved is shown.

TextInv == OnceInv /\ column \in TextColumns

LEMMA TextStep == ASSUME TextOnly PROVE TextInv /\ [Next]_vars => TextInv'
<1> SUFFICES ASSUME TextInv, [Next]_vars PROVE TextInv'
  OBVIOUS
<1>1. OnceInv'
  BY OnceStep DEF TextInv
<1>2. CASE \E col \in Clickable : ReverseSort(col)
  BY <1>1, <1>2 DEF TextOnly, ReverseSort, TextInv
<1>3. CASE ~\E col \in Clickable : ReverseSort(col)
  <2>1. column' = column
    BY <1>3 DEF Next, Service, Connect, AddTask, RemoveTask, ReportProgress, Gui, ModulesFetched,
                ModuleAdded, Forget, ModuleDeleted, ModifyCompletion, sortVars, vars
  <2>2. QED
    BY <1>1, <2>1 DEF TextInv
<1>4. QED
  BY <1>1, <1>2, <1>3 DEF TextInv

LEMMA TextAtFirst == ASSUME PlaceholdersApart PROVE Init => TextInv
BY OnceAtFirst, TableAssumption DEF TextInv, Init

\* What the GUI thread makes of the names in the table, exactly.
LEMMA GuiNames ==
    ASSUME NamesApart, TextInv, Gui
    PROVE  \A n \in Tasks : n \in NamesIn(rows') <=>
               Adds(rows, queue, 1, n) \/ (n \in NamesIn(rows) /\ ~Deletes(queue, 1, n))
<1>1. /\ Typed /\ column \in TextColumns
      /\ rows \in Seq(Row) /\ column \in Columns /\ ascending \in BOOLEAN
  BY DEF TextInv, OnceInv, SortedInv, Typed
<1>2. queue # <<>>
  BY DEF Gui, ModulesFetched, ModuleAdded, Forget, ModuleDeleted, ModifyCompletion, Take
<1> DEFINE e == Head(queue)
           ns == e.names
<1>3. /\ e = queue[1]
      /\ ns \in Seq(Tasks)
      /\ NoTwice(ns)
      /\ e.val \in Nat
      /\ e.what # "fetched" => Argument \in Tasks /\ ToSet(ns) = {Argument}
  BY <1>1, <1>2, HeadNames
<1> HIDE DEF e
<1>4. /\ \A n : Adds(rows, queue, 1, n) <=> e.what \in {"fetched", "added"} /\ n \in ToSet(ns)
      /\ \A n : Deletes(queue, 1, n) <=> e.what = "deleted" /\ n \in ToSet(ns)
  BY <1>3 DEF Adds, Deletes
<1>5. CASE ModulesFetched
  <2>1. e.what = "fetched"
    BY <1>5 DEF ModulesFetched, Take, e
  <2>2. Grown(rows, rows', ToSet(ns))
    BY <1>1, <1>3, <1>5, FetchedRows DEF ModulesFetched, e
  <2>3. NamesIn(rows') = NamesIn(rows) \cup ToSet(ns)
    BY <1>1, <2>2 DEF Grown
  <2>4. QED
    BY <1>4, <2>1, <2>3
<1>6. CASE ModuleAdded
  <2>1. e.what = "added" /\ rows' = AddModule(rows, Argument)
    BY <1>6 DEF ModuleAdded, Take, e
  <2>2. Argument \in Names /\ ToSet(ns) = {Argument}
    BY <1>3, <2>1, TableAssumption
  <2>3. Grown(rows, rows', ToSet(ns))
    BY <1>1, <2>1, <2>2, AddModuleGrows
  <2>4. NamesIn(rows') = NamesIn(rows) \cup ToSet(ns)
    BY <1>1, <2>3 DEF Grown
  <2>5. QED
    BY <1>4, <2>1, <2>4
<1>7. CASE Forget
  <2>1. e.what = "forgotten" /\ rows' = rows
    BY <1>7 DEF Forget, Take, e
  <2>2. QED
    BY <1>4, <2>1
<1>8. CASE ModuleDeleted
  <2>1. e.what = "deleted" /\ rows' = DeleteModule(rows, Argument)
    BY <1>8 DEF ModuleDeleted, Take, e
  <2>2. NamesIn(rows') = {m \in NamesIn(rows) : Text["name"][m] # Text["name"][Argument]}
    BY <1>1, <2>1, DeleteModuleTakes
  <2>3. Argument \in Names /\ ToSet(ns) = {Argument} /\ Tasks \subseteq Names
    BY <1>3, <2>1, TableAssumption
  <2>4. \A n \in Tasks : n \in NamesIn(rows') <=> n \in NamesIn(rows) /\ n # Argument
    BY <2>2, <2>3 DEF NamesApart
  <2>5. QED
    BY <1>4, <2>1, <2>3, <2>4
<1>9. CASE ModifyCompletion
  <2>1. e.what = "progress" /\ rows' = ModifyProgress(rows, DumpText[Argument], e.val)
    BY <1>9 DEF ModifyCompletion, Take, e
  <2>2. NamesIn(rows') = NamesIn(rows)
    BY <1>1, <1>3, <2>1, ModifyProgressKeeps
  <2>3. QED
    BY <1>4, <2>1, <2>2
<1>10. QED
  BY <1>5, <1>6, <1>7, <1>8, <1>9 DEF Gui

Forgets(q, i, n) == q[i].what = "forgotten" /\ n \in ToSet(q[i].names)

\* The event for the vector is right ahead of the one for the table.
ForgottenFirst(q, ms) ==
    \A i \in 1 .. Len(q) : \A n \in Tasks :
        Deletes(q, i, n) => (i = 1 /\ n \notin ToSet(ms)) \/ (i > 1 /\ Forgets(q, i - 1, n))

SavedInv ==
    /\ TextInv
    /\ ToSet(modules) \subseteq NamesIn(rows)
    /\ ForgottenFirst(queue, modules)

LEMMA ForgottenPosted ==
    ASSUME NEW q \in Seq(Events), NEW ms, ForgottenFirst(q, ms), NEW es \in Seq(Events),
           \A i \in 1 .. Len(es) : \A n \in Tasks : Deletes(es, i, n) => i > 1 /\ Forgets(es, i - 1, n)
    PROVE  ForgottenFirst(q \o es, ms)
<1> DEFINE l == Len(q)
           k == Len(es)
           r == q \o es
<1>1. /\ l \in Nat /\ k \in Nat /\ Len(r) = l + k
      /\ \A i \in 1 .. l + k : r[i] = IF i <= l THEN q[i] ELSE es[i - l]
  BY ConcatProperties
<1> HIDE DEF l, r, k
<1>2. ASSUME NEW i \in 1 .. l + k, NEW n \in Tasks, Deletes(r, i, n)
      PROVE  (i = 1 /\ n \notin ToSet(ms)) \/ (i > 1 /\ Forgets(r, i - 1, n))
  <2>1. CASE i <= l
    <3>1. i \in 1 .. l /\ r[i] = q[i]
      BY <1>1, <2>1
    <3>2. Deletes(q, i, n)
      BY <1>2, <3>1 DEF Deletes
    <3>3. (i = 1 /\ n \notin ToSet(ms)) \/ (i > 1 /\ Forgets(q, i - 1, n))
      BY <3>1, <3>2 DEF ForgottenFirst, l
    <3>4. i > 1 => r[i - 1] = q[i - 1]
      BY <1>1, <2>1
    <3>5. QED
      BY <3>3, <3>4 DEF Forgets
  <2>2. CASE ~(i <= l)
    <3>1. i - l \in 1 .. k /\ r[i] = es[i - l]
      BY <1>1, <2>2
    <3>2. Deletes(es, i - l, n)
      BY <1>2, <3>1 DEF Deletes
    <3>3. i - l > 1 /\ Forgets(es, (i - l) - 1, n)
      BY <3>1, <3>2 DEF k
    <3>4. i > 1 /\ ~(i - 1 <= l) /\ i - 1 \in 1 .. l + k /\ (i - l) - 1 = (i - 1) - l
      BY <1>1, <2>2, <3>3
    <3>5. r[i - 1] = es[(i - l) - 1]
      BY <1>1, <3>4
    <3>6. QED
      BY <3>3, <3>4, <3>5 DEF Forgets
  <2>3. QED
    BY <2>1, <2>2
<1>3. QED
  BY <1>1, <1>2 DEF ForgottenFirst, r

LEMMA ForgottenTaken ==
    ASSUME NEW q \in Seq(Events), q # <<>>, NEW ms, ForgottenFirst(q, ms), NEW os,
           \A n \in Tasks : Forgets(q, 1, n) => n \notin ToSet(os)
    PROVE  ForgottenFirst(Tail(q), os)
<1> DEFINE t == Tail(q)
           l == Len(q)
<1>1. /\ l \in Nat /\ l > 0 /\ Len(t) = l - 1
      /\ \A i \in 1 .. l - 1 : t[i] = q[i + 1]
  OBVIOUS
<1> HIDE DEF t, l
<1>2. ASSUME NEW i \in 1 .. l - 1, NEW n \in Tasks, Deletes(t, i, n)
      PROVE  (i = 1 /\ n \notin ToSet(os)) \/ (i > 1 /\ Forgets(t, i - 1, n))
  <2>1. i + 1 \in 1 .. l /\ i + 1 > 1 /\ (i + 1) - 1 = i
    BY <1>1
  <2>2. Deletes(q, i + 1, n)
    BY <1>1, <1>2 DEF Deletes
  <2>3. Forgets(q, i, n)
    <3>1. (i + 1 = 1 /\ n \notin ToSet(ms)) \/ (i + 1 > 1 /\ Forgets(q, (i + 1) - 1, n))
      BY <2>1, <2>2 DEF ForgottenFirst, l
    <3>2. QED
      BY <2>1, <3>1
  <2>4. CASE i = 1
    BY <2>3, <2>4
  <2>5. CASE i > 1
    <3>1. i - 1 \in 1 .. l - 1 /\ (i - 1) + 1 = i
      BY <1>1, <2>5
    <3>2. t[i - 1] = q[i]
      BY <1>1, <3>1
    <3>3. QED
      BY <2>3, <2>5, <3>2 DEF Forgets
  <2>6. QED
    BY <2>1, <2>4, <2>5
<1>3. QED
  BY <1>1, <1>2 DEF ForgottenFirst, t

LEMMA SavedAtFirst == ASSUME PlaceholdersApart PROVE Init => SavedInv
<1> SUFFICES ASSUME Init PROVE SavedInv
  OBVIOUS
<1>1. TextInv
  BY TextAtFirst
<1>2. queue = <<>> /\ modules = <<>>
  BY DEF Init
<1>3. ToSet(modules) = {}
  BY <1>2 DEF ToSet
<1>4. ForgottenFirst(queue, modules)
  BY <1>2 DEF ForgottenFirst
<1>5. QED
  BY <1>1, <1>3, <1>4 DEF SavedInv

\* What the commands post keeps to the order.
LEMMA PostedInOrder ==
    ASSUME NEW n \in Tasks, NEW val, NEW s,
           NEW es \in {<<Event("fetched", s, 0)>>, <<Event("added", <<n>>, 0)>>, RemovalEvents(n),
                       <<Event("progress", <<n>>, val)>>}
    PROVE  \A i \in 1 .. Len(es) : \A m \in Tasks : Deletes(es, i, m) => i > 1 /\ Forgets(es, i - 1, m)
<1> DEFINE ef == Event("forgotten", <<n>>, 0)
           ed == Event("deleted", <<n>>, 0)
<1>1. ASSUME NEW e, es = <<e>>, e.what # "deleted"
      PROVE  \A i \in 1 .. Len(es) : \A m \in Tasks : Deletes(es, i, m) => i > 1 /\ Forgets(es, i - 1, m)
  <2>1. Len(es) = 1 /\ es[1] = e
    BY <1>1
  <2>2. QED
    BY <1>1, <2>1 DEF Deletes
<1>2. CASE es = <<ef, ed>>
  <2>1. ef.what = "forgotten" /\ ed.what = "deleted" /\ ef.names = ed.names
    BY DEF Event
  <2> HIDE DEF ef, ed
  <2>2. Len(es) = 2 /\ es[1] = ef /\ es[2] = ed
    BY <1>2
  <2>3. ASSUME NEW i \in 1 .. Len(es), NEW m \in Tasks, Deletes(es, i, m)
        PROVE  i > 1 /\ Forgets(es, i - 1, m)
    <3>1. i = 1 \/ i = 2
      BY <2>2
    <3>2. i # 1
      BY <2>1, <2>2, <2>3 DEF Deletes
    <3>3. i = 2 /\ i - 1 = 1
      BY <3>1, <3>2
    <3>4. Forgets(es, 1, m)
      BY <2>1, <2>2, <2>3, <3>3 DEF Deletes, Forgets
    <3>5. QED
      BY <3>3, <3>4
  <2>4. QED
    BY <2>3
<1>3. /\ Event("fetched", s, 0).what # "deleted"
      /\ Event("added", <<n>>, 0).what # "deleted"
      /\ Event("progress", <<n>>, val).what # "deleted"
  BY DEF Event
<1>4. QED
  BY <1>1, <1>2, <1>3, Zenon DEF RemovalEvents

LEMMA SavedService ==
    ASSUME SavedInv, TextInv', Service
    PROVE  SavedInv'
<1>1. /\ Typed /\ queue \in Seq(Events)
      /\ ToSet(modules) \subseteq NamesIn(rows)
      /\ ForgottenFirst(queue, modules)
      /\ tasks \in SUBSET Tasks
      /\ ~connected => queue = <<>>
  BY DEF SavedInv, TextInv, OnceInv, SortedInv, Typed
<1>2. rows' = rows /\ modules' = modules
  BY DEF Service, Connect, AddTask, RemoveTask, ReportProgress
<1>3. ASSUME ForgottenFirst(queue', modules) PROVE SavedInv'
  BY <1>1, <1>2, <1>3 DEF SavedInv
<1>4. CASE Connect
  <2>1. PICK s \in SetToSeqs(tasks) : queue' = Append(queue, Event("fetched", s, 0))
    BY <1>4 DEF Connect
  <2> DEFINE e == Event("fetched", s, 0)
  <2>2. e \in Events /\ e.what = "fetched"
    BY <1>1, EventOfAll DEF Event
  <2> HIDE DEF e
  <2>3. queue' = <<e>>
    BY <1>1, <1>4, <2>1 DEF e, Connect
  <2>4. Len(queue') = 1 /\ queue'[1] = e
    BY <2>3
  <2>5. ForgottenFirst(queue', modules)
    BY <2>2, <2>4 DEF ForgottenFirst, Deletes
  <2>6. QED
    BY <1>3, <2>5
<1>5. ASSUME NEW n \in Tasks, NEW val \in {0} \cup Percents,
             NEW es \in {<<Event("added", <<n>>, 0)>>, RemovalEvents(n), <<Event("progress", <<n>>, val)>>},
             Post(es)
      PROVE  SavedInv'
  <2>1. es \in Seq(Events)
    BY <1>5, PostedEvents
  <2>2. \A i \in 1 .. Len(es) : \A m \in Tasks : Deletes(es, i, m) => i > 1 /\ Forgets(es, i - 1, m)
    <3>1. es \in {<<Event("fetched", <<>>, 0)>>, <<Event("added", <<n>>, 0)>>, RemovalEvents(n),
                  <<Event("progress", <<n>>, val)>>}
      BY <1>5, Zenon
    <3>2. QED
      BY <3>1, PostedInOrder, Zenon
  <2>3. ForgottenFirst(queue \o es, modules)
    BY <1>1, <2>1, <2>2, ForgottenPosted
  <2>4. queue' = queue \o es \/ queue' = queue
    BY <1>5 DEF Post
  <2>5. QED
    BY <1>1, <1>3, <2>3, <2>4
<1>6. ASSUME NEW n \in Tasks, AddTask(n) PROVE SavedInv'
  BY <1>5, <1>6 DEF AddTask
<1>7. ASSUME NEW n \in Tasks, RemoveTask(n) PROVE SavedInv'
  BY <1>5, <1>7 DEF RemoveTask
<1>8. ASSUME NEW n \in Tasks, NEW val \in Percents, ReportProgress(n, val) PROVE SavedInv'
  BY <1>5, <1>8 DEF ReportProgress
<1>9. QED
  BY <1>4, <1>6, <1>7, <1>8 DEF Service

LEMMA SavedGui ==
    ASSUME NamesApart, SavedInv, TextInv', Gui
    PROVE  SavedInv'
<1>1. /\ Typed /\ queue \in Seq(Events) /\ modules \in Seq(Tasks)
      /\ NoTwice(modules) /\ FetchedFirst(queue, modules)
      /\ ToSet(modules) \subseteq NamesIn(rows)
      /\ ForgottenFirst(queue, modules)
  BY DEF SavedInv, TextInv, OnceInv, SortedInv, Typed
<1>2. queue # <<>> /\ queue' = Tail(queue)
  BY DEF Gui, ModulesFetched, ModuleAdded, Forget, ModuleDeleted, ModifyCompletion, Take
<1>3. \A n \in Tasks : n \in NamesIn(rows') <=>
               Adds(rows, queue, 1, n) \/ (n \in NamesIn(rows) /\ ~Deletes(queue, 1, n))
  BY GuiNames DEF SavedInv
<1> DEFINE e == Head(queue)
           ns == e.names
<1>4. /\ e = queue[1]
      /\ ns \in Seq(Tasks)
      /\ e.what # "fetched" => Argument \in Tasks /\ ToSet(ns) = {Argument}
  BY <1>1, <1>2, HeadNames
<1> HIDE DEF e
<1>5. ToSet(modules) \subseteq Tasks /\ ToSet(ns) \subseteq Tasks /\ ToSet(<<>>) = {}
  BY <1>1, <1>4 DEF ToSet
<1>6. 1 \in 1 .. Len(queue)
  BY <1>1, <1>2
<1>7. ASSUME NEW n \in ToSet(modules) PROVE ~Deletes(queue, 1, n)
  BY <1>1, <1>5, <1>6 DEF ForgottenFirst
<1>8. ASSUME \A n \in Tasks : Forgets(queue, 1, n) => n \notin ToSet(modules'),
             \A n \in ToSet(modules') : n \in ToSet(modules) \/ Adds(rows, queue, 1, n),
             ToSet(modules') \subseteq Tasks
      PROVE  SavedInv'
  <2>1. ForgottenFirst(queue', modules')
    BY <1>1, <1>2, <1>8, ForgottenTaken
  <2>2. ToSet(modules') \subseteq NamesIn(rows')
    BY <1>1, <1>3, <1>7, <1>8
  <2>3. QED
    BY <2>1, <2>2 DEF SavedInv
<1>9. CASE ModulesFetched
  <2>1. e.what = "fetched" /\ modules' = modules \o ns
    BY <1>9 DEF ModulesFetched, Take, e
  <2>2. modules = <<>>
    BY <1>1, <1>4, <1>6, <2>1 DEF FetchedFirst
  <2>3. modules' = ns
    BY <1>4, <2>1, <2>2
  <2>4. \A n : Adds(rows, queue, 1, n) <=> n \in ToSet(ns)
    BY <1>4, <2>1 DEF Adds
  <2>5. \A n : ~Forgets(queue, 1, n)
    BY <1>4, <2>1 DEF Forgets
  <2>6. QED
    BY <1>5, <1>8, <2>3, <2>4, <2>5
<1>10. CASE Forget
  <2>1. e.what = "forgotten" /\ modules' = RemoveFirst(modules, Argument)
    BY <1>10 DEF Forget, Take, e
  <2>2. ToSet(modules') = ToSet(modules) \ {Argument}
    BY <1>1, <2>1, RemoveFirstTakes
  <2>3. \A n : Forgets(queue, 1, n) => n = Argument
    BY <1>4, <2>1 DEF Forgets
  <2>4. QED
    BY <1>5, <1>8, <2>2, <2>3
<1>11. CASE ~ModulesFetched /\ ~Forget
  <2>1. e.what # "forgotten" /\ modules' = modules
    BY <1>11 DEF Gui, ModuleAdded, ModuleDeleted, ModifyCompletion, Take, e
  <2>2. \A n : ~Forgets(queue, 1, n)
    BY <1>4, <2>1 DEF Forgets
  <2>3. QED
    BY <1>5, <1>8, <2>1, <2>2
<1>12. QED
  BY <1>9, <1>10, <1>11

LEMMA SavedStep ==
    ASSUME TextOnly, NamesApart
    PROVE  SavedInv /\ [Next]_vars => SavedInv'
<1> SUFFICES ASSUME SavedInv, [Next]_vars PROVE SavedInv'
  OBVIOUS
<1>1. TextInv'
  BY TextStep DEF SavedInv
<1>2. CASE Service
  BY <1>1, <1>2, SavedService
<1>3. CASE Gui
  BY <1>1, <1>3, SavedGui
<1>4. CASE \E col \in Clickable : ReverseSort(col)
  <2>1. PICK col \in Clickable : ReverseSort(col)
    BY <1>4
  <2>2. /\ rows' \in Sorted(rows, col, ascending') /\ rows \in Seq(Row)
        /\ queue' = queue /\ modules' = modules
    BY <2>1 DEF ReverseSort, SavedInv, TextInv, OnceInv, SortedInv, Typed
  <2>3. NamesIn(rows') = NamesIn(rows)
    BY <2>2, SortedKeeps
  <2>4. QED
    BY <1>1, <2>2, <2>3 DEF SavedInv
<1>5. CASE UNCHANGED vars
  <2>1. queue' = queue /\ modules' = modules /\ rows' = rows
    BY <1>5 DEF vars
  <2>2. QED
    BY <1>1, <2>1 DEF SavedInv
<1>6. QED
  BY <1>2, <1>3, <1>4, <1>5 DEF Next

\* Shown is what the rows name, of the tasks.
LEMMA ShownNames == Typed => Shown = NamesIn(rows) \cap Tasks
BY DEF Shown, NamesIn

THEOREM StaysSaved ==
    ASSUME PlaceholdersApart, TextOnly, NamesApart
    PROVE  Spec => []SavedInv
BY SavedAtFirst, SavedStep, PTL DEF Spec

\* A module the vector holds is never one without a row (SavedAreShown): a removal
\* reaches the vector first, the table next, and nothing comes between
\* (SyncTable.h:37-38).
THEOREM NoneWithoutRow ==
    ASSUME PlaceholdersApart, TextOnly, NamesApart
    PROVE  Spec => []SavedAreShown
<1>1. SavedInv => SavedAreShown
  <2> SUFFICES ASSUME SavedInv PROVE SavedAreShown
    OBVIOUS
  <2>1. Typed /\ modules \in Seq(Tasks) /\ ToSet(modules) \subseteq NamesIn(rows)
    BY DEF SavedInv, TextInv, OnceInv, SortedInv, Typed
  <2>2. ToSet(modules) \subseteq Tasks
    BY <2>1 DEF ToSet
  <2>3. QED
    BY <2>1, <2>2, ShownNames DEF SavedAreShown
<1>2. QED
  BY <1>1, StaysSaved, PTL

-----------------------------------------------------------------------------
\* The sets of tasks on their way to the table.

\* ViewAfter, of any set of tasks shown.
ViewFrom(S, E, i) ==
    {n \in Tasks : \E j \in 0 .. i :
        /\ IF j = 0 THEN n \in S
                    ELSE E[j].what # "deleted" /\ n \in ToSet(E[j].names)
        /\ \A k \in j + 1 .. i : ~(E[k].what = "deleted" /\ n \in ToSet(E[k].names))}

\* One event makes of the tasks shown:
After(S, e) == IF e.what = "deleted" THEN S \ ToSet(e.names) ELSE S \cup (ToSet(e.names) \cap Tasks)

LEMMA ViewNone == \A S, E : ViewFrom(S, E, 0) = S \cap Tasks
BY DEF ViewFrom

LEMMA ViewOneMore ==
    ASSUME NEW S, NEW E, NEW i \in Nat \ {0}
    PROVE  ViewFrom(S, E, i) = After(ViewFrom(S, E, i - 1), E[i])
<1> DEFINE Put(n, j) == IF j = 0 THEN n \in S ELSE E[j].what # "deleted" /\ n \in ToSet(E[j].names)
           Cut(n, k) == E[k].what = "deleted" /\ n \in ToSet(E[k].names)
           In(n, m) == \E j \in 0 .. m : Put(n, j) /\ \A k \in j + 1 .. m : ~Cut(n, k)
<1>1. /\ \A n \in Tasks : n \in ViewFrom(S, E, i) <=> In(n, i)
      /\ \A n \in Tasks : n \in ViewFrom(S, E, i - 1) <=> In(n, i - 1)
  BY DEF ViewFrom
<1>2. ASSUME NEW n \in Tasks
      PROVE  In(n, i) <=> (In(n, i - 1) /\ ~Cut(n, i)) \/ Put(n, i)
  <2> HIDE DEF Put, Cut
  <2>1. ASSUME In(n, i - 1), ~Cut(n, i) PROVE In(n, i)
    <3>1. PICK j \in 0 .. i - 1 : Put(n, j) /\ \A k \in j + 1 .. i - 1 : ~Cut(n, k)
      BY <2>1
    <3>2. j \in 0 .. i /\ \A k \in j + 1 .. i : k \in j + 1 .. i - 1 \/ k = i
      OBVIOUS
    <3>3. QED
      BY <2>1, <3>1, <3>2
  <2>2. ASSUME Put(n, i) PROVE In(n, i)
    <3>1. i \in 0 .. i /\ \A k \in i + 1 .. i : FALSE
      OBVIOUS
    <3>2. QED
      BY <2>2, <3>1
  <2>3. ASSUME In(n, i) PROVE (In(n, i - 1) /\ ~Cut(n, i)) \/ Put(n, i)
    <3>1. PICK j \in 0 .. i : Put(n, j) /\ \A k \in j + 1 .. i : ~Cut(n, k)
      BY <2>3
    <3>2. CASE j = i
      BY <3>1, <3>2
    <3>3. CASE j # i
      <4>1. j \in 0 .. i - 1 /\ i \in j + 1 .. i /\ \A k \in j + 1 .. i - 1 : k \in j + 1 .. i
        BY <3>3
      <4>2. QED
        BY <3>1, <4>1
    <3>4. QED
      BY <3>2, <3>3
  <2>4. QED
    BY <2>1, <2>2, <2>3
<1>3. \A n \in Tasks : n \in ViewFrom(S, E, i) <=>
          (n \in ViewFrom(S, E, i - 1) /\ ~Cut(n, i)) \/ Put(n, i)
  <2> HIDE DEF Put, Cut, In
  <2>1. QED
    BY <1>1, <1>2
<1>4. /\ ViewFrom(S, E, i) \subseteq Tasks
      /\ ViewFrom(S, E, i - 1) \subseteq Tasks
  BY DEF ViewFrom
<1>5. i # 0
  OBVIOUS
<1>6. CASE E[i].what = "deleted"
  <2>1. \A n \in Tasks : n \in ViewFrom(S, E, i) <=> n \in ViewFrom(S, E, i - 1) /\ n \notin ToSet(E[i].names)
    BY <1>3, <1>5, <1>6
  <2>2. QED
    BY <1>4, <1>6, <2>1 DEF After
<1>7. CASE E[i].what # "deleted"
  <2>1. \A n \in Tasks : n \in ViewFrom(S, E, i) <=> n \in ViewFrom(S, E, i - 1) \/ n \in ToSet(E[i].names)
    BY <1>3, <1>5, <1>7
  <2>2. QED
    BY <1>4, <1>7, <2>1 DEF After
<1>8. QED
  BY <1>6, <1>7

\* Only the first i events count.
LEMMA ViewLocal ==
    ASSUME NEW S, NEW E, NEW F, NEW i \in Nat, \A k \in 1 .. i : E[k] = F[k]
    PROVE  ViewFrom(S, E, i) = ViewFrom(S, F, i)
<1> DEFINE Put(n, j, D) == IF j = 0 THEN n \in S ELSE D[j].what # "deleted" /\ n \in ToSet(D[j].names)
           Cut(n, k, D) == D[k].what = "deleted" /\ n \in ToSet(D[k].names)
<1>1. ASSUME NEW j \in 0 .. i, NEW n
      PROVE  /\ Put(n, j, E) <=> Put(n, j, F)
             /\ \A k \in j + 1 .. i : Cut(n, k, E) <=> Cut(n, k, F)
  <2>1. j = 0 \/ j \in 1 .. i
    OBVIOUS
  <2>2. \A k \in j + 1 .. i : k \in 1 .. i
    OBVIOUS
  <2>3. QED
    BY <2>1, <2>2
<1> HIDE DEF Put, Cut
<1>2. {n \in Tasks : \E j \in 0 .. i : Put(n, j, E) /\ \A k \in j + 1 .. i : ~Cut(n, k, E)}
      = {n \in Tasks : \E j \in 0 .. i : Put(n, j, F) /\ \A k \in j + 1 .. i : ~Cut(n, k, F)}
  BY <1>1
<1>3. QED
  BY <1>2 DEF ViewFrom, Put, Cut

\* With the first event handled, what remains to come is as before.
LEMMA ViewShift ==
    ASSUME NEW T, NEW E \in Seq(T), E # <<>>, NEW S
    PROVE  \A i \in 0 .. Len(E) - 1 : ViewFrom(ViewFrom(S, E, 1), Tail(E), i) = ViewFrom(S, E, i + 1)
<1> DEFINE l == Len(E)
           t == Tail(E)
           R == ViewFrom(S, E, 1)
           Good == {i \in 0 .. l - 1 : ViewFrom(R, t, i) = ViewFrom(S, E, i + 1)}
<1>1. l \in Nat /\ l > 0 /\ \A i \in 1 .. l - 1 : t[i] = E[i + 1]
  OBVIOUS
<1> HIDE DEF l, t
<1>2. R \cap Tasks = R
  BY DEF ViewFrom
<1> HIDE DEF R
<1>3. 0 \in Good
  <2>1. 0 \in 0 .. l - 1 /\ 0 + 1 = 1
    BY <1>1
  <2>2. ViewFrom(R, t, 0) = R
    BY <1>2, ViewNone
  <2>3. ViewFrom(R, t, 0) = ViewFrom(S, E, 0 + 1)
    BY <2>1, <2>2 DEF R
  <2>4. QED
    BY <2>1, <2>3
<1>4. ASSUME NEW k \in 0 .. l - 1, k > 0, k - 1 \in Good PROVE k \in Good
  <2>1. ViewFrom(R, t, k) = After(ViewFrom(R, t, k - 1), t[k])
    BY <1>4, ViewOneMore
  <2>2. ViewFrom(S, E, k + 1) = After(ViewFrom(S, E, (k + 1) - 1), E[k + 1])
    BY <1>4, ViewOneMore
  <2>3. (k + 1) - 1 = k /\ (k - 1) + 1 = k /\ k \in 1 .. l - 1
    BY <1>1, <1>4
  <2>4. ViewFrom(R, t, k - 1) = ViewFrom(S, E, k) /\ t[k] = E[k + 1]
    BY <1>1, <1>4, <2>3
  <2>5. QED
    BY <2>1, <2>2, <2>3, <2>4
<1> HIDE DEF Good
<1>5. 0 .. l - 1 \subseteq Good
  <2>1. l - 1 \in Nat /\ Good \in SUBSET Nat
    BY <1>1 DEF Good
  <2>2. QED
    BY <1>3, <1>4, <2>1, EveryPlace
<1>6. QED
  BY <1>5 DEF Good, l, t, R

\* The events that change what is shown.
Seen == {"fetched", "added", "deleted"}

SeenAt(q) == {i \in DOMAIN q : q[i].what \in Seen}

SeenEvents(q) == Kept(q, SeenAt(q))

LEMMA SeenAppend ==
    ASSUME NEW q \in Seq(Events), NEW e \in Events
    PROVE  /\ SeenEvents(q) \in Seq(Events)
           /\ e.what \in Seen => SeenEvents(Append(q, e)) = Append(SeenEvents(q), e)
           /\ e.what \notin Seen => SeenEvents(Append(q, e)) = SeenEvents(q)
<1> DEFINE r == Append(q, e)
           l == Len(q)
<1>1. /\ l \in Nat /\ DOMAIN q = 1 .. l /\ DOMAIN r = 1 .. l + 1
      /\ \A i \in 1 .. l : r[i] = q[i]
      /\ r[l + 1] = e
  OBVIOUS
<1>2. SeenAt(q) \in SUBSET (1 .. Len(q))
  BY DEF SeenAt
<1> HIDE DEF r, l
<1>3. SeenAt(r) = IF e.what \in Seen THEN SeenAt(q) \cup {l + 1} ELSE SeenAt(q)
  <2>1. \A i \in 1 .. l + 1 : i \in 1 .. l \/ i = l + 1
    BY <1>1
  <2>2. \A i \in 1 .. l : i \in SeenAt(r) <=> i \in SeenAt(q)
    BY <1>1 DEF SeenAt
  <2>3. l + 1 \in SeenAt(r) <=> e.what \in Seen
    BY <1>1 DEF SeenAt
  <2>4. SeenAt(r) \subseteq 1 .. l + 1 /\ SeenAt(q) \subseteq 1 .. l
    BY <1>1 DEF SeenAt
  <2>5. CASE e.what \in Seen
    <3>1. \A i : i \in SeenAt(r) <=> i \in SeenAt(q) \cup {l + 1}
      BY <1>1, <2>1, <2>2, <2>3, <2>4, <2>5
    <3>2. QED
      BY <2>5, <3>1
  <2>6. CASE e.what \notin Seen
    <3>1. \A i : i \in SeenAt(r) <=> i \in SeenAt(q)
      BY <1>1, <2>1, <2>2, <2>3, <2>4, <2>6
    <3>2. QED
      BY <2>6, <3>1
  <2>7. QED
    BY <2>5, <2>6
<1>4. SeenEvents(q) \in Seq(Events)
  BY KeptIsSeq DEF SeenEvents
<1>5. /\ Kept(r, SeenAt(q)) = Kept(q, SeenAt(q))
      /\ Kept(r, SeenAt(q) \cup {l + 1}) = Append(Kept(q, SeenAt(q)), e)
  BY <1>2, KeptAppend DEF r, l
<1>6. QED
  BY <1>3, <1>4, <1>5 DEF SeenEvents, r

LEMMA SeenTail ==
    ASSUME NEW q \in Seq(Events), q # <<>>
    PROVE  /\ q[1].what \notin Seen => SeenEvents(Tail(q)) = SeenEvents(q)
           /\ q[1].what \in Seen => /\ SeenEvents(q) # <<>>
                                    /\ Head(SeenEvents(q)) = q[1]
                                    /\ SeenEvents(Tail(q)) = Tail(SeenEvents(q))
<1> DEFINE I == SeenAt(q)
           t == Tail(q)
           l == Len(q)
<1>1. /\ l \in Nat /\ l > 0 /\ DOMAIN q = 1 .. l /\ DOMAIN t = 1 .. l - 1
      /\ \A i \in 1 .. l - 1 : t[i] = q[i + 1]
      /\ Head(q) = q[1]
  OBVIOUS
<1>2. I \in SUBSET (1 .. Len(q))
  BY DEF SeenAt
<1> HIDE DEF t, l
<1>3. SeenAt(t) = {i \in 1 .. l - 1 : i + 1 \in I}
  <2>1. \A i \in 1 .. l - 1 : i \in SeenAt(t) <=> i + 1 \in I
    BY <1>1 DEF SeenAt
  <2>2. SeenAt(t) \subseteq 1 .. l - 1
    BY <1>1 DEF SeenAt
  <2>3. QED
    BY <2>1, <2>2
<1>4. 1 \in I <=> q[1].what \in Seen
  BY <1>1 DEF SeenAt
<1> HIDE DEF I
<1>5. /\ 1 \notin I => Kept(q, I) = Kept(t, SeenAt(t))
      /\ 1 \in I => /\ Kept(q, I) # <<>>
                    /\ Head(Kept(q, I)) = Head(q)
                    /\ Tail(Kept(q, I)) = Kept(t, SeenAt(t))
  <2> DEFINE J == {i \in 1 .. Len(q) - 1 : i + 1 \in I}
  <2>1. /\ 1 \notin I => Kept(q, I) = Kept(Tail(q), J)
        /\ 1 \in I => /\ Kept(q, I) # <<>>
                      /\ Head(Kept(q, I)) = Head(q)
                      /\ Tail(Kept(q, I)) = Kept(Tail(q), J)
    BY <1>2, KeptTail
  <2>2. SeenAt(t) = J
    BY <1>3 DEF l
  <2> HIDE DEF J
  <2>3. QED
    BY <2>1, <2>2 DEF t
<1>6. QED
  BY <1>1, <1>4, <1>5 DEF SeenEvents, I, t

-----------------------------------------------------------------------------
\* The table implements TaskView.

Views(S, E) == [i \in 1 .. Len(E) |-> ViewFrom(S, E, i)]

\* The tasks with a row.
WithRow(rs) == NamesIn(rs) \cap Tasks

ShowsInv ==
    /\ TextInv
    /\ connected => ViewFrom(WithRow(rows), SeenEvents(queue), Len(SeenEvents(queue))) = tasks

Mapping == Shown = WithRow(rows) /\ Coming = Views(WithRow(rows), SeenEvents(queue))

LEMMA Mapped == Mapping
<1>1. Shown = WithRow(rows)
  BY DEF Shown, WithRow, NamesIn
<1>2. ViewEvents = SeenEvents(queue)
  BY DEF ViewEvents, SeenEvents, SeenAt, Seen
<1>3. \A E, i : ViewAfter(E, i) = ViewFrom(WithRow(rows), E, i)
  BY <1>1 DEF ViewAfter, ViewFrom
<1>4. QED
  BY <1>1, <1>2, <1>3 DEF Mapping, Coming, Views

LEMMA MappedNext == Mapping'
BY Mapped, PTL

\* One event more: one set more is coming.
LEMMA ViewsAppend ==
    ASSUME NEW S, NEW T, NEW E \in Seq(T), NEW e \in T
    PROVE  LET v == After(ViewFrom(S, E, Len(E)), e)
           IN  /\ Views(S, Append(E, e)) = Append(Views(S, E), v)
               /\ ViewFrom(S, Append(E, e), Len(Append(E, e))) = v
<1> DEFINE F == Append(E, e)
           l == Len(E)
           v == After(ViewFrom(S, E, l), e)
<1>1. /\ l \in Nat /\ Len(F) = l + 1
      /\ \A i \in 1 .. l : F[i] = E[i]
      /\ F[l + 1] = e
  OBVIOUS
<1> HIDE DEF F, l
<1>2. \A i \in 0 .. l : ViewFrom(S, F, i) = ViewFrom(S, E, i)
  <2>1. \A i \in 0 .. l : i \in Nat /\ \A k \in 1 .. i : F[k] = E[k]
    BY <1>1
  <2>2. QED
    BY <2>1, ViewLocal
<1>3. ViewFrom(S, F, l + 1) = v
  <2>1. l + 1 \in Nat \ {0} /\ (l + 1) - 1 = l /\ l \in 0 .. l
    BY <1>1
  <2>2. ViewFrom(S, F, l + 1) = After(ViewFrom(S, F, (l + 1) - 1), F[l + 1])
    BY <2>1, ViewOneMore
  <2>3. QED
    BY <1>1, <1>2, <2>1, <2>2
<1> HIDE DEF v
<1>4. Views(S, F) = Append(Views(S, E), v)
  <2> DEFINE W == Views(S, E)
             U == {ViewFrom(S, E, i) : i \in 1 .. l} \cup {v}
  <2>1. W \in [1 .. l -> U] /\ v \in U
    BY DEF Views, l
  <2>2. \A i \in 1 .. l : W[i] = ViewFrom(S, E, i)
    BY DEF Views, l
  <2>3. Views(S, F) = [i \in 1 .. l + 1 |-> ViewFrom(S, F, i)]
    BY <1>1 DEF Views
  <2>4. \A i \in 1 .. l : ViewFrom(S, E, i) \in U
    OBVIOUS
  <2> HIDE DEF W, U
  <2>5. W \in Seq(U) /\ Len(W) = l
    BY <1>1, <2>1
  <2>6. /\ Append(W, v) \in Seq(U)
        /\ Len(Append(W, v)) = l + 1
        /\ \A i \in 1 .. l : Append(W, v)[i] = W[i]
        /\ Append(W, v)[l + 1] = v
    BY <1>1, <2>1, <2>5
  <2>7. \A i \in 1 .. l + 1 : ViewFrom(S, F, i) = Append(W, v)[i]
    <3>1. \A i \in 1 .. l : ViewFrom(S, F, i) = W[i]
      BY <1>1, <1>2, <2>2
    <3>2. \A i \in 1 .. l + 1 : i \in 1 .. l \/ i = l + 1
      BY <1>1
    <3>3. QED
      BY <1>3, <2>6, <3>1, <3>2
  <2>8. Views(S, F) \in Seq(U) /\ Len(Views(S, F)) = l + 1
    <3>1. \A i \in 1 .. l + 1 : ViewFrom(S, F, i) \in U
      <4>1. \A i \in 1 .. l + 1 : Append(W, v)[i] \in U
        BY <1>1, <2>6
      <4>2. QED
        BY <2>7, <4>1
    <3>2. Views(S, F) \in [1 .. l + 1 -> U]
      BY <2>3, <3>1
    <3>3. QED
      BY <1>1, <3>2
  <2>9. \A i \in 1 .. l + 1 : Views(S, F)[i] = Append(W, v)[i]
    BY <2>3, <2>7
  <2>10. QED
    BY <2>6, <2>8, <2>9, SeqEqual DEF W
<1>5. QED
  BY <1>1, <1>3, <1>4 DEF F, v, l

\* The first event handled: its set is shown.
LEMMA ViewsTail ==
    ASSUME NEW S, NEW T, NEW E \in Seq(T), E # <<>>
    PROVE  LET R == ViewFrom(S, E, 1)
           IN  /\ Views(S, E) # <<>>
               /\ Head(Views(S, E)) = R
               /\ Tail(Views(S, E)) = Views(R, Tail(E))
               /\ ViewFrom(R, Tail(E), Len(Tail(E))) = ViewFrom(S, E, Len(E))
<1> DEFINE R == ViewFrom(S, E, 1)
           l == Len(E)
           t == Tail(E)
           W == Views(S, E)
           U == {ViewFrom(S, E, i) : i \in 1 .. l}
<1>1. l \in Nat /\ l > 0 /\ Len(t) = l - 1
  OBVIOUS
<1>2. \A i \in 0 .. l - 1 : ViewFrom(R, t, i) = ViewFrom(S, E, i + 1)
  BY ViewShift
<1>3. W \in [1 .. l -> U] /\ \A i \in 1 .. l : W[i] = ViewFrom(S, E, i)
  BY DEF Views
<1>4. Views(R, t) = [i \in 1 .. Len(t) |-> ViewFrom(R, t, i)]
  BY DEF Views
<1> HIDE DEF R, l, t, W, U
<1>5. W \in Seq(U) /\ Len(W) = l
  BY <1>1, <1>3
<1>6. /\ W # <<>> /\ Head(W) = W[1]
      /\ Tail(W) \in Seq(U) /\ Len(Tail(W)) = l - 1
      /\ \A i \in 1 .. l - 1 : Tail(W)[i] = W[i + 1]
  BY <1>1, <1>5
<1>7. W[1] = R
  <2>1. 1 \in 1 .. l
    BY <1>1
  <2>2. QED
    BY <1>3, <2>1 DEF R
<1>8. \A i \in 1 .. l - 1 : W[i + 1] = ViewFrom(R, t, i)
  <2>1. \A i \in 1 .. l - 1 : i + 1 \in 1 .. l /\ i \in 0 .. l - 1
    BY <1>1
  <2>2. QED
    BY <1>2, <1>3, <2>1
<1>9. Tail(W) = Views(R, t)
  <2>1. \A i \in 1 .. l - 1 : Views(R, t)[i] = Tail(W)[i]
    BY <1>1, <1>4, <1>6, <1>8
  <2>2. \A i \in 1 .. l - 1 : Tail(W)[i] \in U
    BY <1>1, <1>6
  <2>3. Views(R, t) \in [1 .. l - 1 -> U]
    BY <1>1, <1>4, <1>6, <1>8, <2>2
  <2>4. Views(R, t) \in Seq(U) /\ Len(Views(R, t)) = l - 1
    BY <1>1, <2>3
  <2>5. QED
    BY <1>6, <2>1, <2>4, SeqEqual
<1>10. ViewFrom(R, t, l - 1) = ViewFrom(S, E, l)
  <2>1. l - 1 \in 0 .. l - 1 /\ (l - 1) + 1 = l
    BY <1>1
  <2>2. QED
    BY <1>2, <2>1
<1>11. QED
  BY <1>1, <1>6, <1>7, <1>9, <1>10 DEF R, W, t, l

LEMMA NothingSeen == SeenEvents(<<>>) = <<>>
<1>1. <<>> \in Seq(Events) /\ Len(<<>>) = 0
  OBVIOUS
<1>2. PICK pos : /\ Lists(pos, SeenAt(<<>>) \cap (1 .. Len(<<>>)))
                 /\ Kept(<<>>, SeenAt(<<>>)) = At(<<>>, pos)
  BY <1>1, KeptLists
<1>3. Len(pos) = 0
  BY <1>1, <1>2 DEF Lists
<1>4. At(<<>>, pos) = <<>>
  BY <1>3 DEF At
<1>5. QED
  BY <1>2, <1>4 DEF SeenEvents

LEMMA ShowsAtFirst == ASSUME PlaceholdersApart PROVE Init => ShowsInv /\ View!Init
<1> SUFFICES ASSUME Init PROVE ShowsInv /\ View!Init
  OBVIOUS
<1>1. TextInv
  BY TextAtFirst
<1>2. connected = FALSE /\ queue = <<>> /\ tasks \in SUBSET Tasks
  BY DEF Init
<1>3. WithRow(rows) = {}
  BY <1>1, <1>2 DEF TextInv, OnceInv, WithRow
<1>4. SeenEvents(queue) = <<>>
  BY <1>2, NothingSeen
<1>5. Views(WithRow(rows), SeenEvents(queue)) = <<>>
  BY <1>4 DEF Views
<1>6. Shown = {} /\ Coming = <<>>
  BY <1>3, <1>5, Mapped DEF Mapping
<1>7. QED
  BY <1>1, <1>2, <1>6 DEF ShowsInv, View!Init

\* What a step of the service posts, seen from the table.
LEMMA ShowsService ==
    ASSUME ShowsInv, TextInv', Service
    PROVE  ShowsInv' /\ (View!Next \/ UNCHANGED View!viewVars)
<1> DEFINE W == WithRow(rows)
           E == SeenEvents(queue)
           F == SeenEvents(queue')
<1>1. /\ Typed /\ queue \in Seq(Events) /\ tasks \in SUBSET Tasks
      /\ ~connected => queue = <<>> /\ NamesIn(rows) \cap Tasks = {}
      /\ connected => ViewFrom(W, E, Len(E)) = tasks
  BY DEF ShowsInv, TextInv, OnceInv, SortedInv, Typed
<1>2. rows' = rows /\ WithRow(rows') = W
  BY DEF Service, Connect, AddTask, RemoveTask, ReportProgress
<1>3. Shown = W /\ Shown' = W
  BY <1>2, Mapped, MappedNext DEF Mapping
<1>4. Coming = Views(W, E) /\ Coming' = Views(W, F)
  BY <1>2, Mapped, MappedNext DEF Mapping
<1>5. E \in Seq(Events)
  BY <1>1, KeptIsSeq DEF SeenEvents
<1> HIDE DEF W, E, F
<1>6. ASSUME connected' => ViewFrom(W, F, Len(F)) = tasks' PROVE ShowsInv'
  BY <1>2, <1>6 DEF ShowsInv, F
<1>7. CASE Connect
  <2>1. PICK s \in SetToSeqs(tasks) : queue' = Append(queue, Event("fetched", s, 0))
    BY <1>7 DEF Connect
  <2> DEFINE e == Event("fetched", s, 0)
  <2>2. e \in Events /\ e.what = "fetched" /\ ToSet(e.names) = tasks
    BY <1>1, EventOfAll DEF Event
  <2> HIDE DEF e
  <2>3. ~connected /\ connected' /\ tasks' = tasks /\ queue' = Append(queue, e)
    BY <1>7, <2>1 DEF Connect, e
  <2>4. W = {} /\ E = <<>>
    <3>1. W = {} /\ queue = <<>>
      BY <1>1, <2>3 DEF W, WithRow
    <3>2. E = SeenEvents(<<>>)
      BY <3>1 DEF E
    <3>3. QED
      BY <3>1, <3>2, NothingSeen
  <2>5. F = Append(E, e)
    BY <1>1, <2>2, <2>3, SeenAppend DEF E, F, Seen
  <2>6. After(ViewFrom(W, E, Len(E)), e) = tasks
    <3>1. ViewFrom(W, E, Len(E)) = {}
      BY <2>4, ViewNone
    <3>2. QED
      BY <1>1, <2>2, <3>1 DEF After
  <2>7. Views(W, F) = Append(Views(W, E), tasks) /\ ViewFrom(W, F, Len(F)) = tasks
    BY <1>5, <2>2, <2>5, <2>6, ViewsAppend
  <2>8. Views(W, E) = <<>>
    BY <2>4 DEF Views
  <2>9. Coming' = <<tasks>>
    BY <1>4, <2>7, <2>8
  <2>10. View!Connect
    BY <1>3, <2>3, <2>9 DEF View!Connect
  <2>11. QED
    BY <1>6, <2>3, <2>7, <2>10 DEF View!Next
<1>8. CASE ~connected /\ ~Connect
  <2>1. connected' = connected /\ queue' = queue
    BY <1>8 DEF Service, AddTask, RemoveTask, ReportProgress, Post
  <2>2. Coming' = Coming
    BY <1>4, <2>1 DEF E, F
  <2>3. tasks' = tasks \/ \E t \in Tasks : tasks' \in {tasks \cup {t}, tasks \ {t}} \ {tasks}
    BY <1>8 DEF Service, AddTask, RemoveTask, ReportProgress
  <2>4. View!Change \/ UNCHANGED View!viewVars
    BY <1>3, <1>8, <2>1, <2>2, <2>3 DEF View!Change, View!viewVars
  <2>5. QED
    BY <1>6, <1>8, <2>1, <2>4 DEF View!Next
<1>9. ASSUME connected, connected', NEW t \in Tasks, NEW e \in Events, e.what \in Seen,
             F = Append(E, e), tasks' \in {tasks \cup {t}, tasks \ {t}} \ {tasks},
             tasks' = After(tasks, e)
      PROVE  ShowsInv' /\ (View!Next \/ UNCHANGED View!viewVars)
  <2>1. ViewFrom(W, E, Len(E)) = tasks
    BY <1>1, <1>9
  <2>2. Views(W, F) = Append(Views(W, E), tasks') /\ ViewFrom(W, F, Len(F)) = tasks'
    BY <1>5, <1>9, <2>1, ViewsAppend
  <2>3. View!Change
    BY <1>3, <1>4, <1>9, <2>2 DEF View!Change
  <2>4. QED
    BY <1>6, <2>2, <2>3 DEF View!Next
<1>10. ASSUME connected, NEW n \in Tasks, AddTask(n)
       PROVE  ShowsInv' /\ (View!Next \/ UNCHANGED View!viewVars)
  <2> DEFINE e == Event("added", <<n>>, 0)
  <2>1. e \in Events /\ e.what = "added" /\ ToSet(e.names) = {n}
    <3>1. e.what = "added" /\ 0 \in {0} \cup Percents
      BY DEF Event
    <3>2. QED
      BY <3>1, EventOfOne
  <2>2. queue' = queue \o <<e>> /\ connected' /\ n \notin tasks /\ tasks' = tasks \cup {n}
    BY <1>10 DEF AddTask, Post
  <2> HIDE DEF e
  <2>3. queue' = Append(queue, e)
    BY <1>1, <2>1, <2>2
  <2>4. F = Append(E, e) /\ e.what \in Seen
    BY <1>1, <2>1, <2>3, SeenAppend DEF E, F, Seen
  <2>5. tasks' = After(tasks, e)
    BY <2>1, <2>2 DEF After
  <2>6. tasks' \in {tasks \cup {n}, tasks \ {n}} \ {tasks}
    BY <2>2
  <2>7. QED
    BY <1>9, <1>10, <2>1, <2>2, <2>4, <2>5, <2>6
<1>11. ASSUME connected, NEW n \in Tasks, RemoveTask(n)
       PROVE  ShowsInv' /\ (View!Next \/ UNCHANGED View!viewVars)
  <2> DEFINE f == Event("forgotten", <<n>>, 0)
             e == Event("deleted", <<n>>, 0)
             q == Append(queue, f)
  <2>1. /\ e \in Events /\ e.what = "deleted" /\ ToSet(e.names) = {n}
        /\ f \in Events /\ f.what = "forgotten"
    <3>1. e.what = "deleted" /\ f.what = "forgotten" /\ 0 \in {0} \cup Percents
      BY DEF Event
    <3>2. QED
      BY <3>1, EventOfOne
  <2>2. queue' = queue \o <<f, e>> /\ connected' /\ n \in tasks /\ tasks' = tasks \ {n}
    BY <1>11 DEF RemoveTask, RemovalEvents, Post
  <2> HIDE DEF e, f
  <2>3. q \in Seq(Events) /\ queue' = Append(q, e)
    BY <1>1, <2>1, <2>2
  <2>4. SeenEvents(q) = E
    BY <1>1, <2>1, SeenAppend DEF E, Seen
  <2> HIDE DEF q
  <2>5. F = Append(E, e) /\ e.what \in Seen
    BY <2>1, <2>3, <2>4, SeenAppend DEF F, Seen
  <2>6. tasks' = After(tasks, e)
    BY <2>1, <2>2 DEF After
  <2>7. tasks' \in {tasks \cup {n}, tasks \ {n}} \ {tasks}
    BY <2>2
  <2>8. QED
    BY <1>9, <1>11, <2>1, <2>2, <2>5, <2>6, <2>7
<1>12. ASSUME connected, NEW n \in Tasks, NEW val \in Percents, ReportProgress(n, val)
       PROVE  ShowsInv' /\ (View!Next \/ UNCHANGED View!viewVars)
  <2> DEFINE e == Event("progress", <<n>>, val)
  <2>1. e \in Events /\ e.what = "progress"
    <3>1. e.what = "progress" /\ val \in {0} \cup Percents
      BY DEF Event
    <3>2. QED
      BY <3>1, EventOfOne
  <2>2. queue' = queue \o <<e>> /\ connected' = connected /\ tasks' = tasks
    BY <1>12 DEF ReportProgress, Post
  <2> HIDE DEF e
  <2>3. queue' = Append(queue, e)
    BY <1>1, <2>1, <2>2
  <2>4. F = E
    BY <1>1, <2>1, <2>3, SeenAppend DEF E, F, Seen
  <2>5. UNCHANGED View!viewVars
    BY <1>3, <1>4, <2>2, <2>4 DEF View!viewVars
  <2>6. QED
    BY <1>1, <1>6, <2>2, <2>4, <2>5
<1>13. QED
  BY <1>7, <1>8, <1>10, <1>11, <1>12 DEF Service

LEMMA ShowsGui ==
    ASSUME NamesApart, ShowsInv, TextInv', Gui
    PROVE  ShowsInv' /\ (View!Next \/ UNCHANGED View!viewVars)
<1> DEFINE W == WithRow(rows)
           X == WithRow(rows')
           E == SeenEvents(queue)
           F == SeenEvents(queue')
<1>1. /\ Typed /\ queue \in Seq(Events)
      /\ connected => ViewFrom(W, E, Len(E)) = tasks
  BY DEF ShowsInv, TextInv, OnceInv, SortedInv, Typed
<1>2. /\ queue # <<>> /\ queue' = Tail(queue)
      /\ connected' = connected /\ tasks' = tasks
  BY DEF Gui, ModulesFetched, ModuleAdded, Forget, ModuleDeleted, ModifyCompletion, Take, serviceVars
<1>3. \A n \in Tasks : n \in NamesIn(rows') <=>
               Adds(rows, queue, 1, n) \/ (n \in NamesIn(rows) /\ ~Deletes(queue, 1, n))
  BY GuiNames DEF ShowsInv
<1>4. Shown = W /\ Shown' = X /\ Coming = Views(W, E) /\ Coming' = Views(X, F)
  BY Mapped, MappedNext DEF Mapping
<1>5. E \in Seq(Events)
  BY <1>1, KeptIsSeq DEF SeenEvents
<1>6. /\ queue[1].what \notin Seen => F = E
      /\ queue[1].what \in Seen => E # <<>> /\ Head(E) = queue[1] /\ F = Tail(E)
  BY <1>1, <1>2, SeenTail DEF E, F
<1>7. W \subseteq Tasks /\ X \subseteq Tasks
  BY DEF WithRow
<1>8. \A n \in Tasks : n \in X <=> Adds(rows, queue, 1, n) \/ (n \in W /\ ~Deletes(queue, 1, n))
  BY <1>3 DEF WithRow
<1> HIDE DEF W, X, E, F
<1>9. ASSUME connected => ViewFrom(X, F, Len(F)) = tasks PROVE ShowsInv'
  BY <1>2, <1>9 DEF ShowsInv, X, F
<1>10. CASE queue[1].what \notin Seen
  <2>1. \A n \in Tasks : ~Adds(rows, queue, 1, n) /\ ~Deletes(queue, 1, n)
    BY <1>10 DEF Adds, Deletes, Seen
  <2>2. X = W
    BY <1>7, <1>8, <2>1
  <2>3. F = E
    BY <1>6, <1>10
  <2>4. UNCHANGED View!viewVars
    BY <1>2, <1>4, <2>2, <2>3 DEF View!viewVars
  <2>5. QED
    BY <1>1, <1>9, <2>2, <2>3, <2>4
<1>11. CASE queue[1].what \in Seen
  <2> DEFINE e == queue[1]
  <2>1. E # <<>> /\ Head(E) = e /\ F = Tail(E) /\ E[1] = e
    BY <1>5, <1>6, <1>11
  <2>2. /\ \A n \in Tasks : Adds(rows, queue, 1, n) <=> e.what # "deleted" /\ n \in ToSet(e.names)
        /\ \A n \in Tasks : Deletes(queue, 1, n) <=> e.what = "deleted" /\ n \in ToSet(e.names)
    BY <1>11 DEF Adds, Deletes, Seen
  <2> HIDE DEF e
  <2>3. X = After(W, e)
    <3>1. CASE e.what = "deleted"
      <4>1. \A n \in Tasks : n \in X <=> n \in W /\ n \notin ToSet(e.names)
        BY <1>8, <2>2, <3>1
      <4>2. QED
        BY <1>7, <3>1, <4>1 DEF After
    <3>2. CASE e.what # "deleted"
      <4>1. \A n \in Tasks : n \in X <=> n \in W \/ n \in ToSet(e.names)
        BY <1>8, <2>2, <3>2
      <4>2. QED
        BY <1>7, <3>2, <4>1 DEF After
    <3>3. QED
      BY <3>1, <3>2
  <2>4. ViewFrom(W, E, 1) = X
    <3>1. ViewFrom(W, E, 1) = After(ViewFrom(W, E, 1 - 1), E[1])
      BY ViewOneMore
    <3>2. ViewFrom(W, E, 0) = W /\ 1 - 1 = 0
      BY <1>7, ViewNone
    <3>3. QED
      BY <2>1, <2>3, <3>1, <3>2
  <2>5. /\ Views(W, E) # <<>>
        /\ Head(Views(W, E)) = X
        /\ Tail(Views(W, E)) = Views(X, F)
        /\ ViewFrom(X, F, Len(F)) = ViewFrom(W, E, Len(E))
    BY <1>5, <2>1, <2>4, ViewsTail
  <2>6. View!Show
    BY <1>2, <1>4, <2>5 DEF View!Show
  <2>7. QED
    BY <1>1, <1>9, <2>5, <2>6 DEF View!Next
<1>12. QED
  BY <1>10, <1>11

LEMMA ShowsStep ==
    ASSUME TextOnly, NamesApart
    PROVE  ShowsInv /\ [Next]_vars => ShowsInv' /\ [View!Next]_View!viewVars
<1> SUFFICES ASSUME ShowsInv, [Next]_vars PROVE ShowsInv' /\ (View!Next \/ UNCHANGED View!viewVars)
  OBVIOUS
<1>1. TextInv'
  BY TextStep DEF ShowsInv
<1>2. CASE Service
  BY <1>1, <1>2, ShowsService
<1>3. CASE Gui
  BY <1>1, <1>3, ShowsGui
<1>4. ASSUME NamesIn(rows') = NamesIn(rows), queue' = queue, connected' = connected, tasks' = tasks
      PROVE  ShowsInv' /\ (View!Next \/ UNCHANGED View!viewVars)
  <2>1. WithRow(rows') = WithRow(rows)
    BY <1>4 DEF WithRow
  <2>2. Shown' = Shown /\ Coming' = Coming
    BY <1>4, <2>1, Mapped, MappedNext DEF Mapping
  <2>3. QED
    BY <1>1, <1>4, <2>1, <2>2 DEF ShowsInv, View!viewVars
<1>5. CASE \E col \in Clickable : ReverseSort(col)
  <2>1. PICK col \in Clickable : ReverseSort(col)
    BY <1>5
  <2>2. /\ rows' \in Sorted(rows, col, ascending') /\ rows \in Seq(Row)
        /\ queue' = queue /\ connected' = connected /\ tasks' = tasks
    BY <2>1 DEF ReverseSort, ShowsInv, TextInv, OnceInv, SortedInv, Typed, serviceVars
  <2>3. NamesIn(rows') = NamesIn(rows)
    BY <2>2, SortedKeeps
  <2>4. QED
    BY <1>4, <2>2, <2>3
<1>6. CASE UNCHANGED vars
  BY <1>4, <1>6 DEF vars, serviceVars
<1>7. QED
  BY <1>2, <1>3, <1>5, <1>6 DEF Next

\* Sorted by text and with names apart, the table goes through the sets of tasks of the
\* service, in order, skipping none (ImplementsView): onModulesFetched, addModule and
\* deleteModule make of the rows what the command was sent for.
THEOREM TableFollows ==
    ASSUME PlaceholdersApart, TextOnly, NamesApart
    PROVE  Spec => ImplementsView
<1>1. Init => ShowsInv /\ View!Init
  BY ShowsAtFirst
<1>2. ShowsInv /\ [Next]_vars => ShowsInv' /\ [View!Next]_View!viewVars
  BY ShowsStep
<1>3. QED
  BY <1>1, <1>2, PTL DEF Spec, ImplementsView, View!Spec

\* "gets all the sync tasks and displays them" (README.md:18): with no event left every
\* task has a row (AllTasksShown) and no row is another task's, as long as nobody sorts
\* by progress and no names meet.
THEOREM NoTaskMissing ==
    ASSUME PlaceholdersApart, TextOnly, NamesApart
    PROVE  Spec => [](connected /\ queue = <<>> => Shown = tasks) /\ []AllTasksShown
<1>1. Init => ShowsInv
  BY ShowsAtFirst
<1>2. ShowsInv /\ [Next]_vars => ShowsInv'
  BY ShowsStep
<1>3. ShowsInv => (connected /\ queue = <<>> => Shown = tasks)
  <2> SUFFICES ASSUME ShowsInv, connected, queue = <<>> PROVE Shown = tasks
    OBVIOUS
  <2>1. SeenEvents(queue) = <<>>
    BY NothingSeen
  <2>2. ViewFrom(WithRow(rows), <<>>, 0) = tasks
    BY <2>1 DEF ShowsInv
  <2>3. ViewFrom(WithRow(rows), <<>>, 0) = WithRow(rows)
    BY ViewNone DEF WithRow
  <2>4. QED
    BY <2>2, <2>3, Mapped DEF Mapping
<1>4. (connected /\ queue = <<>> => Shown = tasks) => AllTasksShown
  BY DEF AllTasksShown
<1>5. QED
  BY <1>1, <1>2, <1>3, <1>4, PTL DEF Spec

=============================================================================

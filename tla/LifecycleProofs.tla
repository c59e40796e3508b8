--------------------------- MODULE LifecycleProofs ---------------------------
(***************************************************************************)
(* Proofs about ComponentRegistry and LifecycleOrchestrator for every set  *)
(* of components, registrations and calls: the execution order is          *)
(* topological, the phases follow it, their reports are complete and a     *)
(* failed startup is rolled back.                                          *)
(***************************************************************************)
EXTENDS LifecycleOrchestrator, WellFoundedInduction, FiniteSetTheorems, TLAPS

-----------------------------------------------------------------------------
(***************************************************************************)
(* The loop of _build_execution_order().                                   *)
(***************************************************************************)
\* A non-empty set of naturals has a least member: every induction of this module is
\* the search for a least counterexample.
LEMMA HasLeast ==
    ASSUME NEW S \in SUBSET Nat, S # {}
    PROVE  \E n \in S : \A m \in S : n <= m
  <1> DEFINE Less == {p \in Nat \X Nat : p[1] < p[2]}
  <1>1. IsWellFoundedOn(Less, Nat)
    BY NatLessThanWellFounded DEF OpToRel
  <1>2. PICK n \in S : \A m \in S : ~ (<<m, n>> \in Less)
    BY <1>1, WFMin
  <1>3. \A m \in S : ~ (m < n) /\ m \in Nat /\ n \in Nat
    BY <1>2
  <1> QED BY <1>3

\* The function Turns stands for exists, however many turns the loop takes.
LEMMA TurnsExist ==
    ASSUME NEW N \in Nat
    PROVE  \E f : f = [k \in 0..N |-> IF k = 0 THEN NoTurn ELSE Pop(f[k - 1])]
  <1> DEFINE E(n) == \E f : f = [k \in 0..n |-> IF k = 0 THEN NoTurn ELSE Pop(f[k - 1])]
             Bad == {n \in Nat : ~ E(n)}
  <1>1. SUFFICES ASSUME Bad # {} PROVE FALSE
    OBVIOUS
  <1>2. PICK n \in Bad : \A m \in Bad : n <= m
    <2> HIDE DEF Bad
    <2>1. Bad \in SUBSET Nat
      BY DEF Bad
    <2> QED BY <1>1, <2>1, HasLeast
  <1>3. n # 0
    <2> DEFINE f == [k \in 0..0 |-> NoTurn]
    <2>1. f = [k \in 0..0 |-> IF k = 0 THEN NoTurn ELSE Pop(f[k - 1])]
      OBVIOUS
    <2> QED BY <2>1
  <1>4. n - 1 \in Nat /\ E(n - 1)
    <2>1. n \in Nat /\ n - 1 \in Nat /\ ~ (n <= n - 1)
      BY <1>2, <1>3
    <2>2. n - 1 \notin Bad
      BY <2>1, <1>2
    <2> QED BY <2>1, <2>2
  <1>5. PICK f : f = [k \in 0..(n - 1) |-> IF k = 0 THEN NoTurn ELSE Pop(f[k - 1])]
    BY <1>4
  <1> DEFINE g == [k \in 0..n |-> IF k = n THEN Pop(f[n - 1]) ELSE f[k]]
  <1>6. g = [k \in 0..n |-> IF k = 0 THEN NoTurn ELSE Pop(g[k - 1])]
    <2>1. ASSUME NEW k \in 0..n PROVE g[k] = IF k = 0 THEN NoTurn ELSE Pop(g[k - 1])
      <3>1. CASE k = 0
        BY <3>1, <1>2, <1>3, <1>5
      <3>2. CASE k = n
        <4>1. g[n - 1] = f[n - 1]
          BY <1>2, <1>4
        <4> QED BY <3>2, <1>3, <4>1
      <3>3. CASE k # 0 /\ k # n
        <4>1. g[k - 1] = f[k - 1] /\ g[k] = f[k] /\ k \in 0..(n - 1)
          BY <3>3, <1>2
        <4> QED BY <3>3, <1>5, <4>1
      <3> QED BY <3>1, <3>2, <3>3
    <2> QED BY <2>1
  <1>7. E(n)
    BY <1>6
  <1> QED BY <1>7, <1>2

\* What Turns stands for: a turn pops from what the turn before left.
LEMMA TurnsDef ==
    ASSUME Cardinality(Registered) \in Nat
    PROVE  /\ Turns[0] = NoTurn
           /\ \A k \in 1..Cardinality(Registered) : Turns[k] = Pop(Turns[k - 1])
  <1>1. \E f : f = [k \in 0..Cardinality(Registered) |-> IF k = 0 THEN NoTurn ELSE Pop(f[k - 1])]
    BY TurnsExist
  <1>2. Turns = [k \in 0..Cardinality(Registered) |-> IF k = 0 THEN NoTurn ELSE Pop(Turns[k - 1])]
    BY <1>1 DEF Turns
  <1> HIDE DEF Turns
  <1> QED BY <1>2

-----------------------------------------------------------------------------
RegistryOK == components \in [Names -> Registrations \cup {None}]
Deps(n) == components[n].dependencies

\* There are finitely many registered components, and their records are registrations.
LEMMA RegisteredOK ==
    ASSUME RegistryOK
    PROVE  /\ IsFiniteSet(Registered) /\ Cardinality(Registered) \in Nat
           /\ \A n \in Registered :
                 /\ components[n] \in Registrations
                 /\ components[n].priority \in Int /\ NameOrder[n] \in Int
                 /\ Deps(n) \in SUBSET Names /\ IsFiniteSet(Deps(n))
  <1>1. IsFiniteSet(Registered) /\ Cardinality(Registered) \in Nat
    BY FS_Subset, FS_CardinalityType, ComponentAssumption DEF Registered
  <1>2. ASSUME NEW n \in Registered
        PROVE  /\ components[n] \in Registrations
               /\ components[n].priority \in Int /\ NameOrder[n] \in Int
               /\ Deps(n) \in SUBSET Names
    BY ComponentAssumption DEF RegistryOK, Registered, ComponentRegistration, Deps
  <1>3. ASSUME NEW n \in Registered PROVE IsFiniteSet(Deps(n))
    BY <1>2, FS_Subset, ComponentAssumption
  <1> QED BY <1>1, <1>2, <1>3

\* Precedes is a strict total order.
LEMMA PrecedesOrders ==
    ASSUME RegistryOK, NEW l \in Registered, NEW m \in Registered, NEW n \in Registered
    PROVE  /\ ~ Precedes(n, n)
           /\ Precedes(l, m) /\ Precedes(m, n) => Precedes(l, n)
           /\ m # n => Precedes(m, n) \/ Precedes(n, m)
  <1>1. \A k \in Registered : components[k].priority \in Int /\ NameOrder[k] \in Int /\ k \in Names
    BY RegisteredOK DEF Registered
  <1>2. m # n => NameOrder[m] # NameOrder[n]
    BY <1>1, ComponentAssumption
  <1> QED BY <1>1, <1>2 DEF Precedes

\* Of any components one comes first: the one that fewest others precede.
LEMMA ForemostIsFirst ==
    ASSUME RegistryOK, NEW S \in SUBSET Registered, S # {}
    PROVE  Foremost(S) \in S /\ \A n \in S \ {Foremost(S)} : Precedes(Foremost(S), n)
  <1> DEFINE Sooner(x) == {n \in S : Precedes(n, x)}
             Counts == {Cardinality(Sooner(x)) : x \in S}
  <1>1. ASSUME NEW x \in S PROVE IsFiniteSet(Sooner(x)) /\ Cardinality(Sooner(x)) \in Nat
    <2>1. Sooner(x) \in SUBSET Registered
      OBVIOUS
    <2> HIDE DEF Sooner
    <2> QED BY <2>1, RegisteredOK, FS_Subset, FS_CardinalityType
  <1>2. PICK k \in Counts : \A c \in Counts : k <= c
    <2>1. Counts \in SUBSET Nat /\ Counts # {}
      BY <1>1
    <2> HIDE DEF Counts
    <2> QED BY <2>1, HasLeast
  <1>3. PICK x \in S : k = Cardinality(Sooner(x))
    OBVIOUS
  <1>4. ASSUME NEW y \in S PROVE ~ Precedes(y, x)
    <2>1. SUFFICES ASSUME Precedes(y, x) PROVE FALSE
      OBVIOUS
    <2>2. Sooner(y) \subseteq Sooner(x) /\ y \in Sooner(x) /\ y \notin Sooner(y)
      BY <2>1, PrecedesOrders
    <2>3. Cardinality(Sooner(y)) <= Cardinality(Sooner(x)) /\ Cardinality(Sooner(y)) # Cardinality(Sooner(x))
      <3> HIDE DEF Sooner
      <3> QED BY <1>1, <2>2, FS_Subset
    <2>4. Cardinality(Sooner(x)) <= Cardinality(Sooner(y))
      BY <1>2, <1>3
    <2> HIDE DEF Sooner
    <2> QED BY <1>1, <2>3, <2>4
  <1>5. \E z \in S : \A n \in S \ {z} : Precedes(z, n)
    BY <1>4, PrecedesOrders
  <1> QED BY <1>5 DEF Foremost

Placed(q) == {q[i] : i \in DOMAIN q}

\* Registered components, each at most once.
Distinct(q) ==
    /\ q \in Seq(Registered)
    /\ \A i, j \in DOMAIN q : q[i] = q[j] => i = j

\* Dependencies first, and by priority where dependencies allow it.
Sorted(q) ==
    /\ Distinct(q)
    /\ \A i \in DOMAIN q : Deps(q[i]) \subseteq {q[j] : j \in 1..(i - 1)}
    /\ \A i \in 1..(Len(q) - 1) : Precedes(q[i], q[i + 1]) \/ q[i] \in Deps(q[i + 1])

\* What is true of the loop after any number of turns.
Loop(s) ==
    /\ Sorted(s.order)
    /\ s.degree = [n \in Registered |-> Cardinality(Deps(n) \ Placed(s.order))]
    /\ s.ready = {n \in Registered \ Placed(s.order) : Deps(n) \subseteq Placed(s.order)}
    /\ \A n \in s.ready : Len(s.order) > 0 =>
          Precedes(s.order[Len(s.order)], n) \/ s.order[Len(s.order)] \in Deps(n)

\* The loop starts with nothing placed and the components without dependencies ready.
LEMMA LoopStarts == ASSUME RegistryOK PROVE Loop(NoTurn)
  <1>1. NoTurn.order = << >> /\ NoTurn.degree = InDegree /\ NoTurn.ready = {n \in Registered : InDegree[n] = 0}
    BY DEF NoTurn
  <1>2. Placed(<< >>) = {}
    BY DEF Placed
  <1>3. ASSUME NEW n \in Registered PROVE Deps(n) \ {} = Deps(n) /\ (Cardinality(Deps(n)) = 0 <=> Deps(n) \subseteq {})
    BY RegisteredOK, FS_EmptySet
  <1>4. InDegree = [n \in Registered |-> Cardinality(Deps(n) \ {})]
    BY <1>3 DEF InDegree, Deps
  <1>5. NoTurn.ready = {n \in Registered \ {} : Deps(n) \subseteq {}}
    BY <1>1, <1>3 DEF InDegree, Deps
  <1>6. Sorted(<< >>)
    BY DEF Sorted, Distinct
  <1>7. NoTurn.degree = [n \in Registered |-> Cardinality(Deps(n) \ Placed(NoTurn.order))]
    BY <1>1, <1>2, <1>4
  <1>8. NoTurn.ready = {n \in Registered \ Placed(NoTurn.order) : Deps(n) \subseteq Placed(NoTurn.order)}
    BY <1>1, <1>2, <1>5
  <1>9. Sorted(NoTurn.order) /\ ~ (Len(NoTurn.order) > 0)
    BY <1>1, <1>6
  <1> QED BY <1>7, <1>8, <1>9 DEF Loop

\* Appending a component that is ready.
LEMMA AppendSorted ==
    ASSUME NEW q, Sorted(q), NEW x \in Registered, x \notin Placed(q), Deps(x) \subseteq Placed(q),
           Len(q) > 0 => Precedes(q[Len(q)], x) \/ q[Len(q)] \in Deps(x)
    PROVE  /\ Sorted(Append(q, x))
           /\ Placed(Append(q, x)) = Placed(q) \cup {x}
           /\ Len(Append(q, x)) = Len(q) + 1 /\ Append(q, x)[Len(q) + 1] = x
  <1> DEFINE r == Append(q, x)
  <1>0. q \in Seq(Registered) /\ Len(q) \in Nat /\ DOMAIN q = 1..Len(q)
    BY DEF Sorted, Distinct
  <1>1. /\ r \in Seq(Registered) /\ Len(r) = Len(q) + 1 /\ DOMAIN r = 1..(Len(q) + 1)
        /\ r[Len(q) + 1] = x /\ \A i \in 1..Len(q) : r[i] = q[i]
    BY <1>0
  <1> HIDE DEF r
  <1>2. Placed(r) = Placed(q) \cup {x}
    BY <1>0, <1>1 DEF Placed
  <1>3. \A i, j \in DOMAIN r : r[i] = r[j] => i = j
    BY <1>0, <1>1 DEF Sorted, Distinct, Placed
  <1>4. ASSUME NEW i \in DOMAIN r PROVE Deps(r[i]) \subseteq {r[j] : j \in 1..(i - 1)}
    <2>1. CASE i = Len(q) + 1
      <3>1. {r[j] : j \in 1..(i - 1)} = Placed(q)
        BY <2>1, <1>0, <1>1 DEF Placed
      <3> QED BY <3>1, <2>1, <1>1
    <2>2. CASE i # Len(q) + 1
      <3>1. i \in 1..Len(q) /\ r[i] = q[i] /\ {r[j] : j \in 1..(i - 1)} = {q[j] : j \in 1..(i - 1)}
        BY <2>2, <1>0, <1>1
      <3> QED BY <3>1, <1>0 DEF Sorted, Distinct
    <2> QED BY <2>1, <2>2
  <1>5. ASSUME NEW i \in 1..(Len(r) - 1) PROVE Precedes(r[i], r[i + 1]) \/ r[i] \in Deps(r[i + 1])
    <2>1. CASE i = Len(q)
      <3>1. r[i] = q[Len(q)] /\ r[i + 1] = x /\ Len(q) > 0
        BY <2>1, <1>0, <1>1
      <3> QED BY <3>1
    <2>2. CASE i # Len(q)
      <3>1. i \in 1..(Len(q) - 1) /\ r[i] = q[i] /\ r[i + 1] = q[i + 1]
        BY <2>2, <1>0, <1>1
      <3> QED BY <3>1 DEF Sorted, Distinct
    <2> QED BY <2>1, <2>2
  <1>6. Sorted(r)
    BY <1>1, <1>3, <1>4, <1>5 DEF Sorted, Distinct
  <1> QED BY <1>1, <1>2, <1>6 DEF r

\* A turn of the loop.
LEMMA PopKeeps ==
    ASSUME RegistryOK, NEW s, Loop(s), s.ready # {}
    PROVE  Loop(Pop(s)) /\ Len(Pop(s).order) = Len(s.order) + 1 /\ Len(s.order) \in Nat
  <1> DEFINE x == Foremost(s.ready)
             O == Placed(s.order)
             q == Append(s.order, x)
             near == {n \in Registered : x \in components[n].dependencies}
             deg == [n \in Registered |-> IF n \in near THEN s.degree[n] - 1 ELSE s.degree[n]]
             rdy == (s.ready \ {x}) \cup {n \in near : deg[n] = 0}
  <1>1. Pop(s) = [order |-> q, degree |-> deg, ready |-> rdy]
    BY DEF Pop
  <1>2. Pop(s).order = q /\ Pop(s).degree = deg /\ Pop(s).ready = rdy
    BY <1>1
  <1> HIDE DEF q, deg, rdy
  <1>3. s.ready \in SUBSET Registered
    BY DEF Loop
  <1>4. x \in s.ready /\ \A n \in s.ready \ {x} : Precedes(x, n)
    BY <1>3, ForemostIsFirst
  <1> HIDE DEF x
  <1>5. x \in Registered /\ x \notin O /\ Deps(x) \subseteq O
    BY <1>4 DEF Loop
  <1>6. Len(s.order) > 0 => Precedes(s.order[Len(s.order)], x) \/ s.order[Len(s.order)] \in Deps(x)
    BY <1>4 DEF Loop
  <1>7. Sorted(q) /\ Placed(q) = O \cup {x} /\ Len(q) = Len(s.order) + 1 /\ q[Len(s.order) + 1] = x
        /\ Len(s.order) \in Nat
    <2>1. Sorted(s.order)
      BY DEF Loop
    <2>2. Len(s.order) \in Nat
      BY <2>1 DEF Sorted, Distinct
    <2> QED BY <2>1, <2>2, <1>5, <1>6, AppendSorted DEF q
  <1>8. ASSUME NEW n \in Registered
        PROVE  /\ deg[n] = Cardinality(Deps(n) \ (O \cup {x}))
               /\ deg[n] = 0 <=> Deps(n) \subseteq O \cup {x}
    <2> DEFINE A == Deps(n) \ O
               B == Deps(n) \ (O \cup {x})
    <2>1. IsFiniteSet(A) /\ s.degree[n] = Cardinality(A)
      BY RegisteredOK, FS_Difference DEF Loop
    <2>2. B = A \ {x} /\ (n \in near <=> x \in A)
      BY <1>5 DEF Deps
    <2>3. IsFiniteSet(B) /\ Cardinality(B) = IF x \in A THEN Cardinality(A) - 1 ELSE Cardinality(A)
      <3> HIDE DEF A, B
      <3> QED BY <2>1, <2>2, FS_RemoveElement
    <2>4. deg[n] = Cardinality(B)
      BY <2>1, <2>2, <2>3 DEF deg
    <2>5. Cardinality(B) = 0 <=> B = {}
      <3> HIDE DEF A, B
      <3> QED BY <2>3, FS_EmptySet
    <2> QED BY <2>4, <2>5
  <1>9. deg = [n \in Registered |-> Cardinality(Deps(n) \ (O \cup {x}))]
    <2>1. deg = [n \in Registered |-> deg[n]]
      BY DEF deg
    <2> HIDE DEF deg
    <2> QED BY <2>1, <1>8
  <1>10. ASSUME NEW n \in Registered
         PROVE  n \in rdy <=> n \notin O \cup {x} /\ Deps(n) \subseteq O \cup {x}
    <2>1. n \in s.ready <=> n \notin O /\ Deps(n) \subseteq O
      BY DEF Loop
    <2>2. n \in near <=> x \in Deps(n)
      BY DEF Deps
    <2>3. n \in O => Deps(n) \subseteq O
      <3>1. ASSUME NEW i \in DOMAIN s.order PROVE Deps(s.order[i]) \subseteq O
        <4>1. s.order \in Seq(Registered) /\ DOMAIN s.order = 1..Len(s.order) /\ Len(s.order) \in Nat
          BY DEF Loop, Sorted, Distinct
        <4>2. {s.order[j] : j \in 1..(i - 1)} \subseteq O
          BY <4>1, <3>1 DEF Placed
        <4> QED BY <4>2, <3>1 DEF Loop, Sorted, Distinct
      <3> QED BY <3>1 DEF Placed
    <2>4. n \in rdy <=> (n \in s.ready /\ n # x) \/ (n \in near /\ deg[n] = 0)
      BY DEF rdy
    <2> HIDE DEF O, near
    <2> QED BY <2>1, <2>2, <2>3, <2>4, <1>5, <1>8
  <1>11. rdy = {n \in Registered \ Placed(q) : Deps(n) \subseteq Placed(q)}
    <2>1. rdy \in SUBSET Registered
      BY <1>3 DEF rdy
    <2> QED BY <2>1, <1>7, <1>10
  <1>12. ASSUME NEW n \in rdy PROVE Precedes(q[Len(q)], n) \/ q[Len(q)] \in Deps(n)
    <2>1. n \in s.ready \ {x} \/ x \in Deps(n)
      BY DEF rdy, Deps
    <2>2. q[Len(q)] = x
      BY <1>7
    <2> QED BY <2>1, <2>2, <1>4
  <1>13. deg = [n \in Registered |-> Cardinality(Deps(n) \ Placed(q))]
    BY <1>7, <1>9
  <1>14. Sorted(q) /\ Len(q) = Len(s.order) + 1 /\ Len(s.order) \in Nat
    BY <1>7
  <1> HIDE DEF O, near
  <1> QED BY <1>2, <1>11, <1>12, <1>13, <1>14 DEF Loop

\* Every turn places a component, until none is ready.
LEMMA LoopInvariant ==
    ASSUME RegistryOK, NEW k \in 0..Cardinality(Registered)
    PROVE  Loop(Turns[k]) /\ (Len(Turns[k].order) = k \/ Turns[k].ready = {})
  <1> DEFINE N == Cardinality(Registered)
             Holds(n) == Loop(Turns[n]) /\ (Len(Turns[n].order) = n \/ Turns[n].ready = {})
             Bad == {n \in 0..N : ~ Holds(n)}
  <1>0. N \in Nat
    BY RegisteredOK
  <1>1. /\ Turns[0] = NoTurn
        /\ \A n \in 1..N : Turns[n] = Pop(Turns[n - 1])
    BY <1>0, TurnsDef
  <1>2. SUFFICES ASSUME Bad # {} PROVE FALSE
    OBVIOUS
  <1> HIDE DEF N, Holds
  <1>3. PICK n \in Bad : \A m \in Bad : n <= m
    <2>1. Bad \in SUBSET Nat
      BY <1>0
    <2> HIDE DEF Bad
    <2> QED BY <1>2, <2>1, HasLeast
  <1>4. n # 0
    <2>1. Holds(0)
      BY <1>1, LoopStarts DEF Holds, NoTurn
    <2> QED BY <2>1, <1>3
  <1>5. n \in 1..N /\ n - 1 \in 0..N /\ Holds(n - 1)
    <2>1. n \in 1..N /\ n - 1 \in 0..N /\ ~ (n <= n - 1)
      BY <1>0, <1>3, <1>4
    <2>2. n - 1 \notin Bad
      BY <2>1, <1>3
    <2> QED BY <2>1, <2>2
  <1>6. Turns[n] = Pop(Turns[n - 1])
    BY <1>1, <1>5
  <1>7. CASE Turns[n - 1].ready = {}
    <2>1. Turns[n] = Turns[n - 1]
      BY <1>6, <1>7 DEF Pop
    <2>2. Holds(n)
      BY <1>5, <1>7, <2>1 DEF Holds
    <2> QED BY <2>2, <1>3
  <1>8. CASE Turns[n - 1].ready # {}
    <2>1. Loop(Turns[n - 1]) /\ Len(Turns[n - 1].order) = n - 1
      BY <1>5, <1>8 DEF Holds
    <2>2. Loop(Turns[n]) /\ Len(Turns[n].order) = (n - 1) + 1
      BY <2>1, <1>6, <1>8, PopKeeps
    <2>3. Holds(n)
      BY <2>2, <1>0, <1>3 DEF Holds
    <2> QED BY <2>3, <1>3
  <1> QED BY <1>7, <1>8

\* A list without duplicates is as long as it has components.
LEMMA DistinctLength ==
    ASSUME RegistryOK, NEW q, Distinct(q)
    PROVE  /\ Placed(q) \in SUBSET Registered
           /\ Len(q) = Cardinality(Placed(q))
           /\ Len(q) = Cardinality(Registered) <=> Placed(q) = Registered
  <1>1. q \in Seq(Registered) /\ Len(q) \in Nat /\ DOMAIN q = 1..Len(q) /\ Placed(q) \in SUBSET Registered
    BY DEF Distinct, Placed
  <1>2. q \in Bijection(1..Len(q), Placed(q))
    <2>1. q \in [1..Len(q) -> Placed(q)]
      BY <1>1 DEF Placed
    <2>2. \A i, j \in 1..Len(q) : q[i] = q[j] => i = j
      BY <1>1 DEF Distinct
    <2>3. \A x \in Placed(q) : \E i \in 1..Len(q) : q[i] = x
      BY <1>1 DEF Placed
    <2> QED BY <2>1, <2>2, <2>3 DEF Bijection, Injection, Surjection, IsInjective
  <1>3. IsFiniteSet(1..Len(q)) /\ Cardinality(1..Len(q)) = Len(q)
    BY <1>1, FS_Interval
  <1>4. Len(q) = Cardinality(Placed(q))
    BY <1>2, <1>3, FS_Bijection DEF ExistsBijection
  <1>5. Len(q) = Cardinality(Registered) => Placed(q) = Registered
    BY <1>1, <1>4, RegisteredOK, FS_Subset
  <1> QED BY <1>1, <1>4, <1>5

\* Kahn's loop in the small: what _build_execution_order returns for any registry.
LEMMA OrderOfRegistry == ASSUME RegistryOK PROVE OrderIsTopological
  <1> SUFFICES ASSUME ~ UnknownDependency
               PROVE  /\ CircularDependency <=> \E S \in SUBSET Registered : Knot(S)
                      /\ ~ CircularDependency =>
                          /\ ToSet(ExecutionOrder) = Registered
                          /\ \A n \in Registered, d \in Names :
                                 d \in components[n].dependencies => Before(ExecutionOrder, d, n)
                          /\ \A i \in 1..(Len(ExecutionOrder) - 1) :
                                 LET m == ExecutionOrder[i]
                                     n == ExecutionOrder[i + 1]
                                 IN  Precedes(m, n) \/ m \in components[n].dependencies
    BY DEF OrderIsTopological
  <1> DEFINE N == Cardinality(Registered)
             s == Turns[N]
             q == ExecutionOrder
  <1>1. Loop(s) /\ (Len(q) = N \/ s.ready = {}) /\ q = s.order
    BY RegisteredOK, LoopInvariant DEF ExecutionOrder
  <1>2. Sorted(q) /\ s.ready = {n \in Registered \ Placed(q) : Deps(n) \subseteq Placed(q)}
    BY <1>1 DEF Loop
  <1> HIDE DEF s, q, N
  <1>3. /\ Placed(q) \in SUBSET Registered
        /\ Len(q) = N <=> Placed(q) = Registered
    BY <1>2, DistinctLength DEF N, Sorted
  <1>4. q \in Seq(Registered) /\ Len(q) \in Nat /\ DOMAIN q = 1..Len(q)
    BY <1>2 DEF Sorted, Distinct
  <1>5. CircularDependency <=> Placed(q) # Registered
    BY <1>3 DEF CircularDependency, q, N
  <1>6. ASSUME Placed(q) # Registered PROVE \E S \in SUBSET Registered : Knot(S)
    <2> DEFINE S == Registered \ Placed(q)
    <2>1. s.ready = {}
      BY <1>1, <1>3, <1>6
    <2>2. S # {} /\ S \in SUBSET Registered
      BY <1>3, <1>6
    <2>3. ASSUME NEW n \in S PROVE Deps(n) \cap S # {}
      <3>1. ~ (Deps(n) \subseteq Placed(q)) /\ n \in Registered
        BY <2>1, <1>2
      <3>2. Deps(n) \subseteq Registered
        BY <3>1 DEF UnknownDependency, Deps
      <3> QED BY <3>1, <3>2
    <2>4. Knot(S)
      BY <2>2, <2>3 DEF Knot, Deps
    <2> QED BY <2>2, <2>4
  <1>7. ASSUME NEW S \in SUBSET Registered, Knot(S) PROVE Placed(q) # Registered
    <2>1. SUFFICES ASSUME Placed(q) = Registered PROVE FALSE
      OBVIOUS
    <2> DEFINE I == {i \in DOMAIN q : q[i] \in S}
    <2>2. I \in SUBSET Nat /\ I # {}
      <3>1. PICK n \in S : TRUE
        BY <1>7 DEF Knot
      <3>2. PICK i \in DOMAIN q : q[i] = n
        BY <2>1, <3>1 DEF Placed
      <3> QED BY <3>1, <3>2, <1>4
    <2>3. PICK i \in I : \A j \in I : i <= j
      <3> HIDE DEF I
      <3> QED BY <2>2, HasLeast
    <2>4. PICK d \in S : d \in Deps(q[i])
      BY <2>3, <1>7 DEF Knot, Deps
    <2>5. PICK j \in 1..(i - 1) : d = q[j]
      BY <2>3, <2>4, <1>2 DEF Sorted, Distinct
    <2>6. j \in I /\ ~ (i <= j)
      BY <2>3, <2>4, <2>5, <1>4
    <2> QED BY <2>3, <2>6
  <1>8. ASSUME Placed(q) = Registered, NEW n \in Registered, NEW d \in Deps(n) PROVE Before(q, d, n)
    <2>1. PICK j \in DOMAIN q : q[j] = n
      BY <1>8 DEF Placed
    <2>2. PICK i \in 1..(j - 1) : d = q[i]
      BY <2>1, <1>2, <1>8 DEF Sorted, Distinct
    <2>3. i \in DOMAIN q /\ i < j
      BY <2>1, <2>2, <1>4
    <2> QED BY <2>1, <2>2, <2>3 DEF Before
  <1>9. \A i \in 1..(Len(q) - 1) : Precedes(q[i], q[i + 1]) \/ q[i] \in Deps(q[i + 1])
    BY <1>2 DEF Sorted, Distinct
  <1>10. ToSet(q) = Placed(q)
    BY DEF ToSet, Placed
  <1>11. CircularDependency <=> \E S \in SUBSET Registered : Knot(S)
    BY <1>5, <1>6, <1>7
  <1>12. ASSUME ~ CircularDependency
         PROVE  /\ ToSet(q) = Registered
                /\ \A n \in Registered, d \in Names : d \in Deps(n) => Before(q, d, n)
    BY <1>5, <1>8, <1>10, <1>12
  <1> QED BY <1>9, <1>11, <1>12 DEF q, Deps

-----------------------------------------------------------------------------
(***************************************************************************)
(* The lists a phase goes through.                                         *)
(***************************************************************************)
\* The components that come first, in their order.
Foremosts(q) ==
    /\ Distinct(q)
    /\ \A i, j \in DOMAIN q : i < j => Precedes(q[i], q[j])
    /\ \A i \in DOMAIN q, n \in Registered \ Placed(q) : Precedes(q[i], n)

\* While components are left, the sorted list can take one more of them.
LEMMA FrontGrows ==
    ASSUME RegistryOK, NEW q, Foremosts(q), Placed(q) # Registered
    PROVE  \E r : Foremosts(r) /\ Len(r) = Len(q) + 1
  <1> DEFINE S == Registered \ Placed(q)
             x == Foremost(S)
             r == Append(q, x)
  <1>0. q \in Seq(Registered) /\ Len(q) \in Nat /\ DOMAIN q = 1..Len(q) /\ Placed(q) \subseteq Registered
    BY DEF Foremosts, Distinct, Placed
  <1>1. x \in S /\ \A n \in S \ {x} : Precedes(x, n)
    <2>1. S \in SUBSET Registered /\ S # {}
      BY <1>0
    <2> HIDE DEF S
    <2> QED BY <2>1, ForemostIsFirst
  <1> HIDE DEF x
  <1>2. /\ r \in Seq(Registered) /\ Len(r) = Len(q) + 1 /\ DOMAIN r = 1..(Len(q) + 1)
        /\ r[Len(q) + 1] = x /\ \A i \in 1..Len(q) : r[i] = q[i]
    BY <1>0, <1>1
  <1> HIDE DEF r
  <1>3. Placed(r) = Placed(q) \cup {x}
    BY <1>0, <1>2 DEF Placed
  <1>4. Distinct(r)
    BY <1>0, <1>1, <1>2 DEF Foremosts, Distinct, Placed
  <1>5. ASSUME NEW i \in DOMAIN r, NEW j \in DOMAIN r, i < j PROVE Precedes(r[i], r[j])
    <2>1. i \in 1..Len(q) /\ r[i] = q[i]
      BY <1>0, <1>2, <1>5
    <2>2. CASE j = Len(q) + 1
      BY <2>1, <2>2, <1>0, <1>1, <1>2 DEF Foremosts
    <2>3. CASE j # Len(q) + 1
      BY <2>1, <2>3, <1>0, <1>2, <1>5 DEF Foremosts
    <2> QED BY <2>2, <2>3
  <1>6. ASSUME NEW i \in DOMAIN r, NEW n \in Registered \ Placed(r) PROVE Precedes(r[i], n)
    <2>1. CASE i = Len(q) + 1
      BY <2>1, <1>1, <1>2, <1>3
    <2>2. CASE i # Len(q) + 1
      BY <2>2, <1>0, <1>2, <1>3 DEF Foremosts
    <2> QED BY <2>1, <2>2
  <1> QED BY <1>2, <1>4, <1>5, <1>6 DEF Foremosts

\* Sorting by (priority, name) lists every component once.
LEMMA PriorityOrderOfAll ==
    ASSUME RegistryOK
    PROVE  Distinct(PriorityOrder) /\ Placed(PriorityOrder) = Registered
  <1> DEFINE N == Cardinality(Registered)
             Has(k) == \E q : Foremosts(q) /\ Len(q) = k
             Bad == {k \in 0..N : ~ Has(k)}
  <1>0. N \in Nat
    BY RegisteredOK
  <1>1. Bad = {}
    <2>1. SUFFICES ASSUME Bad # {} PROVE FALSE
      OBVIOUS
    <2>2. PICK k \in Bad : \A m \in Bad : k <= m
      <3>1. Bad \in SUBSET Nat
        BY <1>0
      <3> HIDE DEF Bad
      <3> QED BY <2>1, <3>1, HasLeast
    <2>3. k # 0
      <3>1. Foremosts(<< >>) /\ Len(<< >>) = 0
        BY DEF Foremosts, Distinct
      <3>2. Has(0)
        BY <3>1
      <3> QED BY <3>2, <2>2
    <2>4. k \in 1..N /\ k - 1 \in 0..N /\ ~ (k <= k - 1)
      BY <1>0, <2>2, <2>3
    <2>5. k - 1 \notin Bad
      BY <2>2, <2>4
    <2>6. PICK q : Foremosts(q) /\ Len(q) = k - 1
      BY <2>4, <2>5
    <2>7. Placed(q) # Registered
      <3>1. Distinct(q) /\ Len(q) # Cardinality(Registered)
        BY <2>4, <2>6 DEF Foremosts
      <3> QED BY <3>1, DistinctLength
    <2>8. \E r : Foremosts(r) /\ Len(r) = Len(q) + 1
      BY <2>6, <2>7, FrontGrows
    <2>9. Has(k)
      <3>1. (k - 1) + 1 = k
        BY <2>4
      <3> QED BY <2>6, <2>8, <3>1
    <2> QED BY <2>2, <2>9
  <1>2. PICK q : Foremosts(q) /\ Len(q) = N
    <2>1. N \in 0..N /\ N \notin Bad
      BY <1>0, <1>1
    <2> QED BY <2>1
  <1>3. q \in [1..N -> Registered] /\ \A i, j \in DOMAIN q : i < j => Precedes(q[i], q[j])
    BY <1>2 DEF Foremosts, Distinct
  <1> DEFINE p == PriorityOrder
  <1>4. p \in [1..N -> Registered] /\ \A i, j \in DOMAIN p : i < j => Precedes(p[i], p[j])
    BY <1>3 DEF PriorityOrder
  <1> HIDE DEF p
  <1>5. p \in Seq(Registered) /\ Len(p) = N /\ DOMAIN p = 1..N
    BY <1>0, <1>4
  <1>6. ASSUME NEW i \in DOMAIN p, NEW j \in DOMAIN p, p[i] = p[j] PROVE i = j
    <2>1. p[i] \in Registered /\ p[j] \in Registered /\ i \in Nat /\ j \in Nat
      BY <1>0, <1>4, <1>5
    <2>2. ~ Precedes(p[i], p[j]) /\ ~ Precedes(p[j], p[i])
      BY <1>6, <2>1, PrecedesOrders
    <2>3. ~ (i < j) /\ ~ (j < i)
      BY <2>2, <1>4
    <2> QED BY <2>1, <2>3
  <1>7. Distinct(p)
    BY <1>5, <1>6 DEF Distinct
  <1>8. Placed(p) = Registered
    BY <1>5, <1>7, DistinctLength
  <1> QED BY <1>7, <1>8 DEF p

\* Components are registered under their own names.
Keyed == \A n \in Registered : components[n].name = n

\* q has the enabled ones of the first m names, in their order.
Selects(q, names, m) ==
    /\ q \in Seq(Registrations)
    /\ \E at \in [1..Len(q) -> 1..m] :
          /\ \A i, j \in 1..Len(q) : i < j => at[i] < at[j]
          /\ \A i \in 1..Len(q) : q[i] = components[names[at[i]]] /\ q[i].enabled
    /\ \A j \in 1..m : components[names[j]].enabled => \E i \in 1..Len(q) : q[i] = components[names[j]]

\* The loop over the names takes one name further.
LEMMA SelectsNext ==
    ASSUME RegistryOK, NEW names \in Seq(Registered), NEW m \in Nat, m + 1 <= Len(names),
           NEW q, Selects(q, names, m)
    PROVE  LET r == components[names[m + 1]] IN
           /\ r.enabled => Selects(Append(q, r), names, m + 1)
           /\ ~ r.enabled => Selects(q, names, m + 1)
  <1> DEFINE r == components[names[m + 1]]
  <1>0. q \in Seq(Registrations) /\ Len(q) \in Nat /\ names[m + 1] \in Registered /\ r \in Registrations
    <2>1. m + 1 \in 1..Len(names)
      OBVIOUS
    <2> QED BY <2>1, RegisteredOK DEF Selects
  <1>1. PICK at \in [1..Len(q) -> 1..m] :
          /\ \A i, j \in 1..Len(q) : i < j => at[i] < at[j]
          /\ \A i \in 1..Len(q) : q[i] = components[names[at[i]]] /\ q[i].enabled
    BY DEF Selects
  <1> HIDE DEF r
  <1>2. ASSUME r.enabled PROVE Selects(Append(q, r), names, m + 1)
    <2> DEFINE p == Append(q, r)
               on == [i \in 1..(Len(q) + 1) |-> IF i = Len(q) + 1 THEN m + 1 ELSE at[i]]
    <2>1. /\ p \in Seq(Registrations) /\ Len(p) = Len(q) + 1
          /\ p[Len(q) + 1] = r /\ \A i \in 1..Len(q) : p[i] = q[i]
      BY <1>0
    <2> HIDE DEF p
    <2>2. on \in [1..Len(p) -> 1..(m + 1)]
      BY <2>1, <1>0
    <2>3. ASSUME NEW i \in 1..Len(p), NEW j \in 1..Len(p), i < j PROVE on[i] < on[j]
      <3>0. i \in 1..Len(q) /\ i # Len(q) + 1
        BY <1>0, <2>1, <2>3
      <3>1. i \in 1..Len(q) /\ on[i] = at[i] /\ at[i] \in 1..m
        BY <3>0, <1>0, <2>1
      <3>2. CASE j = Len(q) + 1
        BY <3>1, <3>2, <1>0, <2>1
      <3>3. CASE j # Len(q) + 1
        <4>1. j \in 1..Len(q) /\ on[j] = at[j]
          BY <3>3, <1>0, <2>1
        <4> QED BY <4>1, <3>1, <1>1, <2>3
      <3> QED BY <3>2, <3>3
    <2>4. ASSUME NEW i \in 1..Len(p) PROVE p[i] = components[names[on[i]]] /\ p[i].enabled
      <3>1. CASE i = Len(q) + 1
        BY <3>1, <1>0, <1>2, <2>1 DEF r
      <3>2. CASE i # Len(q) + 1
        <4>1. i \in 1..Len(q) /\ on[i] = at[i] /\ p[i] = q[i]
          BY <3>2, <1>0, <2>1
        <4> QED BY <4>1, <1>1
      <3> QED BY <3>1, <3>2
    <2>5. ASSUME NEW j \in 1..(m + 1), components[names[j]].enabled
          PROVE  \E i \in 1..Len(p) : p[i] = components[names[j]]
      <3>1. CASE j = m + 1
        <4>1. Len(q) + 1 \in 1..Len(p)
          BY <1>0, <2>1
        <4> QED BY <3>1, <4>1, <2>1 DEF r
      <3>2. CASE j # m + 1
        <4>1. PICK i \in 1..Len(q) : q[i] = components[names[j]]
          BY <3>2, <2>5 DEF Selects
        <4>2. i \in 1..Len(p) /\ p[i] = q[i]
          BY <1>0, <2>1
        <4> QED BY <4>1, <4>2
      <3> QED BY <3>1, <3>2
    <2> HIDE DEF on
    <2> QED BY <2>1, <2>2, <2>3, <2>4, <2>5 DEF Selects, p
  <1>3. ASSUME ~ r.enabled PROVE Selects(q, names, m + 1)
    <2>1. at \in [1..Len(q) -> 1..(m + 1)]
      OBVIOUS
    <2>2. ASSUME NEW j \in 1..(m + 1), components[names[j]].enabled
          PROVE  \E i \in 1..Len(q) : q[i] = components[names[j]]
      <3>1. j \in 1..m
        BY <2>2, <1>3 DEF r
      <3> QED BY <3>1, <2>2 DEF Selects
    <2> QED BY <1>0, <1>1, <2>1, <2>2 DEF Selects
  <1> QED BY <1>2, <1>3 DEF r

\* The list of the enabled components.
LEMMA EnabledSelects ==
    ASSUME RegistryOK, NEW names \in Seq(Registered)
    PROVE  Selects(Enabled(names), names, Len(names))
  <1> DEFINE Turn1(f, i) == IF i = 0 THEN << >>
                            ELSE IF components[names[i]].enabled THEN Append(f[i - 1], components[names[i]])
                            ELSE f[i - 1]
             E(n) == \E f : f = [i \in 0..n |-> Turn1(f, i)]
             Bad == {n \in Nat : ~ E(n)}
             upto[i \in 0..Len(names)] ==
                 IF i = 0 THEN << >>
                 ELSE IF components[names[i]].enabled THEN Append(upto[i - 1], components[names[i]])
                 ELSE upto[i - 1]
  <1>0. Len(names) \in Nat
    OBVIOUS
  <1>1. Bad = {}
    <2>1. SUFFICES ASSUME Bad # {} PROVE FALSE
      OBVIOUS
    <2>2. PICK n \in Bad : \A m \in Bad : n <= m
      <3>1. Bad \in SUBSET Nat
        OBVIOUS
      <3> HIDE DEF Bad
      <3> QED BY <2>1, <3>1, HasLeast
    <2>3. n # 0
      <3> DEFINE f == [i \in 0..0 |-> << >>]
      <3>1. f = [i \in 0..0 |-> Turn1(f, i)]
        OBVIOUS
      <3>2. E(0)
        BY <3>1
      <3> QED BY <3>2, <2>2
    <2>4. n \in Nat /\ n - 1 \in Nat /\ ~ (n <= n - 1)
      BY <2>2, <2>3
    <2>5. n - 1 \notin Bad
      BY <2>2, <2>4
    <2>6. PICK f : f = [i \in 0..(n - 1) |-> Turn1(f, i)]
      BY <2>4, <2>5
    <2> DEFINE g == [i \in 0..n |-> IF i = n THEN Turn1(f, n) ELSE f[i]]
    <2>7. ASSUME NEW i \in 0..n PROVE g[i] = Turn1(g, i)
      <3>1. i # 0 => g[i - 1] = f[i - 1]
        BY <2>4
      <3>2. Turn1(g, i) = Turn1(f, i)
        <4> HIDE DEF g
        <4> QED BY <3>1
      <3>3. CASE i = n
        BY <3>2, <3>3, <2>4
      <3>4. CASE i # n
        <4>1. i \in 0..(n - 1) /\ g[i] = f[i]
          BY <3>4, <2>4
        <4>2. f[i] = Turn1(f, i)
          <5> HIDE DEF Turn1
          <5> QED BY <4>1, <2>6
        <4> QED BY <3>2, <4>1, <4>2
      <3> QED BY <3>3, <3>4
    <2>8. g = [i \in 0..n |-> g[i]]
      OBVIOUS
    <2> HIDE DEF g, Turn1
    <2>9. g = [i \in 0..n |-> Turn1(g, i)]
      BY <2>7, <2>8
    <2>10. E(n)
      BY <2>9
    <2> QED BY <2>2, <2>10
  <1>2. upto = [i \in 0..Len(names) |-> Turn1(upto, i)]
    <2>1. E(Len(names))
      BY <1>0, <1>1
    <2> QED BY <2>1
  <1>3. Enabled(names) = upto[Len(names)]
    BY DEF Enabled
  <1> HIDE DEF upto
  <1>4. /\ upto[0] = << >>
        /\ \A i \in 1..Len(names) : upto[i] = IF components[names[i]].enabled
                                              THEN Append(upto[i - 1], components[names[i]]) ELSE upto[i - 1]
    <2>1. \A i \in 0..Len(names) : upto[i] = Turn1(upto, i)
      <3> HIDE DEF Turn1
      <3> QED BY <1>2
    <2>2. 0 \in 0..Len(names) /\ \A i \in 1..Len(names) : i \in 0..Len(names) /\ i # 0
      BY <1>0
    <2>3. upto[0] = Turn1(upto, 0) /\ \A i \in 1..Len(names) : upto[i] = Turn1(upto, i)
      <3> HIDE DEF Turn1
      <3> QED BY <2>1, <2>2
    <2> QED BY <2>2, <2>3
  <1> DEFINE Wrong == {n \in 0..Len(names) : ~ Selects(upto[n], names, n)}
  <1>5. Wrong = {}
    <2>1. SUFFICES ASSUME Wrong # {} PROVE FALSE
      OBVIOUS
    <2>2. PICK n \in Wrong : \A m \in Wrong : n <= m
      <3>1. Wrong \in SUBSET Nat
        OBVIOUS
      <3> HIDE DEF Wrong
      <3> QED BY <2>1, <3>1, HasLeast
    <2>3. Selects(<< >>, names, 0)
      <3>1. Len(<< >>) = 0 /\ 1..0 = {}
        OBVIOUS
      <3>2. [i \in 1..0 |-> 0] \in [1..Len(<< >>) -> 1..0]
        BY <3>1
      <3>3. \E at \in [1..Len(<< >>) -> 1..0] :
              /\ \A i, j \in 1..Len(<< >>) : i < j => at[i] < at[j]
              /\ \A i \in 1..Len(<< >>) : << >>[i] = components[names[at[i]]] /\ << >>[i].enabled
        BY <3>1, <3>2
      <3>4. << >> \in Seq(Registrations)
        OBVIOUS
      <3> QED BY <3>1, <3>3, <3>4 DEF Selects
    <2>4. n # 0
      BY <2>2, <2>3, <1>4
    <2>5. n \in 1..Len(names) /\ n - 1 \in 0..Len(names) /\ n - 1 \in Nat /\ ~ (n <= n - 1) /\ (n - 1) + 1 = n
      BY <2>2, <2>4
    <2>6. Selects(upto[n - 1], names, n - 1)
      BY <2>2, <2>5
    <2>7. PICK k \in Nat : k = n - 1
      BY <2>5
    <2>8. k + 1 = n /\ k + 1 <= Len(names) /\ Selects(upto[k], names, k)
      BY <2>5, <2>6, <2>7
    <2>9. /\ components[names[n]].enabled => Selects(Append(upto[k], components[names[n]]), names, n)
          /\ ~ components[names[n]].enabled => Selects(upto[k], names, n)
      BY <2>8, SelectsNext
    <2>10. Selects(upto[n], names, n)
      BY <2>5, <2>7, <2>9, <1>4
    <2> QED BY <2>2, <2>10
  <1>6. Selects(upto[Len(names)], names, Len(names))
    BY <1>0, <1>5
  <1> QED BY <1>3, <1>6

\* No component of the list waits for a later one, or none for an earlier one.
\* Dependencies are those in the registry R: the present one, or the one a phase has read.
Forward(R, q) == \A i, j \in DOMAIN q : i < j => q[j] \notin R[q[i]].dependencies
Backward(R, q) == \A i, j \in DOMAIN q : i < j => q[i] \notin R[q[j]].dependencies

\* A list of different members of S.
Once(S, q) == q \in Seq(S) /\ \A i, j \in DOMAIN q : q[i] = q[j] => i = j

\* Reversing a list keeps what is on it and turns dependencies-first into
\* dependents-first.
LEMMA ReverseKeeps ==
    ASSUME NEW S, NEW R, NEW q, Once(S, q)
    PROVE  /\ Once(S, Reverse(q)) /\ Placed(Reverse(q)) = Placed(q) /\ Len(Reverse(q)) = Len(q)
           /\ Forward(R, q) => Backward(R, Reverse(q))
  <1> DEFINE r == Reverse(q)
             N == Len(q)
  <1>0. q \in Seq(S) /\ N \in Nat /\ DOMAIN q = 1..N /\ \A i \in 1..N : q[i] \in S
    BY DEF Once
  <1>1. r \in [1..N -> S] /\ \A i \in 1..N : r[i] = q[N - i + 1]
    BY <1>0 DEF Reverse
  <1> HIDE DEF r, N
  <1>2. r \in Seq(S) /\ Len(r) = N /\ DOMAIN r = 1..N
    BY <1>0, <1>1
  <1>3. \A i \in 1..N : N - i + 1 \in 1..N /\ N - (N - i + 1) + 1 = i
    BY <1>0
  <1>4. ASSUME NEW i \in DOMAIN r, NEW j \in DOMAIN r, r[i] = r[j] PROVE i = j
    <2>1. i \in 1..N /\ j \in 1..N /\ q[N - i + 1] = q[N - j + 1]
      BY <1>1, <1>2, <1>4
    <2>2. N - i + 1 = N - j + 1
      BY <2>1, <1>0, <1>3 DEF Once
    <2> QED BY <2>1, <2>2, <1>0
  <1>5. Placed(r) = Placed(q)
    <2>1. ASSUME NEW i \in 1..N PROVE r[i] \in Placed(q)
      BY <1>0, <1>1, <1>3 DEF Placed
    <2>2. ASSUME NEW i \in 1..N PROVE q[i] \in Placed(r)
      <3>1. r[N - i + 1] = q[i]
        BY <1>1, <1>3
      <3> QED BY <3>1, <1>2, <1>3 DEF Placed
    <2> QED BY <2>1, <2>2, <1>0, <1>2 DEF Placed
  <1>6. ASSUME Forward(R, q), NEW i \in DOMAIN r, NEW j \in DOMAIN r, i < j
        PROVE  r[i] \notin R[r[j]].dependencies
    <2>1. i \in 1..N /\ j \in 1..N /\ r[i] = q[N - i + 1] /\ r[j] = q[N - j + 1]
      BY <1>1, <1>2
    <2>2. N - j + 1 < N - i + 1
      BY <2>1, <1>0, <1>6
    <2> QED BY <2>1, <2>2, <1>0, <1>3, <1>6 DEF Forward
  <1> QED BY <1>2, <1>4, <1>5, <1>6 DEF Once, Backward, r, N

\* What the phases need of the execution order.
LEMMA OrderSorted ==
    ASSUME RegistryOK
    PROVE  /\ Once(Registered, ExecutionOrder) /\ Forward(components, ExecutionOrder)
           /\ ~ CircularDependency => Placed(ExecutionOrder) = Registered
  <1> DEFINE q == ExecutionOrder
  <1>1. Sorted(q)
    <2>1. Cardinality(Registered) \in 0..Cardinality(Registered)
      BY RegisteredOK
    <2>2. Loop(Turns[Cardinality(Registered)])
      BY <2>1, LoopInvariant
    <2> QED BY <2>2 DEF ExecutionOrder, Loop
  <1> HIDE DEF q
  <1>2. Distinct(q) /\ q \in Seq(Registered) /\ Len(q) \in Nat /\ DOMAIN q = 1..Len(q)
    BY <1>1 DEF Sorted, Distinct
  <1>3. ASSUME NEW i \in DOMAIN q, NEW j \in DOMAIN q, i < j PROVE q[j] \notin Deps(q[i])
    <2>1. SUFFICES ASSUME q[j] \in Deps(q[i]) PROVE FALSE
      OBVIOUS
    <2>2. PICK k \in 1..(i - 1) : q[j] = q[k]
      BY <2>1, <1>1 DEF Sorted
    <2>3. k \in DOMAIN q /\ k # j
      BY <1>2, <1>3
    <2> QED BY <2>2, <2>3, <1>2 DEF Distinct
  <1>4. ~ CircularDependency => Placed(q) = Registered
    BY <1>2, DistinctLength DEF CircularDependency, q
  <1> QED BY <1>2, <1>3, <1>4 DEF Forward, Once, Distinct, Deps, q

NamesOf(q) == {q[i].name : i \in DOMAIN q}

\* The enabled names of a registry.
EnabledIn(R) == {n \in Names : R[n] # None /\ R[n].enabled}

\* Registrations a phase can go through: enabled, as they are in the registry R, each
\* once, and in the order of the dependencies, which a shutdown of a broken graph lacks.
Route(R, bad, phase, q) ==
    /\ q \in Seq(Registrations)
    /\ \A i \in DOMAIN q : q[i].name \in EnabledIn(R) /\ q[i] = R[q[i].name]
    /\ \A i, j \in DOMAIN q : q[i].name = q[j].name => i = j
    /\ \A i, j \in DOMAIN q : i < j =>
          /\ phase \in Startup => q[j].name \notin q[i].dependencies
          /\ phase \notin Startup /\ ~ bad => q[i].name \notin q[j].dependencies

\* The enabled components of a complete list are a route over all enabled components.
LEMMA SelectionIsRoute ==
    ASSUME RegistryOK, Keyed, NEW phase, NEW names, Once(Registered, names),
           Placed(names) = Registered, NEW bad,
           phase \in Startup => Forward(components, names),
           phase \notin Startup /\ ~ bad => Backward(components, names)
    PROVE  /\ Route(components, bad, phase, Enabled(names))
           /\ NamesOf(Enabled(names)) = EnabledIn(components)
  <1> DEFINE q == Enabled(names)
  <1>0. names \in Seq(Registered) /\ DOMAIN names = 1..Len(names) /\ Len(names) \in Nat
    BY DEF Once
  <1>1. Selects(q, names, Len(names))
    BY <1>0, EnabledSelects
  <1> HIDE DEF q
  <1>2. q \in Seq(Registrations) /\ DOMAIN q = 1..Len(q) /\ Len(q) \in Nat
    BY <1>1 DEF Selects
  <1>3. PICK at \in [1..Len(q) -> 1..Len(names)] :
          /\ \A i, j \in 1..Len(q) : i < j => at[i] < at[j]
          /\ \A i \in 1..Len(q) : q[i] = components[names[at[i]]] /\ q[i].enabled
    BY <1>1 DEF Selects
  <1>4. ASSUME NEW i \in DOMAIN q
        PROVE  /\ at[i] \in DOMAIN names /\ q[i].name = names[at[i]] /\ names[at[i]] \in Registered
               /\ q[i] = components[q[i].name] /\ q[i].name \in EnabledIn(components)
               /\ q[i].dependencies = components[names[at[i]]].dependencies
    <2>1. at[i] \in DOMAIN names /\ names[at[i]] \in Registered /\ q[i] = components[names[at[i]]] /\ q[i].enabled
      BY <1>0, <1>2, <1>3
    <2>2. q[i].name = names[at[i]]
      BY <2>1 DEF Keyed
    <2> QED BY <2>1, <2>2 DEF EnabledIn, Registered
  <1>5. ASSUME NEW i \in DOMAIN q, NEW j \in DOMAIN q, q[i].name = q[j].name PROVE i = j
    <2>1. at[i] = at[j]
      BY <1>4, <1>5 DEF Once
    <2>2. i \in Nat /\ j \in Nat /\ at[i] \in Nat /\ at[j] \in Nat
      BY <1>0, <1>2, <1>4
    <2>3. ~ (i < j) /\ ~ (j < i)
      <3>1. ~ (at[i] < at[j]) /\ ~ (at[j] < at[i])
        BY <2>1, <2>2
      <3> QED BY <3>1, <1>2, <1>3
    <2> QED BY <2>2, <2>3
  <1>6. ASSUME NEW i \in DOMAIN q, NEW j \in DOMAIN q, i < j
        PROVE  /\ phase \in Startup => q[j].name \notin q[i].dependencies
               /\ phase \notin Startup /\ ~ bad => q[i].name \notin q[j].dependencies
    <2>1. at[i] < at[j]
      BY <1>2, <1>3, <1>6
    <2> QED BY <2>1, <1>4 DEF Forward, Backward
  <1>7. ASSUME NEW n \in EnabledIn(components) PROVE n \in NamesOf(q)
    <2>1. PICK k \in 1..Len(names) : names[k] = n
      BY <1>0 DEF EnabledIn, Registered, Placed
    <2>2. PICK i \in 1..Len(q) : q[i] = components[n]
      BY <1>1, <2>1 DEF Selects, EnabledIn
    <2>3. q[i].name = n
      BY <2>2 DEF Keyed, EnabledIn, Registered
    <2> QED BY <2>3, <1>2 DEF NamesOf
  <1>8. NamesOf(q) = EnabledIn(components)
    BY <1>4, <1>7 DEF NamesOf
  <1> QED BY <1>2, <1>4, <1>5, <1>6, <1>8 DEF Route, q

\* What _run_startup_phase and _run_shutdown_phase go through is a route over all
\* enabled components.
LEMMA VisitsRoute ==
    ASSUME RegistryOK, Keyed, NEW phase \in Phases, phase \in Startup => Orderable
    PROVE  /\ Route(components, ~ Orderable, phase, Visits(phase))
           /\ NamesOf(Visits(phase)) = EnabledIn(components)
  <1>1. Once(Registered, ExecutionOrder) /\ Forward(components, ExecutionOrder)
    BY OrderSorted
  <1>2. Orderable => Placed(ExecutionOrder) = Registered
    BY OrderSorted DEF Orderable
  <1>3. CASE phase \in Startup
    BY <1>1, <1>2, <1>3, SelectionIsRoute DEF Visits
  <1>4. CASE phase \notin Startup /\ Orderable
    <2>1. /\ Once(Registered, Reverse(ExecutionOrder)) /\ Placed(Reverse(ExecutionOrder)) = Registered
          /\ Backward(components, Reverse(ExecutionOrder))
      BY <1>1, <1>2, <1>4, ReverseKeeps
    <2> QED BY <1>4, <2>1, SelectionIsRoute DEF Visits
  <1>5. CASE phase \notin Startup /\ ~ Orderable
    <2>1. Once(Registered, PriorityOrder) /\ Placed(PriorityOrder) = Registered
      BY PriorityOrderOfAll DEF Once, Distinct
    <2>2. Once(Registered, Reverse(PriorityOrder)) /\ Placed(Reverse(PriorityOrder)) = Registered
      BY <2>1, ReverseKeeps
    <2> QED BY <1>5, <2>2, SelectionIsRoute DEF Visits
  <1> QED BY <1>3, <1>4, <1>5

-----------------------------------------------------------------------------
(***************************************************************************)
(* The invariant.                                                          *)
(***************************************************************************)
\* A call that goes through its components: what it has done, what has failed and
\* what is ahead are the ones that were enabled when the phase began, each once; a
\* startup phase has not passed over anything that something behind it waits for.  A
\* component that is unregistered and registered again meanwhile is CREATED.
WalkInv(t) ==
    /\ todo[t] # << >> /\ undo[t] = << >>
    /\ Route(seen, broken, op[t], todo[t])
    /\ ToSet(begun[t]) \cup errors[t] \cup NamesOf(todo[t]) = EnabledThen
    /\ Once(Names, begun[t])
    /\ \A i \in DOMAIN begun[t] : begun[t][i] \notin NamesOf(todo[t])
    /\ op[t] \in Startup =>
          /\ Forward(seen, begun[t])
          /\ \A i \in DOMAIN begun[t], n \in NamesOf(todo[t]) : n \notin seen[begun[t][i]].dependencies
          /\ \A n \in errors[t] : ~ seen[n].critical
    /\ health[Current(t)] \in {InProgress[op[t]], "CREATED"}
    /\ pc[t] = "after" /\ op[t] \in Startup => op[t] \in live[Current(t)]

\* Rolled back, or recorded as a component that could not be.
Undone(t, n) == (health[n] = "STOPPED" /\ op[t] \notin live[n]) \/ health[n] = "FAILED"

\* A call that rolls its components back, newest first.
UndoInv(t) ==
    /\ op[t] \in Startup /\ todo[t] = << >> /\ undo[t] # << >>
    /\ \E n \in errors[t] : seen[n].critical
    /\ Once(Names, undo[t]) /\ Backward(seen, undo[t])
    /\ ToSet(begun[t]) \subseteq EnabledThen
    /\ \A n \in ToSet(begun[t]) \ removed : n \in ToSet(undo[t]) \/ Undone(t, n)
    /\ health[Head(undo[t])] \in {"SHUTTING_DOWN", "CREATED"}
    /\ pc[t] = "undo_after" => op[t] \notin live[Head(undo[t])]

CallInv(t) ==
    /\ pc[t] \in {"idle", "returned"} => todo[t] = << >> /\ undo[t] = << >>
    /\ pc[t] \in Hooks => op[t] \in Phases /\ WalkInv(t)
    /\ pc[t] \in Undos => UndoInv(t)

\* What the phase has seen registered is registered, unless it was removed since.
Present == \A n \in Names : seen[n] # None => components[n] # None \/ n \in removed

OneCall == \A t, u \in Calls : Active(t) /\ Active(u) => t = u

LifecycleInv ==
    /\ TypeOK /\ Keyed /\ Present /\ OneCall /\ HealthTruthful
    /\ \A t \in Calls : CallInv(t)

-----------------------------------------------------------------------------
(***************************************************************************)
(* What the steps rest on.                                                 *)
(***************************************************************************)
\* The first component of a route is enabled and none of its dependencies is behind
\* it; what is behind it is a route.
LEMMA TailRoute ==
    ASSUME NEW R, NEW bad, NEW phase, NEW q, Route(R, bad, phase, q), q # << >>
    PROVE  /\ Route(R, bad, phase, Tail(q))
           /\ Head(q) = R[Head(q).name] /\ Head(q).name \in EnabledIn(R)
           /\ NamesOf(q) = {Head(q).name} \cup NamesOf(Tail(q)) /\ Head(q).name \notin NamesOf(Tail(q))
           /\ phase \in Startup => \A n \in NamesOf(Tail(q)) : n \notin R[Head(q).name].dependencies
  <1>0. q \in Seq(Registrations) /\ Len(q) \in Nat /\ DOMAIN q = 1..Len(q) /\ Len(q) > 0
    BY DEF Route
  <1> DEFINE r == Tail(q)
  <1>1. /\ r \in Seq(Registrations) /\ Len(r) = Len(q) - 1 /\ DOMAIN r = 1..(Len(q) - 1)
        /\ \A i \in 1..(Len(q) - 1) : r[i] = q[i + 1] /\ i + 1 \in DOMAIN q
        /\ Head(q) = q[1] /\ 1 \in DOMAIN q
    BY <1>0
  <1> HIDE DEF r
  <1>2. \A i \in DOMAIN r : r[i].name \in EnabledIn(R) /\ r[i] = R[r[i].name]
    <2>1. \A i \in DOMAIN q : q[i].name \in EnabledIn(R) /\ q[i] = R[q[i].name]
      BY DEF Route
    <2> QED BY <1>1, <2>1
  <1>3. ASSUME NEW i \in DOMAIN r, NEW j \in DOMAIN r, r[i].name = r[j].name PROVE i = j
    <2>1. i + 1 = j + 1
      BY <1>1, <1>3 DEF Route
    <2> QED BY <2>1, <1>0, <1>1
  <1>4. ASSUME NEW i \in DOMAIN r, NEW j \in DOMAIN r, i < j
        PROVE  /\ phase \in Startup => r[j].name \notin r[i].dependencies
               /\ phase \notin Startup /\ ~ bad => r[i].name \notin r[j].dependencies
    <2>1. /\ i + 1 < j + 1 /\ i + 1 \in DOMAIN q /\ j + 1 \in DOMAIN q
          /\ r[i] = q[i + 1] /\ r[j] = q[j + 1]
      BY <1>0, <1>1, <1>4
    <2>2. \A a, b \in DOMAIN q : a < b =>
             /\ phase \in Startup => q[b].name \notin q[a].dependencies
             /\ phase \notin Startup /\ ~ bad => q[a].name \notin q[b].dependencies
      BY DEF Route
    <2> HIDE DEF r
    <2> QED BY <2>1, <2>2
  <1>5. Route(R, bad, phase, r)
    BY <1>1, <1>2, <1>3, <1>4 DEF Route
  <1>6. NamesOf(q) = {Head(q).name} \cup NamesOf(r)
    <2>1. ASSUME NEW i \in DOMAIN q PROVE q[i].name \in {Head(q).name} \cup NamesOf(r)
      <3>1. CASE i = 1
        BY <3>1, <1>1
      <3>2. CASE i # 1
        <4>1. i - 1 \in DOMAIN r /\ r[i - 1] = q[i]
          BY <3>2, <1>0, <1>1
        <4> QED BY <4>1 DEF NamesOf
      <3> QED BY <3>1, <3>2
    <2>2. ASSUME NEW i \in DOMAIN r PROVE r[i].name \in NamesOf(q)
      BY <1>1 DEF NamesOf
    <2>3. Head(q).name \in NamesOf(q)
      BY <1>1 DEF NamesOf
    <2> QED BY <2>1, <2>2, <2>3 DEF NamesOf
  <1>7. ASSUME NEW i \in DOMAIN r
        PROVE  /\ r[i].name # Head(q).name
               /\ phase \in Startup => r[i].name \notin R[Head(q).name].dependencies
    <2>1. r[i] = q[i + 1] /\ i + 1 \in DOMAIN q /\ 1 < i + 1 /\ 1 # i + 1
      BY <1>0, <1>1
    <2>2. R[Head(q).name].dependencies = q[1].dependencies
      BY <1>1 DEF Route
    <2> QED BY <2>1, <2>2, <1>1 DEF Route
  <1>8. Head(q) = R[Head(q).name] /\ Head(q).name \in EnabledIn(R)
    BY <1>1 DEF Route
  <1> QED BY <1>5, <1>6, <1>7, <1>8 DEF NamesOf, r

\* h would be a truthful record of health.
Truthful(h) ==
    /\ h \in [Names -> ComponentState \cup {None}]
    /\ \A n \in Names : (h[n] = "RUNNING" => "start" \in live[n]) /\ (h[n] = "BOOTED" => "boot" \in live[n])

\* What a step may say of the call's phase when it ends it.
Accounted(t) ==
    Returns(t) =>
        LET good == ToSet(begun'[t])
            bad == errors'[t]
        IN  IF op'[t] \notin Startup
            THEN good \cup bad = EnabledThen' /\ report'[t] = (bad = {})
            ELSE IF report'[t]
            THEN good \cup bad = EnabledThen' /\ \A n \in bad : ~ seen'[n].critical
            ELSE broken' \/ \E n \in bad : seen'[n].critical

CleanedUp(t) ==
    (Returns(t) /\ op'[t] \in Startup /\ ~ report'[t]) =>
        \A n \in ToSet(begun'[t]) \ removed' :
            \/ health'[n] = "STOPPED" /\ op'[t] \notin live'[n]
            \/ health'[n] = "FAILED"

\* The call goes on to what is ahead, or returns.
LEMMA TurnKeeps ==
    ASSUME TypeOK, NEW t \in Calls, NEW phase \in Phases, NEW rest, NEW h, Truthful(h),
           Turn(t, phase, rest, h), UNCHANGED live,
           NEW R, NEW bad, seen' = R, broken' = bad,
           undo'[t] = << >>, op'[t] = phase, Route(R, bad, phase, rest),
           ToSet(begun'[t]) \cup errors'[t] \cup NamesOf(rest) = EnabledIn(R),
           Once(Names, begun'[t]),
           \A i \in DOMAIN begun'[t] : begun'[t][i] \notin NamesOf(rest),
           phase \in Startup =>
              /\ Forward(R, begun'[t])
              /\ \A i \in DOMAIN begun'[t], n \in NamesOf(rest) : n \notin R[begun'[t][i]].dependencies
              /\ \A n \in errors'[t] : ~ R[n].critical
    PROVE  /\ CallInv(t)' /\ Truthful(health)'
           /\ pc' \in [Calls -> Hooks \cup Undos \cup {"idle", "returned"}]
           /\ todo' \in [Calls -> Seq(Registrations)]
           /\ report' \in [Calls -> BOOLEAN \cup {None}]
           /\ \A u \in Calls \ {t} : pc'[u] = pc[u] /\ todo'[u] = todo[u]
           /\ Accounted(t) /\ CleanedUp(t)
  <1>0. rest \in Seq(Registrations)
    BY DEF Route
  <1>1. /\ todo' \in [Calls -> Seq(Registrations)] /\ todo'[t] = rest
        /\ \A u \in Calls \ {t} : todo'[u] = todo[u]
    BY <1>0 DEF Turn, TypeOK
  <1>2. CASE rest = << >>
    <2>1. pc' = [pc EXCEPT ![t] = "returned"] /\ health' = h
          /\ report' = [report EXCEPT ![t] = phase \in Startup \/ errors'[t] = {}]
      BY <1>2 DEF Turn
    <2>2. /\ pc' \in [Calls -> Hooks \cup Undos \cup {"idle", "returned"}] /\ pc'[t] = "returned"
          /\ \A u \in Calls \ {t} : pc'[u] = pc[u]
      BY <2>1 DEF TypeOK
    <2>3. report' \in [Calls -> BOOLEAN \cup {None}]
      BY <2>1 DEF TypeOK
    <2>4. Truthful(health)'
      BY <2>1 DEF Truthful
    <2>5. CallInv(t)'
      BY <1>1, <1>2, <2>2 DEF CallInv, Hooks, Undos
    <2>6. NamesOf(rest) = {}
      BY <1>2 DEF NamesOf
    <2>7. report'[t] = (phase \in Startup \/ errors'[t] = {})
      BY <2>1 DEF TypeOK
    <2>8. Accounted(t)
      BY <2>6, <2>7 DEF Accounted, EnabledThen, EnabledIn
    <2>9. CleanedUp(t)
      BY <2>7 DEF CleanedUp
    <2> QED BY <1>1, <2>2, <2>3, <2>4, <2>5, <2>8, <2>9
  <1>3. CASE rest # << >>
    <2> DEFINE n == Head(rest).name
    <2>1. /\ pc' = [pc EXCEPT ![t] = "before"] /\ health' = [h EXCEPT ![n] = InProgress[phase]]
          /\ report' = report
      BY <1>3 DEF Turn
    <2>2. /\ pc' \in [Calls -> Hooks \cup Undos \cup {"idle", "returned"}] /\ pc'[t] = "before"
          /\ \A u \in Calls \ {t} : pc'[u] = pc[u]
      BY <2>1 DEF TypeOK, Hooks
    <2>3. report' \in [Calls -> BOOLEAN \cup {None}]
      BY <2>1 DEF TypeOK
    <2>4. n \in Names
      BY <1>3, TailRoute DEF EnabledIn
    <2> HIDE DEF n
    <2>5. InProgress[phase] \in ComponentState /\ InProgress[phase] # "RUNNING" /\ InProgress[phase] # "BOOTED"
      BY DEF InProgress, ComponentState, Phases
    <2>6. Truthful(health)' /\ health'[n] = InProgress[phase]
      BY <2>1, <2>4, <2>5 DEF Truthful
    <2>7. Current(t)' = n
      BY <1>1 DEF Current, n
    <2>8. Route(seen, broken, op[t], todo[t])'
      BY <1>1 DEF Route, EnabledIn
    <2>9. EnabledThen' = EnabledIn(R)
      BY DEF EnabledThen, EnabledIn
    <2>10. /\ (ToSet(begun[t]) \cup errors[t] \cup NamesOf(todo[t]) = EnabledThen)'
           /\ \A i \in DOMAIN begun'[t] : begun'[t][i] \notin NamesOf(todo[t])'
      BY <1>1, <2>9 DEF ToSet, NamesOf
    <2>11. Once(Names, begun[t])'
      BY DEF Once
    <2>12. (op[t] \in Startup =>
               /\ Forward(seen, begun[t])
               /\ \A i \in DOMAIN begun[t], m \in NamesOf(todo[t]) : m \notin seen[begun[t][i]].dependencies
               /\ \A m \in errors[t] : ~ seen[m].critical)'
      BY <1>1 DEF Forward, NamesOf
    <2>13. WalkInv(t)'
      BY <1>1, <1>3, <2>2, <2>6, <2>7, <2>8, <2>10, <2>11, <2>12 DEF WalkInv
    <2>14. CallInv(t)'
      BY <2>2, <2>13 DEF CallInv, Hooks, Undos
    <2>15. Accounted(t) /\ CleanedUp(t)
      BY <2>2 DEF Accounted, CleanedUp, Returns
    <2> QED BY <1>1, <2>2, <2>3, <2>6, <2>14, <2>15
  <1> QED BY <1>2, <1>3

\* A phase begins.
LEMMA EnterKeeps ==
    ASSUME TypeOK, Keyed, NEW t \in Calls, NEW phase \in Phases, NEW h, Truthful(h),
           Enter(t, phase, h), UNCHANGED <<live, undo>>, undo[t] = << >>
    PROVE  /\ CallInv(t)' /\ Truthful(health)'
           /\ pc' \in [Calls -> Hooks \cup Undos \cup {"idle", "returned"}]
           /\ todo' \in [Calls -> Seq(Registrations)]
           /\ report' \in [Calls -> BOOLEAN \cup {None}]
           /\ op' \in [Calls -> Phases \cup {None}]
           /\ begun' \in [Calls -> Seq(Names)]
           /\ errors' \in [Calls -> SUBSET Names]
           /\ \A u \in Calls \ {t} : pc'[u] = pc[u] /\ todo'[u] = todo[u]
           /\ seen' \in [Names -> Registrations \cup {None}] /\ broken' \in BOOLEAN
           /\ removed' \subseteq Names /\ seen' = components
           /\ Accounted(t) /\ CleanedUp(t)
  <1>0. seen' = components /\ broken' = ~ Orderable /\ removed' = {}
    BY DEF Enter
  <1>5. /\ seen' \in [Names -> Registrations \cup {None}] /\ broken' \in BOOLEAN
         /\ removed' \subseteq Names
    BY <1>0 DEF TypeOK
  <1>1. /\ op' \in [Calls -> Phases \cup {None}] /\ op'[t] = phase
        /\ begun' \in [Calls -> Seq(Names)] /\ begun'[t] = << >>
        /\ errors' \in [Calls -> SUBSET Names] /\ errors'[t] = {}
    BY DEF Enter, TypeOK
  <1>2. CASE phase \in Startup /\ ~ Orderable
    <2>1. /\ pc' = [pc EXCEPT ![t] = "returned"] /\ report' = [report EXCEPT ![t] = FALSE]
          /\ todo' = [todo EXCEPT ![t] = << >>] /\ health' = h
      BY <1>2 DEF Enter
    <2>2. /\ pc' \in [Calls -> Hooks \cup Undos \cup {"idle", "returned"}] /\ pc'[t] = "returned"
          /\ todo' \in [Calls -> Seq(Registrations)] /\ todo'[t] = << >>
          /\ report' \in [Calls -> BOOLEAN \cup {None}] /\ report'[t] = FALSE
          /\ \A u \in Calls \ {t} : pc'[u] = pc[u] /\ todo'[u] = todo[u]
      BY <2>1 DEF TypeOK
    <2>3. Truthful(health)'
      BY <2>1 DEF Truthful
    <2>4. CallInv(t)'
      BY <2>2 DEF CallInv, Hooks, Undos
    <2>5. Accounted(t)
      <3>1. broken'
        BY <1>0, <1>2
      <3> QED BY <3>1, <1>1, <1>2, <2>2 DEF Accounted
    <2>6. CleanedUp(t)
      <3>1. ToSet(begun'[t]) = {}
        BY <1>1 DEF ToSet
      <3> QED BY <3>1 DEF CleanedUp
    <2> QED BY <2>6, <1>0, <1>1, <1>5, <2>2, <2>3, <2>4, <2>5
  <1>3. CASE phase \in Startup => Orderable
    <2>1. Turn(t, phase, Visits(phase), h)
      BY <1>3 DEF Enter
    <2>2. /\ Route(components, ~ Orderable, phase, Visits(phase))
          /\ NamesOf(Visits(phase)) = EnabledIn(components)
      BY <1>3, VisitsRoute DEF TypeOK, RegistryOK
    <2>3. /\ ToSet(begun'[t]) \cup errors'[t] \cup NamesOf(Visits(phase)) = EnabledIn(components)
          /\ Once(Names, begun'[t]) /\ Forward(components, begun'[t]) /\ DOMAIN begun'[t] = {}
      BY <1>1, <2>2 DEF ToSet, Once, Forward
    <2> QED BY <1>0, <1>1, <1>5, <2>1, <2>2, <2>3, TurnKeeps
  <1> QED BY <1>2, <1>3

\* Every call but one rests, and a call that rests has nothing ahead of it.
LEMMA OthersRest ==
    ASSUME LifecycleInv, NEW t \in Calls, \A u \in Calls \ {t} : ~ Active(u),
           TypeOK', UNCHANGED components, Present', CallInv(t)', Truthful(health)',
           \A u \in Calls \ {t} : pc'[u] = pc[u] /\ todo'[u] = todo[u] /\ undo'[u] = undo[u],
           Accounted(t), CleanedUp(t)
    PROVE  LifecycleInv' /\ \A u \in Calls : Accounted(u) /\ CleanedUp(u)
  <1>1. ASSUME NEW u \in Calls, u # t PROVE CallInv(u)' /\ ~ Active(u)' /\ Accounted(u) /\ CleanedUp(u)
    <2>1. pc[u] \in {"idle", "returned"} /\ CallInv(u)
      BY <1>1 DEF Active, LifecycleInv
    <2>2. todo[u] = << >> /\ undo[u] = << >>
      BY <2>1 DEF CallInv
    <2>3. pc'[u] \in {"idle", "returned"} /\ todo'[u] = << >> /\ undo'[u] = << >>
      BY <1>1, <2>1, <2>2
    <2>4. CallInv(u)'
      BY <2>3 DEF CallInv, Hooks, Undos
    <2>5. ~ Active(u)'
      BY <2>3 DEF Active
    <2>6. Accounted(u) /\ CleanedUp(u)
      BY <1>1 DEF Accounted, CleanedUp, Returns
    <2> QED BY <2>4, <2>5, <2>6
  <1>2. Keyed'
    BY DEF LifecycleInv, Keyed, Registered
  <1>3. OneCall'
    BY <1>1 DEF OneCall
  <1>4. HealthTruthful'
    BY DEF Truthful, HealthTruthful
  <1>5. \A u \in Calls : CallInv(u)'
    BY <1>1
  <1> QED BY <1>1, <1>2, <1>3, <1>4, <1>5 DEF LifecycleInv

\* A call begins.
LEMMA BeginStep ==
    ASSUME LifecycleInv, NEW t \in Calls, Begin(t)
    PROVE  LifecycleInv' /\ \A u \in Calls : Accounted(u) /\ CleanedUp(u)
  <1>1. undo[t] = << >>
    BY DEF LifecycleInv, CallInv, Begin
  <1>2. Truthful(health)
    BY DEF LifecycleInv, TypeOK, Truthful, HealthTruthful
  <1>3. PICK o \in Operations :
           /\ again' = [again EXCEPT ![t] = (o = "restart")]
           /\ IF o # "restart" THEN Enter(t, o, health)
              ELSE Enter(t, IF Visits("stop") = << >> THEN "start" ELSE "stop", health)
    BY DEF Begin
  <1>4. PICK phase \in Phases : Enter(t, phase, health)
    BY <1>3, CallAssumption DEF Phases
  <1>5. UNCHANGED <<components, live, undo>>
    BY DEF Begin
  <1>6. again' \in [Calls -> BOOLEAN]
    BY <1>3 DEF LifecycleInv, TypeOK
  <1>7. TypeOK /\ Keyed
    BY DEF LifecycleInv
  <1>8. /\ CallInv(t)' /\ Truthful(health)'
        /\ pc' \in [Calls -> Hooks \cup Undos \cup {"idle", "returned"}]
        /\ todo' \in [Calls -> Seq(Registrations)]
        /\ report' \in [Calls -> BOOLEAN \cup {None}]
        /\ op' \in [Calls -> Phases \cup {None}]
        /\ begun' \in [Calls -> Seq(Names)]
        /\ errors' \in [Calls -> SUBSET Names]
        /\ \A u \in Calls \ {t} : pc'[u] = pc[u] /\ todo'[u] = todo[u]
        /\ seen' \in [Names -> Registrations \cup {None}] /\ broken' \in BOOLEAN
        /\ removed' \subseteq Names /\ seen' = components
        /\ Accounted(t) /\ CleanedUp(t)
    BY <1>1, <1>2, <1>4, <1>5, <1>7, EnterKeeps
  <1>9. TypeOK'
    BY <1>5, <1>6, <1>7, <1>8 DEF TypeOK, Truthful
  <1>10. \A u \in Calls \ {t} : ~ Active(u)
    BY DEF Begin, Free
  <1>11. Present'
    BY <1>5, <1>8 DEF Present
  <1> QED BY <1>5, <1>8, <1>9, <1>10, <1>11, OthersRest

\* What an awaited hook of a walk rests on.
LEMMA Walking ==
    ASSUME LifecycleInv, NEW t \in Calls, pc[t] \in Hooks
    PROVE  /\ op[t] \in Phases /\ WalkInv(t) /\ TypeOK /\ Truthful(health)
           /\ \A u \in Calls \ {t} : ~ Active(u)
           /\ Current(t) \in EnabledThen /\ Current(t) \in Names
           /\ Head(todo[t]) = seen[Current(t)]
           /\ Route(seen, broken, op[t], Tail(todo[t]))
           /\ NamesOf(todo[t]) = {Current(t)} \cup NamesOf(Tail(todo[t]))
           /\ Current(t) \notin NamesOf(Tail(todo[t]))
           /\ op[t] \in Startup => \A n \in NamesOf(Tail(todo[t])) : n \notin seen[Current(t)].dependencies
  <1>1. op[t] \in Phases /\ WalkInv(t) /\ TypeOK
    BY DEF LifecycleInv, CallInv
  <1>2. Truthful(health)
    BY DEF LifecycleInv, TypeOK, Truthful, HealthTruthful
  <1>3. Active(t)
    BY DEF Active, Hooks
  <1>4. \A u \in Calls \ {t} : ~ Active(u)
    BY <1>3 DEF LifecycleInv, OneCall
  <1>5. Route(seen, broken, op[t], todo[t]) /\ todo[t] # << >>
    BY <1>1 DEF WalkInv
  <1>6. EnabledThen \subseteq Names /\ EnabledThen = EnabledIn(seen)
    BY DEF EnabledThen, EnabledIn
  <1> QED BY <1>1, <1>2, <1>4, <1>5, <1>6, TailRoute DEF Current

\* A before_ or action hook returns.
LEMMA HookReturnsStep ==
    ASSUME LifecycleInv, NEW t \in Calls, HookReturns(t)
    PROVE  LifecycleInv' /\ \A u \in Calls : Accounted(u) /\ CleanedUp(u)
  <1> DEFINE c == Current(t)
  <1>1. pc[t] \in {"before", "action"} /\ pc[t] \in Hooks
    BY DEF HookReturns, Hooks
  <1>2. /\ op[t] \in Phases /\ WalkInv(t) /\ TypeOK /\ Truthful(health)
        /\ \A u \in Calls \ {t} : ~ Active(u)
        /\ c \in Names
    BY <1>1, Walking
  <1>3. UNCHANGED <<components, seen, broken, removed, health, op, again, todo, undo, begun, errors, report>>
    BY DEF HookReturns, registryVars
  <1>4. Current(t)' = c
    BY <1>3 DEF Current
  <1> HIDE DEF c
  <1>5. /\ pc' \in [Calls -> Hooks \cup Undos \cup {"idle", "returned"}]
        /\ pc'[t] \in {"action", "after"} /\ (pc'[t] = "after" => pc[t] = "action")
        /\ \A u \in Calls \ {t} : pc'[u] = pc[u]
    <2>1. NextHook[pc[t]] \in {"action", "after"} /\ (NextHook[pc[t]] = "after" => pc[t] = "action")
      BY <1>1 DEF NextHook
    <2> QED BY <2>1, <1>2 DEF HookReturns, TypeOK, Hooks
  <1>6. /\ live' \in [Names -> SUBSET Startup]
        /\ \A n \in Names \ {c} : live'[n] = live[n]
        /\ pc[t] = "action" /\ op[t] \in Startup => op[t] \in live'[c]
    <2>1. CASE pc[t] = "action"
      <3>1. live' = [live EXCEPT ![c] = IF op[t] \in Startup THEN @ \cup {op[t]}
                                        ELSE {p \in @ : Undoing[p] # op[t]}]
        BY <2>1 DEF HookReturns, Through, c
      <3> QED BY <3>1, <1>2 DEF TypeOK
    <2>2. CASE pc[t] # "action"
      BY <2>2, <1>2 DEF HookReturns, TypeOK
    <2> QED BY <2>1, <2>2
  <1>7. health[c] \notin {"RUNNING", "BOOTED"}
    BY <1>2 DEF WalkInv, InProgress, Phases, c
  <1>8. Truthful(health)'
    BY <1>2, <1>3, <1>6, <1>7 DEF Truthful
  <1>9. TypeOK'
    BY <1>2, <1>3, <1>5, <1>6 DEF TypeOK
  <1>10. Route(seen, broken, op[t], todo[t])'
    BY <1>2, <1>3 DEF WalkInv, Route, EnabledIn
  <1>11. EnabledThen' = EnabledThen /\ Present'
    BY <1>3 DEF EnabledThen, Present, LifecycleInv
  <1>12. WalkInv(t)'
    BY <1>2, <1>3, <1>4, <1>5, <1>6, <1>10, <1>11
       DEF WalkInv, ToSet, NamesOf, Once, Forward, c
  <1>13. CallInv(t)'
    BY <1>2, <1>3, <1>5, <1>12 DEF CallInv, Hooks, Undos
  <1>14. Accounted(t) /\ CleanedUp(t)
    BY <1>5 DEF Accounted, CleanedUp, Returns
  <1> QED BY <1>2, <1>3, <1>5, <1>8, <1>9, <1>11, <1>13, <1>14, OthersRest

\* A hook raises and the phase goes on.
LEMMA HookRaisesStep ==
    ASSUME LifecycleInv, NEW t \in Calls, HookRaises(t)
    PROVE  LifecycleInv' /\ \A u \in Calls : Accounted(u) /\ CleanedUp(u)
  <1> DEFINE c == Current(t)
             rest == Tail(todo[t])
             h == [health EXCEPT ![c] = "FAILED"]
  <1>1. /\ op[t] \in Phases /\ WalkInv(t) /\ TypeOK /\ Truthful(health)
        /\ \A u \in Calls \ {t} : ~ Active(u)
        /\ c \in EnabledThen /\ c \in Names /\ Head(todo[t]) = seen[c]
        /\ Route(seen, broken, op[t], rest)
        /\ NamesOf(todo[t]) = {c} \cup NamesOf(rest) /\ c \notin NamesOf(rest)
    BY Walking DEF HookRaises
  <1>2. /\ UNCHANGED <<components, seen, broken, removed, op, again, undo, begun, live>>
        /\ Turn(t, op[t], rest, h)
    BY DEF HookRaises, registryVars
  <1>3. op[t] \in Startup => ~ seen[c].critical
    BY <1>1 DEF HookRaises
  <1>4. errors' = [errors EXCEPT ![t] = @ \cup {c}]
    BY DEF HookRaises
  <1>5. Truthful(h)
    BY <1>1 DEF Truthful, ComponentState
  <1> HIDE DEF c, rest, h
  <1>6. errors' \in [Calls -> SUBSET Names] /\ errors'[t] = errors[t] \cup {c}
    BY <1>1, <1>4 DEF TypeOK
  <1>7. undo'[t] = << >> /\ op'[t] = op[t] /\ begun'[t] = begun[t]
    BY <1>1, <1>2 DEF WalkInv
  <1>8. ToSet(begun'[t]) \cup errors'[t] \cup NamesOf(rest) = EnabledIn(seen)
    BY <1>1, <1>6, <1>7 DEF WalkInv, EnabledThen, EnabledIn
  <1>9. /\ Once(Names, begun'[t])
        /\ \A i \in DOMAIN begun'[t] : begun'[t][i] \notin NamesOf(rest)
        /\ op[t] \in Startup =>
              /\ Forward(seen, begun'[t])
              /\ \A i \in DOMAIN begun'[t], n \in NamesOf(rest) : n \notin seen[begun'[t][i]].dependencies
              /\ \A n \in errors'[t] : ~ seen[n].critical
    BY <1>1, <1>3, <1>6, <1>7 DEF WalkInv
  <1>10. /\ CallInv(t)' /\ Truthful(health)'
         /\ pc' \in [Calls -> Hooks \cup Undos \cup {"idle", "returned"}]
         /\ todo' \in [Calls -> Seq(Registrations)]
         /\ report' \in [Calls -> BOOLEAN \cup {None}]
         /\ \A u \in Calls \ {t} : pc'[u] = pc[u] /\ todo'[u] = todo[u]
         /\ Accounted(t) /\ CleanedUp(t)
    BY <1>1, <1>2, <1>5, <1>7, <1>8, <1>9, TurnKeeps
  <1>11. TypeOK'
    BY <1>1, <1>2, <1>6, <1>10 DEF TypeOK, Truthful
  <1>12. Present'
    BY <1>2 DEF Present, LifecycleInv
  <1> QED BY <1>1, <1>2, <1>10, <1>11, <1>12, OthersRest

\* The after_ hook returns: the next component, the start half of a restart, or the end.
LEMMA ComponentDoneStep ==
    ASSUME LifecycleInv, NEW t \in Calls, ComponentDone(t)
    PROVE  LifecycleInv' /\ \A u \in Calls : Accounted(u) /\ CleanedUp(u)
  <1> DEFINE c == Current(t)
             rest == Tail(todo[t])
             h == [health EXCEPT ![c] = Success[op[t]]]
  <1>0. pc[t] = "after" /\ pc[t] \in Hooks
    BY DEF ComponentDone, Hooks
  <1>1. /\ op[t] \in Phases /\ WalkInv(t) /\ TypeOK /\ Truthful(health)
        /\ \A u \in Calls \ {t} : ~ Active(u)
        /\ c \in EnabledThen /\ c \in Names
        /\ Route(seen, broken, op[t], rest)
        /\ NamesOf(todo[t]) = {c} \cup NamesOf(rest) /\ c \notin NamesOf(rest)
        /\ op[t] \in Startup => \A n \in NamesOf(rest) : n \notin seen[c].dependencies
    BY <1>0, Walking
  <1>2. UNCHANGED <<components, again, undo, live>>
    BY DEF ComponentDone
  <1>3. Truthful(h)
    <2>1. op[t] \in Startup => op[t] \in live[c]
      BY <1>0, <1>1 DEF WalkInv
    <2>2. Success[op[t]] \in ComponentState
      BY <1>1 DEF Success, ComponentState, Phases
    <2>3. (Success[op[t]] = "RUNNING" => op[t] = "start") /\ (Success[op[t]] = "BOOTED" => op[t] = "boot")
      BY <1>1 DEF Success, Phases
    <2> QED BY <1>1, <2>1, <2>2, <2>3 DEF Truthful, Startup
  <1>4. undo[t] = << >>
    BY <1>1 DEF WalkInv
  <1>5. CASE again[t] /\ op[t] = "stop" /\ Tail(todo[t]) = << >> /\ errors[t] = {}
    <2>1. Enter(t, "start", h)
      BY <1>5 DEF ComponentDone
    <2>2. Keyed /\ "start" \in Phases
      BY DEF LifecycleInv, Phases
    <2> HIDE DEF h
    <2>3. /\ CallInv(t)' /\ Truthful(health)'
          /\ pc' \in [Calls -> Hooks \cup Undos \cup {"idle", "returned"}]
          /\ todo' \in [Calls -> Seq(Registrations)]
          /\ report' \in [Calls -> BOOLEAN \cup {None}]
          /\ op' \in [Calls -> Phases \cup {None}]
          /\ begun' \in [Calls -> Seq(Names)]
          /\ errors' \in [Calls -> SUBSET Names]
          /\ \A u \in Calls \ {t} : pc'[u] = pc[u] /\ todo'[u] = todo[u]
          /\ seen' \in [Names -> Registrations \cup {None}] /\ broken' \in BOOLEAN
          /\ removed' \subseteq Names /\ seen' = components
          /\ Accounted(t) /\ CleanedUp(t)
      BY <1>1, <1>2, <1>3, <1>4, <2>1, <2>2, EnterKeeps
    <2>4. TypeOK'
      BY <1>1, <1>2, <2>3 DEF TypeOK, Truthful
    <2>5. Present'
      BY <1>2, <2>3 DEF Present
    <2> QED BY <1>1, <1>2, <2>3, <2>4, <2>5, OthersRest
  <1>6. CASE ~ (again[t] /\ op[t] = "stop" /\ Tail(todo[t]) = << >> /\ errors[t] = {})
    <2>1. /\ begun' = [begun EXCEPT ![t] = Append(@, c)]
          /\ UNCHANGED <<op, errors, seen, broken, removed>> /\ Turn(t, op[t], rest, h)
      BY <1>6 DEF ComponentDone
    <2> HIDE DEF c, rest, h
    <2> DEFINE b == begun[t]
               N == Len(b)
    <2>2. /\ b \in Seq(Names) /\ N \in Nat /\ DOMAIN b = 1..N
          /\ \A i, j \in 1..N : b[i] = b[j] => i = j
          /\ \A i \in 1..N : b[i] \notin NamesOf(todo[t])
      BY <1>1 DEF WalkInv, Once
    <2>3. c \in Names
      BY <1>1
    <2>4. begun' \in [Calls -> Seq(Names)] /\ begun'[t] = Append(b, c)
      BY <1>1, <2>1 DEF TypeOK
    <2>5. /\ Append(b, c) \in Seq(Names) /\ DOMAIN Append(b, c) = 1..(N + 1)
          /\ Append(b, c)[N + 1] = c /\ \A i \in 1..N : Append(b, c)[i] = b[i]
      BY <2>2, <2>3
    <2>6. \A i \in 1..(N + 1) : i = N + 1 \/ i \in 1..N
      BY <2>2
    <2>7. Once(Names, Append(b, c))
      <3>1. ASSUME NEW i \in 1..(N + 1), NEW j \in 1..(N + 1), Append(b, c)[i] = Append(b, c)[j]
            PROVE  i = j
        BY <1>1, <2>2, <2>5, <2>6, <3>1
      <3> QED BY <3>1, <2>5 DEF Once
    <2>8. \A i \in DOMAIN Append(b, c) : Append(b, c)[i] \notin NamesOf(rest)
      BY <1>1, <2>2, <2>5, <2>6
    <2>9. ToSet(Append(b, c)) = ToSet(b) \cup {c}
      <3>1. ASSUME NEW i \in 1..N PROVE b[i] \in ToSet(Append(b, c))
        BY <2>2, <2>5 DEF ToSet
      <3>2. c \in ToSet(Append(b, c))
        BY <2>2, <2>5 DEF ToSet
      <3>3. ASSUME NEW i \in 1..(N + 1) PROVE Append(b, c)[i] \in ToSet(b) \cup {c}
        BY <2>2, <2>5, <2>6 DEF ToSet
      <3> QED BY <3>1, <3>2, <3>3, <2>2, <2>5 DEF ToSet
    <2>10. ToSet(begun'[t]) \cup errors'[t] \cup NamesOf(rest) = EnabledIn(seen)
      BY <1>1, <2>1, <2>4, <2>9 DEF WalkInv, EnabledThen, EnabledIn
    <2>11. op[t] \in Startup =>
              /\ Forward(seen, Append(b, c))
              /\ \A i \in DOMAIN Append(b, c), n \in NamesOf(rest) : n \notin seen[Append(b, c)[i]].dependencies
              /\ \A n \in errors'[t] : ~ seen[n].critical
      <3>1. SUFFICES ASSUME op[t] \in Startup
                     PROVE  /\ Forward(seen, Append(b, c))
                            /\ \A i \in DOMAIN Append(b, c), n \in NamesOf(rest) : n \notin seen[Append(b, c)[i]].dependencies
                            /\ \A n \in errors'[t] : ~ seen[n].critical
        OBVIOUS
      <3>2. /\ \A i, j \in 1..N : i < j => b[j] \notin seen[b[i]].dependencies
            /\ \A i \in 1..N, n \in NamesOf(todo[t]) : n \notin seen[b[i]].dependencies
            /\ \A n \in errors[t] : ~ seen[n].critical
        BY <3>1, <1>1, <2>2 DEF WalkInv, Forward
      <3>3. ASSUME NEW i \in 1..(N + 1), NEW j \in 1..(N + 1), i < j
            PROVE  Append(b, c)[j] \notin seen[Append(b, c)[i]].dependencies
        <4>1. i \in 1..N
          BY <3>3, <2>2
        <4> QED BY <4>1, <3>2, <3>3, <1>1, <2>5, <2>6
      <3>4. ASSUME NEW i \in 1..(N + 1), NEW n \in NamesOf(rest) PROVE n \notin seen[Append(b, c)[i]].dependencies
        BY <3>1, <3>2, <1>1, <2>5, <2>6
      <3> QED BY <3>2, <3>3, <3>4, <2>1, <2>5 DEF Forward
    <2>12. undo'[t] = << >> /\ op'[t] = op[t]
      BY <1>2, <1>4, <2>1
    <2>13. /\ CallInv(t)' /\ Truthful(health)'
           /\ pc' \in [Calls -> Hooks \cup Undos \cup {"idle", "returned"}]
           /\ todo' \in [Calls -> Seq(Registrations)]
           /\ report' \in [Calls -> BOOLEAN \cup {None}]
           /\ \A u \in Calls \ {t} : pc'[u] = pc[u] /\ todo'[u] = todo[u]
           /\ Accounted(t) /\ CleanedUp(t)
      BY <1>1, <1>2, <1>3, <2>1, <2>4, <2>7, <2>8, <2>10, <2>11, <2>12, TurnKeeps
    <2>14. TypeOK'
      BY <1>1, <1>2, <2>1, <2>4, <2>13 DEF TypeOK, Truthful
    <2>15. Present'
      BY <1>2, <2>1 DEF Present, LifecycleInv
    <2> QED BY <1>1, <1>2, <2>13, <2>14, <2>15, OthersRest
  <1> QED BY <1>5, <1>6

\* The rollback goes on to the next component, or the call returns its failed report.
LEMMA TurnBackKeeps ==
    ASSUME TypeOK, Present, NEW t \in Calls, NEW rest, NEW h, Truthful(h),
           TurnBack(t, rest, h), UNCHANGED <<components, live, op, begun, seen, removed>>,
           op[t] \in Startup, todo'[t] = << >>, \E n \in errors'[t] : seen[n].critical,
           Once(Names, rest), Backward(seen, rest), ToSet(begun[t]) \subseteq EnabledThen,
           \A n \in ToSet(begun[t]) \ removed :
               n \in ToSet(rest) \/ (h[n] = "STOPPED" /\ op[t] \notin live[n]) \/ h[n] = "FAILED"
    PROVE  /\ CallInv(t)' /\ Truthful(health)'
           /\ pc' \in [Calls -> Hooks \cup Undos \cup {"idle", "returned"}]
           /\ undo' \in [Calls -> Seq(Names)]
           /\ report' \in [Calls -> BOOLEAN \cup {None}]
           /\ \A u \in Calls \ {t} : pc'[u] = pc[u] /\ undo'[u] = undo[u]
           /\ Accounted(t) /\ CleanedUp(t)
  <1> DEFINE known == {i \in DOMAIN rest : components[rest[i]] # None}
             first == CHOOSE i \in known : \A j \in known : i <= j
             next == IF known = {} THEN << >> ELSE SubSeq(rest, first, Len(rest))
  <1>1. /\ rest \in Seq(Names) /\ Len(rest) \in Nat /\ DOMAIN rest = 1..Len(rest)
        /\ \A i, j \in DOMAIN rest : rest[i] = rest[j] => i = j
    BY DEF Once
  <1>2. /\ Once(Names, next) /\ Backward(seen, next)
        /\ \A n \in ToSet(rest) : components[n] # None => n \in ToSet(next)
    <2>1. CASE known = {}
      <3>1. next = << >>
        BY <2>1
      <3>2. Once(Names, next) /\ Backward(seen, next)
        <4> HIDE DEF next
        <4>1. next \in Seq(Names) /\ Len(next) = 0
          BY <3>1
        <4>2. DOMAIN next = {}
          BY <4>1
        <4> QED BY <4>1, <4>2 DEF Once, Backward
      <3>3. \A n \in ToSet(rest) : components[n] = None
        BY <2>1 DEF ToSet
      <3> QED BY <3>2, <3>3
    <2>2. CASE known # {}
      <3>1. known \in SUBSET Nat
        BY <1>1
      <3>2. \E i \in known : \A j \in known : i <= j
        BY <2>2, <3>1, HasLeast
      <3>3. first \in known /\ \A j \in known : first <= j
        BY <3>2
      <3>4. next = SubSeq(rest, first, Len(rest)) /\ first \in 1..Len(rest)
        BY <2>2, <3>3, <1>1
      <3> HIDE DEF first, next
      <3> DEFINE N == Len(rest) - first + 1
      <3>5. /\ next \in Seq(Names) /\ Len(next) = N /\ DOMAIN next = 1..N
            /\ \A i \in 1..N : next[i] = rest[first + i - 1] /\ first + i - 1 \in DOMAIN rest
        BY <1>1, <3>4
      <3>6. ASSUME NEW i \in DOMAIN next, NEW j \in DOMAIN next
            PROVE  (next[i] = next[j] => i = j) /\ (i < j => next[i] \notin seen[next[j]].dependencies)
        <4>1. /\ next[i] = rest[first + i - 1] /\ first + i - 1 \in DOMAIN rest
              /\ next[j] = rest[first + j - 1] /\ first + j - 1 \in DOMAIN rest
          BY <3>5
        <4>2. /\ first + i - 1 = first + j - 1 => i = j
              /\ i < j => first + i - 1 < first + j - 1
          BY <1>1, <3>4, <3>5
        <4> QED BY <4>1, <4>2, <1>1 DEF Backward
      <3>7. ASSUME NEW n \in ToSet(rest), components[n] # None PROVE n \in ToSet(next)
        <4>1. PICK i \in DOMAIN rest : rest[i] = n
          BY DEF ToSet
        <4>2. i \in known
          BY <3>7, <4>1
        <4>3. i - first + 1 \in DOMAIN next /\ first + (i - first + 1) - 1 = i
          BY <1>1, <3>3, <3>4, <3>5, <4>1, <4>2
        <4> QED BY <3>5, <4>1, <4>3 DEF ToSet
      <3> QED BY <3>5, <3>6, <3>7 DEF Once, Backward
    <2> QED BY <2>1, <2>2
  <1>8. \A n \in ToSet(begun[t]) \ removed :
            n \in ToSet(next) \/ (h[n] = "STOPPED" /\ op[t] \notin live[n]) \/ h[n] = "FAILED"
    BY <1>2 DEF EnabledThen, Present
  <1>3. /\ undo' = [undo EXCEPT ![t] = next]
        /\ IF next = << >>
           THEN /\ pc' = [pc EXCEPT ![t] = "returned"]
                /\ report' = [report EXCEPT ![t] = FALSE]
                /\ health' = h
           ELSE /\ pc' = [pc EXCEPT ![t] = "undo_before"]
                /\ health' = [h EXCEPT ![Head(next)] = "SHUTTING_DOWN"]
                /\ UNCHANGED report
    BY DEF TurnBack
  <1> HIDE DEF next
  <1>4. next \in Seq(Names)
    BY <1>2 DEF Once
  <1>5. /\ undo' \in [Calls -> Seq(Names)] /\ undo'[t] = next
        /\ \A u \in Calls \ {t} : undo'[u] = undo[u]
    BY <1>3, <1>4 DEF TypeOK
  <1>6. CASE next = << >>
    <2>1. /\ pc' = [pc EXCEPT ![t] = "returned"] /\ report' = [report EXCEPT ![t] = FALSE]
          /\ health' = h
      BY <1>3, <1>6
    <2>2. /\ pc' \in [Calls -> Hooks \cup Undos \cup {"idle", "returned"}] /\ pc'[t] = "returned"
          /\ report' \in [Calls -> BOOLEAN \cup {None}] /\ report'[t] = FALSE
          /\ \A u \in Calls \ {t} : pc'[u] = pc[u]
      BY <2>1 DEF TypeOK
    <2>3. Truthful(health)'
      BY <2>1 DEF Truthful
    <2>4. CallInv(t)'
      BY <1>5, <1>6, <2>2 DEF CallInv, Hooks, Undos
    <2>5. Accounted(t)
      BY <2>2 DEF Accounted
    <2>6. CleanedUp(t)
      BY <1>8, <1>6, <2>1 DEF CleanedUp, ToSet
    <2> QED BY <1>5, <2>2, <2>3, <2>4, <2>5, <2>6
  <1>7. CASE next # << >>
    <2> DEFINE n == Head(next)
    <2>1. /\ pc' = [pc EXCEPT ![t] = "undo_before"] /\ health' = [h EXCEPT ![n] = "SHUTTING_DOWN"]
          /\ report' = report
      BY <1>3, <1>7
    <2>2. /\ pc' \in [Calls -> Hooks \cup Undos \cup {"idle", "returned"}] /\ pc'[t] = "undo_before"
          /\ report' \in [Calls -> BOOLEAN \cup {None}]
          /\ \A u \in Calls \ {t} : pc'[u] = pc[u]
      BY <2>1 DEF TypeOK, Undos
    <2>3. n \in Names /\ n \in ToSet(next)
      <3>1. n = next[1] /\ 1 \in DOMAIN next
        BY <1>4, <1>7
      <3> QED BY <3>1, <1>4 DEF ToSet
    <2>4. Head(undo'[t]) = n
      BY <1>5
    <2> HIDE DEF n
    <2>5. Truthful(health)' /\ health'[n] = "SHUTTING_DOWN"
      BY <2>1, <2>3 DEF Truthful, ComponentState
    <2>6. ASSUME NEW m \in ToSet(begun'[t]) \ removed' PROVE m \in ToSet(undo'[t]) \/ Undone(t, m)'
      <3>1. m \in ToSet(next) \/ (h[m] = "STOPPED" /\ op[t] \notin live[m]) \/ h[m] = "FAILED"
        BY <1>8, <2>6
      <3>2. CASE m \in ToSet(next)
        BY <3>2, <1>5
      <3>3. CASE m \notin ToSet(next)
        <4>1. m # n
          BY <3>3, <2>3
        <4>2. health'[m] = h[m]
          BY <4>1, <2>1
        <4> QED BY <3>1, <3>3, <4>2 DEF Undone
      <3> QED BY <3>2, <3>3
    <2>7. (ToSet(begun[t]) \subseteq EnabledThen)'
      BY DEF ToSet, EnabledThen
    <2>8. Once(Names, undo[t])' /\ Backward(seen, undo[t])'
      BY <1>2, <1>5 DEF Once, Backward
    <2>9. \E m \in errors'[t] : seen'[m].critical
      OBVIOUS
    <2>10. UndoInv(t)'
      BY <1>5, <1>7, <2>2, <2>4, <2>5, <2>6, <2>7, <2>8, <2>9 DEF UndoInv, ToSet
    <2>11. CallInv(t)'
      BY <2>2, <2>10 DEF CallInv, Hooks, Undos
    <2>12. Accounted(t) /\ CleanedUp(t)
      BY <2>2 DEF Accounted, CleanedUp, Returns
    <2> QED BY <1>5, <2>2, <2>5, <2>11, <2>12
  <1> QED BY <1>6, <1>7

\* A critical component fails: the rollback begins.
LEMMA CriticalFailureStep ==
    ASSUME LifecycleInv, NEW t \in Calls, CriticalFailure(t)
    PROVE  LifecycleInv' /\ \A u \in Calls : Accounted(u) /\ CleanedUp(u)
  <1> DEFINE c == Current(t)
             rest == Reverse(begun[t])
             h == [health EXCEPT ![c] = "FAILED"]
  <1>1. /\ op[t] \in Phases /\ WalkInv(t) /\ TypeOK /\ Truthful(health)
        /\ \A u \in Calls \ {t} : ~ Active(u)
        /\ c \in Names /\ Head(todo[t]) = seen[c] /\ Present
    BY Walking DEF CriticalFailure, LifecycleInv
  <1>2. /\ UNCHANGED <<components, seen, broken, removed, op, again, begun, live>> /\ TurnBack(t, rest, h)
        /\ op[t] \in Startup /\ todo' = [todo EXCEPT ![t] = << >>]
        /\ errors' = [errors EXCEPT ![t] = @ \cup {c}]
    BY DEF CriticalFailure, registryVars
  <1>3. seen[c].critical
    BY <1>1 DEF CriticalFailure
  <1>4. Truthful(h)
    BY <1>1 DEF Truthful, ComponentState
  <1>5. /\ Once(Names, begun[t]) /\ Forward(seen, begun[t])
        /\ ToSet(begun[t]) \subseteq EnabledThen
    BY <1>1, <1>2 DEF WalkInv
  <1>6. Once(Names, rest) /\ Backward(seen, rest) /\ ToSet(rest) = ToSet(begun[t])
    <2>1. /\ Once(Names, Reverse(begun[t])) /\ Placed(Reverse(begun[t])) = Placed(begun[t])
          /\ Backward(seen, Reverse(begun[t]))
      BY <1>5, ReverseKeeps
    <2> QED BY <2>1 DEF ToSet, Placed
  <1> HIDE DEF c, rest, h
  <1>7. /\ errors' \in [Calls -> SUBSET Names] /\ c \in errors'[t]
        /\ todo' \in [Calls -> Seq(Registrations)] /\ todo'[t] = << >>
        /\ \A u \in Calls \ {t} : todo'[u] = todo[u]
    BY <1>1, <1>2 DEF TypeOK
  <1>8. /\ CallInv(t)' /\ Truthful(health)'
        /\ pc' \in [Calls -> Hooks \cup Undos \cup {"idle", "returned"}]
        /\ undo' \in [Calls -> Seq(Names)]
        /\ report' \in [Calls -> BOOLEAN \cup {None}]
        /\ \A u \in Calls \ {t} : pc'[u] = pc[u] /\ undo'[u] = undo[u]
        /\ Accounted(t) /\ CleanedUp(t)
    BY <1>1, <1>2, <1>3, <1>4, <1>5, <1>6, <1>7, TurnBackKeeps
  <1>9. TypeOK'
    BY <1>1, <1>2, <1>7, <1>8 DEF TypeOK, Truthful
  <1>10. Present'
    BY <1>1, <1>2 DEF Present
  <1> QED BY <1>1, <1>2, <1>7, <1>8, <1>9, <1>10, OthersRest

\* What an awaited hook of a rollback rests on.
LEMMA RollingBack ==
    ASSUME LifecycleInv, NEW t \in Calls, pc[t] \in Undos
    PROVE  /\ UndoInv(t) /\ TypeOK /\ Truthful(health)
           /\ \A u \in Calls \ {t} : ~ Active(u)
           /\ Head(undo[t]) \in Names
           /\ Once(Names, Tail(undo[t])) /\ Backward(seen, Tail(undo[t]))
           /\ ToSet(undo[t]) = {Head(undo[t])} \cup ToSet(Tail(undo[t]))
           /\ Head(undo[t]) \notin ToSet(Tail(undo[t]))
  <1> DEFINE q == undo[t]
             r == Tail(undo[t])
  <1>1. UndoInv(t) /\ TypeOK
    BY DEF LifecycleInv, CallInv
  <1>2. Truthful(health)
    BY DEF LifecycleInv, TypeOK, Truthful, HealthTruthful
  <1>3. Active(t)
    BY DEF Active, Undos
  <1>4. \A u \in Calls \ {t} : ~ Active(u)
    BY <1>3 DEF LifecycleInv, OneCall
  <1>5. /\ q \in Seq(Names) /\ Len(q) \in Nat /\ Len(q) > 0 /\ DOMAIN q = 1..Len(q)
        /\ \A i, j \in DOMAIN q : q[i] = q[j] => i = j
        /\ \A i, j \in DOMAIN q : i < j => q[i] \notin seen[q[j]].dependencies
    BY <1>1 DEF UndoInv, Once, Backward
  <1>6. /\ r \in Seq(Names) /\ Len(r) = Len(q) - 1 /\ DOMAIN r = 1..(Len(q) - 1)
        /\ \A i \in 1..(Len(q) - 1) : r[i] = q[i + 1] /\ i + 1 \in DOMAIN q
        /\ Head(q) = q[1] /\ 1 \in DOMAIN q
    BY <1>5
  <1> HIDE DEF q, r
  <1>7. ASSUME NEW i \in DOMAIN r, NEW j \in DOMAIN r
        PROVE  (r[i] = r[j] => i = j) /\ (i < j => r[i] \notin seen[r[j]].dependencies)
    <2>1. r[i] = q[i + 1] /\ r[j] = q[j + 1] /\ i + 1 \in DOMAIN q /\ j + 1 \in DOMAIN q
      BY <1>6
    <2>2. (i < j => i + 1 < j + 1) /\ (i + 1 = j + 1 => i = j)
      BY <1>5, <1>6
    <2> QED BY <2>1, <2>2, <1>5
  <1>8. Once(Names, r) /\ Backward(seen, r)
    BY <1>6, <1>7 DEF Once, Backward
  <1>9. ToSet(q) = {Head(q)} \cup ToSet(r)
    <2>1. ASSUME NEW i \in DOMAIN q PROVE q[i] \in {Head(q)} \cup ToSet(r)
      <3>1. CASE i = 1
        BY <3>1, <1>6
      <3>2. CASE i # 1
        <4>1. i - 1 \in DOMAIN r /\ r[i - 1] = q[i]
          BY <3>2, <1>5, <1>6
        <4> QED BY <4>1 DEF ToSet
      <3> QED BY <3>1, <3>2
    <2>2. ASSUME NEW i \in DOMAIN r PROVE r[i] \in ToSet(q)
      BY <1>6 DEF ToSet
    <2>3. Head(q) \in ToSet(q)
      BY <1>6 DEF ToSet
    <2> QED BY <2>1, <2>2, <2>3 DEF ToSet
  <1>10. ASSUME NEW i \in DOMAIN r PROVE r[i] # Head(q)
    <2>1. r[i] = q[i + 1] /\ i + 1 \in DOMAIN q /\ i + 1 # 1
      BY <1>5, <1>6
    <2> QED BY <2>1, <1>5, <1>6
  <1>11. Head(q) \notin ToSet(r)
    BY <1>10 DEF ToSet
  <1>12. Head(q) \in Names
    BY <1>5, <1>6
  <1> QED BY <1>1, <1>2, <1>4, <1>8, <1>9, <1>11, <1>12 DEF q, r

\* A hook of the rollback returns.
LEMMA UndoReturnsStep ==
    ASSUME LifecycleInv, NEW t \in Calls, UndoReturns(t)
    PROVE  LifecycleInv' /\ \A u \in Calls : Accounted(u) /\ CleanedUp(u)
  <1> DEFINE c == Head(undo[t])
  <1>1. pc[t] \in {"undo_before", "undo_action"} /\ pc[t] \in Undos
    BY DEF UndoReturns, Undos
  <1>2. /\ UndoInv(t) /\ TypeOK /\ Truthful(health)
        /\ \A u \in Calls \ {t} : ~ Active(u)
        /\ c \in Names
    BY <1>1, RollingBack
  <1>3. UNCHANGED <<components, seen, broken, removed, health, op, again, todo, undo, begun, errors, report>>
    BY DEF UndoReturns, registryVars
  <1>4. Head(undo'[t]) = c
    BY <1>3
  <1> HIDE DEF c
  <1>5. /\ pc' \in [Calls -> Hooks \cup Undos \cup {"idle", "returned"}]
        /\ pc'[t] \in {"undo_action", "undo_after"} /\ (pc'[t] = "undo_after" => pc[t] = "undo_action")
        /\ \A u \in Calls \ {t} : pc'[u] = pc[u]
    <2>1. NextHook[pc[t]] \in {"undo_action", "undo_after"} /\ (NextHook[pc[t]] = "undo_after" => pc[t] = "undo_action")
      BY <1>1 DEF NextHook
    <2> QED BY <2>1, <1>2 DEF UndoReturns, TypeOK, Undos
  <1>6. op[t] \in Startup
    BY <1>2 DEF UndoInv
  <1>7. /\ live' \in [Names -> SUBSET Startup]
        /\ \A n \in Names \ {c} : live'[n] = live[n]
        /\ pc[t] = "undo_action" => op[t] \notin live'[c]
    <2>1. CASE pc[t] = "undo_action"
      <3>1. Undoing[op[t]] \notin Startup
        BY <1>6 DEF Undoing, Startup
      <3>2. live' = [live EXCEPT ![c] = {p \in @ : Undoing[p] # Undoing[op[t]]}]
        BY <2>1, <3>1 DEF UndoReturns, Through, c
      <3> QED BY <3>2, <1>2 DEF TypeOK
    <2>2. CASE pc[t] # "undo_action"
      BY <2>2, <1>2 DEF UndoReturns, TypeOK
    <2> QED BY <2>1, <2>2
  <1>8. health[c] \in {"SHUTTING_DOWN", "CREATED"}
    BY <1>2 DEF UndoInv, c
  <1>9. Truthful(health)'
    BY <1>2, <1>3, <1>7, <1>8 DEF Truthful
  <1>10. TypeOK'
    BY <1>2, <1>3, <1>5, <1>7 DEF TypeOK
  <1>11. ASSUME NEW n \in ToSet(begun'[t]) \ removed' PROVE n \in ToSet(undo'[t]) \/ Undone(t, n)'
    <2>1. n \in ToSet(undo[t]) \/ Undone(t, n)
      BY <1>2, <1>3, <1>11 DEF UndoInv
    <2>2. n \in Names
      BY <1>2, <1>3, <1>11 DEF TypeOK, ToSet
    <2>3. CASE n = c
      BY <1>3, <1>8, <2>1, <2>3 DEF Undone
    <2>4. CASE n # c
      BY <1>3, <1>7, <2>1, <2>2, <2>4 DEF Undone
    <2> QED BY <2>3, <2>4
  <1>12. Present'
    BY <1>3 DEF LifecycleInv, Present
  <1>13. UndoInv(t)'
    BY <1>2, <1>3, <1>4, <1>5, <1>7, <1>8, <1>11 DEF UndoInv, Once, Backward, ToSet, EnabledThen
  <1>14. CallInv(t)'
    BY <1>5, <1>13 DEF CallInv, Hooks, Undos
  <1>15. Accounted(t) /\ CleanedUp(t)
    BY <1>5 DEF Accounted, CleanedUp, Returns
  <1> QED BY <1>2, <1>3, <1>5, <1>9, <1>10, <1>12, <1>14, <1>15, OthersRest

\* The rollback of a component ends, well or badly.
LEMMA UndoEnds ==
    ASSUME LifecycleInv, NEW t \in Calls, pc[t] \in Undos, NEW state \in {"STOPPED", "FAILED"},
           state = "STOPPED" => pc[t] = "undo_after",
           TurnBack(t, Tail(undo[t]), [health EXCEPT ![Head(undo[t])] = state]),
           UNCHANGED <<components, seen, broken, removed, op, again, todo, begun, errors, live>>
    PROVE  LifecycleInv' /\ \A u \in Calls : Accounted(u) /\ CleanedUp(u)
  <1> DEFINE c == Head(undo[t])
             rest == Tail(undo[t])
             h == [health EXCEPT ![c] = state]
  <1>1. /\ UndoInv(t) /\ TypeOK /\ Truthful(health)
        /\ \A u \in Calls \ {t} : ~ Active(u)
        /\ c \in Names /\ Once(Names, rest) /\ Backward(seen, rest) /\ Present
        /\ ToSet(undo[t]) = {c} \cup ToSet(rest)
    BY RollingBack DEF LifecycleInv
  <1>2. TurnBack(t, rest, h)
    OBVIOUS
  <1>3. Truthful(h) /\ h[c] = state /\ \A n \in Names \ {c} : h[n] = health[n]
    BY <1>1 DEF Truthful, ComponentState
  <1>4. state = "STOPPED" => op[t] \notin live[c]
    BY <1>1 DEF UndoInv, c
  <1>5. op[t] \in Startup /\ todo'[t] = << >> /\ (\E n \in errors'[t] : seen[n].critical)
        /\ ToSet(begun[t]) \subseteq EnabledThen
    BY <1>1 DEF UndoInv
  <1>6. \A n \in ToSet(begun[t]) \ removed : n \in ToSet(undo[t]) \/ Undone(t, n)
    BY <1>1 DEF UndoInv
  <1> HIDE DEF c, rest, h
  <1>7. ASSUME NEW n \in ToSet(begun[t]) \ removed
        PROVE  n \in ToSet(rest) \/ (h[n] = "STOPPED" /\ op[t] \notin live[n]) \/ h[n] = "FAILED"
    <2>1. n \in Names
      BY <1>1, <1>7 DEF TypeOK, ToSet
    <2>2. CASE n = c
      BY <2>2, <1>3, <1>4
    <2>3. CASE n # c
      BY <2>1, <2>3, <1>1, <1>3, <1>6 DEF Undone
    <2> QED BY <2>2, <2>3
  <1>8. /\ CallInv(t)' /\ Truthful(health)'
        /\ pc' \in [Calls -> Hooks \cup Undos \cup {"idle", "returned"}]
        /\ undo' \in [Calls -> Seq(Names)]
        /\ report' \in [Calls -> BOOLEAN \cup {None}]
        /\ \A u \in Calls \ {t} : pc'[u] = pc[u] /\ undo'[u] = undo[u]
        /\ Accounted(t) /\ CleanedUp(t)
    BY <1>1, <1>2, <1>3, <1>5, <1>7, TurnBackKeeps
  <1>9. TypeOK'
    BY <1>1, <1>8 DEF TypeOK, Truthful
  <1>10. Present'
    BY <1>1 DEF Present
  <1> QED BY <1>1, <1>8, <1>9, <1>10, OthersRest

\* The registry changes, between the phases or during one.
LEMMA RegistryStep ==
    ASSUME LifecycleInv, UNCHANGED <<callVars, live>>, NEW n \in Names,
           NEW r \in Registrations \cup {None}, r = None \/ r.name = n,
           components' = [components EXCEPT ![n] = r],
           health' = health \/ (components[n] = None /\ health' = [health EXCEPT ![n] = "CREATED"]),
           NEW names \in SUBSET Names, Noted(names), r = None => n \in names
    PROVE  LifecycleInv' /\ \A u \in Calls : Accounted(u) /\ CleanedUp(u)
  <1>1. /\ TypeOK /\ Keyed /\ Present /\ HealthTruthful /\ OneCall
        /\ \A u \in Calls : CallInv(u)
    BY DEF LifecycleInv
  <1>2. /\ seen' \in [Names -> Registrations \cup {None}] /\ broken' \in BOOLEAN
        /\ removed' \subseteq Names
        /\ ~ Free => seen' = seen /\ broken' = broken /\ removed' = removed \cup names
        /\ Free => seen' = components'
    <2>1. components' \in [Names -> Registrations \cup {None}]
      BY <1>1 DEF TypeOK
    <2>2. CASE Free
      BY <2>1, <2>2 DEF Noted
    <2>3. CASE ~ Free
      BY <1>1, <2>3 DEF Noted, TypeOK
    <2> QED BY <2>2, <2>3
  <1>3. TypeOK'
    BY <1>1, <1>2 DEF TypeOK, callVars, ComponentState
  <1>4. Keyed'
    BY <1>1 DEF Keyed, Registered, TypeOK
  <1>5. HealthTruthful'
    BY <1>1 DEF HealthTruthful, TypeOK
  <1>6. OneCall'
    BY <1>1 DEF OneCall, Active, callVars
  <1>7. Present'
    BY <1>1, <1>2 DEF Present, TypeOK
  <1>8. ASSUME NEW u \in Calls PROVE CallInv(u)' /\ Accounted(u) /\ CleanedUp(u)
    <2>1. /\ pc' = pc /\ todo' = todo /\ undo' = undo /\ op' = op /\ begun' = begun
          /\ errors' = errors /\ live' = live
      BY DEF callVars
    <2>2. Accounted(u) /\ CleanedUp(u)
      BY <2>1 DEF Accounted, CleanedUp, Returns
    <2>3. CASE Free
      <3>1. pc[u] \in {"idle", "returned"} /\ todo[u] = << >> /\ undo[u] = << >>
        BY <1>1, <2>3 DEF Free, Active, CallInv
      <3> QED BY <2>1, <2>2, <3>1 DEF CallInv, Hooks, Undos
    <2>4. CASE ~ Free
      <3>1. seen' = seen /\ broken' = broken /\ removed' = removed \cup names
        BY <1>2, <2>4
      <3>2. EnabledThen' = EnabledThen
        BY <3>1 DEF EnabledThen
      <3>3. \A m \in Names : m \in EnabledThen \ removed => health'[m] = health[m]
        BY <1>1 DEF Present, EnabledThen, TypeOK
      <3>4. \A m \in Names : health'[m] \in {health[m], "CREATED"}
        BY <1>1 DEF TypeOK
      <3>5. WalkInv(u) => WalkInv(u)'
        <4>1. SUFFICES ASSUME WalkInv(u) PROVE WalkInv(u)'
          OBVIOUS
        <4>2. Route(seen, broken, op[u], todo[u]) /\ todo[u] # << >>
          BY <4>1 DEF WalkInv
        <4>3. Current(u) \in Names
          BY <4>2, TailRoute DEF Current, EnabledIn
        <4>4. Current(u)' = Current(u)
          BY <2>1 DEF Current
        <4>5. health'[Current(u)] \in {health[Current(u)], "CREATED"}
          BY <3>4, <4>3
        <4>6. Route(seen, broken, op[u], todo[u])'
          BY <2>1, <3>1, <4>2 DEF Route, EnabledIn
        <4>7. ToSet(begun[u])' = ToSet(begun[u]) /\ NamesOf(todo[u])' = NamesOf(todo[u])
          BY <2>1 DEF ToSet, NamesOf
        <4>8. health'[Current(u)'] \in {InProgress[op[u]], "CREATED"}
          BY <4>1, <4>4, <4>5 DEF WalkInv
        <4>9. Once(Names, begun[u])' /\ (op[u] \in Startup => Forward(seen, begun[u])')
          BY <2>1, <3>1, <4>1 DEF WalkInv, Once, Forward
        <4> QED BY <2>1, <3>1, <3>2, <4>1, <4>4, <4>6, <4>7, <4>8, <4>9 DEF WalkInv
      <3>6. UndoInv(u) => UndoInv(u)'
        <4>1. SUFFICES ASSUME UndoInv(u) PROVE UndoInv(u)'
          OBVIOUS
        <4>2. Once(Names, undo[u]) /\ undo[u] # << >>
          BY <4>1 DEF UndoInv
        <4>3. Head(undo[u]) \in Names
          BY <4>2 DEF Once
        <4>4. health'[Head(undo[u])] \in {health[Head(undo[u])], "CREATED"}
          BY <3>4, <4>3
        <4>5. ToSet(begun[u])' = ToSet(begun[u]) /\ ToSet(undo[u])' = ToSet(undo[u])
          BY <2>1 DEF ToSet
        <4>6. Once(Names, undo[u])' /\ Backward(seen, undo[u])'
          BY <2>1, <3>1, <4>1 DEF UndoInv, Once, Backward
        <4>7. ASSUME NEW m \in ToSet(begun[u]) \ removed'
              PROVE  m \in ToSet(undo[u]) \/ Undone(u, m)'
          <5>1. m \in ToSet(begun[u]) \ removed /\ m \in EnabledThen
            BY <3>1, <4>1, <4>7 DEF UndoInv
          <5>2. m \in ToSet(undo[u]) \/ Undone(u, m)
            BY <4>1, <5>1 DEF UndoInv
          <5>3. health'[m] = health[m]
            BY <3>3, <5>1 DEF EnabledThen
          <5> QED BY <2>1, <5>2, <5>3 DEF Undone
        <4>8. Head(undo'[u]) = Head(undo[u])
          BY <2>1
        <4>9. health'[Head(undo'[u])] \in {"SHUTTING_DOWN", "CREATED"}
          BY <4>1, <4>4, <4>8 DEF UndoInv
        <4> QED BY <2>1, <3>1, <3>2, <4>1, <4>5, <4>6, <4>7, <4>8, <4>9 DEF UndoInv
      <3>7. CallInv(u)
        BY <1>1
      <3> QED BY <2>1, <2>2, <3>5, <3>6, <3>7 DEF CallInv
    <2> QED BY <2>3, <2>4
  <1> QED BY <1>3, <1>4, <1>5, <1>6, <1>7, <1>8 DEF LifecycleInv

\* Every step keeps the invariant, and a step that ends a phase ends it as promised.
LEMMA LifecycleStep ==
    ASSUME LifecycleInv, [Next]_vars
    PROVE  LifecycleInv' /\ \A u \in Calls : Accounted(u) /\ CleanedUp(u)
  <1>1. ASSUME NEW t \in Calls, Begin(t)
        PROVE  LifecycleInv' /\ \A u \in Calls : Accounted(u) /\ CleanedUp(u)
    BY <1>1, BeginStep
  <1>2. ASSUME NEW t \in Calls, HookStep(t)
        PROVE  LifecycleInv' /\ \A u \in Calls : Accounted(u) /\ CleanedUp(u)
    <2>1. CASE HookReturns(t)
      BY <2>1, HookReturnsStep
    <2>2. CASE ComponentDone(t)
      BY <2>2, ComponentDoneStep
    <2>3. CASE HookRaises(t)
      BY <2>3, HookRaisesStep
    <2>4. CASE CriticalFailure(t)
      BY <2>4, CriticalFailureStep
    <2>5. CASE UndoReturns(t)
      BY <2>5, UndoReturnsStep
    <2>6. CASE UndoDone(t)
      <3>1. "STOPPED" \in {"STOPPED", "FAILED"} /\ pc[t] \in Undos
        BY <2>6 DEF UndoDone, Undos
      <3> QED BY <3>1, <2>6, UndoEnds DEF UndoDone, registryVars
    <2>7. CASE UndoRaises(t)
      <3>1. "FAILED" \in {"STOPPED", "FAILED"} /\ "FAILED" # "STOPPED"
        OBVIOUS
      <3> QED BY <3>1, <2>7, UndoEnds DEF UndoRaises, registryVars
    <2> QED BY <1>2, <2>1, <2>2, <2>3, <2>4, <2>5, <2>6, <2>7 DEF HookStep
  <1>3. ASSUME NEW r \in Registrations, Register(r) \/ Update(r)
        PROVE  LifecycleInv' /\ \A u \in Calls : Accounted(u) /\ CleanedUp(u)
    <2>1. r.name \in Names
      BY ComponentAssumption DEF ComponentRegistration
    <2>2. {} \in SUBSET Names /\ r # None /\ r \in Registrations \cup {None}
      BY ComponentAssumption DEF ComponentRegistration
    <2>3. /\ UNCHANGED <<callVars, live>> /\ Noted({}) /\ components' = [components EXCEPT ![r.name] = r]
          /\ health' = health
             \/ (components[r.name] = None /\ health' = [health EXCEPT ![r.name] = "CREATED"])
      BY <1>3 DEF Register, RegisterComponent, Update, UpdateComponent
    <2> QED BY <2>1, <2>2, <2>3, RegistryStep
  <1>4. ASSUME NEW n \in Names, Unregister(n)
        PROVE  LifecycleInv' /\ \A u \in Calls : Accounted(u) /\ CleanedUp(u)
    <2>1. {n} \in SUBSET Names /\ n \in {n}
      OBVIOUS
    <2> QED BY <1>4, <2>1, RegistryStep DEF Unregister, RemoveComponent
  <1>5. CASE UNCHANGED vars
    <2>1. UNCHANGED <<components, seen, broken, removed, health, live, pc, op, again, todo, undo, begun, errors, report>>
      BY <1>5 DEF vars, callVars, registryVars
    <2>2. Registered' = Registered /\ EnabledThen' = EnabledThen
      BY <2>1 DEF Registered, EnabledThen
    <2>3. ASSUME NEW u \in Calls PROVE CallInv(u)' /\ Accounted(u) /\ CleanedUp(u)
      <3>1. CallInv(u)
        BY DEF LifecycleInv
      <3>2. Route(seen, broken, op[u], todo[u]) => Route(seen, broken, op[u], todo[u])'
        BY <2>1 DEF Route, EnabledIn
      <3>3. WalkInv(u) => WalkInv(u)'
        BY <2>1, <2>2, <3>2 DEF WalkInv, ToSet, NamesOf, Once, Forward, Current
      <3>4. UndoInv(u) => UndoInv(u)'
        BY <2>1, <2>2 DEF UndoInv, ToSet, Once, Backward, Undone
      <3>5. CallInv(u)'
        BY <2>1, <3>1, <3>3, <3>4 DEF CallInv
      <3> QED BY <2>1, <3>5 DEF Accounted, CleanedUp, Returns
    <2>4. TypeOK' /\ Keyed' /\ Present' /\ OneCall' /\ HealthTruthful'
      BY <2>1, <2>2 DEF LifecycleInv, TypeOK, Keyed, Present, OneCall, HealthTruthful, Active
    <2> QED BY <2>3, <2>4 DEF LifecycleInv
  <1> QED BY <1>1, <1>2, <1>3, <1>4, <1>5 DEF Next

\* The invariant holds of a new manager.
LEMMA LifecycleInit == ASSUME Init PROVE LifecycleInv
  <1>1. TypeOK
    <2>1. seen = components /\ components \in [Names -> Registrations \cup {None}]
      BY DEF Init
    <2>2. seen \in [Names -> Registrations \cup {None}]
      BY <2>1
    <2>3. /\ health \in [Names -> ComponentState \cup {None}]
          /\ pc \in [Calls -> Hooks \cup Undos \cup {"idle", "returned"}]
          /\ op \in [Calls -> Phases \cup {None}]
          /\ again \in [Calls -> BOOLEAN]
          /\ errors \in [Calls -> SUBSET Names]
          /\ live \in [Names -> SUBSET Startup] /\ broken \in BOOLEAN /\ removed \subseteq Names
      BY DEF Init
    <2>4. /\ todo \in [Calls -> Seq(Registrations)] /\ undo \in [Calls -> Seq(Names)]
          /\ begun \in [Calls -> Seq(Names)] /\ report \in [Calls -> BOOLEAN \cup {None}]
      BY DEF Init
    <2> QED BY <2>1, <2>2, <2>3, <2>4 DEF TypeOK
  <1>2. Registered = {}
    BY DEF Init, Registered
  <1>3. Keyed
    BY <1>2 DEF Keyed
  <1>4. HealthTruthful
    BY CallAssumption DEF Init, HealthTruthful, ComponentState
  <1>5. \A t \in Calls : CallInv(t) /\ ~ Active(t)
    BY DEF Init, CallInv, Active, Hooks, Undos
  <1>6. Present
    BY DEF Init, Present
  <1> QED BY <1>1, <1>3, <1>4, <1>5, <1>6 DEF LifecycleInv, OneCall

\* The order of the visits follows from the routes.
LEMMA Visited == ASSUME LifecycleInv PROVE VisitOrder
  <1>1. SUFFICES ASSUME NEW t \in Calls
                 PROVE  /\ \A j \in 2..Len(todo[t]) :
                              IF op[t] \in Startup THEN todo[t][j].name \notin todo[t][1].dependencies
                              ELSE ~ broken => Current(t) \notin todo[t][j].dependencies
                        /\ \A j \in 2..Len(undo[t]) : undo[t][1] \notin seen[undo[t][j]].dependencies
    BY DEF VisitOrder
  <1>2. TypeOK /\ CallInv(t)
    BY DEF LifecycleInv
  <1>3. pc[t] \in Hooks \cup Undos \cup {"idle", "returned"}
    BY <1>2 DEF TypeOK
  <1>4. CASE pc[t] \in {"idle", "returned"}
    BY <1>2, <1>4 DEF CallInv
  <1>5. CASE pc[t] \in Hooks
    <2>1. undo[t] = << >> /\ Route(seen, broken, op[t], todo[t])
      BY <1>2, <1>5 DEF CallInv, WalkInv
    <2>2. ASSUME NEW j \in 2..Len(todo[t])
          PROVE  /\ 1 \in DOMAIN todo[t] /\ j \in DOMAIN todo[t] /\ 1 < j
                 /\ Current(t) = todo[t][1].name
      BY <1>2, <2>2 DEF TypeOK, Current
    <2> QED BY <2>1, <2>2 DEF Route
  <1>6. CASE pc[t] \in Undos
    <2>1. todo[t] = << >> /\ Backward(seen, undo[t])
      BY <1>2, <1>6 DEF CallInv, UndoInv
    <2>2. ASSUME NEW j \in 2..Len(undo[t])
          PROVE  1 \in DOMAIN undo[t] /\ j \in DOMAIN undo[t] /\ 1 < j
      BY <1>2, <2>2 DEF TypeOK
    <2> QED BY <2>1, <2>2 DEF Backward
  <1> QED BY <1>3, <1>4, <1>5, <1>6

-----------------------------------------------------------------------------
(***************************************************************************)
(* The theorems.                                                           *)
(***************************************************************************)
\* Every reachable state of the lifecycle manager satisfies the invariant.
THEOREM LifecycleInvariant == Spec => []LifecycleInv
  <1>1. Init => LifecycleInv
    BY LifecycleInit
  <1>2. LifecycleInv /\ [Next]_vars => LifecycleInv'
    BY LifecycleStep
  <1> QED BY <1>1, <1>2, PTL DEF Spec

\* The manager's fields keep their types, health only ever holding states of the
\* enumeration.
THEOREM LifecycleTypes == Spec => []TypeOK
  <1>1. LifecycleInv => TypeOK
    BY DEF LifecycleInv
  <1> QED BY <1>1, LifecycleInvariant, PTL

\* Whatever is registered, updated and removed, _build_execution_order finds an order
\* exactly when there is no circle of dependencies, and the order it finds is
\* topological (orchestrator.py:24-68).
THEOREM RegistryIsOrdered == Spec => []OrderIsTopological
  <1>1. LifecycleInv => OrderIsTopological
    BY OrderOfRegistry DEF LifecycleInv, TypeOK, RegistryOK
  <1> QED BY <1>1, LifecycleInvariant, PTL

\* A startup phase never reaches a component before what it depends on, and neither a
\* shutdown nor a rollback one before what depends on it.
THEOREM PhasesVisitInOrder == Spec => []VisitOrder
  <1>1. LifecycleInv => VisitOrder
    BY Visited
  <1> QED BY <1>1, LifecycleInvariant, PTL

\* The health monitor calls a component RUNNING or BOOTED only while it is.
THEOREM HealthIsTruthful == Spec => []HealthTruthful
  <1>1. LifecycleInv => HealthTruthful
    BY DEF LifecycleInv
  <1> QED BY <1>1, LifecycleInvariant, PTL

\* The report of a phase accounts for every component that was enabled when the phase
\* began, and says success or failure for the reason it should, although components
\* are registered, updated and unregistered while it runs.
THEOREM ReportsAreComplete == Spec => ReportIsComplete
  <1>1. LifecycleInv /\ [Next]_vars =>
          [\A t \in Calls :
               Returns(t) =>
                   LET good == ToSet(begun'[t])
                       bad == errors'[t]
                   IN  IF op'[t] \notin Startup
                       THEN good \cup bad = EnabledThen' /\ report'[t] = (bad = {})
                       ELSE IF report'[t]
                       THEN /\ good \cup bad = EnabledThen'
                            /\ \A n \in bad : ~ seen'[n].critical
                       ELSE broken' \/ \E n \in bad : seen'[n].critical]_vars
    BY LifecycleStep DEF Accounted
  <1> QED BY <1>1, LifecycleInvariant, PTL DEF Spec, ReportIsComplete

\* When a startup phase reports failure, every component it had started has been
\* rolled back, or its rollback is recorded as failed, or it was unregistered while
\* the phase ran.
THEOREM FailedStartupsAreUndone == Spec => FailedStartupIsUndone
  <1>1. LifecycleInv /\ [Next]_vars =>
          [\A t \in Calls :
               (Returns(t) /\ op'[t] \in Startup /\ ~ report'[t]) =>
                   \A n \in ToSet(begun'[t]) \ removed' :
                       \/ health'[n] = "STOPPED" /\ op'[t] \notin live'[n]
                       \/ health'[n] = "FAILED"]_vars
    BY LifecycleStep DEF CleanedUp
  <1> QED BY <1>1, LifecycleInvariant, PTL DEF Spec, FailedStartupIsUndone
=============================================================================

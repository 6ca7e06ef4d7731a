--------------------------- MODULE ResolverProofs ---------------------------
(***************************************************************************)
(* Proofs that the order Resolver derives is right for every kit set.      *)
(*                                                                         *)
(* Kahn's loop works on counters; the argument is that IInv gives the      *)
(* counters their meaning (indegree[u] is the number of u's dependencies   *)
(* not ordered yet) and the ready list its meaning (what could be ordered  *)
(* next).  ProvidersFirst and SmallestReferenceFirst then follow from the  *)
(* guard of Pop, and CycleIsReal from the guard of Finish.                 *)
(***************************************************************************)
EXTENDS Resolver, FiniteSetTheorems, TLAPS

\* The dependencies of a unit are other units of the set, finitely many.
LEMMA DepsInSet ==
  ASSUME TypeOK, NEW u \in Set
  PROVE  /\ Deps(kits, u) \subseteq Set \ {u}
         /\ IsFiniteSet(Deps(kits, u))
<1>1. Deps(kits, u) \subseteq Set \ {u}
  BY DEF Deps, SatisfiedBy, Set
<1>2. IsFiniteSet(Set)
  BY UnitsFinite, FS_Subset DEF TypeOK
<1> QED BY <1>1, <1>2, FS_Subset

\* Appending a unit adds exactly that unit to what is ordered and leaves the
\* shorter prefixes alone.
LEMMA PrefixOfAppend ==
  ASSUME ordered \in Seq(Set), NEW u \in Set, ordered' = Append(ordered, u)
  PROVE  /\ Len(ordered') = Len(ordered) + 1
         /\ ordered'[Len(ordered) + 1] = u
         /\ \A i \in 1..Len(ordered) : ordered'[i] = ordered[i]
         /\ \A n \in 0..Len(ordered) : Prefix(n)' = Prefix(n)
         /\ Ordered' = Ordered \cup {u}
<1>1. /\ Len(ordered) \in Nat
      /\ Len(ordered') = Len(ordered) + 1
      /\ ordered'[Len(ordered) + 1] = u
      /\ \A i \in 1..Len(ordered) : ordered'[i] = ordered[i]
  OBVIOUS
<1>2. \A n \in 0..Len(ordered) : Prefix(n)' = Prefix(n)
  BY <1>1 DEF Prefix
<1>3. Ordered' = Ordered \cup {u}
  <2>1. 1..(Len(ordered) + 1) = 1..Len(ordered) \cup {Len(ordered) + 1}
    BY <1>1
  <2> QED BY <1>1, <2>1 DEF Ordered, Prefix
<1> QED BY <1>1, <1>2, <1>3

\* The invariant holds before resolve has judged anything.
LEMMA InitIInv == Init => IInv
<1> SUFFICES ASSUME Init PROVE IInv
  OBVIOUS
<1>1. Set \subseteq Unit /\ \A u \in Set : kits[u] \in Descriptor
  BY CatalogHoldsDescriptors DEF Init, Given, Untouched, Set
<1>2. TypeOK
  BY <1>1 DEF Init, Untouched, TypeOK, Phases
<1>3. Len(ordered) = 0
  BY DEF Init, Untouched
<1> QED BY <1>2, <1>3 DEF Init, Untouched, IInv, LoopInv, ProvidersFirst, CycleIsReal

\* Before the loop a step changes neither the set nor the graph, or builds
\* the graph: nothing is ordered yet.
LEMMA CheckingStep ==
  ASSUME IInv,
         Enter \/ CheckOneWorkload \/ ProvidesIndex \/ CheckOneProviderPerName
           \/ CheckOneCredentialOwner \/ CheckRequires \/ CheckIntegrates
           \/ CheckConflicts \/ Judge
  PROVE  IInv'
<1>1. UNCHANGED <<input, graph>> /\ phase' \in Phases \ {"entry", "sort", "done"}
      /\ phase \notin {"sort", "done", "refused"}
      /\ (phase' = "order" => phase = "judge" /\ problems' = {})
      /\ (phase \in {"order", "sort", "done"} => FALSE)
  BY DEF Enter, CheckOneWorkload, ProvidesIndex, CheckOneProviderPerName,
         CheckOneCredentialOwner, CheckRequires, CheckIntegrates,
         CheckConflicts, Judge, Check, Phases, input, graph
<1>2. workload' \in Set \cup {None}
  BY DEF Enter, CheckOneWorkload, ProvidesIndex, CheckOneProviderPerName,
         CheckOneCredentialOwner, CheckRequires, CheckIntegrates,
         CheckConflicts, Judge, Workloads, Set, IInv, TypeOK
<1>3. TypeOK'
  BY <1>1, <1>2 DEF IInv, TypeOK, input, graph, Set
<1>4. ordered = <<>> /\ cyclic = {}
  BY <1>1 DEF IInv, LoopInv
<1>5. Len(ordered') = 0 /\ cyclic' = {} /\ ordered' = <<>>
  BY <1>1, <1>4 DEF graph
<1>6. LoopInv' /\ ProvidersFirst' /\ CycleIsReal'
  BY <1>1, <1>5 DEF LoopInv, ProvidersFirst, CycleIsReal
<1> QED BY <1>3, <1>6 DEF IInv

\* BuildGraph gives the counters their meaning.
LEMMA BuildGraphStep ==
  ASSUME IInv, BuildGraph
  PROVE  IInv'
<1>1. /\ UNCHANGED <<kits, partial, selected, problems, workload, ordered, cyclic>>
      /\ phase = "order" /\ phase' = "sort"
  BY DEF BuildGraph, input
<1>2. ordered = <<>> /\ cyclic = {} /\ problems = {}
  BY <1>1 DEF IInv, LoopInv
<1>3. Set' = Set /\ Ordered' = {} /\ Len(ordered') = 0
  BY <1>1, <1>2 DEF Set, Ordered, Prefix
<1>4. \A u \in Set : Deps(kits, u) \subseteq Set /\ Cardinality(Deps(kits, u)) \in Nat
  BY DepsInSet, FS_CardinalityType DEF IInv
<1>5. TypeOK'
  <2>1. indegree' \in [Set -> Nat]
    BY <1>4 DEF BuildGraph
  <2>2. dependents' \in [Set -> SUBSET Set] /\ ready' \subseteq Set
    BY DEF BuildGraph
  <2> QED BY <1>1, <1>3, <2>1, <2>2 DEF IInv, TypeOK, Phases
<1>6. LoopInv'
  <2>1. dependents' = [p \in Set |-> {u \in Set : p \in Deps(kits, u)}]
    BY DEF BuildGraph
  <2>2. \A u \in Set : indegree'[u] = Cardinality(Deps(kits, u) \ {})
    BY DEF BuildGraph
  <2>3. ready' = {u \in Set \ {} : Deps(kits, u) \subseteq {}}
    BY DEF BuildGraph
  <2> QED BY <1>1, <1>2, <1>3, <2>1, <2>2, <2>3 DEF LoopInv
<1>7. ProvidersFirst' /\ CycleIsReal'
  BY <1>1, <1>2, <1>3 DEF ProvidersFirst, CycleIsReal
<1> QED BY <1>5, <1>6, <1>7 DEF IInv

\* One turn of the loop keeps the counters right, and the popped unit has all
\* its dependencies behind it.
LEMMA PopStep ==
  ASSUME IInv, NEW u \in Set, Pop(u)
  PROVE  IInv'
<1>1. /\ UNCHANGED <<kits, partial, selected, problems, workload, dependents, cyclic, phase>>
      /\ phase = "sort" /\ ordered' = Append(ordered, u)
      /\ u \in ready /\ \A v \in ready : Rank[u] <= Rank[v]
  BY DEF Pop, Smallest, input
<1>2. /\ dependents = [p \in Set |-> {v \in Set : p \in Deps(kits, v)}]
      /\ \A v \in Set : indegree[v] = Cardinality(Deps(kits, v) \ Ordered)
      /\ ready = {v \in Set \ Ordered : Deps(kits, v) \subseteq Ordered}
      /\ cyclic = {} /\ problems = {}
  BY <1>1 DEF IInv, LoopInv
<1>3. ordered \in Seq(Set) /\ Set' = Set /\ Len(ordered) \in Nat
  BY <1>1 DEF IInv, TypeOK, Set
<1>4. /\ Len(ordered') = Len(ordered) + 1
      /\ ordered'[Len(ordered) + 1] = u
      /\ \A i \in 1..Len(ordered) : ordered'[i] = ordered[i]
      /\ \A n \in 0..Len(ordered) : Prefix(n)' = Prefix(n)
      /\ Ordered' = Ordered \cup {u}
  BY <1>1, <1>3, PrefixOfAppend
<1>5. u \notin Ordered /\ Deps(kits, u) \subseteq Ordered
  BY <1>1, <1>2
<1>6. \A v \in Set :
        /\ indegree'[v] = Cardinality(Deps(kits, v) \ Ordered')
        /\ indegree'[v] \in Nat
        /\ indegree'[v] = 0 <=> Deps(kits, v) \subseteq Ordered'
  <2> SUFFICES ASSUME NEW v \in Set
               PROVE  /\ indegree'[v] = Cardinality(Deps(kits, v) \ Ordered')
                      /\ indegree'[v] \in Nat
                      /\ indegree'[v] = 0 <=> Deps(kits, v) \subseteq Ordered'
    OBVIOUS
  <2> DEFINE D == Deps(kits, v) \ Ordered
  <2>1. IsFiniteSet(D) /\ IsFiniteSet(D \ {u})
    BY DepsInSet, FS_Subset DEF IInv
  <2>2. Deps(kits, v) \ Ordered' = D \ {u}
    BY <1>4
  <2>3. indegree'[v] = Cardinality(D \ {u})
    <3>1. CASE u \in Deps(kits, v)
      <4>1. indegree'[v] = indegree[v] - 1
        BY <3>1, <1>2 DEF Pop
      <4>2. u \in D
        BY <3>1, <1>5
      <4>3. Cardinality(D \ {u}) = Cardinality(D) - 1
        BY <4>2, <2>1, FS_RemoveElement
      <4> QED BY <4>1, <4>3, <1>2
    <3>2. CASE u \notin Deps(kits, v)
      <4>1. indegree'[v] = indegree[v]
        BY <3>2, <1>2 DEF Pop
      <4>2. D \ {u} = D
        BY <3>2
      <4> QED BY <4>1, <4>2, <1>2
    <3> QED BY <3>1, <3>2
  <2>4. Cardinality(D \ {u}) \in Nat /\ (Cardinality(D \ {u}) = 0 <=> D \ {u} = {})
    BY <2>1, FS_CardinalityType, FS_EmptySet
  <2>5. D \ {u} = {} <=> Deps(kits, v) \subseteq Ordered'
    BY <2>2
  <2> QED BY <2>2, <2>3, <2>4, <2>5
<1>7. ready' = {v \in Set \ Ordered' : Deps(kits, v) \subseteq Ordered'}
  <2>1. ready' = (ready \ {u}) \cup {v \in dependents[u] : indegree'[v] = 0}
    BY DEF Pop
  <2>2. dependents[u] = {v \in Set : u \in Deps(kits, v)}
    BY <1>2
  <2>3. ready' = (ready \ {u})
                 \cup {v \in Set : u \in Deps(kits, v) /\ Deps(kits, v) \subseteq Ordered'}
    BY <2>1, <2>2, <1>6
  <2>4. \A v \in Set : u \in Deps(kits, v) => v \notin Ordered'
    <3> SUFFICES ASSUME NEW v \in Set, u \in Deps(kits, v), v \in Ordered'
                 PROVE  FALSE
      OBVIOUS
    <3>1. v \in Ordered
      BY <1>4, DepsInSet DEF IInv
    <3>2. PICK i \in 1..Len(ordered) : v = ordered[i]
      BY <3>1 DEF Ordered, Prefix
    <3>3. Deps(kits, v) \subseteq Ordered
      BY <3>2, <1>3 DEF IInv, ProvidersFirst, Ordered, Prefix
    <3> QED BY <3>3, <1>5
  <2> QED BY <2>3, <2>4, <1>2, <1>4
<1>8. TypeOK'
  <2>1. indegree' \in [Set -> Nat]
    BY <1>6 DEF Pop
  <2>2. ordered' \in Seq(Set)
    BY <1>1, <1>3
  <2>3. ready' \subseteq Set
    BY <1>7
  <2> QED BY <1>1, <1>3, <2>1, <2>2, <2>3 DEF IInv, TypeOK
<1>9. \A i, j \in 1..Len(ordered') : i # j => ordered'[i] # ordered'[j]
  <2>1. \A i \in 1..Len(ordered) : ordered[i] # u
    BY <1>5 DEF Ordered, Prefix
  <2>2. \A i, j \in 1..Len(ordered) : i # j => ordered[i] # ordered[j]
    BY DEF IInv, LoopInv
  <2> QED BY <2>1, <2>2, <1>3, <1>4
<1>10. \A i \in 1..Len(ordered') : \A v \in Set' \ Prefix(i - 1)' :
         Deps(kits, v)' \subseteq Prefix(i - 1)' => Rank[ordered'[i]] <= Rank[v]
  <2> SUFFICES ASSUME NEW i \in 1..Len(ordered'), NEW v \in Set \ Prefix(i - 1)',
                      Deps(kits, v) \subseteq Prefix(i - 1)'
               PROVE  Rank[ordered'[i]] <= Rank[v]
    BY <1>1, <1>3
  <2>1. CASE i \in 1..Len(ordered)
    <3>1. i - 1 \in 0..Len(ordered) /\ Prefix(i - 1)' = Prefix(i - 1) /\ ordered'[i] = ordered[i]
      BY <2>1, <1>3, <1>4
    <3> QED BY <3>1, <2>1 DEF IInv, LoopInv
  <2>2. CASE i = Len(ordered) + 1
    <3>1. i - 1 = Len(ordered) /\ i - 1 \in 0..Len(ordered) /\ ordered'[i] = u
      BY <2>2, <1>3, <1>4
    <3>2. Prefix(i - 1)' = Ordered
      BY <3>1, <1>4 DEF Ordered
    <3> QED BY <3>1, <3>2, <1>1, <1>2
  <2> QED BY <2>1, <2>2, <1>3, <1>4
<1>11. LoopInv'
  BY <1>1, <1>2, <1>3, <1>6, <1>7, <1>9, <1>10 DEF LoopInv
<1>12. ProvidersFirst'
  <2> SUFFICES ASSUME NEW i \in 1..Len(ordered')
               PROVE  Deps(kits, ordered'[i]) \subseteq Prefix(i - 1)'
    BY <1>1 DEF ProvidersFirst
  <2>1. CASE i \in 1..Len(ordered)
    <3>1. i - 1 \in 0..Len(ordered) /\ Prefix(i - 1)' = Prefix(i - 1) /\ ordered'[i] = ordered[i]
      BY <2>1, <1>3, <1>4
    <3> QED BY <3>1, <2>1 DEF IInv, ProvidersFirst
  <2>2. CASE i = Len(ordered) + 1
    <3>1. i - 1 = Len(ordered) /\ i - 1 \in 0..Len(ordered) /\ ordered'[i] = u
      BY <2>2, <1>3, <1>4
    <3>2. Prefix(i - 1)' = Ordered
      BY <3>1, <1>4 DEF Ordered
    <3> QED BY <3>1, <3>2, <1>5
  <2> QED BY <2>1, <2>2, <1>3, <1>4
<1>13. CycleIsReal'
  BY <1>1, <1>2 DEF CycleIsReal
<1> QED BY <1>8, <1>11, <1>12, <1>13 DEF IInv

\* When the ready list runs dry, what is left has a cycle.
LEMMA FinishStep ==
  ASSUME IInv, Finish
  PROVE  IInv'
<1>1. /\ UNCHANGED <<kits, partial, selected, problems, workload,
                     indegree, dependents, ready, ordered>>
      /\ phase = "sort" /\ ready = {} /\ phase' \in {"done", "refused"}
  BY DEF Finish, input
<1>2. /\ \A v \in Set : indegree[v] = Cardinality(Deps(kits, v) \ Ordered)
      /\ ready = {v \in Set \ Ordered : Deps(kits, v) \subseteq Ordered}
      /\ cyclic = {} /\ problems = {} /\ ordered \in Seq(Set)
  BY <1>1 DEF IInv, LoopInv, TypeOK
<1>3. /\ Set' = Set /\ Ordered' = Ordered /\ \A n : Prefix(n)' = Prefix(n)
      /\ \A v : Deps(kits, v)' = Deps(kits, v)
  BY <1>1 DEF Set, Ordered, Prefix
<1>4. \A v \in Set : indegree[v] > 0 <=> ~(Deps(kits, v) \subseteq Ordered)
  <2> SUFFICES ASSUME NEW v \in Set
               PROVE  indegree[v] > 0 <=> ~(Deps(kits, v) \subseteq Ordered)
    OBVIOUS
  <2>1. IsFiniteSet(Deps(kits, v) \ Ordered)
    BY DepsInSet, FS_Subset DEF IInv
  <2>2. indegree[v] \in Nat /\ (indegree[v] = 0 <=> Deps(kits, v) \ Ordered = {})
    BY <1>2, <2>1, FS_CardinalityType, FS_EmptySet
  <2> QED BY <2>2
<1>5. \A v \in Ordered : Deps(kits, v) \subseteq Ordered
  <2> SUFFICES ASSUME NEW i \in 1..Len(ordered)
               PROVE  Deps(kits, ordered[i]) \subseteq Ordered
    BY DEF Ordered, Prefix
  <2>1. Prefix(i - 1) \subseteq Ordered
    BY <1>2 DEF Ordered, Prefix
  <2> QED BY <2>1 DEF IInv, ProvidersFirst
<1>6. {v \in Set : indegree[v] > 0} = Set \ Ordered
  BY <1>1, <1>2, <1>4, <1>5
<1>7. \A v \in Set : Deps(kits, v) \subseteq Set
  BY DepsInSet DEF IInv
<1>8. Ordered \subseteq Set
  BY <1>2 DEF Ordered, Prefix
<1>9. cyclic' \in {{}, Set \ Ordered} /\ (cyclic' # {} => phase' = "refused")
  BY <1>2, <1>6 DEF Finish
<1>10. TypeOK'
  BY <1>1, <1>3, <1>9 DEF IInv, TypeOK, Phases
<1>11. CycleIsReal'
  <2>1. \A v \in Set \ Ordered : Deps(kits, v) \cap (Set \ Ordered) # {}
    BY <1>1, <1>2, <1>7
  <2> QED BY <1>1, <1>2, <1>3, <1>8, <1>9, <2>1 DEF CycleIsReal
<1>12. LoopInv'
  <2>1. \A i \in 1..Len(ordered) : \A v \in Set \ Prefix(i - 1) :
          Deps(kits, v) \subseteq Prefix(i - 1) => Rank[ordered[i]] <= Rank[v]
    BY DEF IInv, LoopInv
  <2>2. \A i, j \in 1..Len(ordered) : i # j => ordered[i] # ordered[j]
    BY DEF IInv, LoopInv
  <2> QED BY <1>1, <1>2, <1>3, <1>9, <2>1, <2>2 DEF LoopInv
<1>13. ProvidersFirst'
  BY <1>1, <1>3 DEF IInv, ProvidersFirst
<1> QED BY <1>10, <1>11, <1>12, <1>13 DEF IInv

\* IInv is inductive.
THEOREM InvariantHolds == Spec => []IInv
<1>1. IInv /\ [Next]_vars => IInv'
  <2> SUFFICES ASSUME IInv, [Next]_vars PROVE IInv'
    OBVIOUS
  <2>1. CASE Enter \/ CheckOneWorkload \/ ProvidesIndex \/ CheckOneProviderPerName
               \/ CheckOneCredentialOwner \/ CheckRequires \/ CheckIntegrates
               \/ CheckConflicts \/ Judge
    BY <2>1, CheckingStep
  <2>2. CASE BuildGraph
    BY <2>2, BuildGraphStep
  <2>3. CASE \E u \in Set : Pop(u)
    BY <2>3, PopStep
  <2>4. CASE Finish
    BY <2>4, FinishStep
  <2>5. CASE UNCHANGED vars
    <3>1. /\ UNCHANGED <<kits, partial, selected, phase, problems, workload,
                         indegree, dependents, ready, ordered, cyclic>>
          /\ Set' = Set /\ Ordered' = Ordered /\ \A n : Prefix(n)' = Prefix(n)
      BY <2>5 DEF vars, Set, Ordered, Prefix
    <3>2. TypeOK'
      BY <3>1 DEF IInv, TypeOK
    <3>3. LoopInv'
      BY <3>1 DEF IInv, LoopInv
    <3>4. ProvidersFirst' /\ CycleIsReal'
      BY <3>1 DEF IInv, ProvidersFirst, CycleIsReal
    <3> QED BY <3>2, <3>3, <3>4 DEF IInv
  <2> QED BY <2>1, <2>2, <2>3, <2>4, <2>5 DEF Next
<1> QED BY <1>1, InitIInv, PTL DEF Spec

\* The counters, the ready list and the order stay well typed for every set.
THEOREM TypeCorrect == Spec => []TypeOK
<1>1. IInv => TypeOK
  BY DEF IInv
<1> QED BY <1>1, InvariantHolds, PTL

\* Whatever the set, a provider is ordered before everything that requires it
\* or integrates with it.
THEOREM ProvidersComeFirst == Spec => []ProvidersFirst
<1>1. IInv => ProvidersFirst
  BY DEF IInv
<1> QED BY <1>1, InvariantHolds, PTL

\* A cycle is reported only where there is one, and names exactly what could
\* not be ordered.
THEOREM CyclesAreReal == Spec => []CycleIsReal
<1>1. IInv => CycleIsReal
  BY DEF IInv
<1> QED BY <1>1, InvariantHolds, PTL

\* The order is determined by the set: a smaller reference is later only
\* behind one of its own providers.
THEOREM OrderIsDetermined == Spec => []SmallestReferenceFirst
<1>1. IInv => SmallestReferenceFirst
  <2> SUFFICES ASSUME IInv, NEW i \in 1..Len(ordered), NEW j \in 1..Len(ordered),
                      i < j, Rank[ordered[j]] < Rank[ordered[i]]
               PROVE  \E k \in i..(j - 1) : ordered[k] \in Deps(kits, ordered[j])
    BY DEF SmallestReferenceFirst
  <2>1. /\ ordered \in Seq(Set) /\ Set \subseteq Unit
        /\ ordered[i] \in Set /\ ordered[j] \in Set
        /\ Rank[ordered[i]] \in Nat /\ Rank[ordered[j]] \in Nat
    BY RanksAreNaturals DEF IInv, TypeOK
  <2>2. ordered[j] \notin Prefix(i - 1)
    BY DEF IInv, LoopInv, Prefix
  <2>3. ~(Deps(kits, ordered[j]) \subseteq Prefix(i - 1))
    BY <2>1, <2>2 DEF IInv, LoopInv
  <2>4. Deps(kits, ordered[j]) \subseteq Prefix(j - 1)
    BY DEF IInv, ProvidersFirst
  <2>5. PICK w \in Prefix(j - 1) : w \in Deps(kits, ordered[j]) /\ w \notin Prefix(i - 1)
    BY <2>3, <2>4
  <2>6. PICK k \in 1..(j - 1) : w = ordered[k]
    BY <2>5 DEF Prefix
  <2>7. k >= i
    BY <2>5, <2>6 DEF Prefix
  <2> QED BY <2>5, <2>6, <2>7
<1> QED BY <1>1, InvariantHolds, PTL

-----------------------------------------------------------------------------
(* Resolver implements Composition.                                        *)

\* The abstract specification speaks of the same providers and edges.
LEMMA SameVocabulary ==
  ASSUME NEW K, NEW u
  PROVE  /\ Contract!ProvidedBy(K, u) = ProvidedBy(K, u)
         /\ Contract!Deps(K, u) = Deps(K, u)
         /\ Contract!Workloads(K) = Workloads(K)
         /\ \A n : Contract!OthersProviding(K, n, u) = OthersProviding(K, n, u)
         /\ \A p, r : Contract!Satisfies(p, r) <=> Satisfies(p, r)
         /\ \A e : Contract!Parses(e) <=> Parses(e)
<1>1. \A e : Contract!Parses(e) <=> Parses(e)
  BY DEF Contract!Parses, Parses
<1>2. \A v : Contract!ProvidedBy(K, v) = ProvidedBy(K, v)
  BY DEF Contract!ProvidedBy, ProvidedBy, Contract!Parses, Parses,
         Contract!EffectiveProvideVersion, EffectiveProvideVersion
<1>3. \A p, r : Contract!Satisfies(p, r) <=> Satisfies(p, r)
  BY DEF Contract!Satisfies, Satisfies
<1>4. Contract!Workloads(K) = Workloads(K)
  BY DEF Contract!Workloads, Workloads
<1>5. \A n : Contract!OthersProviding(K, n, u) = OthersProviding(K, n, u)
  BY <1>2 DEF Contract!OthersProviding, OthersProviding, Contract!Providers, Providers
<1>6. \A r : Contract!SatisfiedBy(K, r, u) = SatisfiedBy(K, r, u)
  BY <1>2, <1>3 DEF Contract!SatisfiedBy, SatisfiedBy
<1>7. Contract!Deps(K, u) = Deps(K, u)
  BY <1>1, <1>6 DEF Contract!Deps, Deps
<1> QED BY <1>1, <1>2, <1>3, <1>4, <1>5, <1>7

\* A row of the provides index has a name, never Malformed.
LEMMA ProvidedNames ==
  ASSUME TypeOK, NEW u \in Set, NEW p \in ProvidedBy(kits, u)
  PROVE  p.name \in Name
<1>1. PICK q \in kits[u].provides :
        /\ Parses(q)
        /\ p = [name |-> q.name, version |-> IF q.version # Unversioned THEN q.version
                                             ELSE EffectiveProvideVersion(kits[u])]
  BY DEF ProvidedBy
<1>2. q \in ProvideEntry
  BY DEF TypeOK, Descriptor
<1> QED BY <1>1, <1>2 DEF ProvideEntry, Parses

\* Each check adds a problem exactly when its rule does not hold.
LEMMA OwnersChecked ==
  ASSUME TypeOK
  PROVE  OwnerProblems = {} <=> Contract!OneOwnerPerName(kits)
<1>1. ASSUME OwnerProblems = {}, NEW u \in Set, NEW v \in Set, u # v,
             NEW p \in ProvidedBy(kits, u), NEW q \in ProvidedBy(kits, v), p.name = q.name
      PROVE  FALSE
  <2>1. p.name \in Name
    BY ProvidedNames
  <2>2. u \in Providers(kits, p.name) /\ v \in Providers(kits, p.name)
    BY <1>1 DEF Providers, Set
  <2> QED BY <1>1, <2>1, <2>2 DEF OwnerProblems
<1>2. ASSUME Contract!OneOwnerPerName(kits), NEW n \in Name,
             NEW u \in Providers(kits, n), NEW v \in Providers(kits, n), u # v
      PROVE  FALSE
  BY <1>2, SameVocabulary DEF Contract!OneOwnerPerName, Providers
<1>3. OwnerProblems = {} => Contract!OneOwnerPerName(kits)
  BY <1>1, SameVocabulary DEF Contract!OneOwnerPerName, Set
<1>4. Contract!OneOwnerPerName(kits) => OwnerProblems = {}
  BY <1>2 DEF OwnerProblems
<1> QED BY <1>3, <1>4

LEMMA CredentialsChecked ==
  ASSUME TypeOK
  PROVE  GroupProblems \cup CredentialProblems = {} <=>
           (\A u \in Set : ~kits[u].grouped) /\ Contract!OneCredentialOwner(kits)
<1>1. GroupProblems = {} <=> \A u \in Set : ~kits[u].grouped
  BY DEF GroupProblems
<1>2. \A u \in Set : \A c \in kits[u].creds : c[1] \in Credential
  BY DEF TypeOK, Descriptor
<1>3. \A c, u, d : <<u, d>> \in Declarations(c) <=> u \in Set /\ d \in kits[u].creds /\ d[1] = c
  BY DEF Declarations
<1>4. ASSUME CredentialProblems = {}, NEW u \in Set, NEW v \in Set,
             NEW c \in kits[u].creds, NEW d \in kits[v].creds, c[1] = d[1]
      PROVE  u = v /\ c = d
  <2>1. <<u, c>> \in Declarations(c[1]) /\ <<v, d>> \in Declarations(c[1])
    BY <1>3, <1>4
  <2>2. <<u, c>> = <<v, d>>
    BY <1>2, <1>4, <2>1 DEF CredentialProblems
  <2> QED BY <2>2
<1>5. ASSUME Contract!OneCredentialOwner(kits), NEW x \in Credential,
             NEW d \in Declarations(x), NEW e \in Declarations(x)
      PROVE  d = e
  <2>1. PICK u \in Set : \E c \in kits[u].creds : d = <<u, c>> /\ c[1] = x
    BY DEF Declarations
  <2>2. PICK v \in Set : \E k \in kits[v].creds : e = <<v, k>> /\ k[1] = x
    BY DEF Declarations
  <2> QED BY <1>5, <2>1, <2>2 DEF Contract!OneCredentialOwner, Set
<1>6. CredentialProblems = {} <=> Contract!OneCredentialOwner(kits)
  BY <1>4, <1>5 DEF CredentialProblems, Contract!OneCredentialOwner, Set
<1> QED BY <1>1, <1>6

LEMMA RequiresChecked ==
  ASSUME TypeOK
  PROVE  RequireProblems = {} <=> Contract!ClosedSet(kits)
<1>1. RequireProblems = {} <=>
        \A u \in Set : \A r \in kits[u].requires : Parses(r) /\ SatisfiedBy(kits, r, u) # {}
  BY DEF RequireProblems
<1>2. \A u \in Set : \A r : SatisfiedBy(kits, r, u) # {} <=>
        \E v \in Set \ {u} : \E p \in ProvidedBy(kits, v) : Satisfies(p, r)
  BY DEF SatisfiedBy, Set
<1> QED BY <1>1, <1>2, SameVocabulary DEF Contract!ClosedSet, Set

LEMMA IntegratesChecked ==
  ASSUME TypeOK
  PROVE  IntegrateProblems = {} <=> Contract!IntegrationsHold(kits)
<1>1. IntegrateProblems = {} <=>
        \A u \in Set : \A r \in kits[u].integrates :
          Parses(r) /\ (OthersProviding(kits, r.name, u) # {} => SatisfiedBy(kits, r, u) # {})
  BY DEF IntegrateProblems
<1>2. \A u \in Set : \A r : SatisfiedBy(kits, r, u) # {} <=>
        \E v \in OthersProviding(kits, r.name, u) :
          \E p \in ProvidedBy(kits, v) : Satisfies(p, r)
  BY DEF SatisfiedBy, OthersProviding, Providers, Satisfies
<1>3. Contract!IntegrationsHold(kits) <=>
        \A u \in Set : \A r \in kits[u].integrates :
          /\ Parses(r)
          /\ OthersProviding(kits, r.name, u) # {} =>
               \E v \in OthersProviding(kits, r.name, u) :
                 \E p \in ProvidedBy(kits, v) : Satisfies(p, r)
  <2>1. \A v : Contract!ProvidedBy(kits, v) = ProvidedBy(kits, v)
    BY SameVocabulary
  <2>2. \A u, n : Contract!OthersProviding(kits, n, u) = OthersProviding(kits, n, u)
    BY SameVocabulary
  <2>3. \A p, r : Contract!Satisfies(p, r) <=> Satisfies(p, r)
    BY SameVocabulary
  <2>4. \A e : Contract!Parses(e) <=> Parses(e)
    BY SameVocabulary
  <2> QED BY <2>1, <2>2, <2>3, <2>4, Zenon DEF Contract!IntegrationsHold, Set
<1> QED BY <1>1, <1>2, <1>3

LEMMA ConflictsChecked ==
  ASSUME TypeOK
  PROVE  ConflictProblems = {} <=> Contract!NoConflicts(kits)
<1>1. ConflictProblems = {} <=>
        \A u \in Set : \A n \in kits[u].conflicts : OthersProviding(kits, n, u) = {}
  BY DEF ConflictProblems
<1>2. \A u \in Set : \A n : OthersProviding(kits, n, u) = {} <=>
        \A v \in Set : u # v => \A p \in ProvidedBy(kits, v) : p.name # n
  BY DEF OthersProviding, Providers, Set
<1> QED BY <1>1, <1>2, SameVocabulary DEF Contract!NoConflicts, Set

\* An order as long as the set is large holds every unit of it.
LEMMA AllOrdered ==
  ASSUME TypeOK, LoopInv
  PROVE  /\ IsFiniteSet(Ordered) /\ Cardinality(Ordered) = Len(ordered)
         /\ Ordered \subseteq Set
         /\ Len(ordered) = Cardinality(Set) => Ordered = Set
<1>1. ordered \in Seq(Set) /\ Len(ordered) \in Nat
  BY DEF TypeOK
<1>2. Ordered \subseteq Set
  BY <1>1 DEF Ordered, Prefix
<1>3. IsFiniteSet(Set)
  BY UnitsFinite, FS_Subset DEF TypeOK
<1>4. IsFiniteSet(Ordered)
  BY <1>2, <1>3, FS_Subset
<1>5. Cardinality(Ordered) = Len(ordered)
  <2> DEFINE f == [i \in 1..Len(ordered) |-> ordered[i]]
  <2>1. ExistsBijection(1..Len(ordered), Ordered)
    <3>1. f \in Injection(1..Len(ordered), Ordered)
      BY <1>1 DEF LoopInv, Ordered, Prefix, Injection, IsInjective
    <3>2. f \in Surjection(1..Len(ordered), Ordered)
      BY <1>1 DEF Ordered, Prefix, Surjection
    <3> QED BY <3>1, <3>2 DEF Bijection, ExistsBijection
  <2>2. Cardinality(1..Len(ordered)) = Len(ordered) /\ IsFiniteSet(1..Len(ordered))
    BY <1>1, FS_Interval
  <2> QED BY <2>1, <2>2, <1>4, FS_Bijection
<1>6. Len(ordered) = Cardinality(Set) => Ordered = Set
  BY <1>2, <1>3, <1>5, FS_Subset
<1> QED BY <1>2, <1>4, <1>5, <1>6

\* What every check leaves alone.
LEMMA FrameOfRules ==
  ASSUME UNCHANGED <<kits, partial, selected>>
  PROVE  /\ Set' = Set /\ Workloads(kits)' = Workloads(kits)
         /\ Contract!OneOwnerPerName(kits)' = Contract!OneOwnerPerName(kits)
         /\ Contract!OneCredentialOwner(kits)' = Contract!OneCredentialOwner(kits)
         /\ Contract!ClosedSet(kits)' = Contract!ClosedSet(kits)
         /\ Contract!IntegrationsHold(kits)' = Contract!IntegrationsHold(kits)
         /\ Contract!NoConflicts(kits)' = Contract!NoConflicts(kits)
BY DEF Set

LEMMA RulesStep ==
  ASSUME IInv, RulesInv, [Next]_vars
  PROVE  RulesInv'
<1> USE DEF ToWorkload, ToProvides, ToOwners, ToCredentials, ToRequires, ToIntegrates, ToConflicts
<1>0. TypeOK
  BY DEF IInv
<1>1. CASE Enter
  <2>1. /\ UNCHANGED <<kits, partial, selected, problems, workload, ordered>>
        /\ phase = "entry" /\ phase' \in {"refused", "workload"}
        /\ phase' = "workload" => Set # {} /\ \A u \in Set : kits[u].present
    BY <1>1 DEF Enter, input, graph
  <2> QED BY <2>1, FrameOfRules DEF RulesInv, RulesSoFar
<1>2. CASE CheckOneWorkload
  <2>1. /\ UNCHANGED <<kits, partial, selected, ordered>>
        /\ phase = "workload" /\ phase' = "provides"
        /\ problems' = problems \cup WorkloadProblems
        /\ \/ Workloads(kits) = {} /\ workload' = None
           \/ workload' \in Workloads(kits)
    BY <1>2 DEF CheckOneWorkload, Check, input, graph
  <2>2. WorkloadProblems = {} <=>
          (\A u, v \in Workloads(kits) : u = v) /\ (partial \/ Workloads(kits) # {})
    BY <2>1 DEF WorkloadProblems
  <2> QED BY <2>1, <2>2, FrameOfRules DEF RulesInv, RulesSoFar
<1>3. CASE ProvidesIndex
  <2>1. /\ UNCHANGED <<kits, partial, selected, workload, ordered>>
        /\ phase = "provides" /\ phase' = "owners"
        /\ problems' = problems \cup MalformedProvides
    BY <1>3 DEF ProvidesIndex, Check, input, graph
  <2>2. MalformedProvides = {} <=> \A u \in Set : \A p \in kits[u].provides : Parses(p)
    BY DEF MalformedProvides
  <2> QED BY <2>1, <2>2, FrameOfRules DEF RulesInv, RulesSoFar
<1>4. CASE CheckOneProviderPerName
  <2>1. /\ UNCHANGED <<kits, partial, selected, workload, ordered>>
        /\ phase = "owners" /\ phase' = IF selected THEN "credentials" ELSE "requires"
        /\ problems' = problems \cup OwnerProblems
    BY <1>4 DEF CheckOneProviderPerName, Check, input, graph
  <2> QED BY <1>0, <2>1, OwnersChecked, FrameOfRules DEF RulesInv, RulesSoFar
<1>5. CASE CheckOneCredentialOwner
  <2>1. /\ UNCHANGED <<kits, partial, selected, workload, ordered>>
        /\ phase = "credentials" /\ phase' = "requires"
        /\ problems' = {} <=> problems = {} /\ GroupProblems \cup CredentialProblems = {}
    BY <1>5 DEF CheckOneCredentialOwner, Check, input, graph
  <2> QED BY <1>0, <2>1, CredentialsChecked, FrameOfRules DEF RulesInv, RulesSoFar
<1>6. CASE CheckRequires
  <2>1. /\ UNCHANGED <<kits, partial, selected, workload, ordered>>
        /\ phase = "requires" /\ phase' = "integrates"
        /\ problems' = problems \cup RequireProblems
    BY <1>6 DEF CheckRequires, Check, input, graph
  <2> QED BY <1>0, <2>1, RequiresChecked, FrameOfRules DEF RulesInv, RulesSoFar
<1>7. CASE CheckIntegrates
  <2>1. /\ UNCHANGED <<kits, partial, selected, workload, ordered>>
        /\ phase = "integrates" /\ phase' = "conflicts"
        /\ problems' = problems \cup IntegrateProblems
    BY <1>7 DEF CheckIntegrates, Check, input, graph
  <2> QED BY <1>0, <2>1, IntegratesChecked, FrameOfRules DEF RulesInv, RulesSoFar
<1>8. CASE CheckConflicts
  <2>1. /\ UNCHANGED <<kits, partial, selected, workload, ordered>>
        /\ phase = "conflicts" /\ phase' = "judge"
        /\ problems' = problems \cup ConflictProblems
    BY <1>8 DEF CheckConflicts, Check, input, graph
  <2> QED BY <1>0, <2>1, ConflictsChecked, FrameOfRules DEF RulesInv, RulesSoFar
<1>9. CASE Judge \/ BuildGraph \/ \E u \in Set : Pop(u)
  <2>1. /\ UNCHANGED <<kits, partial, selected, workload, problems>>
        /\ phase \in {"judge", "order", "sort"}
        /\ phase' \in {"order", "sort", "refused"}
    BY <1>9 DEF Judge, BuildGraph, Pop, input, graph
  <2> QED BY <2>1, FrameOfRules DEF RulesInv, RulesSoFar
<1>10. CASE Finish
  <2>1. /\ UNCHANGED <<kits, partial, selected, workload, problems, ordered>>
        /\ phase = "sort" /\ phase' \in {"done", "refused"}
        /\ phase' = "done" => Len(ordered) = Cardinality(Set)
    BY <1>10 DEF Finish, input
  <2>2. phase' = "done" => Ordered = Set
    BY <1>10, <2>1, AllOrdered DEF IInv
  <2>3. Ordered' = Ordered
    BY <2>1 DEF Ordered, Prefix
  <2> QED BY <2>1, <2>2, <2>3, FrameOfRules DEF RulesInv, RulesSoFar
<1>11. CASE UNCHANGED vars
  <2>1. UNCHANGED <<kits, partial, selected, workload, problems, ordered, phase>> /\ Ordered' = Ordered
    BY <1>11 DEF vars, Ordered, Prefix
  <2> QED BY <2>1, FrameOfRules DEF RulesInv, RulesSoFar
<1> QED BY <1>1, <1>2, <1>3, <1>4, <1>5, <1>6, <1>7, <1>8, <1>9, <1>10, <1>11 DEF Next

\* The problem list tells, at every statement, whether the rules looked at
\* so far hold.
THEOREM ProblemsMeanRules == Spec => []RulesInv
<1>1. Init => RulesInv
  BY DEF Init, Untouched, RulesInv
<1>2. IInv /\ RulesInv /\ [Next]_vars => RulesInv'
  BY RulesStep
<1> QED BY <1>1, <1>2, InvariantHolds, PTL DEF Spec

\* What the sort runs on, and what is judged, is coherent or not as the
\* contract says.
LEMMA CoherentWhenJudged ==
  ASSUME IInv, RulesInv, phase \in {"judge", "order", "sort", "done"}
  PROVE  problems = {} <=> Contract!Coherent(kits, partial, selected)
<1>1. problems = {} <=>
        /\ \A u, v \in Workloads(kits) : u = v
        /\ partial \/ Workloads(kits) # {}
        /\ \A u \in Set : \A p \in kits[u].provides : Parses(p)
        /\ Contract!OneOwnerPerName(kits)
        /\ selected => (\A u \in Set : ~kits[u].grouped) /\ Contract!OneCredentialOwner(kits)
        /\ Contract!ClosedSet(kits) /\ Contract!IntegrationsHold(kits)
        /\ Contract!NoConflicts(kits)
  BY DEF RulesInv, RulesSoFar, ToWorkload, ToProvides, ToOwners, ToCredentials, ToRequires,
         ToIntegrates, ToConflicts
<1>2. Set # {} /\ \A u \in Set : kits[u].present
  BY DEF RulesInv
<1>3. Contract!Workloads(kits) = Workloads(kits) /\ \A e : Contract!Parses(e) <=> Parses(e)
  BY SameVocabulary
<1> QED BY <1>1, <1>2, <1>3 DEF Contract!Coherent, Set

\* What can come next is the same in both specifications.
LEMMA SameComposable ==
  /\ Contract!Placed = Ordered
  /\ \A u : Contract!Composable(u) <=> u \in Set \ Ordered /\ Deps(kits, u) \subseteq Ordered
<1>1. Contract!Placed = Ordered
  BY DEF Contract!Placed, Ordered, Prefix
<1>2. \A u : Contract!Deps(kits, u) = Deps(kits, u)
  BY SameVocabulary
<1> QED BY <1>1, <1>2 DEF Contract!Composable, Set

\* Every step of the resolver is a step of the contract or changes nothing
\* that the contract speaks of.
LEMMA StepImplements ==
  ASSUME IInv, RulesInv, [Next]_vars
  PROVE  [Contract!CNext]_Contract!cvars
<1>1. CASE \/ CheckOneWorkload \/ ProvidesIndex \/ CheckOneProviderPerName
           \/ CheckOneCredentialOwner \/ CheckRequires \/ CheckIntegrates
           \/ CheckConflicts \/ BuildGraph \/ UNCHANGED vars
  <2>1. UNCHANGED <<kits, partial, selected, ordered>> /\ Verdict' = Verdict
    BY <1>1 DEF CheckOneWorkload, ProvidesIndex, CheckOneProviderPerName,
         CheckOneCredentialOwner, CheckRequires, CheckIntegrates, CheckConflicts,
         BuildGraph, Check, input, graph, vars, Verdict
  <2> QED BY <2>1 DEF Contract!cvars
<1>2. CASE Enter
  <2>1. UNCHANGED <<kits, partial, selected, ordered>> /\ Verdict = "pending"
    BY <1>2 DEF Enter, input, graph, Verdict
  <2>2. CASE phase' = "workload"
    <3>1. Verdict' = Verdict
      BY <2>1, <2>2 DEF Verdict
    <3> QED BY <2>1, <3>1 DEF Contract!cvars
  <2>3. CASE Set = {} \/ \E u \in Set : ~kits[u].present
    <3>1. Verdict' = "refused"
      BY <1>2, <2>3 DEF Enter, Verdict
    <3>2. ~Contract!Coherent(kits, partial, selected)
      BY <2>3 DEF Contract!Coherent, Set
    <3> QED BY <2>1, <3>1, <3>2 DEF Contract!CNext, Contract!Refuse
  <2> QED BY <1>2, <2>2, <2>3 DEF Enter
<1>3. CASE Judge
  <2>1. UNCHANGED <<kits, partial, selected, ordered>> /\ Verdict = "pending" /\ phase = "judge"
    BY <1>3 DEF Judge, input, graph, Verdict
  <2>2. CASE problems = {}
    <3>1. Verdict' = Verdict
      BY <1>3, <2>1, <2>2 DEF Judge, Verdict
    <3> QED BY <2>1, <3>1 DEF Contract!cvars
  <2>3. CASE problems # {}
    <3>1. Verdict' = "refused"
      BY <1>3, <2>3 DEF Judge, Verdict
    <3>2. ~Contract!Coherent(kits, partial, selected)
      BY <2>1, <2>3, CoherentWhenJudged
    <3> QED BY <2>1, <3>1, <3>2 DEF Contract!CNext, Contract!Refuse
  <2> QED BY <2>2, <2>3
<1>4. ASSUME NEW u \in Set, Pop(u)
      PROVE  Contract!CNext
  <2>1. /\ UNCHANGED <<kits, partial, selected, phase>> /\ ordered' = Append(ordered, u)
        /\ phase = "sort" /\ u \in ready /\ \A v \in ready : Rank[u] <= Rank[v]
    BY <1>4 DEF Pop, Smallest, input
  <2>2. /\ ready = {v \in Set \ Ordered : Deps(kits, v) \subseteq Ordered}
        /\ problems = {} /\ u \in Unit
    BY <2>1 DEF IInv, LoopInv, TypeOK
  <2>3. Verdict = "pending" /\ Verdict' = Verdict
    BY <2>1 DEF Verdict
  <2>4. Contract!Coherent(kits, partial, selected)
    BY <2>1, <2>2, CoherentWhenJudged
  <2>5. Contract!Composable(u) /\ \A v \in Set : Contract!Composable(v) => Rank[u] <= Rank[v]
    BY <2>1, <2>2, SameComposable
  <2>6. Contract!Place(u)
    BY <2>1, <2>3, <2>4, <2>5 DEF Contract!Place, Set
  <2> QED BY <2>2, <2>6 DEF Contract!CNext
<1>5. CASE Finish
  <2>1. /\ UNCHANGED <<kits, partial, selected, ordered>> /\ phase = "sort"
        /\ ready = {} /\ Verdict = "pending"
    BY <1>5 DEF Finish, input, Verdict
  <2>2. ready = {v \in Set \ Ordered : Deps(kits, v) \subseteq Ordered} /\ problems = {}
    BY <2>1 DEF IInv, LoopInv
  <2>3. /\ Ordered \subseteq Set /\ Cardinality(Ordered) = Len(ordered)
        /\ Len(ordered) = Cardinality(Set) => Ordered = Set
    BY AllOrdered DEF IInv
  <2>4. CASE Len(ordered) = Cardinality(Set)
    <3>1. Verdict' = "composed"
      BY <1>5, <2>4 DEF Finish, Verdict
    <3>2. Contract!Coherent(kits, partial, selected)
      BY <2>1, <2>2, CoherentWhenJudged
    <3>3. Contract!Placed = Set
      BY <2>3, <2>4, SameComposable
    <3> QED BY <2>1, <3>1, <3>2, <3>3 DEF Contract!CNext, Contract!Accept, Set
  <2>5. CASE Len(ordered) # Cardinality(Set)
    <3>1. Verdict' = "refused"
      BY <1>5, <2>5 DEF Finish, Verdict
    <3>2. Set \ Contract!Placed # {}
      <4>1. Ordered # Set
        BY <2>3, <2>5
      <4> QED BY <2>3, <4>1, SameComposable
    <3>3. \A u \in Set : ~Contract!Composable(u)
      BY <2>1, <2>2, SameComposable
    <3> QED BY <2>1, <3>1, <3>2, <3>3 DEF Contract!CNext, Contract!Refuse, Set
  <2> QED BY <2>4, <2>5
<1> QED BY <1>1, <1>2, <1>3, <1>4, <1>5 DEF Next

\* resolve() implements the consumer contract of SPEC-v3 section 5.3 for every
\* catalogue of descriptors: it accepts exactly the coherent sets without a
\* cycle, and orders them in the one order that the contract allows.
THEOREM ResolverImplementsContract == Spec => ImplementsContract
<1>1. Init => Contract!CInit
  BY DEF Init, Untouched, Contract!CInit, Verdict
<1>2. IInv /\ RulesInv /\ [Next]_vars => [Contract!CNext]_Contract!cvars
  BY StepImplements
<1> QED BY <1>1, <1>2, InvariantHolds, ProblemsMeanRules, PTL DEF Spec, ImplementsContract, Contract!CSpec

-----------------------------------------------------------------------------
(* What a finished resolution returns.                                     *)

\* Of two ordered units, a dependency has the smaller position.
LEMMA DependenciesLower ==
  ASSUME IInv, NEW m \in 1..Len(ordered), NEW n \in 1..Len(ordered),
         ordered[m] \in Deps(kits, ordered[n])
  PROVE  m < n
<1>1. ordered[m] \in Prefix(n - 1)
  BY DEF IInv, ProvidersFirst
<1>2. PICK k \in 1..(n - 1) : ordered[k] = ordered[m]
  BY <1>1 DEF Prefix
<1>3. Len(ordered) \in Nat
  BY DEF IInv, TypeOK
<1>4. k \in 1..Len(ordered)
  BY <1>2, <1>3
<1>5. k = m
  BY <1>2, <1>4 DEF IInv, LoopInv
<1> QED BY <1>2, <1>5

\* A resolved set without a workload stacks as it is ordered.
LEMMA StackWithoutWorkload ==
  ASSUME IInv, RulesInv, phase = "done", Workloads(kits) = {}
  PROVE  LayersStack
<1>1. /\ workload = None /\ Ordered = Set /\ ordered \in Seq(Set)
      /\ Len(ordered) \in Nat /\ Len(ordered) = Cardinality(Set)
  BY AllOrdered DEF RulesInv, IInv, TypeOK
<1>2. workload \notin Ordered
  BY <1>1, NilIsNoUnit DEF IInv, TypeOK
<1>3. Layers = ordered
  BY <1>1, <1>2 DEF Layers, Mixins
<1>4. {ordered[i] : i \in 1..Len(ordered)} = Set
  BY <1>1 DEF Ordered, Prefix
<1> QED BY <1>1, <1>3, <1>4, DependenciesLower DEF LayersStack

\* The workload moves to the bottom and the mixins close up behind it.
LEMMA StackWithWorkload ==
  ASSUME IInv, RulesInv, phase = "done", Workloads(kits) # {}
  PROVE  LayersStack
<1> DEFINE N == Len(ordered)
           w == WorkloadAt
           pos == [i \in 1..N |-> IF i = 1 THEN w ELSE IF i <= w THEN i - 1 ELSE i]
<1>1. /\ workload \in Workloads(kits) /\ workload \in Set /\ Ordered = Set
      /\ ordered \in Seq(Set) /\ N \in Nat /\ N = Cardinality(Set)
  BY AllOrdered DEF RulesInv, IInv, TypeOK, Workloads, Set
<1>2. workload # None /\ workload \in Ordered
  BY <1>1, NilIsNoUnit DEF IInv, TypeOK
<1>3. w \in 1..N /\ ordered[w] = workload
  <2>1. \E i \in 1..N : ordered[i] = workload
    BY <1>2 DEF Ordered, Prefix
  <2> QED BY <2>1 DEF WorkloadAt
<1>4. Mixins = [i \in 1..(N - 1) |-> IF i < w THEN ordered[i] ELSE ordered[i + 1]]
  BY <1>2 DEF Mixins
<1>5. Mixins \in Seq(Set) /\ Len(Mixins) = N - 1
  <2>1. N - 1 \in Nat
    BY <1>1, <1>3
  <2>2. \A i \in 1..(N - 1) : (IF i < w THEN ordered[i] ELSE ordered[i + 1]) \in Set
    BY <1>1, <1>3
  <2>3. Mixins \in [1..(N - 1) -> Set]
    BY <1>4, <2>2
  <2> QED BY <2>1, <2>3
<1>6. Layers = <<workload>> \o Mixins
  BY <1>2 DEF Layers
<1>7. Len(Layers) = N /\ \A i \in 1..N : Layers[i] = ordered[pos[i]]
  <2>1. Len(Layers) = N
    BY <1>1, <1>5, <1>6
  <2>2. Layers[1] = workload
    BY <1>1, <1>5, <1>6
  <2>3. ASSUME NEW i \in 2..N PROVE Layers[i] = ordered[pos[i]]
    <3>1. i - 1 \in 1..(N - 1) /\ Layers[i] = Mixins[i - 1]
      BY <1>1, <1>5, <1>6
    <3>2. Mixins[i - 1] = IF i - 1 < w THEN ordered[i - 1] ELSE ordered[i]
      BY <1>4, <3>1
    <3>3. w \in Int /\ i \in Int /\ i # 1 /\ i \in 1..N /\ (i - 1 < w <=> i <= w)
      BY <1>1, <1>3
    <3>4. pos[i] = IF i <= w THEN i - 1 ELSE i
      BY <3>3
    <3> QED BY <3>1, <3>2, <3>3, <3>4
  <2>4. \A i \in 1..N : i = 1 \/ i \in 2..N
    BY <1>1
  <2> QED BY <1>3, <2>1, <2>2, <2>3, <2>4
<1>8. \A i \in 1..N : pos[i] \in 1..N
  BY <1>1, <1>3
<1>9. \A n \in 1..N : \E i \in 1..N : pos[i] = n
  <2> SUFFICES ASSUME NEW n \in 1..N PROVE \E i \in 1..N : pos[i] = n
    OBVIOUS
  <2>1. CASE n = w
    <3>1. 1 \in 1..N /\ pos[1] = w
      BY <1>1, <1>3
    <3> QED BY <2>1, <3>1
  <2>2. CASE n < w
    <3>1. n + 1 \in 1..N /\ pos[n + 1] = n
      BY <1>1, <1>3, <2>2
    <3> QED BY <3>1
  <2>3. CASE n > w
    <3>1. pos[n] = n
      BY <1>1, <1>3, <2>3
    <3> QED BY <3>1
  <2> QED BY <1>1, <1>3, <2>1, <2>2, <2>3
<1>10. {Layers[i] : i \in 1..Len(Layers)} = Set
  <2>1. Set = {ordered[n] : n \in 1..N}
    BY <1>1 DEF Ordered, Prefix
  <2>2. {Layers[i] : i \in 1..N} = {ordered[pos[i]] : i \in 1..N}
    BY <1>7
  <2>3. {ordered[pos[i]] : i \in 1..N} = {ordered[n] : n \in 1..N}
    <3> HIDE DEF pos
    <3> QED BY <1>8, <1>9
  <2> QED BY <1>7, <2>1, <2>2, <2>3
<1>11. Layers[1] \in Workloads(kits)
  BY <1>1, <1>3, <1>7
<1>12. ASSUME NEW i \in 1..N, NEW j \in 1..N, Layers[i] \in Deps(kits, Layers[j])
       PROVE  i < j \/ Layers[j] = workload
  <2>1. pos[i] < pos[j]
    <3>1. ordered[pos[i]] \in Deps(kits, ordered[pos[j]])
      BY <1>7, <1>12
    <3>2. pos[i] \in 1..N /\ pos[j] \in 1..N
      BY <1>8
    <3> HIDE DEF pos
    <3> QED BY <3>1, <3>2, DependenciesLower
  <2>2. CASE j = 1
    BY <1>3, <1>7, <2>2
  <2>3. CASE j # 1
    BY <1>1, <1>3, <2>1, <2>3
  <2> QED BY <2>2, <2>3
<1> QED BY <1>1, <1>7, <1>10, <1>11, <1>12 DEF LayersStack

\* Whatever the set, what Ordered() returns has every unit once, the workload
\* at the bottom, and every mixin above what it depends on.
THEOREM LayersAlwaysStack == Spec => []LayersStack
<1>1. IInv /\ RulesInv => LayersStack
  <2>1. CASE phase # "done"
    BY <2>1 DEF LayersStack
  <2>2. CASE phase = "done"
    BY <2>2, StackWithWorkload, StackWithoutWorkload
  <2> QED BY <2>1, <2>2
<1> QED BY <1>1, InvariantHolds, ProblemsMeanRules, PTL
=============================================================================

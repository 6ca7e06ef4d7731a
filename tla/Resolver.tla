------------------------------ MODULE Resolver ------------------------------
(***************************************************************************)
(* resolve() and order() of resolve/resolve.go: the checks of a closed kit *)
(* set, each adding its problems to one list, then Kahn's algorithm over   *)
(* the dependency edges with the ready list sorted by reference.           *)
(*                                                                         *)
(* The ready list is kept as a set: the code sorts it before every pop, so *)
(* what it pops is a ready unit of smallest reference.                     *)
(***************************************************************************)
EXTENDS KitSet, Sequences

CONSTANT Catalog   \* Catalog[u]: the descriptors unit u may carry

ASSUME CatalogHoldsDescriptors == \A u \in Unit : \A x \in Catalog[u] : x \in Descriptor

VARIABLES
  kits,        \* the units given, with their descriptors
  partial, selected,
  phase,       \* the statement resolve() is at
  problems,    \* what addProblem has collected
  workload,    \* the unit checkOneWorkload found, or None
  indegree, dependents, ready, ordered,  \* the locals of order()
  cyclic       \* the units the cycle error names

vars == <<kits, partial, selected, phase, problems, workload,
          indegree, dependents, ready, ordered, cyclic>>
graph == <<indegree, dependents, ready, ordered, cyclic>>
input == <<kits, partial, selected>>

None == "none"   \* nil, no unit

ASSUME NilIsNoUnit == None \notin Unit

Phases == {"entry", "workload", "provides", "owners", "credentials", "requires",
           "integrates", "conflicts", "judge", "order", "sort", "done", "refused"}

Set == DOMAIN kits
Prefix(n) == {ordered[j] : j \in 1..n}
Ordered == Prefix(Len(ordered))

-----------------------------------------------------------------------------
(* The checks: each returns the problems it adds.                          *)

WorkloadProblems ==
  IF Workloads(kits) = {} THEN (IF partial THEN {} ELSE {<<"no workload", None>>})
  ELSE {<<"second workload", u>> : u \in Workloads(kits) \ {workload'}}

MalformedProvides == {<<"malformed provide", u>> :
  u \in {v \in Set : \E p \in kits[v].provides : ~Parses(p)}}

OwnerProblems == {<<"two owners", n>> :
  n \in {m \in Name : \E u, v \in Providers(kits, m) : u # v}}

GroupProblems == {<<"unselected group", u>> : u \in {v \in Set : kits[v].grouped}}

\* One element per (unit, declaration) of the credential.
Declarations(c) == UNION {{<<u, d>> : d \in {e \in kits[u].creds : e[1] = c}} : u \in Set}
CredentialProblems == {<<"two credential owners", c>> :
  c \in {x \in Credential : \E d, e \in Declarations(x) : d # e}}

RequireProblems == {<<"requires", u>> :
  u \in {v \in Set : \E r \in kits[v].requires :
           ~Parses(r) \/ SatisfiedBy(kits, r, v) = {}}}

\* Mutant: a version constraint on an integration is not looked at.
IntegrateProblemsByName == {<<"integrates", u>> :
  u \in {v \in Set : \E r \in kits[v].integrates : ~Parses(r)}}

IntegrateProblems == {<<"integrates", u>> :
  u \in {v \in Set : \E r \in kits[v].integrates :
           \/ ~Parses(r)
           \/ /\ OthersProviding(kits, r.name, v) # {}
              /\ SatisfiedBy(kits, r, v) = {}}}

ConflictProblems == {<<"conflicts", u>> :
  u \in {v \in Set : \E n \in kits[v].conflicts : OthersProviding(kits, n, v) # {}}}

-----------------------------------------------------------------------------
\* The call: any of the units, each with a descriptor of its own.
Given ==
  \E S \in SUBSET Unit : kits \in {f \in [S -> UNION {Catalog[u] : u \in S}] :
                                      \A u \in S : f[u] \in Catalog[u]}

\* Nothing has been looked at.
Untouched ==
  /\ partial \in BOOLEAN
  /\ selected \in BOOLEAN
  /\ phase = "entry"
  /\ problems = {}
  /\ workload = None
  /\ indegree = [u \in Set |-> 0]
  /\ dependents = [u \in Set |-> {}]
  /\ ready = {}
  /\ ordered = <<>>
  /\ cyclic = {}

Init == Given /\ Untouched

\* An empty set, or a unit without a descriptor, is refused at once.
Enter ==
  /\ phase = "entry"
  /\ phase' = IF Set = {} \/ \E u \in Set : ~kits[u].present THEN "refused" ELSE "workload"
  /\ UNCHANGED <<input, problems, workload, graph>>

Check(at, found, next) ==
  /\ phase = at
  /\ problems' = problems \cup found
  /\ phase' = next
  /\ UNCHANGED <<input, graph>>

CheckOneWorkload ==
  /\ \/ Workloads(kits) = {} /\ workload' = None
     \/ workload' \in Workloads(kits)
  /\ Check("workload", WorkloadProblems, "provides")

ProvidesIndex == Check("provides", MalformedProvides, "owners") /\ UNCHANGED workload

CheckOneProviderPerName ==
  /\ Check("owners", OwnerProblems, IF selected THEN "credentials" ELSE "requires")
  /\ UNCHANGED workload

CheckOneCredentialOwner ==
  /\ Check("credentials", GroupProblems \cup CredentialProblems, "requires")
  /\ UNCHANGED workload

CheckRequires == Check("requires", RequireProblems, "integrates") /\ UNCHANGED workload

CheckIntegrates == Check("integrates", IntegrateProblems, "conflicts") /\ UNCHANGED workload

CheckConflicts == Check("conflicts", ConflictProblems, "judge") /\ UNCHANGED workload

\* Any problem refuses the whole set, with every problem listed.
Judge ==
  /\ phase = "judge"
  /\ phase' = IF problems # {} THEN "refused" ELSE "order"
  /\ UNCHANGED <<input, problems, workload, graph>>

\* Mutant: integrations get an edge but are not counted.
BuildGraphCountingRequires ==
  /\ phase = "order"
  /\ indegree' = [u \in Set |->
       Cardinality(UNION {SatisfiedBy(kits, r, u) : r \in kits[u].requires})]
  /\ dependents' = [p \in Set |-> {u \in Set : p \in Deps(kits, u)}]
  /\ ready' = {u \in Set : indegree'[u] = 0}
  /\ phase' = "sort"
  /\ UNCHANGED <<input, problems, workload, ordered, cyclic>>

\* The edges, one per distinct provider, and the first ready list.
BuildGraph ==
  /\ phase = "order"
  /\ indegree' = [u \in Set |-> Cardinality(Deps(kits, u))]
  /\ dependents' = [p \in Set |-> {u \in Set : p \in Deps(kits, u)}]
  /\ ready' = {u \in Set : Deps(kits, u) = {}}
  /\ phase' = "sort"
  /\ UNCHANGED <<input, problems, workload, ordered, cyclic>>

Smallest(u) == u \in ready /\ \A v \in ready : Rank[u] <= Rank[v]

\* Mutants: a dependent is released one provider early; the ready list is
\* not sorted.
PopEarly(u) ==
  /\ phase = "sort"
  /\ Smallest(u)
  /\ ordered' = Append(ordered, u)
  /\ indegree' = [v \in Set |-> IF v \in dependents[u] THEN indegree[v] - 1 ELSE indegree[v]]
  /\ ready' = (ready \ {u}) \cup {v \in dependents[u] : indegree'[v] = 1}
  /\ UNCHANGED <<input, phase, problems, workload, dependents, cyclic>>
PopUnsorted(u) ==
  /\ phase = "sort"
  /\ u \in ready
  /\ ordered' = Append(ordered, u)
  /\ indegree' = [v \in Set |-> IF v \in dependents[u] THEN indegree[v] - 1 ELSE indegree[v]]
  /\ ready' = (ready \ {u}) \cup {v \in dependents[u] : indegree'[v] = 0}
  /\ UNCHANGED <<input, phase, problems, workload, dependents, cyclic>>

\* One turn of the loop: pop the smallest, release its dependents.
Pop(u) ==
  /\ phase = "sort"
  /\ Smallest(u)
  /\ ordered' = Append(ordered, u)
  /\ indegree' = [v \in Set |-> IF v \in dependents[u] THEN indegree[v] - 1 ELSE indegree[v]]
  /\ ready' = (ready \ {u}) \cup {v \in dependents[u] : indegree'[v] = 0}
  /\ UNCHANGED <<input, phase, problems, workload, dependents, cyclic>>

\* Mutants: the loop runs until every unit is ordered; the error names every
\* unit of the set.
FinishWhenAllOrdered ==
  /\ phase = "sort"
  /\ Len(ordered) = Cardinality(Set)
  /\ phase' = "done"
  /\ UNCHANGED <<input, problems, workload, graph>>
FinishNamingAll ==
  /\ phase = "sort"
  /\ ready = {}
  /\ IF Len(ordered) # Cardinality(Set)
     THEN phase' = "refused" /\ cyclic' = Set
     ELSE phase' = "done" /\ UNCHANGED cyclic
  /\ UNCHANGED <<input, problems, workload, indegree, dependents, ready, ordered>>

\* The ready list is empty: a short order is a cycle among what is left.
Finish ==
  /\ phase = "sort"
  /\ ready = {}
  /\ IF Len(ordered) # Cardinality(Set)
     THEN phase' = "refused" /\ cyclic' = {u \in Set : indegree[u] > 0}
     ELSE phase' = "done" /\ UNCHANGED cyclic
  /\ UNCHANGED <<input, problems, workload, indegree, dependents, ready, ordered>>

Next ==
  \/ Enter \/ CheckOneWorkload \/ ProvidesIndex \/ CheckOneProviderPerName
  \/ CheckOneCredentialOwner \/ CheckRequires \/ CheckIntegrates \/ CheckConflicts
  \/ Judge \/ BuildGraph \/ (\E u \in Set : Pop(u)) \/ Finish

Spec == Init /\ [][Next]_vars /\ WF_vars(Next)

-----------------------------------------------------------------------------
(* The Resolution a finished run returns.                                  *)

Topological == ordered
\* The units other than the workload; the order holds each unit once.
WorkloadAt == CHOOSE i \in 1..Len(ordered) : ordered[i] = workload
Mixins ==
  IF workload \notin Ordered THEN ordered
  ELSE [i \in 1..(Len(ordered) - 1) |-> IF i < WorkloadAt THEN ordered[i] ELSE ordered[i + 1]]
\* Mutant: the workload keeps its place in the order.
LayersInOrder == ordered

\* Ordered() of the code: what lands on what.
Layers == (IF workload = None THEN <<>> ELSE <<workload>>) \o Mixins

-----------------------------------------------------------------------------
(* Properties.                                                             *)

\* Every variable has its type: the counters count down from the number of
\* edges, and what is ready or ordered is a unit of the set.
TypeOK ==
  /\ Set \subseteq Unit
  /\ \A u \in Set : kits[u] \in Descriptor
  /\ partial \in BOOLEAN /\ selected \in BOOLEAN
  /\ phase \in Phases
  /\ workload \in Set \cup {None}
  /\ indegree \in [Set -> Nat]
  /\ dependents \in [Set -> SUBSET Set]
  /\ ready \subseteq Set
  /\ ordered \in Seq(Set)
  /\ cyclic \subseteq Set

\* order(): "a provider composes before each of its requirers", at every
\* turn of the loop, met integrates entries included.
ProvidersFirst ==
  \A i \in 1..Len(ordered) :
    Deps(kits, ordered[i]) \subseteq Prefix(i - 1)

\* order(): "among simultaneously-ready units the lexicographically smallest
\* reference goes first, so the order is a pure function of the set": a unit
\* of smaller reference comes later only because a provider of its own came
\* in between.  With unique references at most one order has this property.
SmallestReferenceFirst ==
  \A i, j \in 1..Len(ordered) :
    (i < j /\ Rank[ordered[j]] < Rank[ordered[i]]) =>
      \E k \in i..(j - 1) : ordered[k] \in Deps(kits, ordered[j])

\* The error "dependency cycle among ..." is raised only for a set that has
\* one: each unit it names waits for another unit it names, and every unit
\* it does not name was ordered.
CycleIsReal ==
  cyclic # {} =>
    /\ phase = "refused" /\ problems = {}
    /\ \A u \in cyclic : Deps(kits, u) \cap cyclic # {}
    /\ Ordered = Set \ cyclic

\* What Ordered() returns for a resolved set: every unit once, the workload
\* at the bottom, and among the mixins every provider below its requirers
\* even though the workload was moved to the front.
LayersStack ==
  phase = "done" =>
    /\ Len(Layers) = Cardinality(Set) /\ {Layers[i] : i \in 1..Len(Layers)} = Set
    /\ Workloads(kits) # {} => Layers[1] \in Workloads(kits)
    /\ \A i, j \in 1..Len(Layers) :
         Layers[i] \in Deps(kits, Layers[j]) => i < j \/ Layers[j] = workload

\* resolve() returns: with a resolution or with an error.
Resolves == <>(phase \in {"done", "refused"})

\* The counters and the ready list implement the contract of section 5.3.
Verdict == CASE phase = "done" -> "composed"
             [] phase = "refused" -> "refused"
             [] OTHER -> "pending"
Contract == INSTANCE Composition WITH placed <- ordered, verdict <- Verdict

ImplementsContract == Contract!CSpec

-----------------------------------------------------------------------------
(* The inductive invariant behind ProvidersFirst, SmallestReferenceFirst   *)
(* and CycleIsReal: what the counters, the reverse edges and the ready     *)
(* list mean while the loop runs, and that each unit was the smallest of   *)
(* those that could have been ordered in its place.                        *)

LoopInv ==
  /\ phase \notin {"sort", "done", "refused"} => ordered = <<>>
  /\ phase # "refused" => cyclic = {}
  /\ phase \in {"order", "sort", "done"} => problems = {}
  /\ phase = "sort" =>
       /\ dependents = [p \in Set |-> {u \in Set : p \in Deps(kits, u)}]
       /\ \A u \in Set : indegree[u] = Cardinality(Deps(kits, u) \ Ordered)
       /\ ready = {u \in Set \ Ordered : Deps(kits, u) \subseteq Ordered}
  /\ \A i, j \in 1..Len(ordered) : i # j => ordered[i] # ordered[j]
  /\ \A i \in 1..Len(ordered) : \A v \in Set \ Prefix(i - 1) :
       Deps(kits, v) \subseteq Prefix(i - 1) => Rank[ordered[i]] <= Rank[v]

IInv == TypeOK /\ LoopInv /\ ProvidersFirst /\ CycleIsReal

-----------------------------------------------------------------------------
(* The inductive invariant behind ImplementsContract and LayersStack: the  *)
(* problem list is empty exactly as long as the rules looked at so far     *)
(* hold, and the workload found is the set's.                              *)

\* Up to which statement each rule has not been looked at.
ToWorkload == {"entry", "workload"}
ToProvides == ToWorkload \cup {"provides"}
ToOwners == ToProvides \cup {"owners"}
ToCredentials == ToOwners \cup {"credentials"}
ToRequires == ToCredentials \cup {"requires"}
ToIntegrates == ToRequires \cup {"integrates"}
ToConflicts == ToIntegrates \cup {"conflicts"}

\* One conjunct for each check.
RulesSoFar ==
  /\ phase \notin ToWorkload =>
       /\ \A u, v \in Workloads(kits) : u = v
       /\ partial \/ Workloads(kits) # {}
  /\ phase \notin ToProvides => \A u \in Set : \A p \in kits[u].provides : Parses(p)
  /\ phase \notin ToOwners => Contract!OneOwnerPerName(kits)
  /\ phase \notin ToCredentials /\ selected =>
       (\A u \in Set : ~kits[u].grouped) /\ Contract!OneCredentialOwner(kits)
  /\ phase \notin ToRequires => Contract!ClosedSet(kits)
  /\ phase \notin ToIntegrates => Contract!IntegrationsHold(kits)
  /\ phase \notin ToConflicts => Contract!NoConflicts(kits)

RulesInv ==
  /\ phase = "entry" => problems = {}
  /\ phase = "credentials" => selected
  /\ phase \notin {"entry", "refused"} =>
       /\ Set # {} /\ \A u \in Set : kits[u].present
       /\ problems = {} <=> RulesSoFar
  /\ phase \notin {"entry", "workload", "refused"} =>
       IF Workloads(kits) = {} THEN workload = None ELSE workload \in Workloads(kits)
  /\ phase = "done" => Ordered = Set
=============================================================================

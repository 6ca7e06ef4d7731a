---------------------------- MODULE Composition -----------------------------
(***************************************************************************)
(* What resolution promises (SPEC-v3 section 5.3, the consumer contract):  *)
(* a coherent set composes one kit at a time, each after every kit it      *)
(* depends on, the smallest reference first among those that could come    *)
(* next; an incoherent or circular set is refused.  There are no counters  *)
(* and no queue here: those belong to module Resolver, which implements    *)
(* this specification.                                                     *)
(***************************************************************************)
EXTENDS KitSet, Sequences

VARIABLES
  kits,      \* the set, a function from its units to their descriptors
  partial,   \* the set need not be runnable (no workload required)
  selected,  \* capabilities are selected and judged (Resolve, not Dependencies)
  placed,    \* the composition order so far
  verdict    \* "pending", "composed" or "refused"

cvars == <<kits, partial, selected, placed, verdict>>

Placed == {placed[i] : i \in 1..Len(placed)}

\* Two different kits never vouch for one name.
OneOwnerPerName(K) ==
  \A u, v \in DOMAIN K : u # v =>
    \A p \in ProvidedBy(K, u), q \in ProvidedBy(K, v) : p.name # q.name

\* Every requirement is met inside the set, by somebody else.
ClosedSet(K) ==
  \A u \in DOMAIN K : \A r \in K[u].requires :
    Parses(r) /\ \E v \in DOMAIN K \ {u} : \E p \in ProvidedBy(K, v) : Satisfies(p, r)

\* An integration whose provider is present is met by that provider.
IntegrationsHold(K) ==
  \A u \in DOMAIN K : \A r \in K[u].integrates :
    /\ Parses(r)
    /\ OthersProviding(K, r.name, u) # {} =>
         \E v \in OthersProviding(K, r.name, u) :
           \E p \in ProvidedBy(K, v) : Satisfies(p, r)

NoConflicts(K) ==
  \A u, v \in DOMAIN K : u # v =>
    \A p \in ProvidedBy(K, v) : p.name \notin K[u].conflicts

OneCredentialOwner(K) ==
  \A u, v \in DOMAIN K : \A c \in K[u].creds, d \in K[v].creds :
    c[1] = d[1] => u = v /\ c = d

Coherent(K, isPartial, isSelected) ==
  /\ DOMAIN K # {}
  /\ \A u \in DOMAIN K : K[u].present
  /\ \A u, v \in Workloads(K) : u = v
  /\ isPartial \/ Workloads(K) # {}
  /\ \A u \in DOMAIN K : \A p \in K[u].provides : Parses(p)
  /\ OneOwnerPerName(K)
  /\ ClosedSet(K)
  /\ IntegrationsHold(K)
  /\ NoConflicts(K)
  /\ isSelected => /\ \A u \in DOMAIN K : ~K[u].grouped
                   /\ OneCredentialOwner(K)

\* A unit can come next when nothing it depends on is still to come.
Composable(u) == u \in DOMAIN kits \ Placed /\ Deps(kits, u) \subseteq Placed

Place(u) ==
  /\ verdict = "pending"
  /\ Coherent(kits, partial, selected)
  /\ Composable(u)
  /\ \A v \in DOMAIN kits : Composable(v) => Rank[u] <= Rank[v]
  /\ placed' = Append(placed, u)
  /\ UNCHANGED <<kits, partial, selected, verdict>>

Accept ==
  /\ verdict = "pending"
  /\ Coherent(kits, partial, selected)
  /\ Placed = DOMAIN kits
  /\ verdict' = "composed"
  /\ UNCHANGED <<kits, partial, selected, placed>>

\* A set is refused when it breaks a rule, or when kits are left and each of
\* them waits for another one of them.
Refuse ==
  /\ verdict = "pending"
  /\ \/ ~Coherent(kits, partial, selected)
     \/ /\ DOMAIN kits \ Placed # {}
        /\ \A u \in DOMAIN kits : ~Composable(u)
  /\ verdict' = "refused"
  /\ UNCHANGED <<kits, partial, selected, placed>>

CInit ==
  /\ placed = <<>>
  /\ verdict = "pending"

CNext == (\E u \in Unit : Place(u)) \/ Accept \/ Refuse

CSpec == CInit /\ [][CNext]_cvars
=============================================================================

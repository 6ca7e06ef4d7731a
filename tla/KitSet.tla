------------------------------- MODULE KitSet -------------------------------
(***************************************************************************)
(* The vocabulary of a kit set: what the resolver (resolve/resolve.go)     *)
(* reads of each unit, which provide satisfies which require, and the      *)
(* dependency edges that follow.                                           *)
(*                                                                         *)
(* A set of units is a function K whose domain is the units given to       *)
(* Resolve and whose values are their descriptors.  Entries are parsed and *)
(* normalized: a provide is [name, version], a require or an integrates    *)
(* entry is [name, any, admits], where any says that it states no version  *)
(* constraint and admits is the set of versions its constraints admit      *)
(* (module Versions derives that set from the constraints).  An entry that *)
(* does not parse has the name Malformed.                                  *)
(***************************************************************************)
EXTENDS Integers, FiniteSets

CONSTANTS
  Unit,          \* the units (kits by pointer) a caller can put in a set
  Rank,          \* Rank[u]: the place of u's reference in string order
  Name,          \* normalized capability names
  Malformed,     \* the name of an entry that fails ParseProvide/ParseRequire
  Version,       \* versions
  Unversioned,   \* no version
  Credential     \* (service, phase) pairs

ASSUME UnitsFinite == IsFiniteSet(Unit)
ASSUME RanksAreNaturals == Rank \in [Unit -> Nat]
ASSUME ReferencesAreUnique == \A u, v \in Unit : Rank[u] = Rank[v] => u = v

ProvideEntry == [name : Name \cup {Malformed}, version : Version \cup {Unversioned}]
RequireEntry == [name : Name \cup {Malformed}, any : BOOLEAN, admits : SUBSET Version]

Descriptor ==
  [ present    : BOOLEAN,                     \* FALSE: a nil Descriptor
    kind       : {"workload", "mixin"},
    tag        : Version \cup {Unversioned},  \* version the reference carries
    version    : Version \cup {Unversioned},  \* version: of the descriptor
    provides   : SUBSET ProvideEntry,
    requires   : SUBSET RequireEntry,
    integrates : SUBSET RequireEntry,
    conflicts  : SUBSET Name,
    creds      : SUBSET (Credential \X Nat),  \* one element per declaration
    grouped    : BOOLEAN ]                    \* holds an unselected group

Parses(entry) == entry.name # Malformed

\* The version an unversioned provide takes: the one the reference carries,
\* else the descriptor's own.
EffectiveProvideVersion(d) == IF d.tag # Unversioned THEN d.tag ELSE d.version

\* One unit's rows of the provides index; an explicit @version wins.
ProvidedBy(K, u) ==
  { [name |-> p.name,
     version |-> IF p.version # Unversioned THEN p.version
                 ELSE EffectiveProvideVersion(K[u])]
      : p \in {q \in K[u].provides : Parses(q)} }

Satisfies(p, r) ==
  /\ p.name = r.name
  /\ \/ r.any
     \/ p.version # Unversioned /\ p.version \in r.admits

\* The units that offer a name at all, and the ones other than self that do.
Providers(K, name) == {v \in DOMAIN K : \E p \in ProvidedBy(K, v) : p.name = name}
OthersProviding(K, name, self) == Providers(K, name) \ {self}

\* The units other than self with a provide that satisfies r. The code
\* returns the first of them; when `order` runs there is at most one,
\* because a name with two owners has been refused by then.
SatisfiedBy(K, r, self) ==
  {v \in DOMAIN K \ {self} : \E p \in ProvidedBy(K, v) : Satisfies(p, r)}

\* The providers u composes after: met requires and met integrates.
Deps(K, u) ==
  UNION {SatisfiedBy(K, r, u) :
           r \in {q \in K[u].requires \cup K[u].integrates : Parses(q)}}

Workloads(K) == {u \in DOMAIN K : K[u].kind = "workload"}
=============================================================================

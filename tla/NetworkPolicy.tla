--------------------------- MODULE NetworkPolicy ---------------------------
(***************************************************************************)
(* Egress policies (network-policy@1 and @2): what the merge of several    *)
(* kits does with their entries (spec/merge.go), and what a policy admits  *)
(* (the capability page, which a runtime enforces).                        *)
(*                                                                         *)
(* A host is a name pattern with or without a port; which concrete names a *)
(* pattern stands for is the runtime's matcher, the constant Matches.  A   *)
(* path pattern is a directory, exact or with everything below it ("/**"). *)
(* An entry with no methods and no paths is unbounded: the bare host form, *)
(* and all that @1 can say.                                                *)
(***************************************************************************)
EXTENDS Integers, Sequences, FiniteSets

CONSTANTS
  Pattern,     \* name patterns entries may state
  Universal,   \* the pattern "*" or "**"
  Matches,     \* Matches[p]: the concrete names pattern p stands for
  Port, NoPort,
  Method, MethodAny,   \* method tokens, and the wildcard among them
  Segment,     \* path segments
  RequestPath  \* the concrete paths requests ask for, sequences of segments

ASSUME UniversalMatchesAll ==
  Universal \in Pattern /\ \A p \in Pattern : Matches[p] \subseteq Matches[Universal]
ASSUME NoPortIsNoPort == NoPort \notin Port
ASSUME AnyIsAMethod == MethodAny \in Method
ASSUME PathsAreSequences == \A p \in RequestPath : p \in Seq(Segment)

Host == [name : Pattern, port : Port \cup {NoPort}]
Path == [dir : Seq(Segment), deep : BOOLEAN]
Entry == [hosts : SUBSET Host, methods : SUBSET Method, paths : SUBSET Path]
Rules == [allow : SUBSET Entry, deny : SUBSET Entry]

EveryPath == [dir |-> <<>>, deep |-> TRUE]

Bounded(e) == e.methods # {} \/ e.paths # {}

\* As enforcement reads them: an omitted list is every method, every path.
EntryMethods(e) == IF e.methods = {} THEN {MethodAny} ELSE e.methods
EntryPaths(e) == IF e.paths = {} THEN {EveryPath} ELSE e.paths

-----------------------------------------------------------------------------
(* The merge of one phase's rules over a set of contributors.              *)

\* A bounded allow entry gives up the hosts another entry grants outright,
\* and goes when none is left. Denies are kept whatever they are.
NormalizeRules(r) ==
  LET unbounded == UNION {e.hosts : e \in {x \in r.allow : ~Bounded(x)}}
  IN [r EXCEPT !.allow =
        {e \in r.allow : ~Bounded(e)}
        \cup {[e EXCEPT !.hosts = e.hosts \ unbounded] :
                e \in {x \in r.allow : Bounded(x) /\ x.hosts \ unbounded # {}}}]

\* Every contributor's rules, unioned in both directions.
AppendRules(RS) == [allow |-> UNION {r.allow : r \in RS}, deny |-> UNION {r.deny : r \in RS}]
MergedNetwork(RS) == NormalizeRules(AppendRules(RS))

-----------------------------------------------------------------------------
(* What a policy admits, from the capability page.  A request names a host *)
(* and a port, and is HTTP with a method and a path, or anything else.     *)

Request == [name : Matches[Universal], port : Port, http : BOOLEAN,
            method : Method \ {MethodAny}, path : RequestPath]

HostMatches(h, r) == r.name \in Matches[h.name] /\ h.port \in {NoPort, r.port}

Below(dir, path) == Len(dir) <= Len(path) /\ \A i \in 1..Len(dir) : dir[i] = path[i]
PathMatches(p, r) == IF p.deep THEN Below(p.dir, r.path) ELSE p.dir = r.path

EntryMatches(e, r) ==
  /\ \E h \in e.hosts : HostMatches(h, r)
  /\ Bounded(e) => /\ r.http
                   /\ \E m \in EntryMethods(e) : m \in {MethodAny, r.method}
                   /\ \E p \in EntryPaths(e) : PathMatches(p, r)

\* Deny wins; otherwise some allow entry has to admit the request.
Admits(rules, r) ==
  /\ \E e \in rules.allow : EntryMatches(e, r)
  /\ \A e \in rules.deny : ~EntryMatches(e, r)
=============================================================================

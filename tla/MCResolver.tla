----------------------------- MODULE MCResolver -----------------------------
(***************************************************************************)
(* Instances of Resolver for TLC.  Rules: three units whose descriptors    *)
(* between them break every rule of section 5.3.  Graphs: four units, one  *)
(* of them a workload, with every dependency graph among them.             *)
(***************************************************************************)
EXTENDS Resolver

CONSTANTS u1, u2, u3, u4, a, b, c, d, cred

Units3 == {u1, u2, u3}
Units4 == {u1, u2, u3, u4}
\* The reference order differs from the order the units are written in.
MCRank == [u \in Units4 |-> CASE u = u1 -> 2 [] u = u2 -> 4 [] u = u3 -> 1 [] u = u4 -> 3]

Plain == [present |-> TRUE, kind |-> "mixin", tag |-> Unversioned, version |-> Unversioned,
          provides |-> {}, requires |-> {}, integrates |-> {}, conflicts |-> {},
          creds |-> {}, grouped |-> FALSE]
Offer(n, v) == [name |-> n, version |-> v]
Bare(n) == Offer(n, Unversioned)
Need(n) == [name |-> n, any |-> TRUE, admits |-> {}]
NeedV2(n) == [name |-> n, any |-> FALSE, admits |-> {2}]

\* A base, maybe needing a mixin's capability.
BaseKits == {[Plain EXCEPT !.kind = "workload", !.provides = {Bare(a)}, !.tag = t, !.version = 1,
                           !.requires = r, !.conflicts = x] :
               t \in {Unversioned, 2}, r \in {{}, {Need(b)}}, x \in {{}, {b}}}
\* A provider of b, plus one descriptor for each way of being malformed,
\* unselected or absent.
ProviderKits ==
  {[Plain EXCEPT !.provides = p, !.requires = r, !.creds = k] :
     p \in {{Offer(b, 1)}, {Offer(b, 2), Bare(b)}, {Bare(a)}},
     r \in {{}, {Need(a)}, {Need(b)}}, k \in {{}, {<<cred, 1>>}}}
  \cup { [Plain EXCEPT !.provides = {Bare(Malformed)}],
         [Plain EXCEPT !.grouped = TRUE],
         [Plain EXCEPT !.creds = {<<cred, 1>>, <<cred, 2>>}],
         [Plain EXCEPT !.present = FALSE],
         [Plain EXCEPT !.kind = "workload"] }
\* A consumer of both.
ConsumerKits ==
  {[Plain EXCEPT !.requires = r, !.integrates = i, !.creds = k] :
     r \in {{}, {Need(b)}, {NeedV2(a)}, {Need(Malformed)}},
     i \in {{}, {NeedV2(b)}, {Need(Malformed)}}, k \in {{}, {<<cred, 1>>}}}

RulesCatalog == [u \in Units3 |-> CASE u = u1 -> BaseKits
                                    [] u = u2 -> ProviderKits
                                    [] u = u3 -> ConsumerKits]

\* Each unit provides its own name and may need any of the others'.
OwnName == [u \in Units4 |-> CASE u = u1 -> a [] u = u2 -> b [] u = u3 -> c [] u = u4 -> d]
GraphsCatalog ==
  [u \in Units4 |->
     {[Plain EXCEPT !.kind = IF u = u1 THEN "workload" ELSE "mixin",
                    !.provides = {Bare(OwnName[u])},
                    !.requires = {Need(OwnName[v]) : v \in needs}] :
        needs \in SUBSET (Units4 \ {u})}]

MCCatalog ==
  [u \in Units4 |-> GraphsCatalog[u] \cup (IF u \in Units3 THEN RulesCatalog[u] ELSE {})]

From(catalog, units) ==
  UNION {{f \in [S -> UNION {catalog[u] : u \in S}] : \A u \in S : f[u] \in catalog[u]} :
           S \in SUBSET units}

\* The sets of one catalog or of the other.
MCInit == kits \in From(RulesCatalog, Units3) \cup From(GraphsCatalog, Units4) /\ Untouched
MCSpec == MCInit /\ [][Next]_vars /\ WF_vars(Next)
=============================================================================

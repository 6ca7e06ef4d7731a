----------------------------- MODULE MCLockGate -----------------------------
(***************************************************************************)
(* Instances of LockGate for TLC.  MCLockGate: one kit with every          *)
(* combination of a few entries, or two kits with a few policies each,     *)
(* where one kit's deny meets the other's allow.  MCLockGate_removal: two  *)
(* kits, one of which may be removed.  MCLockGate_report: one kit.         *)
(***************************************************************************)
EXTENDS LockGate

CONSTANT First   \* the reference of a set of one

\* "api" is a literal, "glob" a pattern the runtime matches it with.
MCPattern == {"api", "glob", "all"}
MCMatches == [p \in MCPattern |-> IF p = "all" THEN {"api", "other"} ELSE {"api"}]
MCMethod == {"GET", "EXT", "ANY"}
MCPaths == {<<>>, <<"a">>, <<"a", "b">>}

H(n) == [name |-> n, port |-> NoPort]
HP(n, p) == [name |-> n, port |-> p]
Bare(h) == [hosts |-> {h}, methods |-> {}, paths |-> {}]
Only(h, m) == [hosts |-> {h}, methods |-> {m}, paths |-> {}]
Under(h, m, d) == [hosts |-> {h}, methods |-> {m}, paths |-> {[dir |-> d, deep |-> TRUE]}]
Exactly(h, m, d) == [hosts |-> {h}, methods |-> {m}, paths |-> {[dir |-> d, deep |-> FALSE]}]

AllowEntries == {Bare(H("api")), Bare(HP("api", 8443)), Bare(H("all")),
                 Only(HP("api", 443), "GET"), Exactly(H("api"), "ANY", <<"a">>)}
DenyEntries == {Bare(H("glob")), Under(HP("api", 443), "GET", <<"a">>)}

KitWith(allow, deny, ssh, items) ==
  [net |-> [ph \in Phase |-> [allow |-> allow, deny |-> deny]], ssh |-> ssh, items |-> items]
AtMost(n, S) == {T \in SUBSET S : Cardinality(T) <= n}

\* One entry, or a bounded one next to a bare or a bounded one.
AllowLists ==
  AtMost(1, AllowEntries)
    \cup {{e, Exactly(H("api"), "ANY", <<"a">>)} : e \in {Bare(H("all")), Bare(HP("api", 8443)),
                                                       Only(HP("api", 443), "GET")}}
    \cup {{Bare(HP("api", 8443)), Only(HP("api", 443), "GET")}}
NetKits == {KitWith(a, d, {}, {}) : a \in AllowLists, d \in AtMost(1, DenyEntries)}

Ssh(b, s, a) == [phase |-> "runtime", bounded |-> b, sign |-> s, authenticate |-> a]
At(u, h) == [user |-> u, host |-> h]
OtherKits ==
  {KitWith({}, {}, s, i) :
     s \in {{}, {Ssh(FALSE, {}, {})}, {Ssh(TRUE, {"git"}, {})},
            {Ssh(TRUE, {"git"}, {At(NoUser, "gh")})}, {Ssh(TRUE, {}, {At("git", "gh")})}},
     i \in {{}, {<<"privileged", TRUE>>}}}
MCItem == {<<"privileged", TRUE>>}

OneKit == NetKits \cup OtherKits
PairKits == {KitWith(a, d, {}, {}) :
               a \in {{}, {Bare(H("api"))}, {Only(H("api"), "GET")}},
               d \in {{}, {Only(H("api"), "GET")}}}

EitherKits == OneKit \cup PairKits

PortKits == {KitWith(a, {}, {}, {}) :
               a \in AtMost(2, {Bare(HP("api", 8443)), Only(H("api"), "GET")})}

Holds(set, kits) == set = Down \/ \A r \in DOMAIN set : set[r] \in kits

\* A set of one kit: nobody wants, or publishes, the other references.
Alone ==
  /\ wanted \cup DOMAIN lock \subseteq {First}
  /\ \A r \in Reference \ {First} : registry[r] = KitWith({}, {}, {}, {})
\* A set of a few policies.
Pair ==
  \A set \in {registry, running, candidate, Locked(lock)} : Holds(set, PairKits)
OneOrPair == Alone \/ Pair

MCInit == LInit /\ OneOrPair
MCNext == LNext /\ OneOrPair'
MCSpec == MCInit /\ [][MCNext]_lvars
=============================================================================

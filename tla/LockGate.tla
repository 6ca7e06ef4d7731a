------------------------------ MODULE LockGate ------------------------------
(***************************************************************************)
(* The kit lock and its gate (resolve/lock.go): a resolution is diffed     *)
(* against what the lock granted; an empty diff replaces the lock          *)
(* silently, anything else waits for the user, and a recreate accepts only *)
(* what the lock records.                                                  *)
(*                                                                         *)
(* The loop around Gate and VerifyRecreate is the consumer of the package  *)
(* (SPEC-v3 section 7.4): it resolves the references it wants as the       *)
(* registry has them at that moment, and the registry moves on.  A digest  *)
(* identifies content, so a kit's digest is modelled by its content, and a *)
(* resolution by its units: their order is a function of them (Resolver).  *)
(***************************************************************************)
EXTENDS Surface

CONSTANTS
  Reference,   \* kit references
  Content,     \* the kits a reference can point at
  MayRemove,   \* references may also be taken out of the set
  Down         \* nothing is running

ASSUME ContentIsKits == \A k \in Content : k \in Kit
ASSUME DownIsNoSet == \A S \in SUBSET Reference : \A f \in [S -> Content] : f # Down

VARIABLES
  registry,    \* registry[r]: what r points at now
  wanted,      \* the references of the set
  lock,        \* lock[r]: the locked kits, with digest and permissions
  running,     \* the set that runs, or Down
  candidate,   \* the resolution in the gate, or Down
  widenings,   \* what Gate returned for it
  step         \* "idle" or "gated"

lvars == <<registry, wanted, lock, running, candidate, widenings, step>>

Sets == UNION {[S -> Content] : S \in SUBSET Reference}

-----------------------------------------------------------------------------
\* Mutant: the permissions are left out of the record.
LockFromWithout(R) == [r \in DOMAIN R |-> [digest |-> R[r], permissions |-> NoSurface]]

\* Every kit of the resolution, with the surface of what it resolved to.
LockFrom(R) == [r \in DOMAIN R |-> [digest |-> R[r], permissions |-> SurfaceOf(R[r])]]

Granted(l, r) == IF r \in DOMAIN l THEN l[r].permissions ELSE NoSurface

\* Kit by kit, matched by reference; a kit the lock does not know is diffed
\* against nothing.
Gate(l, R) == UNION {DiffWidenings(Granted(l, r), SurfaceOf(R[r])) : r \in DOMAIN R}

\* Mutant: digests are not compared.
VerifyReferences(l, R) == DOMAIN l = DOMAIN R

VerifyRecreate(l, R) == DOMAIN l = DOMAIN R /\ \A r \in DOMAIN R : l[r].digest = R[r]

\* A lock of before the HTTP lists, for a set whose rules are all bare.
AllBare(R) == \A r \in DOMAIN R : \A ph \in Phase :
  \A e \in R[r].net[ph].allow \cup R[r].net[ph].deny : ~Bounded(e)
LegacyLock(R) == [r \in DOMAIN R |-> [digest |-> R[r], permissions |-> Legacy(SurfaceOf(R[r]))]]

Resolved == [r \in wanted |-> registry[r]]
Locked(l) == [r \in DOMAIN l |-> l[r].digest]

-----------------------------------------------------------------------------
LInit ==
  /\ registry \in [Reference -> Content]
  /\ wanted \in SUBSET Reference
  /\ running = Resolved
  /\ \/ lock = LockFrom(running)
     \/ AllBare(running) /\ lock = LegacyLock(running)
  /\ candidate = Down
  /\ widenings = {}
  /\ step = "idle"

\* A publisher moves a tag.
Publish(r, k) ==
  /\ registry' = [registry EXCEPT ![r] = k]
  /\ UNCHANGED <<wanted, lock, running, candidate, widenings, step>>

\* The user changes the set.
Edit(S) ==
  /\ step = "idle"
  /\ MayRemove \/ wanted \subseteq S
  /\ wanted' = S
  /\ UNCHANGED <<registry, lock, running, candidate, widenings, step>>

ResolveAndGate ==
  /\ step = "idle"
  /\ wanted # {}
  /\ candidate' = Resolved
  /\ widenings' = Gate(lock, Resolved)
  /\ step' = "gated"
  /\ UNCHANGED <<registry, wanted, lock, running>>

LeaveGate == candidate' = Down /\ widenings' = {} /\ step' = "idle"

\* Mutant: the set is resolved again after the gate.
ReplaceAfresh ==
  /\ lock' = LockFrom(Resolved)
  /\ running' = Resolved
  /\ LeaveGate
  /\ UNCHANGED <<registry, wanted>>

\* The gated resolution, and no later one, becomes the lock and runs.
Replace ==
  /\ lock' = LockFrom(candidate)
  /\ running' = candidate
  /\ LeaveGate
  /\ UNCHANGED <<registry, wanted>>

ApplySilently == step = "gated" /\ widenings = {} /\ Replace
Approve == step = "gated" /\ widenings # {} /\ Replace
Decline ==
  /\ step = "gated" /\ widenings # {}
  /\ LeaveGate
  /\ UNCHANGED <<registry, wanted, lock, running>>

Stop ==
  /\ running # Down
  /\ running' = Down
  /\ UNCHANGED <<registry, wanted, lock, candidate, widenings, step>>

\* A recreate resolves the set and has to find what the lock records;
\* anything else is an error, and the caller must resolve anew.
Recreate ==
  /\ step = "idle" /\ running = Down
  /\ VerifyRecreate(lock, Resolved)
  /\ running' = Resolved
  /\ UNCHANGED <<registry, wanted, lock, candidate, widenings, step>>

LNext ==
  \/ \E r \in Reference, k \in Content : Publish(r, k)
  \/ \E S \in SUBSET Reference : Edit(S)
  \/ ResolveAndGate \/ ApplySilently \/ Approve \/ Decline \/ Stop \/ Recreate

LSpec == LInit /\ [][LNext]_lvars

-----------------------------------------------------------------------------
(* Properties.                                                             *)

\* Every variable has its type; the lock's permissions are the projection of
\* the content it records, in the present or in the older form.
LTypeOK ==
  /\ registry \in [Reference -> Content]
  /\ wanted \subseteq Reference
  /\ running \in Sets \cup {Down}
  /\ IF step = "gated" THEN candidate \in Sets ELSE candidate = Down
  /\ step \in {"idle", "gated"}
  /\ Locked(lock) \in Sets
  /\ \/ \A r \in DOMAIN lock : lock[r].permissions = SurfaceOf(lock[r].digest)
     \/ /\ \A r \in DOMAIN lock : lock[r].permissions = Legacy(SurfaceOf(lock[r].digest))
        /\ AllBare(Locked(lock))

\* The merged policy of a set, and everything else it is granted.
NetOf(R, ph) == MergedNetwork({R[r].net[ph] : r \in DOMAIN R})
SshOf(R) == UNION {R[r].ssh : r \in DOMAIN R}
ItemsOf(R) == UNION {R[r].items : r \in DOMAIN R}

\* The composed set R is allowed nothing that the composed set G was not.
StaysWithin(R, G) ==
  /\ \A ph \in Phase, q \in Request : Admits(NetOf(R, ph), q) => Admits(NetOf(G, ph), q)
  /\ \A q \in Signature : SshAdmits(SshOf(R), q) => SshAdmits(SshOf(G), q)
  /\ ItemsOf(R) \subseteq ItemsOf(G)

\* Gate: "an empty result means the movement stays within what was already
\* granted and applies silently", judged on what the composed set may do
\* before and after, not on the lists that are compared.
EmptyGateStaysWithin ==
  step = "gated" /\ widenings = {} => StaysWithin(candidate, Locked(lock))

\* What the lock admits grows only on an approval: neither a tag that moves
\* between the gate and the replacement nor a recreate widens it.
NothingWidensSilently ==
  [][lock' # lock => widenings # {} \/ StaysWithin(Locked(lock'), Locked(lock))]_lvars

\* VerifyRecreate: "any difference means the registry moved a tag or the
\* caller changed the set": what runs is what the lock records.
RunsWhatIsLocked == running # Down => running = Locked(lock)

\* DiffWidenings "reports every way candidate exceeds granted": each request
\* the candidate newly admits is covered by something the gate shows.
Shows(w, ph, q) ==
  /\ w[1] = ph
  /\ \/ w[2][1] \in {"allow", "deny-removed"} /\ HostMatches(w[2][2], q)
     \/ /\ w[2][1] \in {"http.allow", "http.deny-removed"} /\ q.http
        /\ HostMatches(w[2][2].host, q)
        /\ w[2][2].method \in {MethodAny, q.method}
        /\ PathMatches(w[2][2].path, q)
EveryExcessIsShown ==
  step = "gated" =>
    \A ph \in Phase, q \in Request :
      Admits(NetOf(candidate, ph), q) /\ ~Admits(NetOf(Locked(lock), ph), q) =>
        \E w \in widenings : Shows(w, ph, q)
=============================================================================

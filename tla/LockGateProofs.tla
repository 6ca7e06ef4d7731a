--------------------------- MODULE LockGateProofs ---------------------------
(***************************************************************************)
(* Proofs that the gate is sound: for every policy language (patterns,     *)
(* ports, methods, paths, whatever the runtime's matcher), every set of    *)
(* kits and every movement that takes no kit out, an empty gate result     *)
(* means that the composed set admits nothing new.                         *)
(*                                                                         *)
(* The gate compares lists of grants; what matters is the requests they    *)
(* admit.  The argument goes from a request to the entry that matches it,  *)
(* to the atomic grant that entry projects to, to the granted grant that   *)
(* covers it, and back to an entry of the locked kit.                      *)
(***************************************************************************)
EXTENDS LockGate, TLAPS

\* Covering is transitive down to the request: a path, a host and a whole
\* grant that cover a matching one match too.
LEMMA PathCoverMatches ==
  ASSUME NEW g \in Path, NEW c \in Path, NEW q \in Request,
         PathPatternCovers(g, c), PathMatches(c, q)
  PROVE  PathMatches(g, q)
<1>1. CASE g = c
  BY <1>1
<1>2. CASE g.deep /\ Below(g.dir, c.dir)
  <2>1. g.dir \in Seq(Segment) /\ c.dir \in Seq(Segment) /\ q.path \in Seq(Segment)
    BY PathsAreSequences DEF Path, Request
  <2>2. Below(c.dir, q.path)
    <3>1. CASE c.deep
      BY <3>1 DEF PathMatches
    <3>2. CASE ~c.deep
      BY <3>2, <2>1 DEF PathMatches, Below
    <3> QED BY <3>1, <3>2
  <2>3. Below(g.dir, q.path)
    BY <1>2, <2>1, <2>2 DEF Below
  <2> QED BY <1>2, <2>3 DEF PathMatches
<1> QED BY <1>1, <1>2 DEF PathPatternCovers

\* hostCovers: the universal host, or the same name with no port or that port.
LEMMA HostCoverMatches ==
  ASSUME NEW g \in Host, NEW c \in Host, NEW q \in Request,
         HostCovers(g, c), HostMatches(c, q)
  PROVE  HostMatches(g, q)
<1>1. CASE g = [name |-> Universal, port |-> NoPort]
  BY <1>1, UniversalMatchesAll DEF HostMatches, Host, Request
<1>2. CASE g.name = c.name /\ g.port \in {NoPort, c.port}
  BY <1>2, NoPortIsNoPort DEF HostMatches, Host, Request
<1> QED BY <1>1, <1>2 DEF HostCovers

\* An entry matches an HTTP request exactly when one of its atomic grants
\* does.
HttpMatches(x, q) ==
  /\ HostMatches(x.host, q)
  /\ x.method \in {MethodAny, q.method}
  /\ PathMatches(x.path, q)

\* An omitted path list stands for a path pattern.
LEMMA EveryPathIsAPath == EveryPath \in Path
<1>1. <<>> \in Seq(Segment)
  OBVIOUS
<1> QED BY <1>1 DEF EveryPath, Path

\* ... that every request matches.
LEMMA EveryPathMatches ==
  ASSUME NEW q \in Request
  PROVE  PathMatches(EveryPath, q)
<1>1. q.path \in Seq(Segment)
  BY PathsAreSequences DEF Request
<1> QED BY <1>1 DEF EveryPath, Path, PathMatches, Below

\* entrySurface yields atomic grants,
LEMMA SurfaceIsHttpEntries ==
  ASSUME NEW E \in SUBSET Entry, NEW x \in EntrySurface(E)
  PROVE  x \in HttpEntry
<1> DEFINE M(e) == IF MethodAny \in EntryMethods(e) THEN {MethodAny} ELSE EntryMethods(e)
<1>0. PICK e \in E : \E h \in e.hosts, m \in M(e), p \in EntryPaths(e) :
                        x = [method |-> m, host |-> h, path |-> p]
  BY DEF EntrySurface
<1>1. PICK h \in e.hosts, m \in M(e), p \in EntryPaths(e) :
        x = [method |-> m, host |-> h, path |-> p]
  BY <1>0
<1>2. h \in Host /\ m \in Method
  BY AnyIsAMethod DEF Entry, EntryMethods
<1>3. p \in Path
  BY EveryPathIsAPath DEF Entry, EntryPaths
<1> QED BY <1>1, <1>2, <1>3 DEF HttpEntry

\* each from one of the entries.
LEMMA SurfaceIsEntryByEntry ==
  ASSUME NEW E, NEW x \in EntrySurface(E)
  PROVE  \E e \in E : x \in EntrySurface({e})
BY DEF EntrySurface

\* An HTTP request that an entry matches, one of its grants matches,
LEMMA EntryToSurface ==
  ASSUME NEW E \in SUBSET Entry, NEW e \in E, NEW q \in Request,
         EntryMatches(e, q), q.http
  PROVE  \E x \in EntrySurface(E) : HttpMatches(x, q)
<1>1. PICK h \in e.hosts : HostMatches(h, q)
  BY DEF EntryMatches
<1> DEFINE M == IF MethodAny \in EntryMethods(e) THEN {MethodAny} ELSE EntryMethods(e)
<1>2. PICK m \in M : m \in {MethodAny, q.method}
  <2>1. CASE Bounded(e)
    BY <2>1 DEF EntryMatches
  <2>2. CASE ~Bounded(e)
    BY <2>2 DEF Bounded, EntryMethods
  <2> QED BY <2>1, <2>2
<1>3. PICK p \in EntryPaths(e) : PathMatches(p, q)
  <2>1. CASE Bounded(e)
    BY <2>1 DEF EntryMatches
  <2>2. CASE ~Bounded(e)
    BY <2>2, EveryPathMatches DEF Bounded, EntryPaths
  <2> QED BY <2>1, <2>2
<1> DEFINE x == [method |-> m, host |-> h, path |-> p]
<1>4. x \in EntrySurface(E)
  BY DEF EntrySurface
<1>5. HttpMatches(x, q)
  BY <1>1, <1>2, <1>3 DEF HttpMatches
<1> QED BY <1>4, <1>5

\* and the other way round.
LEMMA SurfaceToEntry ==
  ASSUME NEW E \in SUBSET Entry, NEW x \in EntrySurface(E), NEW q \in Request,
         HttpMatches(x, q), q.http
  PROVE  \E e \in E : EntryMatches(e, q)
<1> DEFINE M(e) == IF MethodAny \in EntryMethods(e) THEN {MethodAny} ELSE EntryMethods(e)
<1>0. PICK e \in E : \E h \in e.hosts, m \in M(e), p \in EntryPaths(e) :
                        x = [method |-> m, host |-> h, path |-> p]
  BY DEF EntrySurface
<1>1. PICK h \in e.hosts, m \in M(e), p \in EntryPaths(e) :
        x = [method |-> m, host |-> h, path |-> p]
  BY <1>0
<1>2. m \in EntryMethods(e)
  OBVIOUS
<1> QED BY <1>1, <1>2 DEF EntryMatches, HttpMatches

\* What covers a grant that matches, matches.
LEMMA HttpCoverMatches ==
  ASSUME NEW g \in HttpEntry, NEW c \in HttpEntry, NEW q \in Request,
         HttpCovers(g, c), HttpMatches(c, q)
  PROVE  HttpMatches(g, q)
BY PathCoverMatches, HostCoverMatches DEF HttpCovers, HttpMatches, HttpEntry

-----------------------------------------------------------------------------
(* One phase of one kit.                                                   *)

\* A recorded network surface stands for rules k: its hosts are exactly k's
\* unbounded ones, its HTTP grants are k's, and its HTTP denies are all of
\* k's unless k has only bare denies (a surface of before the HTTP lists).
Represents(g, k) ==
  /\ g.allow = ConnectionHosts(k.allow)
  /\ g.deny = ConnectionHosts(k.deny)
  /\ g.httpAllow \subseteq EntrySurface(k.allow)
  /\ g.httpDeny = EntrySurface(k.deny) \/ \A e \in k.deny : ~Bounded(e)

NetSurface(c) ==
  [ allow |-> ConnectionHosts(c.allow), deny |-> ConnectionHosts(c.deny),
    httpAllow |-> EntrySurface(c.allow), httpDeny |-> EntrySurface(c.deny) ]

\* The grants completed from the hosts are grants of the kit.
LEMMA CompletedAreGranted ==
  ASSUME NEW k \in Rules, NEW g, Represents(g, k)
  PROVE  CompleteHTTPGrants(g.allow, g.httpAllow) \subseteq EntrySurface(k.allow)
<1> SUFFICES ASSUME NEW x \in CompleteHTTPGrants(g.allow, g.httpAllow)
             PROVE  x \in EntrySurface(k.allow)
  OBVIOUS
<1>1. CASE x \in g.httpAllow
  BY <1>1 DEF Represents
<1>2. CASE x \notin g.httpAllow
  <2> DEFINE bare(h) == [hosts |-> {h}, methods |-> {}, paths |-> {}]
             H == {h \in g.allow : \A y \in g.httpAllow : y.host.name # h.name}
  <2>0. x \in EntrySurface({bare(h) : h \in H})
    BY <1>2 DEF CompleteHTTPGrants
  <2>a. PICK b \in {bare(h) : h \in H} : x \in EntrySurface({b})
    BY <2>0, SurfaceIsEntryByEntry
  <2>b. PICK h \in H : b = bare(h)
    OBVIOUS
  <2>1. h \in g.allow /\ x \in EntrySurface({bare(h)})
    BY <2>a, <2>b
  <2>2. x = [method |-> MethodAny, host |-> h, path |-> EveryPath]
    BY <2>1 DEF EntrySurface, EntryMethods, EntryPaths
  <2>3. PICK e \in k.allow : ~Bounded(e) /\ h \in e.hosts
    BY <2>1 DEF Represents, ConnectionHosts
  <2>4. EntryMethods(e) = {MethodAny} /\ EntryPaths(e) = {EveryPath}
    BY <2>3 DEF Bounded, EntryMethods, EntryPaths
  <2> QED BY <2>2, <2>3, <2>4 DEF EntrySurface
<1> QED BY <1>1, <1>2

\* A host that an unbounded entry states matches as that entry does.
LEMMA BareMatches ==
  ASSUME NEW E \in SUBSET Entry, NEW h \in ConnectionHosts(E), NEW q, HostMatches(h, q)
  PROVE  \E e \in E : EntryMatches(e, q)
BY DEF ConnectionHosts, EntryMatches

\* With no widening, an allow entry that matches has one in the granted rules
\* that matches: no host is fresh, so no entry is suppressed.
LEMMA NothingAllowedAnew ==
  ASSUME NEW k \in Rules, NEW c \in Rules, NEW g, Represents(g, k),
         NetWidenings(g, NetSurface(c)) = {},
         NEW q \in Request, NEW e \in c.allow, EntryMatches(e, q)
  PROVE  \E d \in k.allow : EntryMatches(d, q)
<1> k.allow \in SUBSET Entry /\ c.allow \in SUBSET Entry
  BY DEF Rules
<1>1. ConnectionHosts(c.allow) \subseteq g.allow
  BY DEF NetWidenings, NetSurface
<1>2. CASE ~Bounded(e)
  <2>1. PICK h \in e.hosts : HostMatches(h, q)
    BY DEF EntryMatches
  <2>2. h \in ConnectionHosts(k.allow)
    BY <1>1, <1>2 DEF ConnectionHosts, Represents
  <2> QED BY <2>1, <2>2, BareMatches
<1>3. CASE Bounded(e)
  <2>1. q.http
    BY <1>3 DEF EntryMatches
  <2>2. PICK x \in EntrySurface(c.allow) : HttpMatches(x, q)
    BY <2>1, EntryToSurface
  <2> DEFINE G == CompleteHTTPGrants(g.allow, g.httpAllow)
             fresh == ConnectionHosts(c.allow) \ g.allow
  <2>3. HttpWidenings(g.allow, ConnectionHosts(c.allow), G, EntrySurface(c.allow)) = {}
    BY ZenonT(60) DEF NetWidenings, NetSurface
  <2>4. ~Suppressed(x.host, ConnectionHosts(c.allow), fresh)
    BY <1>1 DEF Suppressed
  <2>5. PICK y \in G : HttpCovers(y, x)
    BY <2>3, <2>4 DEF HttpWidenings
  <2>6. y \in EntrySurface(k.allow)
    BY CompletedAreGranted
  <2>7. HttpMatches(y, q)
    BY <2>2, <2>5, <2>6, SurfaceIsHttpEntries, HttpCoverMatches
  <2> QED BY <2>1, <2>6, <2>7, SurfaceToEntry
<1> QED BY <1>2, <1>3

\* With no widening, a granted deny that matches has one in the candidate.
LEMMA NoDenyGoes ==
  ASSUME NEW k \in Rules, NEW c \in Rules, NEW g, Represents(g, k),
         NetWidenings(g, NetSurface(c)) = {},
         NEW q \in Request, NEW e \in k.deny, EntryMatches(e, q)
  PROVE  \E d \in c.deny : EntryMatches(d, q)
<1> k.deny \in SUBSET Entry /\ c.deny \in SUBSET Entry
  BY DEF Rules
<1>1. g.deny \subseteq ConnectionHosts(c.deny)
  BY DEF NetWidenings, NetSurface
<1>2. CASE ~Bounded(e)
  <2>1. PICK h \in e.hosts : HostMatches(h, q)
    BY DEF EntryMatches
  <2>2. h \in ConnectionHosts(c.deny)
    BY <1>1, <1>2 DEF ConnectionHosts, Represents
  <2> QED BY <2>1, <2>2, BareMatches
<1>3. CASE Bounded(e)
  <2>1. q.http
    BY <1>3 DEF EntryMatches
  <2>2. PICK x \in EntrySurface(k.deny) : HttpMatches(x, q)
    BY <2>1, EntryToSurface
  <2>3. HttpDenyRemovals(g.deny, ConnectionHosts(c.deny), g.httpDeny, EntrySurface(c.deny)) = {}
    BY ZenonT(60) DEF NetWidenings, NetSurface
  <2>4. g.httpDeny = EntrySurface(k.deny)
    BY <1>3 DEF Represents
  <2>5. PICK y \in EntrySurface(c.deny) : HttpCovers(y, x)
    BY <1>1, <2>3, <2>4 DEF HttpDenyRemovals
  <2>6. HttpMatches(y, q)
    BY <2>2, <2>5, SurfaceIsHttpEntries, HttpCoverMatches
  <2> QED BY <2>1, <2>6, SurfaceToEntry
<1> QED BY <1>2, <1>3

-----------------------------------------------------------------------------
(* The merge.                                                              *)

\* Normalising changes no verdict: a host that a bounded entry gives up is
\* granted outright by another.
LEMMA NormalizeAdmits ==
  ASSUME NEW r \in Rules, NEW q \in Request
  PROVE  Admits(NormalizeRules(r), q) <=> Admits(r, q)
<1> DEFINE unbounded == UNION {e.hosts : e \in {x \in r.allow : ~Bounded(x)}}
           n == NormalizeRules(r)
           cut(x) == [x EXCEPT !.hosts = x.hosts \ unbounded]
<1> r.allow \in SUBSET Entry
  BY DEF Rules
<1>1. n.deny = r.deny
  BY DEF NormalizeRules, Rules
<1>2. n.allow = {e \in r.allow : ~Bounded(e)}
                \cup {cut(e) : e \in {x \in r.allow : Bounded(x) /\ x.hosts \ unbounded # {}}}
  BY DEF NormalizeRules, Rules
<1>3. \A x \in r.allow : /\ cut(x).hosts = x.hosts \ unbounded
                         /\ cut(x).methods = x.methods /\ cut(x).paths = x.paths
  BY DEF Entry
<1>4. \A x \in r.allow : /\ Bounded(cut(x)) <=> Bounded(x)
                         /\ EntryMethods(cut(x)) = EntryMethods(x)
                         /\ EntryPaths(cut(x)) = EntryPaths(x)
  BY <1>3 DEF Bounded, EntryMethods, EntryPaths
<1> HIDE DEF cut
<1>5. ASSUME NEW e \in n.allow, EntryMatches(e, q)
      PROVE  \E d \in r.allow : EntryMatches(d, q)
  <2>1. CASE e \in r.allow
    BY <1>5, <2>1
  <2>2. CASE e \notin r.allow
    <3>1. PICK x \in r.allow : e = cut(x)
      BY <1>2, <2>2
    <3>2. EntryMatches(x, q)
      BY <1>3, <1>4, <1>5, <3>1 DEF EntryMatches
    <3> QED BY <3>2
  <2> QED BY <2>1, <2>2
<1>6. ASSUME NEW e \in r.allow, EntryMatches(e, q)
      PROVE  \E d \in n.allow : EntryMatches(d, q)
  <2>1. PICK h \in e.hosts : HostMatches(h, q)
    BY <1>6 DEF EntryMatches
  <2>2. CASE ~Bounded(e)
    BY <1>2, <1>6, <2>2
  <2>3. CASE Bounded(e) /\ h \in unbounded
    <3>1. PICK d \in r.allow : ~Bounded(d) /\ h \in d.hosts
      BY <2>3
    <3> QED BY <1>2, <2>1, <3>1 DEF EntryMatches
  <2>4. CASE Bounded(e) /\ h \notin unbounded
    <3>1. cut(e) \in n.allow
      BY <1>2, <2>1, <2>4
    <3>2. h \in cut(e).hosts
      BY <1>3, <2>1, <2>4
    <3>3. EntryMatches(cut(e), q)
      BY <1>4, <1>6, <2>1, <3>2 DEF EntryMatches
    <3> QED BY <3>1, <3>3
  <2> QED BY <2>2, <2>3, <2>4
<1> HIDE DEF n
<1> QED BY <1>1, <1>5, <1>6 DEF Admits, n

\* What a merged policy admits, kit by kit.
LEMMA MergedAdmits ==
  ASSUME NEW RS \in SUBSET Rules, NEW q \in Request
  PROVE  Admits(MergedNetwork(RS), q) <=>
           /\ \E r \in RS : \E e \in r.allow : EntryMatches(e, q)
           /\ \A r \in RS : \A e \in r.deny : ~EntryMatches(e, q)
<1>1. AppendRules(RS) \in Rules
  BY DEF AppendRules, Rules
<1>2. Admits(MergedNetwork(RS), q) <=> Admits(AppendRules(RS), q)
  BY <1>1, NormalizeAdmits DEF MergedNetwork
<1>3. /\ AppendRules(RS).allow = UNION {r.allow : r \in RS}
      /\ AppendRules(RS).deny = UNION {r.deny : r \in RS}
  BY DEF AppendRules
<1>4. (\E e \in AppendRules(RS).allow : EntryMatches(e, q))
        <=> \E r \in RS : \E e \in r.allow : EntryMatches(e, q)
  BY <1>3
<1>5. (\A e \in AppendRules(RS).deny : ~EntryMatches(e, q))
        <=> \A r \in RS : \A e \in r.deny : ~EntryMatches(e, q)
  BY <1>3
<1> QED BY <1>2, <1>4, <1>5 DEF Admits

-----------------------------------------------------------------------------
(* ssh-agent entries.                                                      *)

\* sshAgentSurface, grant by grant.
LEMMA GrantOfAnEntry ==
  ASSUME NEW S, NEW x \in SshAgentSurface(S)
  PROVE  \E t \in S :
           \/ ~t.bounded /\ x = [phase |-> t.phase, kind |-> "all"]
           \/ /\ t.bounded
              /\ \E n \in t.sign : x = [phase |-> t.phase, kind |-> "sign", namespace |-> n]
           \/ /\ t.bounded
              /\ \E d \in t.authenticate :
                   x = [phase |-> t.phase, kind |-> "authenticate", destination |-> d]
<1>1. PICK t \in S : x \in
        IF ~t.bounded THEN {[phase |-> t.phase, kind |-> "all"]}
        ELSE {[phase |-> t.phase, kind |-> "sign", namespace |-> n] : n \in t.sign}
             \cup {[phase |-> t.phase, kind |-> "authenticate", destination |-> d] :
                     d \in t.authenticate}
  BY DEF SshAgentSurface
<1> QED BY <1>1

\* Only an entry without bounds projects to the grant of everything.
LEMMA AllNamesItsEntry ==
  ASSUME NEW S, NEW ph, [phase |-> ph, kind |-> "all"] \in SshAgentSurface(S)
  PROVE  \E t \in S : ~t.bounded /\ t.phase = ph
<1> DEFINE x == [phase |-> ph, kind |-> "all"]
<1>1. x.kind = "all" /\ x.phase = ph
  OBVIOUS
<1> HIDE DEF x
<1>2. x \in SshAgentSurface(S)
  BY DEF x
<1> QED BY <1>1, <1>2, GrantOfAnEntry

\* The same for a namespace
LEMMA SignNamesItsEntry ==
  ASSUME NEW S, NEW ph, NEW n,
         [phase |-> ph, kind |-> "sign", namespace |-> n] \in SshAgentSurface(S)
  PROVE  \E t \in S : t.phase = ph /\ n \in t.sign
<1> DEFINE x == [phase |-> ph, kind |-> "sign", namespace |-> n]
<1>1. x.kind = "sign" /\ x.phase = ph /\ x.namespace = n
  OBVIOUS
<1> HIDE DEF x
<1>2. x \in SshAgentSurface(S)
  BY DEF x
<1> QED BY <1>1, <1>2, GrantOfAnEntry

\* and for a destination.
LEMMA AuthenticateNamesItsEntry ==
  ASSUME NEW S, NEW ph, NEW d,
         [phase |-> ph, kind |-> "authenticate", destination |-> d] \in SshAgentSurface(S)
  PROVE  \E t \in S : t.phase = ph /\ d \in t.authenticate
<1> DEFINE x == [phase |-> ph, kind |-> "authenticate", destination |-> d]
<1>1. x.kind = "authenticate" /\ x.phase = ph /\ x.destination = d
  OBVIOUS
<1> HIDE DEF x
<1>2. x \in SshAgentSurface(S)
  BY DEF x
<1> QED BY <1>1, <1>2, GrantOfAnEntry

\* When every ssh-agent grant is covered, no signature is admitted anew.
LEMMA NothingSignedAnew ==
  ASSUME NEW K \in SUBSET SshEntry, NEW C \in SUBSET SshEntry,
         \A x \in SshAgentSurface(C) : \E g \in SshAgentSurface(K) : SshCovers(g, x),
         NEW q \in Signature, SshAdmits(C, q)
  PROVE  SshAdmits(K, q)
<1>1. PICK s \in C :
        /\ s.phase = q.phase
        /\ \/ ~s.bounded
           \/ q.what = "sshsig" /\ q.namespace \in s.sign
           \/ q.what = "login" /\ \E d \in s.authenticate :
                                    d.host = q.host /\ d.user \in {NoUser, q.user}
  BY DEF SshAdmits
<1> DEFINE all == [phase |-> q.phase, kind |-> "all"]
           sign(n) == [phase |-> q.phase, kind |-> "sign", namespace |-> n]
           auth(d) == [phase |-> q.phase, kind |-> "authenticate", destination |-> d]
<1>2. ASSUME all \in SshAgentSurface(K)
      PROVE  SshAdmits(K, q)
  <2>1. PICK t \in K : ~t.bounded /\ t.phase = q.phase
    BY <1>2, AllNamesItsEntry
  <2> QED BY <2>1 DEF SshAdmits
<1>3. CASE ~s.bounded
  <2>1. all \in SshAgentSurface(C)
    BY <1>1, <1>3 DEF SshAgentSurface
  <2>2. all \in SshAgentSurface(K)
    BY <2>1 DEF SshCovers
  <2> QED BY <1>2, <2>2
<1>4. CASE s.bounded /\ q.what = "sshsig" /\ q.namespace \in s.sign
  <2>1. sign(q.namespace) \in SshAgentSurface(C)
    BY <1>1, <1>4 DEF SshAgentSurface
  <2>2. all \in SshAgentSurface(K) \/ sign(q.namespace) \in SshAgentSurface(K)
    BY <2>1 DEF SshCovers
  <2>3. CASE sign(q.namespace) \in SshAgentSurface(K)
    <3>1. PICK t \in K : t.phase = q.phase /\ q.namespace \in t.sign
      BY <2>3, SignNamesItsEntry
    <3> QED BY <1>4, <3>1 DEF SshAdmits
  <2> QED BY <1>2, <2>2, <2>3
<1>5. CASE s.bounded /\ q.what = "login" /\ \E d \in s.authenticate :
             d.host = q.host /\ d.user \in {NoUser, q.user}
  <2>1. PICK d \in s.authenticate : d.host = q.host /\ d.user \in {NoUser, q.user}
    BY <1>5
  <2>2. d \in Destination
    BY DEF SshEntry
  <2>3. auth(d) \in SshAgentSurface(C)
    BY <1>1, <1>5 DEF SshAgentSurface
  <2> DEFINE any == [d EXCEPT !.user = NoUser]
  <2>4. PICK g \in SshAgentSurface(K) : SshCovers(g, auth(d))
    BY <2>3
  <2>5. g \in {all, auth(d), auth(any)}
    BY <2>4 DEF SshCovers
  <2>6. ASSUME NEW f \in {d, any}, auth(f) \in SshAgentSurface(K)
        PROVE  SshAdmits(K, q)
    <3>1. PICK t \in K : t.phase = q.phase /\ f \in t.authenticate
      BY <2>6, AuthenticateNamesItsEntry
    <3>2. f.host = q.host /\ f.user \in {NoUser, q.user}
      BY <2>1, <2>2 DEF Destination
    <3> QED BY <1>5, <3>1, <3>2 DEF SshAdmits
  <2> QED BY <1>2, <2>4, <2>5, <2>6
<1> QED BY <1>1, <1>3, <1>4, <1>5

-----------------------------------------------------------------------------
(* The set.                                                                *)

EmptyKit == [net |-> [ph \in Phase |-> [allow |-> {}, deny |-> {}]], ssh |-> {}, items |-> {}]
KitOf(l, r) == IF r \in DOMAIN l THEN l[r].digest ELSE EmptyKit

RepresentsKit(s, k) ==
  /\ \A ph \in Phase : Represents(s.net[ph], k.net[ph])
  /\ s.ssh = SshAgentSurface(k.ssh)
  /\ s.items = k.items

\* The lock's permissions project the content it records.
LockOK(l) ==
  /\ Locked(l) \in Sets
  /\ \/ \A r \in DOMAIN l : l[r].permissions = SurfaceOf(l[r].digest)
     \/ /\ \A r \in DOMAIN l : l[r].permissions = Legacy(SurfaceOf(l[r].digest))
        /\ AllBare(Locked(l))

\* So what the gate diffs a kit against stands for the kit recorded, or for
\* the kit that asks for nothing.
LEMMA GrantedRepresents ==
  ASSUME NEW l, LockOK(l), NEW r
  PROVE  KitOf(l, r) \in Kit /\ RepresentsKit(Granted(l, r), KitOf(l, r))
<1> DEFINE k == KitOf(l, r)
           R == Locked(l)
<1>1. CASE r \notin DOMAIN l
  <2>1. k = EmptyKit /\ EmptyKit \in Kit
    BY <1>1 DEF KitOf, EmptyKit, Kit, Rules
  <2>2. Granted(l, r) = NoSurface
    BY <1>1 DEF Granted
  <2>3. \A ph \in Phase : Represents(NoSurface.net[ph], EmptyKit.net[ph])
    BY DEF Represents, NoSurface, EmptyKit, ConnectionHosts, EntrySurface
  <2>4. NoSurface.ssh = SshAgentSurface(EmptyKit.ssh) /\ NoSurface.items = EmptyKit.items
    BY DEF NoSurface, EmptyKit, SshAgentSurface
  <2> QED BY <2>1, <2>2, <2>3, <2>4 DEF RepresentsKit
<1>2. CASE r \in DOMAIN l
  <2>1. DOMAIN R = DOMAIN l /\ R[r] = k
    BY <1>2 DEF Locked, KitOf
  <2>2. k \in Kit
    BY <1>2, <2>1, ContentIsKits DEF LockOK, Sets
  <2>3. CASE \A x \in DOMAIN l : l[x].permissions = SurfaceOf(l[x].digest)
    <3>1. Granted(l, r) = SurfaceOf(k)
      BY <1>2, <2>3 DEF Granted, KitOf
    <3>2. \A ph \in Phase : Represents(SurfaceOf(k).net[ph], k.net[ph])
      BY DEF Represents, SurfaceOf
    <3>3. SurfaceOf(k).ssh = SshAgentSurface(k.ssh) /\ SurfaceOf(k).items = k.items
      BY DEF SurfaceOf
    <3> QED BY <2>2, <3>1, <3>2, <3>3 DEF RepresentsKit
  <2>4. CASE /\ \A x \in DOMAIN l : l[x].permissions = Legacy(SurfaceOf(l[x].digest))
             /\ AllBare(R)
    <3> DEFINE s == SurfaceOf(k)
    <3>1. Granted(l, r) = Legacy(s)
      BY <1>2, <2>4 DEF Granted, KitOf
    <3>2. /\ Legacy(s).ssh = s.ssh /\ Legacy(s).items = s.items
          /\ Legacy(s).net = [ph \in Phase |-> [s.net[ph] EXCEPT !.httpAllow = {}, !.httpDeny = {}]]
      BY DEF Legacy, SurfaceOf
    <3>3. ASSUME NEW ph \in Phase
          PROVE  Represents(Legacy(s).net[ph], k.net[ph])
      <4> DEFINE n == s.net[ph]
      <4>a. n = NetSurface(k.net[ph])
        BY DEF SurfaceOf, NetSurface
      <4>b. Legacy(s).net[ph] = [n EXCEPT !.httpAllow = {}, !.httpDeny = {}]
        BY <3>2
      <4> HIDE DEF n, s
      <4>1. /\ Legacy(s).net[ph].allow = ConnectionHosts(k.net[ph].allow)
            /\ Legacy(s).net[ph].deny = ConnectionHosts(k.net[ph].deny)
            /\ Legacy(s).net[ph].httpAllow = {}
        BY <4>a, <4>b DEF NetSurface
      <4>2. \A e \in k.net[ph].deny : ~Bounded(e)
        BY <1>2, <2>1, <2>4 DEF AllBare
      <4> QED BY <4>1, <4>2 DEF Represents
    <3>4. s.ssh = SshAgentSurface(k.ssh) /\ s.items = k.items
      BY DEF SurfaceOf
    <3> QED BY <2>2, <3>1, <3>2, <3>3, <3>4 DEF RepresentsKit
  <2> QED BY <2>3, <2>4 DEF LockOK
<1> QED BY <1>1, <1>2

\* An empty gate result, read kit by kit.
LEMMA EmptyGateByKit ==
  ASSUME NEW l, NEW R, Gate(l, R) = {}, NEW r \in DOMAIN R
  PROVE  /\ \A ph \in Phase :
              NetWidenings(Granted(l, r).net[ph], NetSurface(R[r].net[ph])) = {}
         /\ \A x \in SshAgentSurface(R[r].ssh) :
              \E g \in Granted(l, r).ssh : SshCovers(g, x)
         /\ R[r].items \subseteq Granted(l, r).items
<1> DEFINE s == SurfaceOf(R[r])
<1>1. DiffWidenings(Granted(l, r), s) = {}
  BY DEF Gate
<1>2. /\ \A ph \in Phase : s.net[ph] = NetSurface(R[r].net[ph])
      /\ s.ssh = SshAgentSurface(R[r].ssh)
      /\ s.items = R[r].items
  BY DEF SurfaceOf, NetSurface
<1> HIDE DEF s
<1> DEFINE g == Granted(l, r)
           W(ph) == NetWidenings(g.net[ph], s.net[ph])
           N == UNION {{<<ph, w>> : w \in W(ph)} : ph \in Phase}
           S == {x \in s.ssh : \A y \in g.ssh : ~SshCovers(y, x)}
           SW == {<<"ssh-agent", c>> : c \in S}
           I == s.items \ g.items
           IW == {<<"item", i>> : i \in I}
<1>3. DiffWidenings(g, s) = N \cup SW \cup IW
  BY Zenon DEF DiffWidenings
<1>4. N = {} /\ SW = {} /\ IW = {}
  <2> HIDE DEF N, SW, IW
  <2> QED BY <1>1, <1>3
<1>5. ASSUME NEW ph \in Phase
      PROVE  W(ph) = {}
  <2> HIDE DEF W
  <2> SUFFICES ASSUME NEW w \in W(ph) PROVE <<ph, w>> \in N
    BY <1>4
  <2> QED OBVIOUS
<1>6. S = {}
  <2> HIDE DEF S
  <2> SUFFICES ASSUME NEW c \in S PROVE <<"ssh-agent", c>> \in SW
    BY <1>4
  <2> QED OBVIOUS
<1>7. I = {}
  <2> HIDE DEF I
  <2> SUFFICES ASSUME NEW i \in I PROVE <<"item", i>> \in IW
    BY <1>4
  <2> QED OBVIOUS
<1> QED BY <1>2, <1>5, <1>6, <1>7

\* A movement that takes no kit out and that the gate finds nothing in
\* admits nothing new.
LEMMA GateIsSound ==
  ASSUME NEW l, LockOK(l), NEW R \in Sets, DOMAIN l \subseteq DOMAIN R, Gate(l, R) = {}
  PROVE  StaysWithin(R, Locked(l))
<1> DEFINE G == Locked(l)
<1>1. /\ DOMAIN G = DOMAIN l
      /\ \A r \in DOMAIN l : G[r] = KitOf(l, r)
  BY DEF Locked, KitOf
<1>2. \A r \in DOMAIN R : R[r] \in Kit
  BY ContentIsKits DEF Sets
<1>3. \A r : KitOf(l, r) \in Kit /\ RepresentsKit(Granted(l, r), KitOf(l, r))
  BY GrantedRepresents
<1> HIDE DEF G
<1>4. ASSUME NEW ph \in Phase, NEW q \in Request, Admits(NetOf(R, ph), q)
      PROVE  Admits(NetOf(G, ph), q)
  <2>1. /\ {R[r].net[ph] : r \in DOMAIN R} \in SUBSET Rules
        /\ {G[r].net[ph] : r \in DOMAIN G} \in SUBSET Rules
    BY <1>1, <1>2, <1>3 DEF Kit
  <2>2. /\ \E r \in DOMAIN R : \E e \in R[r].net[ph].allow : EntryMatches(e, q)
        /\ \A r \in DOMAIN R : \A e \in R[r].net[ph].deny : ~EntryMatches(e, q)
    BY <1>4, <2>1, MergedAdmits DEF NetOf
  <2>3. \A r \in DOMAIN R :
          /\ KitOf(l, r).net[ph] \in Rules /\ R[r].net[ph] \in Rules
          /\ Represents(Granted(l, r).net[ph], KitOf(l, r).net[ph])
          /\ NetWidenings(Granted(l, r).net[ph], NetSurface(R[r].net[ph])) = {}
    BY <1>2, <1>3, EmptyGateByKit, ZenonT(60) DEF Kit, RepresentsKit
  <2>4. \E r \in DOMAIN G : \E e \in G[r].net[ph].allow : EntryMatches(e, q)
    <3>1. PICK r \in DOMAIN R : \E e \in R[r].net[ph].allow : EntryMatches(e, q)
      BY <2>2
    <3>2. PICK d \in KitOf(l, r).net[ph].allow : EntryMatches(d, q)
      BY <2>3, <3>1, NothingAllowedAnew
    <3>3. r \in DOMAIN l
      BY <3>2 DEF KitOf, EmptyKit
    <3> QED BY <1>1, <3>2, <3>3
  <2>5. ASSUME NEW r \in DOMAIN G, NEW e \in G[r].net[ph].deny, EntryMatches(e, q)
        PROVE  FALSE
    <3>1. r \in DOMAIN R /\ e \in KitOf(l, r).net[ph].deny
      BY <1>1
    <3>2. \E d \in R[r].net[ph].deny : EntryMatches(d, q)
      BY <2>3, <2>5, <3>1, NoDenyGoes
    <3> QED BY <2>2, <3>1, <3>2
  <2> QED BY <2>1, <2>4, <2>5, MergedAdmits DEF NetOf
<1>5. ASSUME NEW q \in Signature, SshAdmits(SshOf(R), q)
      PROVE  SshAdmits(SshOf(G), q)
  <2>1. PICK r \in DOMAIN R : SshAdmits(R[r].ssh, q)
    BY <1>5 DEF SshAdmits, SshOf
  <2>2. R[r].ssh \in SUBSET SshEntry /\ KitOf(l, r).ssh \in SUBSET SshEntry
    BY <1>2, <1>3 DEF Kit
  <2>3. \A x \in SshAgentSurface(R[r].ssh) :
          \E g \in SshAgentSurface(KitOf(l, r).ssh) : SshCovers(g, x)
    BY <1>3, EmptyGateByKit DEF RepresentsKit
  <2>4. SshAdmits(KitOf(l, r).ssh, q)
    BY <2>1, <2>2, <2>3, NothingSignedAnew
  <2>5. r \in DOMAIN l
    BY <2>4 DEF KitOf, EmptyKit, SshAdmits
  <2>6. KitOf(l, r).ssh \subseteq SshOf(G)
    BY <1>1, <2>5 DEF SshOf
  <2> QED BY <2>4, <2>6 DEF SshAdmits
<1>6. ItemsOf(R) \subseteq ItemsOf(G)
  <2> SUFFICES ASSUME NEW r \in DOMAIN R, NEW i \in R[r].items
               PROVE  i \in ItemsOf(G)
    BY DEF ItemsOf
  <2>1. i \in KitOf(l, r).items
    BY <1>3, EmptyGateByKit DEF RepresentsKit
  <2>2. r \in DOMAIN l
    BY <2>1 DEF KitOf, EmptyKit
  <2> QED BY <1>1, <2>1, <2>2 DEF ItemsOf
<1> QED BY <1>4, <1>5, <1>6 DEF StaysWithin, G

-----------------------------------------------------------------------------
(* The invariant of the consumer's loop.  The gate's verdict is about the  *)
(* lock and the resolution it was computed from: both stay until the gate  *)
(* is left, and a set that only grows keeps every locked kit.              *)

GatedInv ==
  /\ step = "gated" => DOMAIN candidate = wanted /\ widenings = Gate(lock, candidate)
  /\ MayRemove \/ DOMAIN lock \subseteq wanted

LInv == LTypeOK /\ GatedInv /\ RunsWhatIsLocked

\* A set is locked as it is.
LEMMA LockedIsTheSet ==
  ASSUME NEW R \in Sets
  PROVE  /\ Locked(LockFrom(R)) = R /\ LockOK(LockFrom(R)) /\ DOMAIN LockFrom(R) = DOMAIN R
         /\ Locked(LegacyLock(R)) = R /\ DOMAIN LegacyLock(R) = DOMAIN R
         /\ AllBare(R) => LockOK(LegacyLock(R))
<1>1. PICK S \in SUBSET Reference : R \in [S -> Content]
  BY DEF Sets
<1>2. Locked(LockFrom(R)) = R
  BY <1>1 DEF Locked, LockFrom
<1>3. Locked(LegacyLock(R)) = R
  BY <1>1 DEF Locked, LegacyLock
<1> QED BY <1>2, <1>3 DEF LockOK, LockFrom, LegacyLock

\* A resolution is a set of known kits.
LEMMA ResolvedIsASet ==
  ASSUME registry \in [Reference -> Content], wanted \subseteq Reference
  PROVE  Resolved \in Sets /\ DOMAIN Resolved = wanted
BY DEF Resolved, Sets

\* The type invariant, with its part about the lock named.
LEMMA TypeIsLockOK ==
  LTypeOK <=> /\ registry \in [Reference -> Content]
              /\ wanted \subseteq Reference
              /\ running \in Sets \cup {Down}
              /\ IF step = "gated" THEN candidate \in Sets ELSE candidate = Down
              /\ step \in {"idle", "gated"}
              /\ LockOK(lock)
BY DEF LTypeOK, LockOK

\* The invariant holds at first,
LEMMA LInitInv == LInit => LInv
<1> SUFFICES ASSUME LInit PROVE LInv
  OBVIOUS
<1>1. registry \in [Reference -> Content] /\ wanted \subseteq Reference
  BY DEF LInit
<1>2. running \in Sets /\ DOMAIN running = wanted
  BY <1>1, ResolvedIsASet DEF LInit
<1>3. LockOK(lock) /\ Locked(lock) = running /\ DOMAIN lock = wanted
  <2>1. CASE lock = LockFrom(running)
    BY <1>2, <2>1, LockedIsTheSet
  <2>2. CASE AllBare(running) /\ lock = LegacyLock(running)
    BY <1>2, <2>2, LockedIsTheSet
  <2> QED BY <2>1, <2>2 DEF LInit
<1>4. LTypeOK
  BY <1>1, <1>2, <1>3, TypeIsLockOK DEF LInit
<1> QED BY <1>3, <1>4 DEF LInit, LInv, GatedInv, RunsWhatIsLocked

\* a replacement keeps it and locks what the gate judged,
LEMMA ReplaceKeepsInv ==
  ASSUME LInv, step = "gated", Replace
  PROVE  LInv' /\ lock' = LockFrom(candidate) /\ Locked(lock') = candidate
<1>1. candidate \in Sets /\ DOMAIN candidate = wanted
  BY TypeIsLockOK DEF LInv, GatedInv
<1>2. /\ lock' = LockFrom(candidate) /\ running' = candidate /\ candidate' = Down
      /\ step' = "idle" /\ registry' = registry /\ wanted' = wanted
  BY DEF Replace, LeaveGate
<1>3. Locked(lock') = candidate /\ LockOK(lock') /\ DOMAIN lock' = wanted
  BY <1>1, <1>2, LockedIsTheSet
<1>4. registry \in [Reference -> Content] /\ wanted \subseteq Reference
  BY TypeIsLockOK DEF LInv
<1>5. LTypeOK'
  BY <1>1, <1>2, <1>3, <1>4 DEF LTypeOK, LockOK
<1> QED BY <1>2, <1>3, <1>5 DEF LInv, GatedInv, RunsWhatIsLocked

\* every step keeps it,
LEMMA LNextInv ==
  ASSUME LInv, LNext
  PROVE  LInv'
<1>1. ASSUME NEW r \in Reference, NEW k \in Content, Publish(r, k)
      PROVE  LInv'
  BY <1>1 DEF Publish, LInv, LTypeOK, GatedInv, RunsWhatIsLocked
<1>2. ASSUME NEW S \in SUBSET Reference, Edit(S)
      PROVE  LInv'
  BY <1>2 DEF Edit, LInv, LTypeOK, GatedInv, RunsWhatIsLocked
<1>3. CASE ResolveAndGate
  <2>1. Resolved \in Sets /\ DOMAIN Resolved = wanted
    BY ResolvedIsASet DEF LInv, LTypeOK
  <2> QED BY <1>3, <2>1 DEF ResolveAndGate, LInv, LTypeOK, GatedInv, RunsWhatIsLocked
<1>4. CASE ApplySilently \/ Approve
  BY <1>4, ReplaceKeepsInv DEF ApplySilently, Approve
<1>5. CASE Decline
  BY <1>5 DEF Decline, LeaveGate, LInv, LTypeOK, GatedInv, RunsWhatIsLocked
<1>6. CASE Stop
  BY <1>6 DEF Stop, LInv, LTypeOK, GatedInv, RunsWhatIsLocked
<1>7. CASE Recreate
  <2>1. Resolved \in Sets /\ DOMAIN Resolved = wanted
    BY ResolvedIsASet DEF LInv, LTypeOK
  <2>2. Resolved = Locked(lock)
    BY <1>7, <2>1 DEF Recreate, VerifyRecreate, Locked, Resolved
  <2> QED BY <1>7, <2>1, <2>2 DEF Recreate, LInv, LTypeOK, GatedInv, RunsWhatIsLocked
<1> QED BY <1>1, <1>2, <1>3, <1>4, <1>5, <1>6, <1>7 DEF LNext

\* and so does a stutter.
LEMMA LStutterInv ==
  ASSUME LInv, UNCHANGED lvars
  PROVE  LInv'
BY DEF lvars, LInv, LTypeOK, GatedInv, RunsWhatIsLocked

\* The gate's verdict stays about the present lock and the gated resolution
\* until the gate is left, and what runs stays what is locked.
THEOREM LoopInvariant == LSpec => []LInv
<1>1. LInv /\ [LNext]_lvars => LInv'
  BY LNextInv, LStutterInv
<1> QED BY <1>1, LInitInv, PTL DEF LSpec

-----------------------------------------------------------------------------
(* The theorems.                                                           *)

\* Whatever is published, edited, approved or declined, the lock stays a
\* lock of the set it was taken from.
THEOREM LoopTypes == LSpec => []LTypeOK
<1>1. LInv => LTypeOK
  BY DEF LInv
<1> QED BY <1>1, LoopInvariant, PTL

\* Whatever the policies, the matcher and the order of publications, edits
\* and decisions: what runs is exactly what the lock records.
THEOREM WhatRunsIsLocked == LSpec => []RunsWhatIsLocked
<1>1. LInv => RunsWhatIsLocked
  BY DEF LInv
<1> QED BY <1>1, LoopInvariant, PTL

\* An empty result of Gate means that the composed set admits no request, no
\* signature and no other grant that the locked one did not, for a consumer
\* that takes no kit out of the set (with one taken out it does not hold:
\* the run gate_removal).
THEOREM EmptyGateIsSound == ASSUME ~MayRemove PROVE LSpec => []EmptyGateStaysWithin
<1>1. LInv => EmptyGateStaysWithin
  <2> SUFFICES ASSUME LInv, step = "gated", widenings = {}
               PROVE  StaysWithin(candidate, Locked(lock))
    BY DEF EmptyGateStaysWithin
  <2>1. LockOK(lock) /\ candidate \in Sets
    BY TypeIsLockOK DEF LInv
  <2>2. DOMAIN lock \subseteq DOMAIN candidate /\ Gate(lock, candidate) = {}
    BY DEF LInv, GatedInv
  <2> QED BY <2>1, <2>2, GateIsSound
<1> QED BY <1>1, LoopInvariant, PTL

\* The lock's reach grows only by an approval, whatever the registry does
\* between the gate and the replacement.
THEOREM OnlyApprovalWidens == ASSUME ~MayRemove PROVE LSpec => NothingWidensSilently
<1>1. LInv /\ [LNext]_lvars =>
        [lock' # lock => widenings # {} \/ StaysWithin(Locked(lock'), Locked(lock))]_lvars
  <2> SUFFICES ASSUME LInv, LNext, lock' # lock, widenings = {}
               PROVE  StaysWithin(Locked(lock'), Locked(lock))
    BY DEF lvars
  <2>1. step = "gated" /\ Replace
    BY DEF LNext, Publish, Edit, ResolveAndGate, ApplySilently, Approve, Decline, Stop, Recreate
  <2>2. Locked(lock') = candidate
    BY <2>1, ReplaceKeepsInv
  <2>3. LockOK(lock) /\ candidate \in Sets
    BY <2>1, TypeIsLockOK DEF LInv
  <2>4. DOMAIN lock \subseteq DOMAIN candidate /\ Gate(lock, candidate) = {}
    BY <2>1 DEF LInv, GatedInv
  <2> QED BY <2>2, <2>3, <2>4, GateIsSound
<1> QED BY <1>1, LoopInvariant, PTL DEF LSpec, NothingWidensSilently
=============================================================================

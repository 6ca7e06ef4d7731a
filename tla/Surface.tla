------------------------------ MODULE Surface -------------------------------
(***************************************************************************)
(* The permission surface (spec/surface.go, the ssh-agent part of          *)
(* spec/ssh_agent.go): the projection of a kit's requests onto grants the  *)
(* gate can compare, and the comparison.                                   *)
(*                                                                         *)
(* A kit's requests are its network rules per phase, its ssh-agent entries *)
(* and its other items.  An item is a grant compared by equality alone:    *)
(* <<category, value>> for a credential, storage or skills path, port, USB *)
(* match, privileged execution, and for a service (which an undecodable    *)
(* entry of any type becomes).  Entries without surface (resources,        *)
(* lifecycle and the like) are left out, as the projection leaves them.    *)
(***************************************************************************)
EXTENDS NetworkPolicy

CONSTANTS
  Phase,      \* "install" and "runtime"
  Item,       \* the other grants
  Namespace,  \* SSHSIG namespaces
  User, NoUser, SshHost   \* destinations of ssh-agent entries

\* One ssh-agent entry, for one phase: everything, or two lists of bounds.
Destination == [user : User \cup {NoUser}, host : SshHost]
SshEntry == [phase : Phase, bounded : BOOLEAN, sign : SUBSET Namespace,
             authenticate : SUBSET Destination]
Kit == [net : [Phase -> Rules], ssh : SUBSET SshEntry, items : SUBSET Item]

HttpEntry == [method : Method, host : Host, path : Path]

-----------------------------------------------------------------------------
(* The projection.                                                         *)

ConnectionHosts(E) == UNION {e.hosts : e \in {x \in E : ~Bounded(x)}}

\* One atomic grant per method, host and path.
EntrySurface(E) ==
  UNION {{[method |-> m, host |-> h, path |-> p] :
            h \in e.hosts,
            m \in IF MethodAny \in EntryMethods(e) THEN {MethodAny} ELSE EntryMethods(e),
            p \in EntryPaths(e)} : e \in E}

SshAgentSurface(S) ==
  UNION {IF ~s.bounded THEN {[phase |-> s.phase, kind |-> "all"]}
         ELSE {[phase |-> s.phase, kind |-> "sign", namespace |-> n] : n \in s.sign}
              \cup {[phase |-> s.phase, kind |-> "authenticate", destination |-> d] :
                      d \in s.authenticate} : s \in S}

SurfaceOf(k) ==
  [ net |-> [ph \in Phase |->
      [ allow     |-> ConnectionHosts(k.net[ph].allow),
        deny      |-> ConnectionHosts(k.net[ph].deny),
        httpAllow |-> EntrySurface(k.net[ph].allow),
        httpDeny  |-> EntrySurface(k.net[ph].deny) ]],
    ssh |-> SshAgentSurface(k.ssh),
    items |-> k.items ]

NoSurface ==
  [ net |-> [ph \in Phase |-> [allow |-> {}, deny |-> {}, httpAllow |-> {}, httpDeny |-> {}]],
    ssh |-> {}, items |-> {} ]

\* A surface recorded before the HTTP lists existed.
Legacy(s) == [s EXCEPT !.net =
  [ph \in Phase |-> [s.net[ph] EXCEPT !.httpAllow = {}, !.httpDeny = {}]]]

-----------------------------------------------------------------------------
(* The comparison.                                                         *)

\* Mutant: ports are not compared.
HostCoversAnyPort(g, c) == g.name \in {Universal, c.name}

HostCovers(g, c) ==
  \/ g = [name |-> Universal, port |-> NoPort]
  \/ g.name = c.name /\ g.port \in {NoPort, c.port}

PathPatternCovers(g, c) == g = c \/ (g.deep /\ Below(g.dir, c.dir))

HttpCovers(g, c) ==
  /\ HostCovers(g.host, c.host)
  /\ g.method \in {c.method, MethodAny}
  /\ PathPatternCovers(g.path, c.path)

\* The unbounded HTTP grants that a legacy surface's hosts imply.
CompleteHTTPGrants(hosts, grants) ==
  grants \cup EntrySurface({[hosts |-> {h}, methods |-> {}, paths |-> {}] :
                              h \in {x \in hosts : \A g \in grants : g.host.name # x.name}})

\* The host list has just reported the fresh hosts: an entry on a port needs
\* its own port or the whole name fresh, an entry without a port every
\* allowed port of its name.
Suppressed(host, candidateHosts, fresh) ==
  IF host.port # NoPort
  THEN host \in fresh \/ [host EXCEPT !.port = NoPort] \in fresh
  ELSE LET same == {h \in candidateHosts : h.name = host.name}
       IN same # {} /\ same \subseteq fresh

HttpWidenings(granted, candidate, grantedHTTP, candidateHTTP) ==
  {e \in candidateHTTP :
     /\ \A g \in grantedHTTP : ~HttpCovers(g, e)
     /\ ~Suppressed(e.host, candidate, candidate \ granted)}

\* A deny the candidate no longer makes, unless its host's dropped bare deny
\* has just been reported.
HttpDenyRemovals(granted, candidate, grantedDeny, candidateDeny) ==
  {e \in grantedDeny :
     /\ e.host \notin granted \ candidate
     /\ \A c \in candidateDeny : ~HttpCovers(c, e)}

SshCovers(g, c) ==
  \/ g = c
  \/ g = [phase |-> c.phase, kind |-> "all"]
  \/ /\ c.kind = "authenticate"
     /\ g = [c EXCEPT !.destination.user = NoUser]

\* Mutant: dropping a deny is giving something up.
NetWideningsAllowOnly(g, c) ==
  {<<"allow", h>> : h \in c.allow \ g.allow}
  \cup {<<"http.allow", e>> : e \in
          HttpWidenings(g.allow, c.allow, CompleteHTTPGrants(g.allow, g.httpAllow), c.httpAllow)}

NetWidenings(g, c) ==
  {<<"allow", h>> : h \in c.allow \ g.allow}
  \cup {<<"deny-removed", h>> : h \in g.deny \ c.deny}
  \cup {<<"http.allow", e>> : e \in
          HttpWidenings(g.allow, c.allow, CompleteHTTPGrants(g.allow, g.httpAllow), c.httpAllow)}
  \cup {<<"http.deny-removed", e>> : e \in
          HttpDenyRemovals(g.deny, c.deny, g.httpDeny, c.httpDeny)}

\* Everything the candidate asks for beyond the granted surface.
DiffWidenings(granted, candidate) ==
  (UNION {{<<ph, w>> : w \in NetWidenings(granted.net[ph], candidate.net[ph])} : ph \in Phase})
  \cup {<<"ssh-agent", c>> : c \in {x \in candidate.ssh : \A g \in granted.ssh : ~SshCovers(g, x)}}
  \cup {<<"item", i>> : i \in candidate.items \ granted.items}

-----------------------------------------------------------------------------
(* What ssh-agent entries admit, from the capability page.                 *)

Signature == [phase : Phase, what : {"sshsig"}, namespace : Namespace]
             \cup [phase : Phase, what : {"login"}, user : User, host : SshHost]
             \cup [phase : Phase, what : {"other"}]

SshAdmits(S, q) ==
  \E s \in S :
    /\ s.phase = q.phase
    /\ \/ ~s.bounded
       \/ q.what = "sshsig" /\ q.namespace \in s.sign
       \/ q.what = "login" /\ \E d \in s.authenticate :
                                d.host = q.host /\ d.user \in {NoUser, q.user}
=============================================================================

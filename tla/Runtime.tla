------------------------------ MODULE Runtime ------------------------------
(***************************************************************************)
(* The runtime under test, as the conformance suite meets it through its   *)
(* adapter: what `create` answers for a set of fixture kits, what a boot   *)
(* and a recreate do to a sandbox, and what each probe reads from it.      *)
(* The reference is tck/sandbox/testdata/fake-adapter, the runtime the     *)
(* suite's own tests run against.  `broken` is a set of its                *)
(* KIT_TCK_FAKE_BROKEN modes, so that a runtime may violate several        *)
(* requirements at once; modes whose effect no probe tells apart are       *)
(* represented by one of them.  A few breakages that comments of the       *)
(* checks argue about and the fake does not implement are added:           *)
(* startup-twice-at-create, network-breaks, origin-answers-403,            *)
(* workload-never-starts, refusal-as-error, rm-fails.  Capability types    *)
(* are written without their domain.                                       *)
(***************************************************************************)
EXTENDS Naturals, FiniteSets, Sequences

VARIABLES claimed,   \* the capability types the runtime claims
          broken,    \* the ways in which it is broken
          late       \* whether create and start return before the workload runs

Is(f) == f \in broken

\* create options; identity is "file" (the suite's config file), "off" or "unset"
Default == [reject |-> {}, arg |-> "default", env |-> "unset", host |-> "readwrite",
            store |-> "seeded", identity |-> "unset", agent |-> FALSE, path |-> "valid"]

\* the fixture kits that require each capability type
RequiredBy ==
  [sbx |-> {"sbx-workload"}, longrunning |-> {"long-running"},
   gitidentity |-> {"git-identity"},
   lifecycle |-> {"hooks", "git-identity-hooks", "files", "files-image-env", "restricted-env"},
   network1 |-> {"egress"}, network2 |-> {"http-egress"},
   credential |-> {"credential", "credential-inject-only", "credential-inject-only-plain",
                   "credential-inject-only-install", "credential-phases-install",
                   "credential-phases-runtime", "credential-phases-both"},
   sshagent |-> {"ssh-agent", "ssh-agent-install", "ssh-agent-bounded", "ssh-agent-dual"},
   context |-> {"context"}, volume |-> {"volume"}, resources |-> {"resources"},
   privileged |-> {"privileged"},
   skills |-> {"skills", "skills-writable", "skills-shared", "bundled-reader"},
   skill |-> {"bundled-skill", "bundled-host-conflict"},
   port |-> {"port"}, usb |-> {"usb-device"}, sessions |-> {"agent-sessions"},
   registry |-> {"kit-registry"}]
AllTypes == DOMAIN RequiredBy

NeedsUnclaimed(kits) == \E c \in AllTypes \ claimed : kits \cap RequiredBy[c] # {}

\* the selector's negative answers: what the create rejects and what is unclaimed
Rejected(o) == o.reject \cup ({"volume", "lifecycle"} \ claimed)

RefusesSkills(kits, o) ==
  LET required == kits \cap {"skills", "skills-writable", "skills-shared"} # {}
      optional == "skills-optional" \in kits
  IN \/ o.host = "off" /\ required /\ Is("refuses-required-skills")
     \/ o.host = "off" /\ optional /\ Is("refuses-optional-skills")
     \/ o.store = "missing" /\ required /\ Is("refuses-missing-required-skills")
     \/ o.store = "empty" /\ optional /\ Is("refuses-empty-optional-skills")

RefusesBundle(kits, o) ==
  LET reader == "bundled-reader" \in kits
  IN \/ "bundled-skill" \in kits /\ ~reader /\ ~Is("bundle-accepts-unavailable")
     \/ "bundled-optional" \in kits /\ ~reader /\ Is("bundle-refuses-optional")
     \/ "bundled-host-conflict" \in kits /\ o.host # "off" /\ ~Is("bundle-overwrites-host")
     \/ {"bundled-existing", "bundled-skill"} \subseteq kits /\ ~Is("bundle-overwrites-existing")

RefusesAgent(kits, o) ==
  /\ ~o.agent
  /\ \/ kits \cap RequiredBy["sshagent"] # {} /\ ~Is("ssh-agent-accepts-without-agent")
     \/ "ssh-agent-optional" \in kits /\ Is("ssh-agent-refuses-optional")

\* file is what the identity source holds when create reads it
Available(o, file) == o.identity = "file" /\ file \in {"bound", "changed"}
RefusesIdentity(kits, o, file) ==
  /\ ~Available(o, file)
  /\ \/ "git-identity" \in kits /\ ~Is("accepts-missing-identity")
     \/ "git-identity-optional" \in kits /\ Is("refuses-optional-identity")

RefusesGroup(kits, o) ==
  \/ /\ "groups-expanded" \in kits /\ o.path = "relative"
     /\ ~Is("group-invalid-expanded")
     /\ ~("lifecycle" \in o.reject /\ Is("group-skips-invalid-expanded"))
  \/ /\ "ordinary-required" \in kits /\ "lifecycle" \in o.reject
     /\ ~Is("ordinary-ignore-required-rejection")
  \/ /\ "groups-required" \in kits
     /\ \/ "volume" \in Rejected(o) /\ ~Is("group-accept-required")
        \/ "lifecycle" \in Rejected(o) /\ ~Is("group-ignore-required-lifecycle")
  \/ "groups-conflict" \in kits /\ ~Is("group-drop-conflict")
  \/ "groups-interactive-conflict" \in kits /\ ~Is("group-drop-interactive-conflict")

Refuses(kits, o, file) ==
  \/ Is("refuses-everything")
  \/ "unknown-required-capability" \in kits /\ ~Is("accept-unknown")
  \/ NeedsUnclaimed(kits) /\ ~Is("accepts-required-unclaimed")
  \/ "long-running-optional" \in kits /\ Is("refuses-optional-long-running")
  \/ "privileged" \in kits /\ Is("declines-privileged")
  \/ "resources" \in kits /\ Is("declines-resources")
  \/ RefusesSkills(kits, o) \/ RefusesBundle(kits, o) \/ RefusesAgent(kits, o)
  \/ RefusesIdentity(kits, o, file) \/ RefusesGroup(kits, o)

\* a refusal whose text does not name what was refused
Unnamed(kits) ==
  \/ Is("ssh-agent-refusal-unnamed") /\ "ssh-agent" \in kits
  \/ Is("group-required-no-kit") /\ "groups-required" \in kits
  \/ Is("group-conflict-no-kit")
       /\ kits \cap {"groups-conflict", "groups-interactive-conflict"} # {}

\* exit status of create: 0 with an id, 2 (a refusal), or any other
CreateAnswer(kits, o, file) ==
  CASE Refuses(kits, o, file) /\ Is("refusal-as-error") -> "error"
    [] Refuses(kits, o, file) /\ ~Is("refusal-as-error") ->
         IF Unnamed(kits) THEN "unnamed" ELSE "refused"
    [] ~Refuses(kits, o, file) ->
         IF "groups-failure" \in kits /\ ~Is("group-skip-failure") THEN "error" ELSE "ok"

-----------------------------------------------------------------------------
\* The SSH agent behind the sandbox.  The suite starts one for each sandbox that it
\* grants one to, and reads its log: the kind of the last signature, how many there
\* were, whether one was outside namespace git, how many requests reached the agent,
\* and whether one was to change it.  The processes of the sandbox write to that log
\* through the relay: the install and startup hooks, the workload, and the commands
\* of exec.
EmptyLog == [last |-> <<"none", "">>, signed |-> 0, stray |-> FALSE, requests |-> 0,
             forbidden |-> FALSE]

GrantsAgent(s) ==
  \/ s.kits \cap {"ssh-agent", "ssh-agent-bounded", "ssh-agent-optional"} # {}
       /\ ~Is("ignores-ssh-agent")
  \/ "ssh-agent-dual" \in s.kits /\ ~Is("ssh-agent-dual-install-only")
  \/ "ssh-agent-install" \in s.kits /\ Is("leaves-install-ssh-agent-open")
  \/ s.kits = {"workload"} /\ Is("ssh-agent-without-grant")
Agent(s, n) == s.opts.agent /\ GrantsAgent(s) /\ ~(Is("ssh-agent-first-boot-only") /\ n > 1)
Bounded(s) == s.kits \cap {"ssh-agent-bounded", "ssh-agent-dual"} # {}

\* a login: the session's binding, its id, the user, the host key of a hostbound
\* request and the public key embedded in the data
Login(user, sid, binding, hostkey, embedded) ==
  [user |-> user, sid |-> sid, binding |-> binding, hostkey |-> hostkey, embedded |-> embedded]
Binds(s, b) ==
  CASE b \in {"server", "any-user"} -> TRUE
    [] b = "impostor" -> \/ Is("trusts-any-host-key")
                         \/ s.planted /\ Is("trusts-sandbox-known-hosts")
    [] b = "forged" -> Is("trusts-unverified-binding")
    [] b = "forwarding" -> Is("trusts-forwarding-binding")
    [] b = "none" -> FALSE
LoginAllowed(s, l) ==
  \/ Is("ignores-login-bounds")
  \/ /\ ~Is("drops-bound-login") /\ Binds(s, l.binding)
     /\ l.sid = "bound" \/ Is("ignores-session-id")
     /\ \/ l.user = "git" \/ Is("ignores-login-user")
        \/ l.binding = "any-user" /\ ~Is("restricts-host-only-user")
     /\ l.hostkey \in {"none", l.binding} \/ Is("ignores-hostbound-key")
     /\ l.embedded = "own" \/ Is("trusts-invalid-login-key")

\* modes that open the relay to one process at its first run or at a later one: to
\* signatures outside the bound, to them before it refuses them, or to operations
Opens ==
  {<<"sign", "startup", "create", "ssh-agent-create-startup-unfiltered-sign">>,
   <<"sign", "workload", "restart", "ssh-agent-restart-workload-unfiltered-sign">>,
   <<"sign", "install", "create", "ssh-agent-install-unfiltered-sign">>,
   <<"forward", "workload", "create", "ssh-agent-create-workload-forward-refused-sign">>,
   <<"forward", "startup", "restart", "ssh-agent-restart-startup-forward-refused-sign">>,
   <<"forward", "install", "create", "ssh-agent-install-forward-refused-sign">>,
   <<"operate", "workload", "create", "ssh-agent-create-workload-unfiltered-operations">>,
   <<"operate", "startup", "restart", "ssh-agent-restart-startup-unfiltered-operations">>,
   <<"operate", "install", "create", "ssh-agent-install-unfiltered-operations">>}
Opened(how, p, n) ==
  \E m \in Opens : m[1] = how /\ m[2] = p /\ m[3] = (IF n = 1 THEN "create" ELSE "restart") /\ Is(m[4])

\* Requests are <<"agent list", "">>, <<"sign", namespace>> ("other" for data of no
\* protocol), <<"login", login>> and <<"operations", "">>, which stands for the
\* requests that would change the agent and the extensions that nothing grants.
SignAllowed(s, p, n, q) ==
  LET narrow == /\ Bounded(s)
                /\ \/ p = "install" \/ "ssh-agent-dual" \notin s.kits
                   \/ ~Is("ssh-agent-dual-unfiltered-runtime")
  IN \/ Opened("sign", p, n)
     \/ ~narrow /\ ~Is("ssh-agent-drops-sign")
     \/ narrow /\ CASE q[1] = "login" -> LoginAllowed(s, q[2])
                    [] q[2] = "git" -> ~Is("drops-bound-signature")
                    [] q[2] = "file" -> Is("ignores-sign-bounds")
                    [] q[2] = "other" -> Is("forwards-unclassified")
\* what becomes of a request of process p in boot n: the agent's answer is passed on
\* ("done"), or the relay refuses it ("refused"), if not before the agent has seen it
\* ("forwarded") or another request in its place ("hinted")
Outcome(s, p, n, q) ==
  IF q[1] = "agent list" \/ Is("ssh-agent-relays-everything") THEN "done"
  ELSE IF q[1] = "operations"
    THEN IF Opened("operate", p, n) \/ Is("ssh-agent-forwards-constrained-rsa") THEN "forwarded"
         ELSE IF Is("ssh-agent-forwards-refused") THEN "hinted" ELSE "refused"
    ELSE IF SignAllowed(s, p, n, q) THEN "done"
         ELSE IF Opened("forward", p, n) THEN "forwarded" ELSE "refused"
Reply(outcome) == IF outcome = "done" THEN "done" ELSE "refused"

\* the kind of a signature: the namespace, or the user of a login
Kind(q) == <<q[1], IF q[1] = "login" THEN q[2].user ELSE q[2]>>
\* the log after process p has made the requests qs
Logged(log, s, p, qs) ==
  LET reached == {k \in 1 .. Len(qs) : Outcome(s, p, s.boot, qs[k]) # "refused"}
      seen == {k \in reached : Outcome(s, p, s.boot, qs[k]) # "hinted"}
      signing == {k \in seen : qs[k][1] \in {"sign", "login"}}
  IN [log EXCEPT !.last = IF signing = {} THEN @
                          ELSE Kind(qs[CHOOSE k \in signing : \A j \in signing : j <= k]),
                 !.signed = @ + Cardinality(signing),
                 !.stray = @ \/ \E k \in signing : Kind(qs[k]) # <<"sign", "git">>,
                 !.requests = @ + Cardinality(reached),
                 !.forbidden = @ \/ \E k \in seen : qs[k][1] = "operations"]
Asked(s, p, q) == [s EXCEPT !.log = Logged(@, s, p, <<q>>)]

\* the two initial processes and the modes that break one of them at one boot
MissingEnv == [workload |-> "ssh-agent-missing-workload-env",
               startup |-> "ssh-agent-missing-startup-env"]
RestartMissingEnv == [workload |-> "ssh-agent-restart-missing-workload-env",
                      startup |-> "ssh-agent-restart-missing-startup-env"]
BogusSocket == [workload |-> "ssh-agent-bogus-workload-socket",
                startup |-> "ssh-agent-bogus-startup-socket"]
Leaks(s) == Is("ssh-agent-initial-without-grant") /\ s.kits = {"workload"} /\ s.opts.agent
Socket(s, p, n) ==
  \/ Agent(s, n) /\ ~Is(MissingEnv[p]) /\ ~(n > 1 /\ Is(RestartMissingEnv[p]))
  \/ Leaks(s)
  \/ /\ p = "workload"
     /\ \/ "ssh-agent-install" \in s.kits /\ Is("leaks-install-ssh-agent-to-entrypoint")
        \/ "ssh-agent-optional" \in s.kits /\ ~s.opts.agent /\ Is("ssh-agent-initial-optional-leak")
InstallGrant(s) == s.kits \cap {"ssh-agent-install", "ssh-agent-dual"} # {} /\ s.opts.agent
\* whether the socket that process p finds leads to the relay
Reaches(s, p, n) ==
  CASE p = "exec" -> Agent(s, n)
    [] p = "install" -> /\ InstallGrant(s) /\ ~Is("ssh-agent-install-missing")
                        /\ ~("ssh-agent-dual" \in s.kits /\ Is("ssh-agent-dual-runtime-only"))
    [] OTHER -> Socket(s, p, n) /\ (Agent(s, n) \/ Leaks(s)) /\ ~Is(BogusSocket[p])

\* What kit-tck-ssh-agent's observe asks in turn.  Hooks and workload all run it.
Observation ==
  <<<<"agent list", "">>, <<"sign", "git">>, <<"sign", "other">>, <<"sign", "file">>,
    <<"login", Login("git", "other", "none", "none", "own")>>, <<"operations", "">>>>
SignsGit(s, p, n) == Reaches(s, p, n) /\ Outcome(s, p, n, Observation[2]) = "done"
\* how many requests it makes: it ends where it reaches no agent or the first
\* signature is refused
Asks(s, p, n) == IF ~Reaches(s, p, n) THEN 0 ELSE IF SignsGit(s, p, n) THEN Len(Observation) ELSE 2
Observed(log, s, p) == Logged(log, s, p, SubSeq(Observation, 1, Asks(s, p, s.boot)))
\* the record of it: what it listed and signed, and how its other requests were answered
Observing(s, p, n) ==
  [boot |-> n, lists |-> Reaches(s, p, n), access |-> SignsGit(s, p, n),
   operation |-> Reply(Outcome(s, p, n, Observation[6])),
   sign |-> {Reply(Outcome(s, p, n, Observation[k])) : k \in 3 .. 5}]

-----------------------------------------------------------------------------
\* One sandbox.  boot counts its starts; entry and hooked are the boots whose
\* workload and startup hook wrote the records in place (0 for none), proved the boot
\* whose workload published its proof, and stage how far this boot's workload has
\* come; log is the log of the agent behind it; without says
\* that the optional group's hooks are out, records that its records say so, and
\* future what the selector will answer next; ident is the identity in force,
\* hook the one that the startup hook captured, work and captured the ones that this
\* boot's workload finds and that the workload's record holds.

Identity(kits, o, file) ==
  LET requested == kits \cap {"git-identity", "git-identity-optional"} # {}
      imported == \/ requested /\ (Available(o, file) \/ Is("imports-unavailable-identity"))
                  \/ Is("imports-unrequested-identity")
  IN CASE imported /\ Is("corrupts-git-identity") -> "wrong"
       [] imported /\ ~Is("corrupts-git-identity") /\ ~Is("ignores-git-identity") -> file
       [] OTHER -> "image"

\* One step of the entrypoint: it records the identity, the credential and the socket
\* that it finds, makes its observation one request at a time, and publishes the proof.
\* Where the suite offers no agent nothing tells these steps apart.
Ended == Len(Observation) + 2
Begun(s) == [s EXCEPT !.entry = s.boot, !.captured = s.work, !.stage = 1]
Proved(s) == [s EXCEPT !.proved = s.boot, !.stage = Ended]
Advanced(s) ==
  CASE s.stage = 0 -> IF s.opts.agent THEN Begun(s) ELSE Proved(Begun(s))
    [] s.stage \in 1 .. Asks(s, "workload", s.boot) ->
         [Asked(s, "workload", Observation[s.stage]) EXCEPT !.stage = s.stage + 1]
    [] OTHER -> Proved(s)
NeverRuns(s) == Is("workload-never-starts") \/ (Is("ssh-agent-stale-boot-proofs") /\ s.boot > 1)
\* a late workload that has steps left in this boot
Pending(s) == late /\ s.up /\ s.stage < Ended /\ ~NeverRuns(s)

\* A boot: the install hook at the first one, then the startup hook, then the workload,
\* which is through with it when the boot returns unless it may be late.
Entered(s) ==
  LET hooks == /\ "lifecycle" \in claimed /\ (Is("ssh-agent-stale-boot-proofs") => s.boot = 1)
               /\ s.kits \cap {"ssh-agent", "ssh-agent-bounded", "ssh-agent-dual"} # {}
      runs == ~late /\ ~NeverRuns(s)
      installed == IF s.boot = 1 THEN Observed(s.log, s, "install") ELSE s.log
      started == IF hooks THEN Observed(installed, s, "startup") ELSE installed
  IN IF runs THEN Proved([Begun(s) EXCEPT !.log = Observed(started, s, "workload")])
     ELSE [s EXCEPT !.log = started]

NewSandbox(kits, o, file) ==
  LET id == Identity(kits, o, file)
  IN [kits |-> kits, opts |-> o, up |-> TRUE, boot |-> 1, entry |-> 0,
      stage |-> 0, proved |-> 0, log |-> EmptyLog, hooked |-> 1,
      installs |-> 1, startups |-> IF Is("startup-twice-at-create") THEN 2 ELSE 1,
      volume |-> "none", scratch |-> "none", added |-> "none", bg |-> "none",
      without |-> "volume" \in Rejected(o), records |-> "volume" \in Rejected(o),
      future |-> "volume" \in Rejected(o), ident |-> id,
      hook |-> IF Is("late-git-identity") THEN "missing" ELSE id,
      work |-> IF Is("git-identity-after-launch") THEN "image" ELSE id, captured |-> "none",
      planted |-> FALSE]

Stopped(s) == IF Is("ignores-explicit-stop") THEN s ELSE [s EXCEPT !.up = FALSE]

Started(s) ==
  LET again == \/ Is("group-reselect-restart")
               \/ Is("group-reselect-skipped-restart") /\ s.without
      without == IF again THEN s.future ELSE s.without
  IN [s EXCEPT !.up = TRUE, !.boot = @ + 1, !.stage = 0,
               !.hooked = IF Is("ssh-agent-stale-boot-proofs") THEN @ ELSE s.boot + 1,
               !.startups = IF Is("no-startup") THEN @ ELSE @ + 1,
               !.installs = IF Is("install-twice") THEN @ + 1 ELSE @,
               !.volume = IF Is("loses-volume-on-restart") THEN "none" ELSE @,
               !.without = without, !.records = without,
               !.hook = IF Is("skips-identity-restart-hook") THEN @
                        ELSE IF Is("late-identity-restart-hook") THEN "missing" ELSE s.ident,
               !.work = IF Is("late-identity-workload-start") THEN "missing" ELSE s.ident,
               !.ident = IF Is("loses-git-identity-on-start") THEN "missing" ELSE @]

Recreated(s, file) ==
  LET fresh == IF \/ Is("group-no-recreate")
                  \/ Is("group-never-admits-recreate") /\ s.without
                 THEN s.without ELSE s.future
  IN [s EXCEPT !.up = TRUE, !.boot = @ + 1, !.entry = 0, !.stage = 0, !.proved = 0,
               !.hooked = s.boot + 1,
               !.scratch = IF Is("keeps-writable-layer") THEN @ ELSE "none",
               !.volume = IF Is("loses-volume") THEN "none" ELSE @,
               !.without = IF Is("group-stale-recreate-hooks") THEN @ ELSE fresh,
               !.records = IF Is("group-stale-recreate-records") THEN @ ELSE fresh,
               !.hook = IF Is("skips-identity-recreate-hook") THEN "none"
                        ELSE IF Is("late-identity-recreate-hook") THEN "missing" ELSE s.ident,
               !.work = IF Is("late-identity-workload-recreate") THEN "missing" ELSE s.ident,
               !.ident = IF Is("rereads-identity-on-recreate") /\ s.opts.identity = "file"
                           THEN file ELSE @]

Idled(s) ==
  [s EXCEPT !.up = /\ @ /\ ~Is("stops-on-disconnect")
                   /\ ~(Is("ignores-long-running-mixin") /\ "long-running" \in s.kits),
            !.bg = IF Is("loses-background-on-disconnect") THEN "none"
                   ELSE IF Is("restarts-background-on-disconnect") THEN "replacement" ELSE @]

-----------------------------------------------------------------------------
\* Probes.  A read is [ok, val]: ok is whether the command exited 0.
Out(v) == [ok |-> TRUE, val |-> v]
Nothing == [ok |-> FALSE, val |-> "none"]
When(c, v) == IF c THEN Out(v) ELSE Nothing

Sbx(s) == "sbx-workload" \in s.kits /\ ~Is("assumes-uid-1000")

\* what an install hook recorded of its environment, as names with values; only
\* the fixtures whose hook records it leave the file
HookEnv(s) ==
  LET install == "credential-inject-only-install" \in s.kits
  IN When(s.kits \cap {"restricted-env", "credential-inject-only-install"} # {},
       {<<"PATH", "image">>,
        <<"HOME", IF Is("copies-host-home") THEN "host"
                  ELSE IF Sbx(s) THEN "sbxagent" ELSE "agent">>,
        <<"DECLARED", IF install /\ Is("hides-install-inject-only-in-declared")
                        THEN "sentinel" ELSE "yes">>}
       \cup (IF Is("leaks-env") THEN {<<"SENTINEL", "host">>} ELSE {})
       \cup (IF Is("leaks-undeclared-env") THEN {<<"UNDECLARED", "value">>} ELSE {})
       \cup (IF Is("exposes-install-inject-only") /\ install
               THEN {<<"INSTALL_TOKEN", "sentinel">>} ELSE {}))

InjectOnly == {"credential-inject-only", "credential-inject-only-plain",
               "credential-inject-only-install"}

\* the environment of exec; KITS and ID stand for values that a conforming runtime
\* may vary with the composed kits and with the sandbox
Env(s, id) ==
  LET injects == s.kits \cap InjectOnly # {}
  IN {<<"TOKEN", IF Is("hides-inject-only-in-token") /\ injects THEN "inject" ELSE "sentinel">>,
      <<"CANARY", IF Is("hides-inject-only-in-existing-env") /\ injects
                    THEN "inject" ELSE "image">>,
      <<"KITS", IF "inject-only-control" \in s.kits THEN "control"
                ELSE IF "inject-only-control-b" \in s.kits THEN "control-b" ELSE "kit">>,
      <<"ID", id>>}
     \cup (IF Is("leaks-secret-elsewhere") THEN {<<"UNRELATED", "secret">>} ELSE {})
     \cup (IF Is("leaks-inject-only-env") /\ injects THEN {<<"INJECT_TOKEN", "sentinel">>} ELSE {})
     \cup (IF Is("leaks-plain-inject-only-env") /\ "credential-inject-only-plain" \in s.kits
             THEN {<<"PLAIN_TOKEN", "sentinel">>} ELSE {})

\* the value of the phase credential in each place a process could read it
PhaseToken(s, place) ==
  LET both == "credential-phases-both" \in s.kits
      inst == "credential-phases-install" \in s.kits
      run  == "credential-phases-runtime" \in s.kits
      given == CASE place = "install" ->
                      \/ inst \/ (both /\ ~Is("credential-last-phase-only"))
                      \/ run /\ Is("credential-runtime-at-install")
                 [] place = "entrypoint" ->
                      /\ ~Is("credential-missing-at-entrypoint")
                      /\ run \/ both \/ (inst /\ Is("credential-install-at-entrypoint"))
                 [] place = "exec" ->
                      \/ run \/ (both /\ ~Is("credential-first-phase-only"))
                      \/ inst /\ Is("credential-install-at-runtime")
  IN IF place = "install" /\ Is("credential-phase-leaks-secret") THEN "secret"
     ELSE IF given THEN "sentinel" ELSE ""

\* exit status of a network probe: 0 reached, 7 refused by policy, 28 neither
Probe(host) ==
  CASE host = "allowed" -> 0
    [] host = "install-only" -> IF Is("leaves-install-egress-open") THEN 0 ELSE 7
    [] host = "denied" -> IF Is("network-breaks") THEN 28
                          ELSE IF Is("allows-everything") THEN 0 ELSE 7
HttpProbe(request) ==
  CASE request = "GET allowed" -> 0
    [] request = "POST elsewhere" -> IF Is("origin-answers-403") THEN 7 ELSE 0
    [] request = "POST allowed" -> IF Is("ignores-http-method") /\ ~Is("origin-answers-403")
                                     THEN 0 ELSE 7
    [] request = "GET other path" -> IF Is("ignores-http-path") THEN 0 ELSE 7
    [] request = "GET denied path" -> IF Is("ignores-http-deny") THEN 0 ELSE 7

EnvWritten(s) ==
  CASE Is("ignores-env-expansion") -> "literal"
    [] ~Is("ignores-env-expansion") ->
       IF /\ s.opts.env # "unset" /\ ~Is("ignores-env-overrides")
          /\ ~(s.opts.env = "" /\ Is("drops-empty-env-overrides")) THEN s.opts.env
       ELSE IF "files-image-env" \in s.kits /\ ~Is("drops-image-env-defaults")
              THEN "image" ELSE s.opts.arg

\* skills: the store as seen at one of the declared paths
Mounted(s, p) ==
  LET shared == /\ s.opts.store = "seeded" /\ ~Is("ignores-skills")
                /\ s.opts.host # "off" \/ Is("ignores-host-off")
  IN CASE p = "opt" -> /\ "skills-optional" \in s.kits /\ s.opts.store = "seeded"
                       /\ s.opts.host # "off" \/ Is("mounts-optional-despite-off")
       [] p = "ro" -> shared
       [] p = "rw" -> shared /\ ~Is("first-skills-only")
Holds(p) ==
  IF Is("empty-skills") \/ (p = "rw" /\ Is("writable-decoy")) THEN {}
  ELSE IF Is("wrong-skill") THEN {"skill-old"} ELSE {"skill"}
Listing(s, p) ==
  LET shares == \/ s.added = p
                \/ s.added # "none" /\ ~Is("separate-stores") /\ ~Is("writable-decoy")
  IN When(Mounted(s, p), Holds(p) \cup (IF shares THEN {"probe"} ELSE {}))
AtInstall(s, p) ==
  When(~Is("mounts-skills-late") /\ ~(p = "rw" /\ Is("mounts-later-skills-late")) /\ Mounted(s, p),
       Holds(p))
WritesTo(s, p) ==
  IF p = "rw" THEN /\ ~Is("ignores-readwrite")
                   /\ s.opts.host # "readonly" \/ Is("ignores-host-readonly")
  ELSE \/ "skills-shared" \in s.kits /\ ~Is("narrows-shared-path") /\ s.opts.host # "readonly"
       \/ Is("ignores-readonly")
\* the record of the discovery destination when the host has nothing to share
Destination(s) ==
  LET optional == "skills-optional" \in s.kits
  IN IF \/ ~optional /\ s.opts.store = "missing" /\ Is("skips-missing-required-skills")
        \/ optional /\ s.opts.store = "empty" /\ Is("skips-empty-optional-skills")
        \/ Is("skips-required-skills") \/ Is("skips-optional-skills")
       THEN "skipped" ELSE "selected"
\* bundled skills as their fixture's probe reports them, now and at launch
Exposed(s) ==
  /\ ~Is("bundle-ignores") /\ ~Is("bundle-first-only") /\ ~Is("bundle-corrupts")
  /\ ~(s.opts.store = "missing" /\ Is("bundle-missing-drops-required"))
  /\ ~(s.opts.store = "empty" /\ Is("bundle-empty-drops-optional"))
Launched(s) ==
  /\ Exposed(s) /\ ~Is("bundle-after-launch")
  /\ ~(s.opts.store = "missing" /\ Is("bundle-missing-late"))

-----------------------------------------------------------------------------
\* capability groups: hooks and files in force, permission surface, records
GroupOrder(s) == IF Is("group-order") THEN "independent,base"
                 ELSE IF s.without THEN "base,independent" ELSE "base,feature,independent"
GroupFile(s) == ~s.without \/ Is("group-file-leak")
GroupSurface(s) == (IF s.records \/ Is("group-records") THEN {} ELSE {"volume"})
                   \cup (IF Is("group-extra-grant") THEN {"service"} ELSE {})
\* the optional group's record: its list, whether it names its members and its
\* source rightly, its rejected members; and whether the other records are there
GroupRecord(s) ==
  [in |-> IF Is("group-records") THEN "none" ELSE IF s.records THEN "skipped" ELSE "selected",
   named |-> /\ ~Is("group-member-paths") /\ ~Is("group-wrong-source-path")
             /\ ~Is("group-wrong-source-kit"),
   rejected |-> IF s.records
                  THEN {"volume"} \cup (IF Is("group-extra-rejection") THEN {"lifecycle"} ELSE {})
                  ELSE IF Is("group-accepted-rejection") THEN {"lifecycle"} ELSE {},
   others |-> ~Is("group-missing-ordinary-record") /\ ~Is("group-missing-independent-record")]
\* groups-partial has no required entry beside the group
PartialState(s) ==
  IF "lifecycle" \in s.opts.reject /\ Is("group-ignore-optional-lifecycle")
    THEN [rejected |-> {}, surface |-> {"volume"}, file |-> TRUE]
    ELSE [rejected |-> Rejected(s.opts), file |-> Is("partial-group-applies-lifecycle"),
          surface |-> IF Is("partial-group-applies-volume") THEN {"volume"} ELSE {}]
OrdinarySkipped(s) == "lifecycle" \in s.opts.reject /\ ~Is("ordinary-ignore-optional-rejection")
RepublishedSources(s) ==
  /\ ~Is("group-member-sources-local")
  /\ ~(Is("group-selected-member-sources") /\ ~s.without)
  /\ ~(Is("group-skipped-member-sources") /\ s.without)

-----------------------------------------------------------------------------
\* the records of the hooks and of the workload, and what the commands of exec do to
\* the log
Proof(s, p) ==
  CASE p = "workload" -> When(s.proved > 0, Observing(s, p, s.proved))
    [] p = "startup" -> When(s.hooked > 0, Observing(s, p, s.hooked))
    [] p = "install" -> When(InstallGrant(s), Observing(s, p, 1))
SocketFile(s, p) ==
  LET n == IF p = "workload" THEN s.entry ELSE s.hooked IN When(n > 0, Socket(s, p, n))
Answer(s, q) == When(Agent(s, s.boot), Reply(Outcome(s, "exec", s.boot, q)))
Probed(s, q) ==
  CASE q[1] \in {"agent list", "sign", "login", "operations"} ->
         IF Agent(s, s.boot) THEN Asked(s, "exec", q) ELSE s
    [] q[1] = "saved socket" ->
         IF Is("install-socket-still-reachable") THEN Asked(s, "exec", Observation[1]) ELSE s
    [] OTHER -> s
\* reads of the suite's own agent, which no adapter call is needed for
AgentLog == {"last signed", "signed", "requests", "restricted"}
KeptWithin(log, bounded) == ~log.forbidden /\ (bounded => ~log.stray)

-----------------------------------------------------------------------------
\* What one probe q = <<command, argument>> reads in sandbox s.  "unless" is a
\* fixture that exits 0 unless the runtime is broken in the given way.
Observe(s, id, q) ==
  LET a == q[2]
  IN CASE q[1] = "install.count" -> Out(s.installs)
       [] q[1] = "startup.count" -> Out(s.startups)
       [] q[1] = "install-egress" -> Out("reachable")
       [] q[1] = "hook.env" -> HookEnv(s)
       [] q[1] = "hook HOME" -> When(HookEnv(s).ok, {e[2] : e \in {x \in HookEnv(s).val : x[1] = "HOME"}})
       [] q[1] = "env" -> Out(Env(s, id))
       [] q[1] = "token" -> When(~Is("no-credential"),
                                 IF Is("leaks-secret") THEN "secret" ELSE "sentinel")
       [] q[1] = "phase token" -> Out(PhaseToken(s, a))
       [] q[1] = "workload token" -> When(s.entry > 0, PhaseToken(s, "entrypoint"))
       [] q[1] = "kit-written" -> Out(IF Is("ignores-files") THEN "" ELSE s.opts.arg)
       [] q[1] = "env-written" -> Out(EnvWritten(s))
       [] q[1] = "owner" -> Out(IF Is("writes-files-as-root") THEN "root" ELSE "agent")
       [] q[1] = "id" -> Out(IF Sbx(s) THEN "sbxagent" ELSE "agent")
       [] q[1] = "probe" -> Out(Probe(a))
       [] q[1] = "http" -> Out(HttpProbe(a))
       [] q[1] = "profile" -> When(~Sbx(s) \/ ~Is("workspace-at-fixed-path"), ~Is("no-context"))
       [] q[1] = "marker" -> When(s.volume # "none", s.volume)
       [] q[1] = "scratch" -> When(s.scratch # "none", s.scratch)
       [] q[1] = "memory" -> Out(IF Is("ignores-resources") THEN "max" ELSE "2g")
       [] q[1] = "ls" -> Listing(s, a)
       [] q[1] = "skills-at-install" -> AtInstall(s, a)
       [] q[1] = "write" -> When(WritesTo(s, a), "")
       [] q[1] = "destination" -> Out(Destination(s))
       [] q[1] = "bundled" -> When(IF a = "launch" THEN Launched(s) ELSE Exposed(s), "ready")
       [] q[1] = "group-order" -> Out(GroupOrder(s))
       [] q[1] = "group-file" -> When(GroupFile(s), "selected")
       [] q[1] = "selection" -> Out(<<GroupSurface(s), GroupRecord(s)>>)
       [] q[1] = "surface" -> Out(GroupSurface(s))
       [] q[1] = "record" -> Out(GroupRecord(s))
       [] q[1] = "decision" -> Out(<<GroupRecord(s).in, GroupRecord(s).rejected>>)
       [] q[1] = "partial" -> Out(PartialState(s))
       [] q[1] = "ordinary-skipped" -> Out(OrdinarySkipped(s))
       [] q[1] = "republished" -> Out(<<s.without, RepublishedSources(s)>>)
       [] q[1] = "status" -> When(~Is("status-errors"), IF s.up THEN "running" ELSE "stopped")
       [] q[1] = "background" -> When(s.bg # "none", s.bg)
       [] q[1] = "identity" -> Out(s.ident)
       [] q[1] = "absent" -> When(s.ident = "image" /\ ~Is("leaks-identity-env"), "absent")
       [] q[1] = "startup-hook" -> When(s.hook # "none", s.hook)
       [] q[1] = "workload-identity" -> When(s.entry > 0, s.captured)
       [] q[1] = "skip-record" -> Out(~Is("drops-identity-skip-record") /\ ~Is("bundle-drops-skip"))
       [] q[1] = "unless" -> When(~Is(a), "")
       [] q[1] = "proof" -> Proof(s, a)
       [] q[1] = "socket file" -> SocketFile(s, a)
       [] q[1] = "agent socket" -> Out(Agent(s, s.boot))
       [] q[1] = "saved socket" -> When(Is("install-socket-still-reachable"), "done")
       [] q[1] \in {"agent list", "sign", "login", "operations"} -> Answer(s, q)
       [] q[1] = "last signed" -> Out(s.log.last)
       [] q[1] = "signed" -> Out(s.log.signed)
       [] q[1] = "requests" -> Out(s.log.requests)
       [] q[1] = "restricted" -> Out(KeptWithin(s.log, a))
=============================================================================

---------------------------- MODULE SuiteChecks ----------------------------
(***************************************************************************)
(* The checks of the runtime conformance suite (tck/sandbox) as scripts.   *)
(* A check is a sequence of legs.  A leg is one Go function: its sandboxes *)
(* are removed by deferred cleanups when it returns, and the next leg runs *)
(* only if no leg before it reported anything, unless it is marked always. *)
(* A leg is a sequence of steps, each one call to the adapter and what the *)
(* check concludes from its answer.  Scripts depend on the claims where    *)
(* the Go code asks for them.                                              *)
(***************************************************************************)
EXTENDS Runtime

\* on says what follows an answer that does not pass: "see" reports a failure and
\* returns; "note" goes on unless the command itself failed; "all" goes on anyway;
\* "warn" reports a warning and returns; "skip" (create) reports a skip.
Base == [op |-> "see", kits |-> {}, opts |-> Default, accept |-> {"ok"}, q |-> <<"", "">>,
         test |-> <<"ok", "">>, on |-> "see", fresh |-> 0]

CreateWith(kits, opts) == [Base EXCEPT !.op = "create", !.kits = kits, !.opts = opts]
Create(kits) == CreateWith({"workload"} \cup kits, Default)
Mixin(kit, opts) == CreateWith({"workload", kit}, opts)
\* a refusal that names its subject, any refusal, an error that is no refusal
Declined(kits, opts) == [CreateWith(kits, opts) EXCEPT !.accept = {"refused"}]
AnyRefusal(kits, opts) == [CreateWith(kits, opts) EXCEPT !.accept = {"refused", "unnamed"}]
MustError(kits) == [Create(kits) EXCEPT !.accept = {"error"}]
MayCreate(kits) == [Create(kits) EXCEPT !.on = "skip"]

Verb(op) == [Base EXCEPT !.op = op]
Reboot == <<Verb("stop"), Verb("start")>>
Policy(reject) == [Base EXCEPT !.op = "policy", !.q = <<"policy", reject>>]
See(what, arg, test, v) == [Base EXCEPT !.q = <<what, arg>>, !.test = <<test, v>>]
Is1(what, v) == See(what, "", "is", v)
Note(step) == [step EXCEPT !.on = "note"]
NoteAll(step) == [step EXCEPT !.on = "all"]
Await(what, arg, fresh) == [Base EXCEPT !.op = "await", !.q = <<what, arg>>, !.fresh = fresh]
Keep(what, arg) == [Base EXCEPT !.op = "keep", !.q = <<what, arg>>]
Do(what) == [Base EXCEPT !.op = "do", !.q = <<what, "">>]
Write(p, test) == [Base EXCEPT !.op = "do", !.q = <<"write", p>>, !.test = <<test, "">>]
Bind(content) == [Base EXCEPT !.op = "bind", !.q = <<content, "">>]
Source(content) == [Base EXCEPT !.op = "source", !.q = <<content, "">>, !.on = "all"]
Use(n) == [Base EXCEPT !.op = "use", !.fresh = n]
Remove == [Base EXCEPT !.op = "remove"]
Skip == [Base EXCEPT !.op = "skip"]

Leg(steps) == [steps |-> steps, always |-> FALSE]
Always(steps) == [steps |-> steps, always |-> TRUE]
If(c, steps) == IF c THEN steps ELSE <<>>
Claims(c) == c \in claimed

-----------------------------------------------------------------------------
\* What a check concludes from a read r, given the reads it kept.

Names(env) == {e[1] : e \in env}
HookBaseline == {"PATH", "HOME", "DECLARED"}
\* only declared and baseline names, and no value that came from the host
Restricted(env) ==
  /\ \A e \in env : e[2] # "host"
  /\ Names(env) \subseteq HookBaseline /\ "DECLARED" \in Names(env)
\* a variable that agrees in both baselines is stable and keeps its value
Stable(env, a, b) == \A e \in a \cap b : e[1] \in Names(env) => e \in env
NoSecret(env) == \A e \in env : e[2] # "secret"

Passes(t, r, kept) ==
  CASE t[1] = "ok" -> r.ok
    [] t[1] = "fails" -> ~r.ok
    [] t[1] = "is" -> r.ok /\ r.val = t[2]
    [] t[1] = "has" -> r.ok /\ t[2] \in r.val
    [] t[1] = "lacks" -> r.ok => t[2] \notin r.val
    [] t[1] = "same" -> r.ok /\ r.val = kept[t[2]]
    [] t[1] = "restricted" -> r.ok /\ Restricted(r.val)
    [] t[1] = "no secret" -> r.ok /\ NoSecret(r.val)
    [] t[1] = "adds nothing" ->
         /\ r.ok /\ Names(r.val) \subseteq Names(kept[1]) \cup Names(kept[2])
         /\ Stable(r.val, kept[1], kept[2]) /\ NoSecret(r.val)
    [] t[1] = "hook adds nothing" ->
         /\ r.ok /\ NoSecret(r.val) /\ Names(r.val) \subseteq HookBaseline
         /\ Stable(r.val, kept[3], kept[4])
    [] t[1] = "unchanged" -> r.ok /\ r.val = kept[Len(kept)]
    [] t[1] = "lists" -> r.ok /\ r.val.lists
    [] t[1] = "serves" -> r.ok /\ r.val.access
    [] t[1] = "restricts" -> /\ r.ok /\ r.val.operation = "refused"
                             /\ r.val.sign = {IF t[2] THEN "refused" ELSE "done"}

-----------------------------------------------------------------------------
\* lifecycle, network policy, credentials and identity of the image

UnknownRequiredRefused ==
  <<Leg(<<AnyRefusal({"workload", "unknown-required-capability"}, Default)>>)>>
BaselineCreateSucceeds == <<Leg(<<Create({})>>)>>

RequiredUnclaimed ==
  LET probe(c, kits) == IF Claims(c) THEN <<>> ELSE <<Always(<<AnyRefusal(kits, Default)>>)>>
      on(c, kit) == probe(c, {"workload", kit})
  IN probe("sbx", {"sbx-workload"}) \o on("longrunning", "long-running")
     \o on("gitidentity", "git-identity") \o on("lifecycle", "hooks") \o on("network1", "egress")
     \o on("network2", "http-egress") \o on("credential", "credential")
     \o on("sshagent", "ssh-agent") \o on("context", "context") \o on("volume", "volume")
     \o on("resources", "resources") \o on("privileged", "privileged") \o on("skills", "skills")
     \o (IF Claims("skill") \/ Claims("skills") THEN probe("skill", {"bundled-reader", "bundled-skill"})
         ELSE <<Always(<<Skip>>)>>)
     \o on("port", "port") \o on("usb", "usb-device") \o on("sessions", "agent-sessions")
     \o on("registry", "kit-registry")

InstallOnce ==
  <<Leg(<<Create({"hooks"}), Is1("install.count", 1)>> \o Reboot \o <<Is1("install.count", 1)>>)>>

\* Mutant: the count is judged once, after the reboot.
StartupCountedAtTheEnd ==
  <<Leg(<<Create({"hooks"})>> \o Reboot \o <<Is1("startup.count", 2)>>)>>
StartupEveryBoot ==
  <<Leg(<<Create({"hooks"}), Is1("startup.count", 1)>> \o Reboot \o <<Is1("startup.count", 2)>>)>>

HookEnvRestricted == <<Leg(<<Create({"restricted-env"}), See("hook.env", "", "restricted", "")>>)>>

FilesWritten ==
  <<Leg(<<Mixin("files", [Default EXCEPT !.arg = "hello"]), Is1("kit-written", "hello"),
          Is1("env-written", "hello"), Keep("owner", ""), See("id", "", "same", 1),
          See("unless", "writes-files-read-only", "ok", "")>>)>>

DenyByDefault(kit) ==
  <<Leg(<<Create({kit}), See("probe", "allowed", "is", 0), See("probe", "denied", "is", 7)>>)>>
InstallPhaseScoped(kit) ==
  <<Leg(<<Create({kit}), Is1("install-egress", "reachable"),
          See("probe", "install-only", "is", 7)>>)>>

HttpRefused(controls, request) ==
  <<Leg(<<Create({"http-egress"}), See("http", "GET allowed", "is", 0)>> \o controls
        \o <<See("http", request, "is", 7)>>)>>
HttpMethodEnforced == HttpRefused(<<See("http", "POST elsewhere", "is", 0)>>, "POST allowed")
HttpPathEnforced == HttpRefused(<<>>, "GET other path")
HttpDenyPrecedence == HttpRefused(<<>>, "GET denied path")

SecretAbsent ==
  <<Leg(<<Create({"scoped-egress"}), Is1("token", "sentinel"), See("env", "", "no secret", "")>>)>>

InjectOnlyNoEnv ==
  LET composed(kit) == <<Create({kit}), See("env", "", "adds nothing", "")>>
  IN <<Leg(<<Create({"inject-only-control"}), Keep("env", ""),
             Create({"inject-only-control-b"}), Keep("env", "")>>
           \o composed("credential-inject-only") \o composed("credential-inject-only-plain")
           \o composed("credential-inject-only-install")
           \o If(Claims("lifecycle"),
                 <<Create({"restricted-env"}), Keep("hook.env", ""),
                   Create({"restricted-env"}), Keep("hook.env", ""),
                   Create({"credential-inject-only-install"}),
                   See("hook.env", "", "hook adds nothing", "")>>))>>

CredentialSentinelPhaseScoped ==
  LET token(granted) == IF granted THEN "sentinel" ELSE ""
      leg(kit, install, runtime) ==
        Leg(<<Create({kit}), Await("workload token", "", 0),
              See("phase token", "install", "is", token(install)),
              Is1("workload token", token(runtime)),
              See("phase token", "exec", "is", token(runtime))>>)
  IN <<leg("credential-phases-install", TRUE, FALSE),
       leg("credential-phases-runtime", FALSE, TRUE), leg("credential-phases-both", TRUE, TRUE)>>

HonorsImageUser ==
  <<Leg(<<CreateWith({"sbx-workload"}, Default), Note(Is1("id", "sbxagent"))>>
        \o If(Claims("lifecycle"),
              <<CreateWith({"sbx-workload", "restricted-env"}, Default),
                Note(Is1("hook HOME", {"sbxagent"}))>>))>>
WorkspaceAtWorkdir == <<Leg(<<CreateWith({"sbx-workload"}, Default), See("profile", "", "ok", "")>>)>>
EntrypointNotPidOne ==
  <<Leg(<<CreateWith({"sbx-workload"}, Default), See("unless", "runs-image-entrypoint", "ok", "")>>)>>

FinalEnvironmentPrecedence ==
  LET arg == [Default EXCEPT !.arg = "argument"]
      case(kit, opts, want) == <<Mixin(kit, opts), Is1("env-written", want), Remove>>
  IN <<Leg(case("files-image-env", Default, "image") \o case("files", arg, "argument")
           \o case("files", [arg EXCEPT !.env = "override"], "override")
           \o case("files", [arg EXCEPT !.env = ""], ""))>>

-----------------------------------------------------------------------------
\* context, volumes, resources, privilege, skills

BodyReadable == <<Leg(<<Create({"context"}), Is1("profile", TRUE),
                        See("unless", "drops-context-body", "ok", "")>>)>>

\* Mutant: the control in the writable layer is not looked at.
VolumeWithoutControl ==
  <<Leg(<<Create({"volume"}), Do("marker"), Do("scratch")>> \o Reboot
        \o <<Is1("marker", "persisted"), Verb("recreate"), Is1("marker", "persisted")>>)>>
VolumePersists ==
  <<Leg(<<Create({"volume"}), Do("marker"), Do("scratch")>> \o Reboot
        \o <<Is1("marker", "persisted"), Verb("recreate"), See("scratch", "", "fails", ""),
             Is1("marker", "persisted")>>)>>

LimitApplied == <<Leg(<<MayCreate({"resources"}), [Is1("memory", "2g") EXCEPT !.on = "warn"]>>)>>
ElevationGranted ==
  <<Leg(<<MayCreate({"privileged"}), See("unless", "ignores-privileged", "ok", "")>>)>>

SkillsComposition == {"skills", "skills-writable"}
StoreMountedAt(p) == See("ls", p, "has", "skill")
StoreMounted ==
  <<Leg(<<Create(SkillsComposition), NoteAll(StoreMountedAt("ro")), NoteAll(StoreMountedAt("rw"))>>)>>
ReadonlyDefault == <<Leg(<<Create(SkillsComposition), Write("ro", "fails")>>)>>
MountedBeforeHooks ==
  <<Leg(<<Create(SkillsComposition), NoteAll(See("skills-at-install", "ro", "has", "skill")),
          NoteAll(See("skills-at-install", "rw", "has", "skill"))>>)>>
SharedPathWidest ==
  <<Leg(<<Create({"skills", "skills-shared"}), StoreMountedAt("ro"), Write("ro", "ok")>>)>>
HostReadonlyNarrows ==
  <<Leg(<<CreateWith({"workload"} \cup SkillsComposition, [Default EXCEPT !.host = "readonly"]),
          StoreMountedAt("rw"), Write("rw", "fails")>>)>>
SameStore == <<Leg(<<Create(SkillsComposition), Write("rw", "ok"), See("ls", "ro", "has", "probe")>>)>>
ReadwriteGranted ==
  <<Leg(<<Create(SkillsComposition), StoreMountedAt("rw"), Write("rw", "ok")>>)>>

SkillsWithoutHost(kit, p, opts) ==
  <<Mixin(kit, opts), See("ls", p, "lacks", "skill"), Is1("destination", "selected")>>
HostOff == [Default EXCEPT !.host = "off"]
HostStoreOptional == <<Leg(SkillsWithoutHost("skills", "ro", HostOff))>>
HostOffKeepsOptional == <<Leg(SkillsWithoutHost("skills-optional", "opt", HostOff))>>
SkillsWithoutStore(store) ==
  LET opts == [Default EXCEPT !.store = store]
  IN <<Leg(SkillsWithoutHost("skills", "ro", opts)),
       Always(SkillsWithoutHost("skills-optional", "opt", opts))>>

Bundle == {"bundled-reader", "bundled-skill"}
Bundled(step, opts, more) == <<Leg(<<CreateWith(Bundle, opts), NoteAll(step)>> \o more)>>
BundledWithoutStore(store) ==
  Bundled(See("bundled", "exposed", "ok", ""), [Default EXCEPT !.store = store],
          <<NoteAll(See("bundled", "launch", "ok", ""))>>)
BundledUnavailable ==
  <<Leg(<<AnyRefusal({"workload", "bundled-skill"}, Default), Remove, Create({"bundled-optional"}),
          Is1("skip-record", TRUE)>>)>>
BundledHostConflict ==
  <<Leg(<<AnyRefusal({"bundled-reader", "bundled-host-conflict"},
                     [Default EXCEPT !.host = "readonly"]), Remove>>)>>
BundledConflict == <<Leg(<<AnyRefusal(Bundle \cup {"bundled-existing"}, Default), Remove>>)>>
BundledExposed == Bundled(See("bundled", "exposed", "ok", ""), HostOff, <<>>)
BundledBeforeLaunch == Bundled(See("bundled", "launch", "ok", ""), HostOff, <<>>)
BundledNoExecution == Bundled(See("unless", "bundle-executes", "ok", ""), HostOff, <<>>)
BundledDestination ==
  Bundled(See("bundled", "exposed", "ok", ""), [Default EXCEPT !.host = "readonly"],
          <<NoteAll(StoreMountedAt("ro")), NoteAll(StoreMountedAt("rw"))>>)

-----------------------------------------------------------------------------
\* long-running and git-identity

SurvivesSessionDisconnect ==
  <<Leg(<<CreateWith({"long-running-workload", "long-running"}, Default), Do("background"),
          Keep("background", ""), Verb("idle"), Is1("status", "running"),
          See("background", "", "same", 1)>>)>>
LongRunningStop ==
  <<Leg(<<CreateWith({"long-running-workload", "long-running"}, Default), Is1("status", "running"),
          Verb("stop"), Is1("status", "stopped")>>)>>
OptionalLongRunning == <<Leg(<<CreateWith({"long-running-optional"}, Default)>>)>>

WithFile == [Default EXCEPT !.identity = "file"]
WorkloadCaptured == [Await("workload-identity", "", 0) EXCEPT !.test = <<"is", "bound">>]
GitIdentityDefaults ==
  LET leg(kit) == <<Mixin(kit, WithFile), NoteAll(Is1("identity", "bound")),
                    NoteAll(WorkloadCaptured), Remove>>
  IN <<Leg(leg("git-identity") \o leg("git-identity-optional"))>>
GitIdentityObservation(kits, step) == <<Leg(<<CreateWith({"workload"} \cup kits, WithFile), step>>)>>
GitIdentityUnavailable ==
  LET leg(opts, binding) ==
        Leg(binding \o <<AnyRefusal({"workload", "git-identity"}, opts), Remove,
                         Mixin("git-identity-optional", opts), NoteAll(Is1("absent", "absent")),
                         NoteAll(Is1("skip-record", TRUE)), Remove>>)
  IN <<leg([Default EXCEPT !.identity = "off"], <<>>), leg(WithFile, <<Bind("no-name")>>),
       leg(WithFile, <<Bind("no-email")>>)>>
GitIdentityBeforeHooks ==
  LET captured == Is1("startup-hook", "bound")
  IN <<Leg(<<CreateWith({"workload", "git-identity", "git-identity-hooks"}, WithFile), captured,
             Bind("changed"), Do("clear-hooks")>> \o Reboot
           \o <<captured, Do("clear-hooks"), Verb("recreate"), captured>>)>>
GitIdentityPersistence ==
  LET kept == <<Is1("identity", "bound"), WorkloadCaptured>>
  IN <<Leg(<<Mixin("git-identity", WithFile), Bind("changed"), Mixin("git-identity", WithFile),
             Is1("identity", "changed"), Use(1), Do("clear-workload")>> \o Reboot \o kept
           \o <<Do("clear-workload"), Verb("recreate")>> \o kept)>>
GitIdentitySourceUnchanged ==
  <<Leg(<<Mixin("git-identity", WithFile), NoteAll(Is1("identity", "bound")),
          NoteAll(Do("edit")), Source("bound")>>)>>

-----------------------------------------------------------------------------
\* capability groups

Rejecting(c) == [Default EXCEPT !.reject = {c}]
GroupSkipped(reject) == [in |-> IF reject THEN "skipped" ELSE "selected", named |-> TRUE,
                         rejected |-> IF reject THEN {"volume"} ELSE {}, others |-> TRUE]
Order(without) == IF without THEN "base,independent" ELSE "base,feature,independent"
GroupSelected(reject) ==
  <<Mixin("groups", IF reject THEN Rejecting("volume") ELSE Default),
    Is1("group-order", Order(reject)),
    See("group-file", "", IF reject THEN "fails" ELSE "ok", ""),
    Is1("surface", IF reject THEN {} ELSE {"volume"}), Is1("record", GroupSkipped(reject))>>
RequiredGroup(opts) == <<Declined({"workload", "groups-required"}, opts), Remove>>
PartialGroup(opts) ==
  <<Mixin("groups-partial", opts),
    Is1("partial", [rejected |-> Rejected(opts), surface |-> {}, file |-> FALSE])>>
OrdinarySelection ==
  <<Mixin("ordinary-optional", Default), Is1("ordinary-skipped", FALSE),
    Mixin("ordinary-optional", Rejecting("lifecycle")), Is1("ordinary-skipped", TRUE),
    Declined({"workload", "ordinary-required"}, Rejecting("lifecycle"))>>
RepublishedGroup ==
  <<Mixin("groups-republished", Default), Is1("republished", <<FALSE, TRUE>>),
    Mixin("groups-republished", Rejecting("volume")), Is1("republished", <<TRUE, TRUE>>)>>
GroupSelection ==
  <<Leg(GroupSelected(FALSE) \o GroupSelected(TRUE) \o RequiredGroup(Rejecting("volume"))
        \o RequiredGroup(Rejecting("lifecycle"))),
    Leg(PartialGroup(Rejecting("lifecycle"))), Leg(OrdinarySelection), Leg(RepublishedGroup)>>
AtomicSelection ==
  CASE Claims("lifecycle") /\ Claims("volume") -> GroupSelection
    [] ~Claims("lifecycle") /\ ~Claims("volume") -> <<Leg(<<Skip>>)>>
    [] OTHER -> If(Claims("lifecycle"), <<Leg(OrdinarySelection)>>)
                \o <<Leg(RequiredGroup(Default) \o PartialGroup(Default))>>
GroupExecution == <<Leg(<<MustError({"groups-failure"})>>)>>
GroupConflicts ==
  <<Leg(<<Declined({"workload", "groups-conflict"}, Default), Remove,
          Declined({"workload", "groups-interactive-conflict"}, Default), Remove>>)>>
GroupLifetimeFrom(rejected) ==
  Leg(<<Mixin("groups", IF rejected THEN Rejecting("volume") ELSE Default), Keep("selection", ""),
        Policy(~rejected)>> \o Reboot
      \o <<See("selection", "", "same", 1), Is1("group-order", Order(rejected)), Verb("recreate"),
           See("surface", "", IF rejected THEN "has" ELSE "lacks", "volume"),
           Is1("decision", IF rejected THEN <<"selected", {}>> ELSE <<"skipped", {"volume"}>>),
           Is1("group-order", Order(~rejected))>>)
GroupExpandedValidation ==
  LET invalid(o) == [o EXCEPT !.path = "relative"]
      case(o) == <<Mixin("groups-expanded", o), Remove,
                   Declined({"workload", "groups-expanded"}, invalid(o)), Remove>>
  IN <<Leg(case(Default) \o case(Rejecting("lifecycle")))>>

-----------------------------------------------------------------------------
\* ssh-agent

WithAgent == [Default EXCEPT !.agent = TRUE]
\* A probe and the look at the agent's log are two steps: the initial processes of the
\* sandbox write to the same log.  expectSigned compares its last entry, expectRefused
\* its length before the probe and after it.
ExpectSigned(q) == <<See(q[1], q[2], "is", "done"), Is1("last signed", Kind(q))>>
ExpectRefused(q) ==
  <<Keep("signed", ""), See(q[1], q[2], "is", "refused"), See("signed", "", "unchanged", "")>>
EachNoted(steps) == [i \in 1 .. Len(steps) |-> NoteAll(steps[i])]
Signed(what) == ExpectSigned(<<"sign", what>>)
Refused(what) == ExpectRefused(<<"sign", what>>)
AgentServes == <<Is1("agent list", "done")>> \o Signed("other")
Serve(p, fresh) == <<Await("proof", p, fresh), See("socket file", p, "is", TRUE),
                     See("proof", p, "serves", "")>>
\* startup hooks exist only where lifecycle is claimed
InitialAgentsServe(again) ==
  Serve("workload", IF again THEN 1 ELSE 0)
  \o If(Claims("lifecycle"), Serve("startup", IF again THEN 2 ELSE 0))
KeepProofs == <<Keep("proof", "workload")>> \o If(Claims("lifecycle"), <<Keep("proof", "startup")>>)
ProofRestrictions(p, bounded) ==
  <<See("proof", p, "restricts", bounded), See("restricted", bounded, "is", TRUE)>>
Restrictions(bounded) ==
  ProofRestrictions("workload", bounded)
  \o If(Claims("lifecycle"), ProofRestrictions("startup", bounded))
InitialProcessRestrictions(bounded) ==
  InitialAgentsServe(FALSE) \o Restrictions(bounded) \o KeepProofs \o Reboot
  \o InitialAgentsServe(TRUE) \o Restrictions(bounded)
AgentUnreachable ==
  <<Keep("requests", ""), Await("proof", "workload", 0),
    Note(See("socket file", "workload", "is", FALSE)), Note(Is1("agent socket", FALSE)),
    Note(See("agent list", "", "fails", "")), Note(See("requests", "", "unchanged", ""))>>
SshInstallRestrictions(bounded) ==
  If(Claims("lifecycle"),
     <<Always(<<Mixin(IF bounded THEN "ssh-agent-dual" ELSE "ssh-agent-install", WithAgent),
                See("proof", "install", "serves", "")>> \o ProofRestrictions("install", bounded)
              \o If(bounded, InitialProcessRestrictions(TRUE) \o Signed("git") \o Refused("other")))>>)

SshReachable == <<Leg(<<Mixin("ssh-agent", WithAgent)>> \o AgentServes \o InitialAgentsServe(FALSE))>>
SshRestricted ==
  <<Leg(<<Mixin("ssh-agent", WithAgent)>> \o InitialProcessRestrictions(FALSE) \o AgentServes
        \o <<Keep("requests", ""), Note(Is1("operations", "refused")),
             Note(See("requests", "", "unchanged", ""))>>)>> \o SshInstallRestrictions(FALSE)
SshSignaturesBounded ==
  <<Leg(<<Mixin("ssh-agent-bounded", WithAgent)>> \o InitialProcessRestrictions(TRUE)
        \o Signed("git") \o EachNoted(Refused("file")) \o EachNoted(Refused("other")))>>
  \o SshInstallRestrictions(TRUE)
Admits(l) == ExpectSigned(<<"login", l>>)
RefusesLogin(l) == ExpectRefused(<<"login", l>>)
BoundedSandbox(steps) == <<Leg(<<Mixin("ssh-agent-bounded", WithAgent)>> \o steps)>>
GitLogin == Login("git", "bound", "server", "none", "own")
SshLoginsBounded ==
  BoundedSandbox(
    Admits(Login("root", "bound", "any-user", "none", "own"))
    \o Admits([GitLogin EXCEPT !.hostkey = "server"])
    \o RefusesLogin([GitLogin EXCEPT !.embedded = "another"]) \o Admits(GitLogin)
    \o EachNoted(RefusesLogin([GitLogin EXCEPT !.binding = "none"])
                 \o RefusesLogin([GitLogin EXCEPT !.user = "root"])
                 \o RefusesLogin([GitLogin EXCEPT !.sid = "other"])
                 \o RefusesLogin([GitLogin EXCEPT !.binding = "impostor"])
                 \o RefusesLogin([GitLogin EXCEPT !.hostkey = "impostor"])))
SshBindingVerified ==
  BoundedSandbox(Admits(GitLogin) \o EachNoted(RefusesLogin([GitLogin EXCEPT !.binding = "forged"])
                                               \o RefusesLogin([GitLogin EXCEPT !.binding = "forwarding"])))
SshDestinationKeys ==
  BoundedSandbox(<<Do("plant")>> \o Admits(GitLogin)
                 \o EachNoted(RefusesLogin([GitLogin EXCEPT !.binding = "impostor"])))
SshAbsentWithoutGrant ==
  <<Leg(<<CreateWith({"workload"}, WithAgent)>> \o AgentUnreachable \o <<Is1("requests", 0)>>)>>
SshPhaseScoped ==
  <<Leg(<<Mixin("ssh-agent-install", WithAgent), See("proof", "install", "lists", ""),
          See("socket file", "workload", "is", FALSE), Keep("requests", ""),
          See("saved socket", "", "fails", ""), See("requests", "", "unchanged", "")>>
        \o AgentUnreachable)>>
\* Mutant: a proof of the previous boot is taken for one of this boot.
SshEveryBootAnyProof ==
  <<Leg(<<Mixin("ssh-agent", WithAgent)>> \o AgentServes \o InitialAgentsServe(FALSE) \o KeepProofs
        \o Reboot \o AgentServes \o InitialAgentsServe(FALSE))>>
SshEveryBoot ==
  <<Leg(<<Mixin("ssh-agent", WithAgent)>> \o AgentServes \o InitialAgentsServe(FALSE) \o KeepProofs
        \o Reboot \o AgentServes \o InitialAgentsServe(TRUE))>>
SshRequiredRefused == <<Leg(<<Declined({"workload", "ssh-agent"}, Default)>>)>>
SshOptionalSkipped == <<Leg(<<Mixin("ssh-agent-optional", Default)>> \o AgentUnreachable)>>

-----------------------------------------------------------------------------
\* The table: what gates each check, and its script.
Check(type, needs, legs) == [type |-> type, needs |-> needs, legs |-> legs]
CheckOf(r) ==
  CASE r = "git-identity@1/global-defaults" -> Check("gitidentity", {}, GitIdentityDefaults)
    [] r = "git-identity@1/before-hooks" -> Check("gitidentity", {"lifecycle"}, GitIdentityBeforeHooks)
    [] r = "git-identity@1/local-precedence" -> Check("gitidentity", {},
         GitIdentityObservation({"git-identity"}, See("unless", "forces-git-identity", "ok", "")))
    [] r = "git-identity@1/identity-only" -> Check("gitidentity", {},
         GitIdentityObservation({"git-identity"}, See("unless", "imports-source-git-settings", "ok", "")))
    [] r = "git-identity@1/source-unchanged" -> Check("gitidentity", {}, GitIdentitySourceUnchanged)
    [] r = "git-identity@1/pinned-selection" -> Check("gitidentity", {}, GitIdentityPersistence)
    [] r = "git-identity@1/absent-without-grant" -> Check("gitidentity", {},
         GitIdentityObservation({}, Is1("absent", "absent")))
    [] r = "git-identity@1/unavailable-refuses-required" -> Check("gitidentity", {}, GitIdentityUnavailable)
    [] r = "credential@1/sentinel-phase-scoped" ->
         Check("credential", {"lifecycle"}, CredentialSentinelPhaseScoped)
    [] r = "SPEC-v3 6/env-expanded" -> Check("lifecycle", {}, FinalEnvironmentPrecedence)
    [] r = "ssh-agent@1/destination-keys-outside-sandbox" -> Check("sshagent", {}, SshDestinationKeys)
    [] r = "ssh-agent@1/agent-reachable" -> Check("sshagent", {}, SshReachable)
    [] r = "ssh-agent@1/operations-restricted" -> Check("sshagent", {}, SshRestricted)
    [] r = "ssh-agent@1/signatures-bounded" -> Check("sshagent", {}, SshSignaturesBounded)
    [] r = "ssh-agent@1/logins-bounded" -> Check("sshagent", {}, SshLoginsBounded)
    [] r = "ssh-agent@1/binding-verified" -> Check("sshagent", {}, SshBindingVerified)
    [] r = "ssh-agent@1/absent-without-grant" -> Check("sshagent", {}, SshAbsentWithoutGrant)
    [] r = "ssh-agent@1/phase-scoped" -> Check("sshagent", {"lifecycle"}, SshPhaseScoped)
    [] r = "ssh-agent@1/every-boot" -> Check("sshagent", {}, SshEveryBoot)
    [] r = "ssh-agent@1/unavailable-refuses-required" -> Check("sshagent", {}, SshRequiredRefused)
    [] r = "ssh-agent@1/unavailable-skips-optional" -> Check("sshagent", {}, SshOptionalSkipped)
    [] r = "groups/validate-expanded-declarations" -> Check("lifecycle", {}, GroupExpandedValidation)
    [] r = "groups/atomic-selection" -> Check("", {}, AtomicSelection)
    [] r = "groups/conflicts" -> Check("lifecycle", {}, GroupConflicts)
    [] r = "groups/lifetime" -> Check("lifecycle", {"volume"},
         <<GroupLifetimeFrom(FALSE), GroupLifetimeFrom(TRUE)>>)
    [] r = "groups/execution" -> Check("lifecycle", {}, GroupExecution)
    [] r = "long-running@1/survives-session-disconnect" -> Check("longrunning", {}, SurvivesSessionDisconnect)
    [] r = "long-running@1/explicit-stop-honored" -> Check("longrunning", {}, LongRunningStop)
    [] r = "optional-long-running-accepted" -> Check("", {}, OptionalLongRunning)
    [] r = "unknown-required-refused" -> Check("", {}, UnknownRequiredRefused)
    [] r = "baseline-create-succeeds" -> Check("", {}, BaselineCreateSucceeds)
    [] r = "required-unclaimed-refused" -> Check("", {}, RequiredUnclaimed)
    [] r = "lifecycle@1/install-once" -> Check("lifecycle", {}, InstallOnce)
    [] r = "lifecycle@1/startup-every-boot" -> Check("lifecycle", {}, StartupEveryBoot)
    [] r = "lifecycle@1/hook-env-restricted" -> Check("lifecycle", {}, HookEnvRestricted)
    [] r = "lifecycle@1/files-written" -> Check("lifecycle", {}, FilesWritten)
    [] r = "network-policy@1/deny-by-default" -> Check("network1", {}, DenyByDefault("scoped-egress"))
    [] r = "network-policy@2/deny-by-default" -> Check("network2", {}, DenyByDefault("scoped-egress-v2"))
    [] r = "network-policy@1/install-phase-scoped" ->
         Check("network1", {"lifecycle"}, InstallPhaseScoped("scoped-egress"))
    [] r = "network-policy@2/install-phase-scoped" ->
         Check("network2", {"lifecycle"}, InstallPhaseScoped("scoped-egress-v2"))
    [] r = "network-policy@2/http-method-enforced" -> Check("network2", {}, HttpMethodEnforced)
    [] r = "network-policy@2/http-path-enforced" -> Check("network2", {}, HttpPathEnforced)
    [] r = "network-policy@2/http-deny-precedence" -> Check("network2", {}, HttpDenyPrecedence)
    [] r = "credential@1/secret-absent-in-sandbox" -> Check("credential", {}, SecretAbsent)
    [] r = "credential@1/inject-only-no-env" -> Check("credential", {}, InjectOnlyNoEnv)
    [] r = "sbx@1/honors-image-user" -> Check("sbx", {}, HonorsImageUser)
    [] r = "sbx@1/workspace-at-workdir" -> Check("sbx", {"context"}, WorkspaceAtWorkdir)
    [] r = "sbx@1/entrypoint-not-pid-one" -> Check("sbx", {}, EntrypointNotPidOne)
    [] r = "agent-context@1/body-readable" -> Check("context", {}, BodyReadable)
    [] r = "volume@1/persists-across-recreate" -> Check("volume", {}, VolumePersists)
    [] r = "resources@1/limit-applied" -> Check("resources", {}, LimitApplied)
    [] r = "privileged@1/elevation-granted" -> Check("privileged", {}, ElevationGranted)
    [] r = "agent-skills@1/store-mounted-at-declared-path" -> Check("skills", {}, StoreMounted)
    [] r = "agent-skills@1/readonly-default-honored" -> Check("skills", {}, ReadonlyDefault)
    [] r = "agent-skills@1/mounted-before-hooks" -> Check("skills", {"lifecycle"}, MountedBeforeHooks)
    [] r = "agent-skills@1/shared-path-widest-mode" -> Check("skills", {}, SharedPathWidest)
    [] r = "agent-skills@1/host-readonly-narrows" -> Check("skills", {}, HostReadonlyNarrows)
    [] r = "agent-skills@1/host-store-optional" -> Check("skills", {}, HostStoreOptional)
    [] r = "agent-skills@1/host-off-keeps-optional" -> Check("skills", {}, HostOffKeepsOptional)
    [] r = "agent-skills@1/same-store-at-every-path" -> Check("skills", {}, SameStore)
    [] r = "agent-skills@1/readwrite-granted-when-both-allow" -> Check("skills", {}, ReadwriteGranted)
    [] r = "agent-skills@1/host-store-missing" -> Check("skills", {}, SkillsWithoutStore("missing"))
    [] r = "agent-skills@1/host-store-empty" -> Check("skills", {}, SkillsWithoutStore("empty"))
    [] r = "agent-skills@1/bundled-with-missing-store" ->
         Check("skills", {"skill"}, BundledWithoutStore("missing"))
    [] r = "agent-skills@1/bundled-with-empty-store" ->
         Check("skills", {"skill"}, BundledWithoutStore("empty"))
    [] r = "agent-skill@1/host-conflict" -> Check("skill", {"skills"}, BundledHostConflict)
    [] r = "agent-skill@1/exposed" -> Check("skill", {"skills"}, BundledExposed)
    [] r = "agent-skill@1/before-launch" -> Check("skill", {"skills"}, BundledBeforeLaunch)
    [] r = "agent-skill@1/no-execution" -> Check("skill", {"skills"}, BundledNoExecution)
    [] r = "agent-skill@1/unavailable" -> Check("skill", {}, BundledUnavailable)
    [] r = "agent-skill@1/existing-conflict" -> Check("skill", {"skills"}, BundledConflict)
    [] r = "agent-skills@1/destination" -> Check("skills", {"skill"}, BundledDestination)
=============================================================================

------------------------------ MODULE MCSuite ------------------------------
(***************************************************************************)
(* The suite against the runtimes of its own tests (sandbox_test.go) and   *)
(* against more of them: conforming ones that claim little or much, whose  *)
(* workloads are late or whose caller has a deadline, and broken ones, with*)
(* one breakage of the `mutations` table or with two at once that the same *)
(* requirement is to notice.                                               *)
(***************************************************************************)
EXTENDS Suite

AllRequirements ==
  <<"git-identity@1/global-defaults", "git-identity@1/before-hooks",
    "git-identity@1/local-precedence", "git-identity@1/identity-only",
    "git-identity@1/source-unchanged", "git-identity@1/pinned-selection",
    "git-identity@1/absent-without-grant", "git-identity@1/unavailable-refuses-required",
    "credential@1/sentinel-phase-scoped", "SPEC-v3 6/env-expanded",
    "ssh-agent@1/destination-keys-outside-sandbox", "ssh-agent@1/agent-reachable",
    "ssh-agent@1/operations-restricted", "ssh-agent@1/signatures-bounded",
    "ssh-agent@1/logins-bounded", "ssh-agent@1/binding-verified",
    "ssh-agent@1/absent-without-grant", "ssh-agent@1/phase-scoped", "ssh-agent@1/every-boot",
    "ssh-agent@1/unavailable-refuses-required", "ssh-agent@1/unavailable-skips-optional",
    "groups/validate-expanded-declarations", "groups/atomic-selection", "groups/conflicts",
    "groups/lifetime", "groups/execution", "long-running@1/survives-session-disconnect",
    "long-running@1/explicit-stop-honored", "optional-long-running-accepted",
    "unknown-required-refused", "baseline-create-succeeds", "required-unclaimed-refused",
    "lifecycle@1/install-once", "lifecycle@1/startup-every-boot",
    "lifecycle@1/hook-env-restricted", "lifecycle@1/files-written",
    "network-policy@1/deny-by-default", "network-policy@2/deny-by-default",
    "network-policy@1/install-phase-scoped", "network-policy@2/install-phase-scoped",
    "network-policy@2/http-method-enforced", "network-policy@2/http-path-enforced",
    "network-policy@2/http-deny-precedence", "credential@1/secret-absent-in-sandbox",
    "credential@1/inject-only-no-env", "sbx@1/honors-image-user", "sbx@1/workspace-at-workdir",
    "sbx@1/entrypoint-not-pid-one", "agent-context@1/body-readable",
    "volume@1/persists-across-recreate", "resources@1/limit-applied",
    "privileged@1/elevation-granted", "agent-skills@1/store-mounted-at-declared-path",
    "agent-skills@1/readonly-default-honored", "agent-skills@1/mounted-before-hooks",
    "agent-skills@1/shared-path-widest-mode", "agent-skills@1/host-readonly-narrows",
    "agent-skills@1/host-store-optional", "agent-skills@1/host-off-keeps-optional",
    "agent-skills@1/same-store-at-every-path",
    "agent-skills@1/readwrite-granted-when-both-allow", "agent-skills@1/host-store-missing",
    "agent-skills@1/host-store-empty", "agent-skills@1/bundled-with-missing-store",
    "agent-skills@1/bundled-with-empty-store", "agent-skill@1/host-conflict",
    "agent-skill@1/exposed", "agent-skill@1/before-launch", "agent-skill@1/no-execution",
    "agent-skill@1/unavailable", "agent-skill@1/existing-conflict",
    "agent-skills@1/destination">>

\* which breakages each requirement must notice: the mutations table, and the
\* breakages that comments of the checks argue about
Notices ==
  {<<"git-identity@1/global-defaults", {"corrupts-git-identity", "git-identity-after-launch",
      "ignores-git-identity"}>>,
   <<"git-identity@1/before-hooks", {"late-git-identity", "late-identity-recreate-hook",
      "late-identity-restart-hook", "skips-identity-recreate-hook",
      "skips-identity-restart-hook"}>>,
   <<"git-identity@1/local-precedence", {"forces-git-identity"}>>,
   <<"git-identity@1/identity-only", {"imports-source-git-settings"}>>,
   <<"git-identity@1/source-unchanged", {"edits-identity-source"}>>,
   <<"git-identity@1/pinned-selection", {"late-identity-workload-recreate",
      "late-identity-workload-start", "loses-git-identity-on-start",
      "rereads-identity-on-recreate"}>>,
   <<"git-identity@1/absent-without-grant", {"imports-unrequested-identity",
      "leaks-identity-env"}>>,
   <<"git-identity@1/unavailable-refuses-required", {"accepts-missing-identity",
      "drops-identity-skip-record", "imports-unavailable-identity", "leaks-identity-env",
      "refuses-optional-identity"}>>,
   <<"credential@1/sentinel-phase-scoped", {"credential-first-phase-only",
      "credential-install-at-entrypoint", "credential-install-at-runtime",
      "credential-last-phase-only", "credential-missing-at-entrypoint",
      "credential-phase-leaks-secret", "credential-runtime-at-install"}>>,
   <<"SPEC-v3 6/env-expanded", {"drops-empty-env-overrides", "drops-image-env-defaults",
      "ignores-env-expansion", "ignores-env-overrides"}>>,
   <<"ssh-agent@1/destination-keys-outside-sandbox", {"trusts-sandbox-known-hosts"}>>,
   <<"ssh-agent@1/agent-reachable", {"ignores-ssh-agent", "ssh-agent-bogus-startup-socket",
      "ssh-agent-bogus-workload-socket", "ssh-agent-drops-sign",
      "ssh-agent-missing-startup-env", "ssh-agent-missing-workload-env"}>>,
   <<"ssh-agent@1/operations-restricted", {"ignores-ssh-agent",
      "ssh-agent-create-workload-unfiltered-operations", "ssh-agent-forwards-constrained-rsa",
      "ssh-agent-forwards-refused", "ssh-agent-install-unfiltered-operations",
      "ssh-agent-relays-everything", "ssh-agent-restart-startup-unfiltered-operations"}>>,
   <<"ssh-agent@1/signatures-bounded", {"drops-bound-signature", "forwards-unclassified",
      "ignores-sign-bounds", "ssh-agent-create-startup-unfiltered-sign",
      "ssh-agent-create-workload-forward-refused-sign",
      "ssh-agent-restart-startup-forward-refused-sign",
      "ssh-agent-install-forward-refused-sign", "ssh-agent-dual-install-only", "ssh-agent-dual-runtime-only",
      "ssh-agent-dual-unfiltered-runtime", "ssh-agent-install-unfiltered-sign",
      "ssh-agent-restart-workload-unfiltered-sign"}>>,
   <<"ssh-agent@1/logins-bounded", {"drops-bound-login", "ignores-hostbound-key",
      "ignores-login-bounds", "ignores-login-user", "ignores-session-id",
      "restricts-host-only-user", "trusts-any-host-key", "trusts-invalid-login-key"}>>,
   <<"ssh-agent@1/binding-verified", {"drops-bound-login", "ignores-login-bounds",
      "trusts-forwarding-binding", "trusts-unverified-binding"}>>,
   <<"ssh-agent@1/absent-without-grant", {"ssh-agent-initial-without-grant",
      "ssh-agent-without-grant"}>>,
   <<"ssh-agent@1/phase-scoped", {"install-socket-still-reachable",
      "leaks-install-ssh-agent-to-entrypoint", "leaves-install-ssh-agent-open",
      "ssh-agent-install-missing"}>>,
   <<"ssh-agent@1/every-boot", {"ignores-ssh-agent", "ssh-agent-first-boot-only",
      "ssh-agent-restart-missing-startup-env", "ssh-agent-restart-missing-workload-env",
      "ssh-agent-stale-boot-proofs"}>>,
   <<"ssh-agent@1/unavailable-refuses-required", {"ssh-agent-accepts-without-agent",
      "ssh-agent-refusal-unnamed"}>>,
   <<"ssh-agent@1/unavailable-skips-optional", {"ssh-agent-initial-optional-leak",
      "ssh-agent-refuses-optional"}>>,
   <<"groups/validate-expanded-declarations", {"group-invalid-expanded",
      "group-skips-invalid-expanded"}>>,
   <<"groups/atomic-selection", {"group-accept-required", "group-accepted-rejection",
      "group-extra-grant", "group-extra-rejection", "group-file-leak",
      "group-ignore-optional-lifecycle", "group-ignore-required-lifecycle",
      "group-member-paths", "group-member-sources-local", "group-missing-independent-record",
      "group-missing-ordinary-record", "group-order", "group-records", "group-required-no-kit",
      "group-selected-member-sources", "group-skipped-member-sources",
      "group-wrong-source-kit", "group-wrong-source-path",
      "ordinary-ignore-optional-rejection", "ordinary-ignore-required-rejection"}>>,
   <<"groups/conflicts", {"group-conflict-no-kit", "group-drop-conflict",
      "group-drop-interactive-conflict"}>>,
   <<"groups/lifetime", {"group-never-admits-recreate", "group-no-recreate",
      "group-reselect-restart", "group-reselect-skipped-restart", "group-stale-recreate-hooks",
      "group-stale-recreate-records"}>>,
   <<"groups/execution", {"group-skip-failure"}>>,
   <<"long-running@1/survives-session-disconnect", {"idle-errors",
      "ignores-long-running-mixin", "loses-background-on-disconnect",
      "restarts-background-on-disconnect", "status-errors", "stops-on-disconnect"}>>,
   <<"long-running@1/explicit-stop-honored", {"ignores-explicit-stop", "status-errors"}>>,
   <<"optional-long-running-accepted", {"refuses-optional-long-running"}>>,
   <<"unknown-required-refused", {"accept-unknown"}>>,
   <<"baseline-create-succeeds", {"refuses-everything"}>>,
   <<"lifecycle@1/install-once", {"install-twice"}>>,
   <<"lifecycle@1/startup-every-boot", {"no-startup", "startup-twice-at-create"}>>,
   <<"lifecycle@1/hook-env-restricted", {"copies-host-home", "leaks-env", "leaks-undeclared-env"}>>,
   <<"lifecycle@1/files-written", {"ignores-env-expansion", "ignores-files",
      "writes-files-as-root", "writes-files-read-only"}>>,
   <<"network-policy@1/deny-by-default", {"allows-everything", "network-breaks"}>>,
   <<"network-policy@2/deny-by-default", {"allows-everything", "network-breaks"}>>,
   <<"network-policy@1/install-phase-scoped", {"leaves-install-egress-open"}>>,
   <<"network-policy@2/install-phase-scoped", {"leaves-install-egress-open"}>>,
   <<"network-policy@2/http-method-enforced", {"ignores-http-method", "origin-answers-403"}>>,
   <<"network-policy@2/http-path-enforced", {"ignores-http-path"}>>,
   <<"network-policy@2/http-deny-precedence", {"ignores-http-deny"}>>,
   <<"credential@1/secret-absent-in-sandbox", {"leaks-secret", "leaks-secret-elsewhere",
      "no-credential"}>>,
   <<"credential@1/inject-only-no-env", {"exposes-install-inject-only",
      "hides-inject-only-in-existing-env", "hides-inject-only-in-token",
      "hides-install-inject-only-in-declared", "leaks-inject-only-env",
      "leaks-plain-inject-only-env"}>>,
   <<"sbx@1/honors-image-user", {"assumes-uid-1000"}>>,
   <<"sbx@1/workspace-at-workdir", {"workspace-at-fixed-path"}>>,
   <<"sbx@1/entrypoint-not-pid-one", {"runs-image-entrypoint"}>>,
   <<"agent-context@1/body-readable", {"drops-context-body", "no-context"}>>,
   <<"volume@1/persists-across-recreate", {"keeps-writable-layer", "loses-volume",
      "loses-volume-on-restart"}>>,
   <<"privileged@1/elevation-granted", {"ignores-privileged"}>>,
   <<"agent-skills@1/store-mounted-at-declared-path", {"empty-skills", "first-skills-only",
      "ignores-skills", "wrong-skill"}>>,
   <<"agent-skills@1/readonly-default-honored", {"ignores-readonly"}>>,
   <<"agent-skills@1/mounted-before-hooks", {"mounts-later-skills-late", "mounts-skills-late"}>>,
   <<"agent-skills@1/shared-path-widest-mode", {"narrows-shared-path"}>>,
   <<"agent-skills@1/host-readonly-narrows", {"ignores-host-readonly"}>>,
   <<"agent-skills@1/host-store-optional", {"ignores-host-off", "refuses-required-skills",
      "skips-required-skills"}>>,
   <<"agent-skills@1/host-off-keeps-optional", {"mounts-optional-despite-off",
      "refuses-optional-skills", "skips-optional-skills"}>>,
   <<"agent-skills@1/same-store-at-every-path", {"separate-stores"}>>,
   <<"agent-skills@1/readwrite-granted-when-both-allow", {"ignores-readwrite", "writable-decoy"}>>,
   <<"agent-skills@1/host-store-missing", {"refuses-missing-required-skills",
      "skips-missing-required-skills"}>>,
   <<"agent-skills@1/host-store-empty", {"refuses-empty-optional-skills",
      "skips-empty-optional-skills"}>>,
   <<"agent-skills@1/bundled-with-missing-store", {"bundle-missing-drops-required",
      "bundle-missing-late"}>>,
   <<"agent-skills@1/bundled-with-empty-store", {"bundle-empty-drops-optional"}>>,
   <<"agent-skill@1/host-conflict", {"bundle-overwrites-host"}>>,
   <<"agent-skill@1/exposed", {"bundle-corrupts", "bundle-first-only", "bundle-ignores"}>>,
   <<"agent-skill@1/before-launch", {"bundle-after-launch"}>>,
   <<"agent-skill@1/no-execution", {"bundle-executes"}>>,
   <<"agent-skill@1/unavailable", {"bundle-accepts-unavailable", "bundle-drops-skip",
      "bundle-refuses-optional"}>>,
   <<"agent-skill@1/existing-conflict", {"bundle-overwrites-existing"}>>,
   <<"agent-skills@1/destination", {"bundle-first-only"}>>}

Scenario(c, b, l, d, s) == [claimed |-> c, broken |-> b, late |-> l, deadline |-> d, selected |-> s]
Checks == {AllRequirements[i] : i \in 1 .. Len(AllRequirements)}

\* conforming runtimes: every claim, none, one, all but one
Faithful ==
  LET claims == {AllTypes, {}} \cup {{c} : c \in AllTypes} \cup {AllTypes \ {c} : c \in AllTypes}
      allowed == {{}, {"declines-privileged"}, {"declines-resources", "ignores-resources"}}
  IN {Scenario(c, {}, FALSE, FALSE, AllRequirements) : c \in claims}
     \cup {Scenario(AllTypes, b, FALSE, FALSE, AllRequirements) : b \in allowed}
\* a conforming runtime with late workloads
Patient == {Scenario(AllTypes, {}, TRUE, FALSE, <<r>>) : r \in Checks}
Hurried ==
  {Scenario(AllTypes, {}, FALSE, TRUE, <<r>>) : r \in Checks}
  \cup {Scenario({"volume"}, {}, FALSE, TRUE, <<"required-unclaimed-refused",
          "volume@1/persists-across-recreate", "groups/execution", "baseline-create-succeeds">>),
        Scenario(AllTypes, {}, FALSE, TRUE, <<"groups/execution",
          "volume@1/persists-across-recreate", "baseline-create-succeeds">>)}

Once == {Scenario(AllTypes, {f}, FALSE, TRUE, <<row[1]>>) : <<row, f>> \in
           UNION {{row} \X row[2] : row \in Notices}}
\* ... and with late workloads.  git-identity@1/pinned-selection clears the workload's
\* record without having waited for it: a late first workload can still write it, and
\* the check then takes it for the record of the second boot.
Late == {[s EXCEPT !.late = TRUE, !.deadline = FALSE] :
           s \in {s \in Once : s.broken # {"late-identity-workload-start"}}}
Twice == {Scenario(AllTypes, {f[1], f[2]}, FALSE, FALSE, <<row[1]>>) : <<row, f>> \in
            UNION {{row} \X {g \in row[2] \X row[2] : g[1] # g[2]} : row \in Notices}}
Partial ==
  {Scenario({"volume"}, {"accepts-required-unclaimed"}, FALSE, FALSE,
            <<"required-unclaimed-refused">>),
   Scenario({"lifecycle"}, {"partial-group-applies-lifecycle"}, FALSE, FALSE,
            <<"groups/atomic-selection">>),
   Scenario({"volume"}, {"partial-group-applies-volume"}, FALSE, FALSE,
            <<"groups/atomic-selection">>)}
Stuck ==
  {Scenario(AllTypes, {f}, FALSE, FALSE, AllRequirements) :
     f \in {"workload-never-starts", "rm-fails", "refusal-as-error"}}

MCScenarios == Faithful \cup Patient \cup Hurried \cup Once \cup Late \cup Twice
               \cup Partial \cup Stuck
\* ... and one whose late workloads race all the checks that do not wait for them
MCRaces == {Scenario(AllTypes, {}, TRUE, FALSE,
            SelectSeq(AllRequirements, LAMBDA r : r \in Hasty))}

\* A broken runtime is failed by every requirement that its breakages violate, each
\* alone or two together: no check passes because one breakage hides another, on a
\* record of an earlier boot, or for want of a control (checks.go, groups.go,
\* ssh_agent.go, git_identity.go, agent_skill.go; TestEachCheckFails...).
BreakageIsNoticed ==
  pc = "done" /\ result = "nil" =>
    /\ \A row \in Notices :
         /\ broken # {} /\ broken \subseteq row[2]
         /\ \E i \in 1 .. Len(selected) : selected[i] = row[1]
         => <<row[1], "Fail">> \in report
    /\ broken \cap {"accepts-required-unclaimed", "partial-group-applies-lifecycle",
                    "partial-group-applies-volume", "workload-never-starts", "refusal-as-error"} # {}
         => \E r \in report : r[2] = "Fail"
=============================================================================

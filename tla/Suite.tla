------------------------------- MODULE Suite -------------------------------
(***************************************************************************)
(* The runner of the conformance suite (tck/sandbox/sandbox.go, runChecks) *)
(* driving a runtime through its adapter (tck/adapter) and writing its     *)
(* report (tck/report).  The runner takes the selected checks in order,    *)
(* skips the ones that are gated on a claim the runtime does not make, and *)
(* plays the scripts of SuiteChecks one adapter call at a time.  The       *)
(* caller's deadline may expire between any two steps or during a create,  *)
(* and a late workload takes its steps at any time after its boot.         *)
(***************************************************************************)
EXTENDS SuiteChecks, TLC

CONSTANT Scenarios   \* [claimed, broken, late, deadline, selected] to start from

ASSUME SelectionIsAList == \A s \in Scenarios : s.selected \in Seq(STRING)

VARIABLES deadline,  \* whether the caller's context has a deadline
          selected,  \* the requirements whose checks are to run, in order
          now,       \* the position of the check at hand
          pc,        \* "ask", "next", "step", "defer", "return" or "done"
          legs,      \* the script of the check at hand
          leg, at,   \* position in it
          boxes,     \* the sandboxes the leg has created
          open,      \* the positions in boxes that deferred cleanups hold
          cur,       \* the sandbox in use, 0 if the last create gave none
          kept,      \* reads the check compares later ones with
          file,      \* what the suite's identity source holds
          findings,  \* the severities of what the check has found
          report,    \* pairs of a check and the severity of a finding
          roster,    \* the checks that ran, in order
          cancelled, \* whether the context has expired
          result,    \* "nil" or "error" once the run returns
          alive,     \* sandboxes that exist in the runtime, by check, leg and position
          leaked     \* the ones that a cleanup could not remove

script == <<legs, leg, at, boxes, open, cur, kept, file, findings>>
setting == <<claimed, broken, late, deadline, selected>>
vars == <<setting, now, pc, script, report, roster, cancelled, result, alive, leaked>>

Name(i) == ToString(i)
\* a sandbox whose create was killed before it printed an id has position 0
Id(i) == <<now, leg, i>>

Init ==
  /\ \E s \in Scenarios : /\ claimed = s.claimed /\ broken = s.broken /\ late = s.late
                          /\ deadline = s.deadline /\ selected = s.selected
  /\ now = 1 /\ pc = "ask" /\ legs = <<>> /\ leg = 0 /\ at = 0
  /\ boxes = <<>> /\ open = {} /\ cur = 0 /\ kept = <<>> /\ file = "bound"
  /\ findings = {} /\ report = {} /\ roster = <<>>
  /\ cancelled = FALSE /\ result = "none" /\ alive = {} /\ leaked = {}

Script == CheckOf(selected[now])
Step == legs[leg].steps[at]
Box == boxes[cur]
Playing == pc = "step" /\ at <= Len(legs[leg].steps)

-----------------------------------------------------------------------------
\* the runner

\* capabilities: a call that fails ends the run with an empty report
AskCapabilities ==
  /\ pc = "ask"
  /\ IF cancelled THEN pc' = "done" /\ result' = "error" ELSE pc' = "next" /\ UNCHANGED result
  /\ UNCHANGED <<setting, now, script, report, roster, cancelled, alive, leaked>>

FirstUnclaimed(c) == ({c.type} \cup c.needs) \ (claimed \cup {""}) # {}
Gated == pc = "next" /\ now <= Len(selected) /\ FirstUnclaimed(Script)

\* Mutant: a check that does not apply is passed over in silence.
SkipSilently ==
  /\ Gated
  /\ now' = now + 1
  /\ UNCHANGED <<setting, pc, script, report, roster, cancelled, result, alive, leaked>>
SkipUnclaimed ==
  /\ Gated
  /\ report' = report \cup {<<selected[now], "Skip">>}
  /\ roster' = Append(roster, selected[now])
  /\ now' = now + 1
  /\ UNCHANGED <<setting, pc, script, cancelled, result, alive, leaked>>

StartCheck ==
  /\ pc = "next" /\ now <= Len(selected) /\ ~FirstUnclaimed(Script)
  /\ pc' = "defer" /\ legs' = Script.legs /\ leg' = 0 /\ at' = 0 /\ file' = "bound" /\ findings' = {}
  /\ UNCHANGED <<setting, now, boxes, open, cur, kept, report, roster, cancelled, result,
                 alive, leaked>>

\* the legs that the findings so far let run
LaterLegs == {j \in (leg + 1) .. Len(legs) : findings = {} \/ legs[j].always}
NextLeg ==
  /\ pc = "defer" /\ open = {} /\ LaterLegs # {}
  /\ leg' = CHOOSE j \in LaterLegs : \A k \in LaterLegs : j <= k
  /\ pc' = "step" /\ at' = 1 /\ boxes' = <<>> /\ cur' = 0 /\ kept' = <<>>
  /\ UNCHANGED <<setting, now, legs, open, file, findings, report, roster, cancelled, result,
                 alive, leaked>>

Judged ==
  /\ pc = "defer" /\ open = {} /\ LaterLegs = {}
  /\ report' = report \cup {<<selected[now], f>> : f \in findings}
  /\ roster' = Append(roster, selected[now])
  /\ now' = now + 1 /\ legs' = <<>> /\ leg' = 0 /\ at' = 0 /\ boxes' = <<>> /\ cur' = 0 /\ kept' = <<>>
  /\ UNCHANGED <<setting, open, file, findings, cancelled, alive, leaked>>
\* Mutant: the context is not looked at after a check.
EndCheckAnyway == Judged /\ pc' = "next" /\ UNCHANGED result
EndCheck ==
  /\ Judged
  /\ IF cancelled THEN pc' = "return" /\ result' = "error" ELSE pc' = "next" /\ UNCHANGED result

Finish ==
  /\ pc = "next" /\ now > Len(selected)
  /\ pc' = "return" /\ result' = "nil"
  /\ UNCHANGED <<setting, now, script, report, roster, cancelled, alive, leaked>>

\* the deferred report of what could not be removed
Return ==
  /\ pc = "return" /\ pc' = "done"
  /\ IF leaked = {} THEN UNCHANGED <<report, roster>>
     ELSE report' = report \cup {<<"cleanup", "Fail">>} /\ roster' = Append(roster, "cleanup")
  /\ UNCHANGED <<setting, now, script, cancelled, result, alive, leaked>>

-----------------------------------------------------------------------------
\* the steps of a script

\* goes on after an answer that passes, and after one that does not if the check
\* collects its findings; otherwise returns with a finding of severity sev
Conclude(passes, sev, goesOn) ==
  /\ findings' = IF passes THEN findings ELSE findings \cup {sev}
  /\ IF passes \/ goesOn THEN at' = at + 1 /\ UNCHANGED pc ELSE pc' = "defer" /\ UNCHANGED at
Elsewhere == <<setting, now, legs, leg, report, roster, result>>

\* create; a call made after the deadline fails before it reaches the runtime
Created(answer, makes) ==
  /\ \E s \in {NewSandbox(Step.kits, Step.opts, file)} :
       boxes' = IF makes THEN Append(boxes, Entered(s)) ELSE boxes
  /\ open' = IF makes THEN open \cup {Len(boxes) + 1} ELSE open
  /\ cur' = IF makes THEN Len(boxes) + 1 ELSE 0
  /\ Conclude(answer \in Step.accept,
              IF Step.on = "skip" /\ answer \in {"refused", "unnamed"} THEN "Skip" ELSE "Fail",
              FALSE)
  /\ UNCHANGED <<Elsewhere, kept, file, leaked>>
DoCreate ==
  /\ Playing /\ Step.op = "create"
  /\ LET answer == IF cancelled THEN "error" ELSE CreateAnswer(Step.kits, Step.opts, file)
     IN /\ Created(answer, answer = "ok")
        /\ alive' = IF answer = "ok" THEN alive \cup {Id(Len(boxes) + 1)} ELSE alive
  /\ UNCHANGED cancelled
\* the deadline kills the adapter during a create: the runtime may have made the
\* sandbox, and the id is lost
KilledCreate ==
  /\ Playing /\ Step.op = "create" /\ deadline /\ ~cancelled
  /\ cancelled' = TRUE
  /\ Created("error", FALSE)
  /\ \/ CreateAnswer(Step.kits, Step.opts, file) = "ok" /\ alive' = alive \cup {Id(0)}
     \/ UNCHANGED alive

Verbs == {"stop", "start", "recreate", "idle", "policy"}
Boots == {"start", "recreate"}
After(op) == CASE op = "stop" -> Stopped(Box) [] op = "start" -> Started(Box)
               [] op = "recreate" -> Recreated(Box, file) [] op = "idle" -> Idled(Box)
               [] op = "policy" -> [Box EXCEPT !.future = Step.q[2]]
DoVerb ==
  /\ Playing /\ Step.op \in Verbs
  /\ LET fails == cancelled \/ (Step.op = "idle" /\ Is("idle-errors"))
     IN /\ \E s \in {After(Step.op)} :
             boxes' = IF fails THEN boxes
                      ELSE [boxes EXCEPT ![cur] = IF Step.op \in Boots THEN Entered(s) ELSE s]
        /\ Conclude(~fails, "Fail", FALSE)
  /\ UNCHANGED <<Elsewhere, open, cur, kept, file, cancelled, alive, leaked>>

\* a read through the adapter fails after the deadline; one of the suite's agent does not
Lost == cancelled /\ Step.q[1] \notin AgentLog
Read == IF Lost THEN Nothing ELSE Observe(Box, Name(cur), Step.q)
\* a read that does not pass: a mismatch is a warning where the statement is a SHOULD
Verdict ==
  Conclude(~Lost /\ Passes(Step.test, Read, kept),
           IF Step.on = "warn" /\ Read.ok THEN "Warn" ELSE "Fail",
           Step.on = "all" \/ (Step.on = "note" /\ ~Lost /\ (Read.ok \/ Step.test[1] = "fails")))
\* a command that speaks to the agent leaves its mark in the agent's log
DoSee ==
  /\ Playing /\ Step.op = "see"
  /\ Verdict
  /\ boxes' = IF Lost THEN boxes ELSE [boxes EXCEPT ![cur] = Probed(@, Step.q)]
  /\ UNCHANGED <<Elsewhere, open, cur, kept, file, cancelled, alive, leaked>>
DoKeep ==
  /\ Playing /\ Step.op = "keep"
  /\ Conclude(Read.ok, "Fail", FALSE)
  /\ kept' = IF Read.ok THEN Append(kept, Read.val) ELSE kept
  /\ UNCHANGED <<Elsewhere, boxes, open, cur, file, cancelled, alive, leaked>>

\* polling for a record of this boot; a poll gives up after five seconds, by which a
\* late workload is assumed to be through with its steps
Arrived == Read.ok /\ (Step.fresh # 0 => Read.val # kept[Step.fresh])
DoAwait ==
  /\ Playing /\ Step.op = "await" /\ (Arrived \/ cancelled)
  /\ Verdict
  /\ UNCHANGED <<Elsewhere, boxes, open, cur, kept, file, cancelled, alive, leaked>>
\* Mutant: the poll has no limit of its own.
AwaitForever == FALSE /\ UNCHANGED vars
AwaitTimesOut ==
  /\ Playing /\ Step.op = "await" /\ ~cancelled /\ ~Arrived /\ ~Pending(Box)
  /\ Conclude(FALSE, "Fail", Step.on = "all")
  /\ UNCHANGED <<Elsewhere, boxes, open, cur, kept, file, cancelled, alive, leaked>>

\* commands run in the sandbox for their effect
Written(s, what, p) ==
  CASE what = "marker" -> [s EXCEPT !.volume = "persisted"]
    [] what = "scratch" -> [s EXCEPT !.scratch = "ephemeral"]
    [] what = "background" -> [s EXCEPT !.bg = "original"]
    [] what = "clear-hooks" -> [s EXCEPT !.hook = "none"]
    [] what = "clear-workload" -> [s EXCEPT !.entry = 0]
    [] what = "plant" -> [s EXCEPT !.planted = TRUE]
    [] what = "edit" -> s
    [] what = "write" -> IF WritesTo(s, p) THEN [s EXCEPT !.added = p] ELSE s
DoExec ==
  /\ Playing /\ Step.op = "do"
  /\ LET ran == IF Step.q[1] = "write" THEN WritesTo(Box, Step.q[2]) ELSE TRUE
     IN Conclude(~cancelled /\ Passes(Step.test, When(ran, ""), kept), "Fail", Step.on = "all")
  /\ boxes' = IF cancelled THEN boxes
              ELSE [boxes EXCEPT ![cur] = Written(@, Step.q[1], Step.q[2])]
  /\ file' = IF ~cancelled /\ Step.q[1] = "edit" /\ Is("edits-identity-source")
               THEN "edited" ELSE file
  /\ UNCHANGED <<Elsewhere, open, cur, kept, cancelled, alive, leaked>>

\* what a check does on its own side; it uses a sandbox by the variable that holds it
DoLocal ==
  /\ Playing /\ Step.op \in {"bind", "source", "use", "skip"}
  /\ Step.op = "use" => Step.fresh \in 1 .. Len(boxes)
  /\ file' = IF Step.op = "bind" THEN Step.q[1] ELSE file
  /\ cur' = IF Step.op = "use" THEN Step.fresh ELSE cur
  /\ Conclude(CASE Step.op = "source" -> file = Step.q[1] [] Step.op = "skip" -> FALSE
                [] OTHER -> TRUE,
              IF Step.op = "skip" THEN "Skip" ELSE "Fail", Step.op = "source")
  /\ UNCHANGED <<Elsewhere, boxes, open, kept, cancelled, alive, leaked>>

\* the steps of the leg are through
LegReturns ==
  /\ pc = "step" /\ at > Len(legs[leg].steps)
  /\ pc' = "defer"
  /\ UNCHANGED <<setting, now, script, report, roster, cancelled, result, alive, leaked>>

-----------------------------------------------------------------------------
\* Removal runs under a context of its own, which outlives the check's.
\* Mutant: it runs under the check's context, which may have expired.
RemovedUnderCheck(i) ==
  IF Is("rm-fails") \/ cancelled
    THEN leaked' = leaked \cup {Id(i)} /\ UNCHANGED alive
    ELSE alive' = alive \ {Id(i)} /\ UNCHANGED leaked
Removed(i) ==
  IF Is("rm-fails") THEN leaked' = leaked \cup {Id(i)} /\ UNCHANGED alive
                    ELSE alive' = alive \ {Id(i)} /\ UNCHANGED leaked
\* a cleanup called in the body; it does nothing where create gave no sandbox
DoRemove ==
  /\ Playing /\ Step.op = "remove"
  /\ IF cur = 0 THEN UNCHANGED <<open, alive, leaked>>
     ELSE open' = open \ {cur} /\ Removed(cur)
  /\ Conclude(TRUE, "Fail", FALSE)
  /\ UNCHANGED <<Elsewhere, boxes, cur, kept, file, cancelled>>
\* deferred cleanups, the last one first
RemoveOne ==
  /\ pc = "defer"
  /\ \E i \in open : /\ \A j \in open : j <= i
                     /\ open' = open \ {i}
                     /\ Removed(i)
  /\ UNCHANGED <<setting, now, pc, legs, leg, at, boxes, cur, kept, file, findings, report, roster,
                 cancelled, result>>

-----------------------------------------------------------------------------
Expire ==
  /\ deadline /\ ~cancelled /\ pc # "done"
  /\ cancelled' = TRUE
  /\ UNCHANGED <<setting, now, pc, script, report, roster, result, alive, leaked>>

\* one step of a late workload: its start, a request to the agent, its proof
WorkloadRuns ==
  /\ \E i \in open :
       /\ Pending(boxes[i])
       /\ boxes' = [boxes EXCEPT ![i] = Advanced(@)]
  /\ UNCHANGED <<setting, now, pc, legs, leg, at, open, cur, kept, file, findings, report, roster,
                 cancelled, result, alive, leaked>>

Run ==
  \/ AskCapabilities \/ SkipUnclaimed \/ StartCheck \/ NextLeg \/ EndCheck \/ Finish \/ Return
  \/ DoCreate \/ DoVerb \/ DoSee \/ DoKeep \/ DoAwait \/ AwaitTimesOut \/ DoExec \/ DoLocal
  \/ DoRemove \/ LegReturns \/ RemoveOne

Next == Run \/ KilledCreate \/ Expire \/ WorkloadRuns

\* adapter calls return, the runner takes its steps, and a late workload goes on
Spec == Init /\ [][Next]_vars /\ WF_vars(Run) /\ WF_vars(WorkloadRuns)

-----------------------------------------------------------------------------
\* Type invariant of the runner (tck/sandbox/sandbox.go, runChecks); a part of
\* SuiteInv.
SuiteTypeOK ==
  /\ now \in 1 .. Len(selected) + 1 /\ result \in {"none", "nil", "error"}
  /\ pc \in {"ask", "next", "step", "defer", "return", "done"}
  /\ cur \in 0 .. Len(boxes)
  /\ findings \subseteq {"Fail", "Warn", "Skip"}
  /\ \A i \in open : i \in 1 .. Len(boxes) /\ Id(i) \in alive

\* Breakages the specification allows: a runtime may decline privilege and resource
\* limits, and a limit that is not applied is a warning.
Permitted == {"declines-privileged", "declines-resources", "ignores-resources"}

\* The checks that judge a sandbox before its workload is through with the agent: one
\* reads the workload's record without having waited for it, the others compare the
\* log of the agent that the workload signs with too.
Hasty == {"ssh-agent@1/phase-scoped", "ssh-agent@1/agent-reachable", "ssh-agent@1/every-boot",
          "ssh-agent@1/logins-bounded", "ssh-agent@1/binding-verified",
          "ssh-agent@1/destination-keys-outside-sandbox"}

\* A runtime that honours what it claims gets no failure from a run that ends without
\* an error, whatever it claims and whenever the deadline expires: a failure that the
\* expiry caused never comes with a nil error (sandbox.go, the context check of
\* runChecks).  Nor does a workload that is late, by less than the five seconds that
\* the checks wait, cost it one (initialAgentProof, credentialEntrypoint), except from
\* a check that does not wait.
FaithfulPasses ==
  pc = "done" /\ result = "nil" /\ broken \subseteq Permitted =>
    \A r \in report : r[2] = "Fail" => late /\ r[1] \in Hasty

\* "create may return before the workload starts" (ssh_agent.go, agentUnreachable): a
\* runtime that honours what it claims is not failed because its workloads are late.
LateWorkloadsPass ==
  pc = "done" /\ result = "nil" /\ broken \subseteq Permitted =>
    \A r \in report : r[2] # "Fail"

\* When the run returns, every sandbox whose id the suite learned is gone, or its rm
\* failed and a failure of "cleanup" says so, whether or not checks failed or the
\* deadline expired (sandboxWith's cleanup, conformance.md 2.4).
RemovedOrReported ==
  pc = "done" =>
    /\ {s \in alive : s[3] # 0} = leaked
    /\ leaked # {} => Is("rm-fails") /\ <<"cleanup", "Fail">> \in report

\* A run that returns nil has accounted for every selected check, in order and once:
\* a check without a finding is one that was judged (report.go, Add and ran).
EveryCheckAccounted ==
  pc = "done" /\ result = "nil" =>
    roster = selected \o (IF leaked = {} THEN <<>> ELSE <<"cleanup">>)

\* Every run returns, with workloads that never start and with a deadline or without
\* (waits of the checks give up; removal does not hang).
RunReturns == <>(pc = "done")

-----------------------------------------------------------------------------
(* The inductive invariant behind the properties of the runner: between    *)
(* creation and removal a sandbox is always in somebody's hands.           *)

\* boxes is a sequence, of records that the runner does not look into.
BoxesAreAList == Len(boxes) \in Nat /\ boxes = [i \in 1 .. Len(boxes) |-> boxes[i]]

\* The sandboxes whose ids are known are those that a deferred cleanup holds and
\* those whose rm failed; where rm fails, none is ever gone.
HeldOrLeaked ==
  /\ {s \in alive : s[3] # 0} = leaked \cup {Id(i) : i \in open}
  /\ leaked # {} => Is("rm-fails")
  /\ Is("rm-fails") => \A i \in 1 .. Len(boxes) : Id(i) \in alive

\* A leg ends with nothing held, and a check with no sandbox in hand.
NothingHeldBetweenChecks == pc \notin {"step", "defer"} => open = {} /\ boxes = <<>> /\ cur = 0

\* The checks before the one at hand are in the report's roster.
RosterSoFar ==
  /\ selected \in Seq(STRING)
  /\ pc # "done" => roster \in Seq(STRING) /\ roster = SubSeq(selected, 1, now - 1)
  /\ result = "nil" => now = Len(selected) + 1 /\ pc \in {"return", "done"}
  /\ pc \in {"step", "defer"} => now <= Len(selected)

\* A run that ends at its first question has nothing to report.
NothingLeakedYet == pc = "ask" => leaked = {}

SuiteInv ==
  /\ SuiteTypeOK /\ BoxesAreAList /\ HeldOrLeaked /\ NothingHeldBetweenChecks /\ NothingLeakedYet
  /\ RosterSoFar /\ RemovedOrReported /\ EveryCheckAccounted
=============================================================================

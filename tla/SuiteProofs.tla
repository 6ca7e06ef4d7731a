----------------------------- MODULE SuiteProofs -----------------------------
(***************************************************************************)
(* Proofs about the runner of the conformance suite, for any list of       *)
(* checks, any runtime and any moment at which the deadline expires.  No   *)
(* proof looks into a script or into the runtime: whatever a check does    *)
(* and however it ends, the runner gives back what it created and accounts *)
(* for the check.                                                          *)
(*                                                                         *)
(* HeldOrLeaked is the heart of it: a sandbox whose id is known is held by *)
(* a deferred cleanup until its rm, which removes it or records it.        *)
(***************************************************************************)
EXTENDS Suite, SequenceTheorems, TLAPS

Severities == {"Fail", "Warn", "Skip"}

\* A function on 1..n is a sequence, whatever its elements are.
LEMMA ListIsSeq ==
  ASSUME NEW s, Len(s) \in Nat, s = [i \in 1 .. Len(s) |-> s[i]]
  PROVE  s \in Seq({s[i] : i \in 1 .. Len(s)})
<1> DEFINE S == {s[i] : i \in 1 .. Len(s)}
           n == Len(s)
<1>1. \A i \in 1 .. n : s[i] \in S
  OBVIOUS
<1>2. s \in [1 .. n -> S]
  <2> HIDE DEF S
  <2> QED BY <1>1
<1> QED BY <1>2, SeqDef

\* and stays one when an element is added,
LEMMA AppendIsList ==
  ASSUME NEW s, Len(s) \in Nat, s = [i \in 1 .. Len(s) |-> s[i]], NEW e
  PROVE  /\ Len(Append(s, e)) = Len(s) + 1
         /\ Append(s, e) = [i \in 1 .. Len(s) + 1 |-> Append(s, e)[i]]
<1> DEFINE S == {s[i] : i \in 1 .. Len(s)} \cup {e}
<1>1. s \in Seq(S)
  BY ListIsSeq, SeqMonotonic
<1>2. e \in S
  OBVIOUS
<1> HIDE DEF S
<1>3. Append(s, e) \in Seq(S) /\ Len(Append(s, e)) = Len(s) + 1
  BY <1>1, <1>2, AppendProperties
<1>4. Append(s, e) \in [1 .. Len(s) + 1 -> S]
  BY <1>3, LenProperties
<1> QED BY <1>3, <1>4

\* or replaced.
LEMMA ExceptIsList ==
  ASSUME NEW s, Len(s) \in Nat, s = [i \in 1 .. Len(s) |-> s[i]], NEW j, NEW e
  PROVE  LET t == [s EXCEPT ![j] = e] IN Len(t) = Len(s) /\ t = [i \in 1 .. Len(t) |-> t[i]]
<1> DEFINE S == {s[i] : i \in 1 .. Len(s)} \cup {e}
           t == [s EXCEPT ![j] = e]
<1>1. s \in [1 .. Len(s) -> S]
  BY ListIsSeq, LenProperties, SeqMonotonic
<1>2. e \in S
  OBVIOUS
<1> HIDE DEF S
<1>3. t \in [1 .. Len(s) -> S]
  BY <1>1, <1>2
<1>4. t \in Seq(S)
  BY <1>3, SeqDef
<1>5. DOMAIN t = 1 .. Len(t) /\ DOMAIN t = 1 .. Len(s) /\ Len(t) \in Nat
  BY <1>3, <1>4, LenProperties
<1>6. Len(t) = Len(s)
  BY <1>5
<1> QED BY <1>3, <1>6

\* The roster of the checks before the next one, with this one appended.
LEMMA RosterGrows ==
  ASSUME NEW s \in Seq(STRING), NEW k \in 1 .. Len(s)
  PROVE  /\ Append(SubSeq(s, 1, k - 1), s[k]) = SubSeq(s, 1, k)
         /\ SubSeq(s, 1, k) \in Seq(STRING)
<1>1. s[k] \in STRING /\ \A i \in 1 .. k : s[i] \in STRING
  BY LenProperties
<1>2. SubSeq(s, 1, k - 1) \in Seq(STRING) /\ SubSeq(s, 1, k) \in Seq(STRING)
  BY <1>1, SubSeqProperties
<1>3. SubSeq(s, 1, k) = SubSeq(s, 1, k - 1) \o <<s[k]>>
  BY LenProperties, SubSeqRecursiveSecond
<1> QED BY <1>1, <1>2, <1>3, AppendIsConcat

\* The invariant holds when the run starts.
LEMMA SuiteInitInv == Init => SuiteInv
<1> SUFFICES ASSUME Init PROVE SuiteInv
  OBVIOUS
<1>1. selected \in Seq(STRING) /\ Len(selected) \in Nat
  BY SelectionIsAList, LenProperties DEF Init
<1>2. boxes = <<>> /\ Len(boxes) = 0 /\ roster \in Seq(STRING)
  BY EmptySeq DEF Init
<1>3. SuiteTypeOK
  BY <1>1, <1>2 DEF Init, SuiteTypeOK
<1>4. BoxesAreAList /\ HeldOrLeaked /\ NothingHeldBetweenChecks
  BY <1>2 DEF Init, BoxesAreAList, HeldOrLeaked, NothingHeldBetweenChecks
<1>5. roster = SubSeq(selected, 1, now - 1)
  BY SubSeqEmpty DEF Init
<1>6. RosterSoFar /\ RemovedOrReported /\ EveryCheckAccounted /\ NothingLeakedYet
  BY <1>1, <1>2, <1>5 DEF Init, RosterSoFar, RemovedOrReported, EveryCheckAccounted,
     NothingLeakedYet
<1> QED BY <1>3, <1>4, <1>6 DEF SuiteInv

-----------------------------------------------------------------------------
(* Steps of a script.                                                      *)

\* What the runner has learned of earlier checks is not touched while a check
\* runs.
Underway ==
  /\ UNCHANGED <<setting, now, leg, report, roster, result>>
  /\ pc \in {"step", "defer"} /\ pc' \in {"step", "defer"}
  /\ findings' \subseteq Severities

\* A check goes on or returns; its findings have one of the severities.
LEMMA ConcludeIsUnderway ==
  ASSUME SuiteInv, pc = "step", NEW passes, NEW sev \in Severities, NEW goesOn,
         Conclude(passes, sev, goesOn)
  PROVE  pc' \in {"step", "defer"} /\ findings' \subseteq Severities
BY DEF Conclude, SuiteInv, SuiteTypeOK, Severities

\* The roster stays the checks before the one at hand.
LEMMA UnderwayKeepsRoster ==
  ASSUME SuiteInv, Underway
  PROVE  RosterSoFar' /\ RemovedOrReported' /\ EveryCheckAccounted' /\ NothingLeakedYet'
BY DEF SuiteInv, Underway, setting, RosterSoFar, RemovedOrReported, EveryCheckAccounted,
   NothingLeakedYet

\* A step that creates and removes nothing.
LEMMA ReadingKeepsInv ==
  ASSUME SuiteInv, Underway, UNCHANGED <<open, alive, leaked>>,
         BoxesAreAList', Len(boxes') = Len(boxes), cur' \in 0 .. Len(boxes)
  PROVE  SuiteInv'
<1>1. SuiteTypeOK'
  BY DEF SuiteInv, SuiteTypeOK, Underway, setting, Severities, Id
<1>2. HeldOrLeaked'
  BY DEF SuiteInv, HeldOrLeaked, Underway, setting, Id, Is
<1>3. NothingHeldBetweenChecks'
  BY DEF Underway, NothingHeldBetweenChecks
<1> QED BY <1>1, <1>2, <1>3, UnderwayKeepsRoster DEF SuiteInv

\* The adapter's verbs, the reads and the commands.
LEMMA PlayingKeepsInv ==
  ASSUME SuiteInv,
         DoVerb \/ DoSee \/ DoKeep \/ DoAwait \/ AwaitTimesOut \/ DoExec \/ DoLocal
  PROVE  SuiteInv'
<1> USE DEF Elsewhere
<1>1. pc = "step" /\ BoxesAreAList /\ cur \in 0 .. Len(boxes) /\ Len(boxes) \in Nat
  BY DEF SuiteInv, SuiteTypeOK, BoxesAreAList, Playing, DoVerb, DoSee, DoKeep, DoAwait,
     AwaitTimesOut, DoExec, DoLocal
<1>2. "Fail" \in Severities /\ "Warn" \in Severities /\ "Skip" \in Severities
  BY DEF Severities
<1>3. UNCHANGED <<open, alive, leaked>> /\ UNCHANGED <<setting, now, leg, report, roster, result>>
  BY DEF DoVerb, DoSee, DoKeep, DoAwait, AwaitTimesOut, DoExec, DoLocal
<1>4. pc' \in {"step", "defer"} /\ findings' \subseteq Severities
  <2>1. CASE DoVerb
    <3>1. PICK p : Conclude(p, "Fail", FALSE)
      BY <2>1 DEF DoVerb
    <3> QED BY <1>1, <1>2, <3>1, ConcludeIsUnderway
  <2>2. CASE DoSee \/ DoAwait
    <3>1. PICK v \in Severities : \E p, g : Conclude(p, v, g)
      BY <2>2, <1>2 DEF DoSee, DoAwait, Verdict
    <3> QED BY <1>1, <3>1, ConcludeIsUnderway
  <2>3. CASE DoKeep
    <3>1. PICK p : Conclude(p, "Fail", FALSE)
      BY <2>3 DEF DoKeep
    <3> QED BY <1>1, <1>2, <3>1, ConcludeIsUnderway
  <2>4. CASE AwaitTimesOut
    <3>1. PICK g : Conclude(FALSE, "Fail", g)
      BY <2>4 DEF AwaitTimesOut
    <3> QED BY <1>1, <1>2, <3>1, ConcludeIsUnderway
  <2>5. CASE DoExec
    <3>1. PICK p, g : Conclude(p, "Fail", g)
      BY <2>5 DEF DoExec
    <3> QED BY <1>1, <1>2, <3>1, ConcludeIsUnderway
  <2>6. CASE DoLocal
    <3>1. PICK v \in Severities : \E p, g : Conclude(p, v, g)
      BY <2>6, <1>2 DEF DoLocal
    <3> QED BY <1>1, <3>1, ConcludeIsUnderway
  <2> QED BY <2>1, <2>2, <2>3, <2>4, <2>5, <2>6
<1>5. boxes' = boxes \/ \E e : boxes' = [boxes EXCEPT ![cur] = e]
  BY DEF DoVerb, DoSee, DoKeep, DoAwait, AwaitTimesOut, DoExec, DoLocal
<1>6. BoxesAreAList' /\ Len(boxes') = Len(boxes)
  BY <1>1, <1>5, ExceptIsList DEF BoxesAreAList
<1>7. cur' \in 0 .. Len(boxes)
  <2>1. CASE DoLocal
    <3>1. cur' = cur \/ cur' \in 1 .. Len(boxes)
      BY <2>1 DEF DoLocal
    <3> QED BY <1>1, <3>1
  <2>2. CASE ~DoLocal
    BY <1>1, <2>2 DEF DoVerb, DoSee, DoKeep, DoAwait, AwaitTimesOut, DoExec
  <2> QED BY <2>1, <2>2
<1> QED BY <1>1, <1>3, <1>4, <1>6, <1>7, ReadingKeepsInv DEF Underway

\* A late workload takes its steps in a sandbox that is held.
LEMMA WorkloadKeepsInv == SuiteInv /\ WorkloadRuns => SuiteInv'
<1> SUFFICES ASSUME SuiteInv, WorkloadRuns PROVE SuiteInv'
  OBVIOUS
<1>1. pc \in {"step", "defer"}
  BY DEF WorkloadRuns, SuiteInv, NothingHeldBetweenChecks
<1>2. PICK i, e : boxes' = [boxes EXCEPT ![i] = e]
  BY DEF WorkloadRuns
<1>3. BoxesAreAList' /\ Len(boxes') = Len(boxes)
  <2>1. BoxesAreAList
    BY DEF SuiteInv
  <2> QED BY <1>2, <2>1, ExceptIsList, ZenonT(60) DEF BoxesAreAList
<1>4. Underway
  BY <1>1 DEF WorkloadRuns, Underway, SuiteInv, SuiteTypeOK, Severities
<1> QED BY <1>3, <1>4, ReadingKeepsInv DEF WorkloadRuns, SuiteInv, SuiteTypeOK

-----------------------------------------------------------------------------
(* Creation and removal.                                                   *)

\* A sandbox that was created is held from then on; one whose id was lost has
\* position 0.
LEMMA CreateKeepsInv == SuiteInv /\ (DoCreate \/ KilledCreate) => SuiteInv'
<1> SUFFICES ASSUME SuiteInv, DoCreate \/ KilledCreate PROVE SuiteInv'
  OBVIOUS
<1> DEFINE n == Len(boxes)
<1>1. /\ pc = "step" /\ n \in Nat /\ cur \in 0 .. n /\ BoxesAreAList
      /\ HeldOrLeaked /\ \A i \in open : i \in 1 .. n /\ Id(i) \in alive
  BY DEF SuiteInv, SuiteTypeOK, BoxesAreAList, Playing, DoCreate, KilledCreate
<1>2. \E answer, makes : Created(answer, makes)
  BY DEF DoCreate, KilledCreate
<1>3. Underway /\ UNCHANGED leaked
  <2>1. PICK v \in Severities : \E p : Conclude(p, v, FALSE)
    BY <1>2 DEF Created, Severities
  <2>2. pc' \in {"step", "defer"} /\ findings' \subseteq Severities
    BY <1>1, <2>1, ConcludeIsUnderway
  <2> QED BY <1>1, <1>2, <2>2 DEF Created, Elsewhere, Underway
<1>4. \/ /\ UNCHANGED <<boxes, open>> /\ cur' = 0
         /\ alive' = alive \/ alive' = alive \cup {Id(0)}
      \/ /\ \E e : boxes' = Append(boxes, e)
         /\ open' = open \cup {n + 1} /\ cur' = n + 1 /\ alive' = alive \cup {Id(n + 1)}
  BY DEF DoCreate, KilledCreate, Created
<1>5. \A i : Id(i)' = Id(i) /\ Id(i)[3] = i
  BY <1>3 DEF Underway, Id
<1>6. CASE /\ UNCHANGED <<boxes, open>> /\ cur' = 0
           /\ alive' = alive \/ alive' = alive \cup {Id(0)}
  <2>1. BoxesAreAList' /\ cur' \in 0 .. Len(boxes')
    BY <1>1, <1>6 DEF BoxesAreAList
  <2>2. {s \in alive' : s[3] # 0} = {s \in alive : s[3] # 0}
    BY <1>5, <1>6
  <2>3. HeldOrLeaked'
    BY <1>1, <1>3, <1>5, <1>6, <2>2 DEF HeldOrLeaked, Underway, setting, Is
  <2>4. SuiteTypeOK'
    BY <1>1, <1>3, <1>5, <1>6, <2>1 DEF SuiteInv, SuiteTypeOK, Underway, setting, Severities
  <2> QED BY <1>3, <2>1, <2>3, <2>4, UnderwayKeepsRoster
          DEF SuiteInv, Underway, NothingHeldBetweenChecks
<1>7. CASE /\ \E e : boxes' = Append(boxes, e)
           /\ open' = open \cup {n + 1} /\ cur' = n + 1 /\ alive' = alive \cup {Id(n + 1)}
  <2>1. BoxesAreAList' /\ Len(boxes') = n + 1 /\ cur' \in 0 .. Len(boxes')
    BY <1>1, <1>7, AppendIsList DEF BoxesAreAList
  <2>2. {s \in alive' : s[3] # 0} = leaked' \cup {Id(i) : i \in open'}
    <3>1. {s \in alive' : s[3] # 0} = {s \in alive : s[3] # 0} \cup {Id(n + 1)}
      BY <1>1, <1>5, <1>7
    <3>2. {Id(i) : i \in open'} = {Id(i) : i \in open} \cup {Id(n + 1)}
      BY <1>7
    <3> QED BY <1>1, <1>3, <3>1, <3>2 DEF HeldOrLeaked
  <2>3. HeldOrLeaked'
    BY <1>1, <1>3, <1>5, <1>7, <2>1, <2>2 DEF HeldOrLeaked, Underway, setting, Is
  <2>4. SuiteTypeOK'
    BY <1>1, <1>3, <1>5, <1>7, <2>1 DEF SuiteInv, SuiteTypeOK, Underway, setting, Severities
  <2> QED BY <1>3, <2>1, <2>3, <2>4, UnderwayKeepsRoster
          DEF SuiteInv, Underway, NothingHeldBetweenChecks
<1> QED BY <1>4, <1>6, <1>7

\* A cleanup lets go of its sandbox by removing it, or by recording that it
\* could not; a second cleanup of the same sandbox changes nothing.
LEMMA RemovedKeepsInv ==
  ASSUME SuiteInv, Underway, NEW j \in 1 .. Len(boxes), Removed(j), open' = open \ {j},
         UNCHANGED <<boxes, cur>>
  PROVE  SuiteInv'
<1>1. /\ HeldOrLeaked /\ Len(boxes) \in Nat /\ BoxesAreAList
      /\ \A i \in open : i \in 1 .. Len(boxes) /\ Id(i) \in alive
  BY DEF SuiteInv, SuiteTypeOK, BoxesAreAList
<1>2. \A i : Id(i)' = Id(i) /\ Id(i)[3] = i
  BY DEF Underway, Id
<1>3. /\ {s \in alive' : s[3] # 0} = leaked' \cup {Id(i) : i \in open'}
      /\ \A i \in open' : Id(i) \in alive'
      /\ leaked' # {} => Is("rm-fails")
      /\ Is("rm-fails") => alive' = alive
  <2>1. CASE Is("rm-fails")
    <3>1. leaked' = leaked \cup {Id(j)} /\ alive' = alive
      BY <2>1 DEF Removed
    <3>2. Id(j) \in alive /\ Id(j)[3] # 0
      BY <1>1, <1>2, <2>1 DEF HeldOrLeaked
    <3>3. leaked' \cup {Id(i) : i \in open'} = leaked \cup {Id(i) : i \in open} \cup {Id(j)}
      BY <3>1
    <3> QED BY <1>1, <2>1, <3>1, <3>2, <3>3 DEF HeldOrLeaked
  <2>2. CASE ~Is("rm-fails")
    <3>1. leaked' = leaked /\ alive' = alive \ {Id(j)} /\ leaked = {}
      BY <1>1, <2>2 DEF Removed, HeldOrLeaked
    <3>2. \A i \in open' : i # j /\ Id(i) # Id(j)
      BY <1>2
    <3>3. {Id(i) : i \in open'} = {Id(i) : i \in open} \ {Id(j)}
      BY <3>2
    <3> QED BY <1>1, <2>2, <3>1, <3>2, <3>3 DEF HeldOrLeaked
  <2> QED BY <2>1, <2>2
<1>4. HeldOrLeaked'
  BY <1>1, <1>2, <1>3 DEF HeldOrLeaked, Underway, setting, Is
<1>5. SuiteTypeOK'
  BY <1>1, <1>2, <1>3 DEF SuiteInv, SuiteTypeOK, Underway, setting, Severities
<1>6. BoxesAreAList' /\ NothingHeldBetweenChecks'
  BY <1>1 DEF BoxesAreAList, NothingHeldBetweenChecks, Underway
<1> QED BY <1>4, <1>5, <1>6, UnderwayKeepsRoster DEF SuiteInv

\* The cleanups called in the body of a check and the deferred ones.
LEMMA RemoveKeepsInv == SuiteInv /\ (DoRemove \/ RemoveOne) => SuiteInv'
<1> SUFFICES ASSUME SuiteInv, DoRemove \/ RemoveOne PROVE SuiteInv'
  OBVIOUS
<1>1. CASE DoRemove
  <2>1. pc = "step" /\ cur \in 0 .. Len(boxes) /\ Len(boxes) \in Nat /\ BoxesAreAList
    BY <1>1 DEF DoRemove, Playing, SuiteInv, SuiteTypeOK, BoxesAreAList
  <2>2. Underway /\ UNCHANGED <<boxes, cur>>
    <3>1. "Fail" \in Severities /\ Conclude(TRUE, "Fail", FALSE)
      BY <1>1 DEF DoRemove, Severities
    <3>2. pc' \in {"step", "defer"} /\ findings' \subseteq Severities
      BY <2>1, <3>1, ConcludeIsUnderway
    <3> QED BY <1>1, <2>1, <3>2 DEF DoRemove, Underway, Elsewhere
  <2>3. CASE cur = 0
    BY <1>1, <2>1, <2>2, <2>3, ReadingKeepsInv DEF DoRemove, BoxesAreAList
  <2>4. CASE cur # 0
    <3>1. cur \in 1 .. Len(boxes) /\ Removed(cur) /\ open' = open \ {cur}
      BY <1>1, <2>1, <2>4 DEF DoRemove
    <3> QED BY <2>2, <3>1, RemovedKeepsInv
  <2> QED BY <2>3, <2>4
<1>2. CASE RemoveOne
  <2>1. PICK i \in open : open' = open \ {i} /\ Removed(i)
    BY <1>2 DEF RemoveOne
  <2>2. i \in 1 .. Len(boxes)
    BY DEF SuiteInv, SuiteTypeOK
  <2>3. Underway /\ UNCHANGED <<boxes, cur>>
    BY <1>2 DEF RemoveOne, Underway, SuiteInv, SuiteTypeOK, Severities
  <2> QED BY <2>1, <2>2, <2>3, RemovedKeepsInv
<1> QED BY <1>1, <1>2

-----------------------------------------------------------------------------
(* The runner between checks.                                              *)

\* A step of the runner that leaves the sandboxes alone, with none in hand
\* before and after.
LEMMA EmptyHanded ==
  ASSUME HeldOrLeaked, open = {}, open' = {}, boxes' = <<>>, cur' = 0,
         UNCHANGED <<setting, alive, leaked>>
  PROVE  HeldOrLeaked' /\ BoxesAreAList' /\ NothingHeldBetweenChecks'
<1>1. Len(boxes') = 0
  BY EmptySeq
<1>2. HeldOrLeaked'
  BY <1>1 DEF HeldOrLeaked, setting, Is
<1>3. BoxesAreAList'
  BY <1>1 DEF BoxesAreAList
<1> QED BY <1>2, <1>3 DEF NothingHeldBetweenChecks

\* A check that does not apply is accounted for.
LEMMA SkipKeepsInv == SuiteInv /\ SkipUnclaimed => SuiteInv'
<1> SUFFICES ASSUME SuiteInv, SkipUnclaimed PROVE SuiteInv'
  OBVIOUS
<1> USE DEF SkipUnclaimed, Gated, script, setting
<1>1. /\ open = {} /\ boxes = <<>> /\ cur = 0 /\ HeldOrLeaked
      /\ selected \in Seq(STRING) /\ Len(selected) \in Nat /\ now \in 1 .. Len(selected)
      /\ roster = SubSeq(selected, 1, now - 1)
  <2>1. selected \in Seq(STRING) /\ Len(selected) \in Nat
    BY LenProperties DEF SuiteInv, RosterSoFar
  <2> QED BY <2>1 DEF SuiteInv, SuiteTypeOK, NothingHeldBetweenChecks, RosterSoFar
<1>2. HeldOrLeaked' /\ BoxesAreAList' /\ NothingHeldBetweenChecks'
  BY <1>1, EmptyHanded
<1>3. roster' = SubSeq(selected, 1, now) /\ roster' \in Seq(STRING)
  BY <1>1, RosterGrows
<1>4. Len(boxes) = 0
  BY <1>1, EmptySeq
<1>5. SuiteTypeOK'
  BY <1>1, <1>4 DEF SuiteInv, SuiteTypeOK
<1>6. RosterSoFar'
  <2>1. now' - 1 = now
    BY <1>1
  <2> QED BY <1>1, <1>3, <2>1 DEF SuiteInv, RosterSoFar
<1> QED BY <1>2, <1>5, <1>6 DEF SuiteInv, RemovedOrReported, EveryCheckAccounted, NothingLeakedYet

\* A leg starts with nothing in hand.
LEMMA NextLegKeepsInv == SuiteInv /\ NextLeg => SuiteInv'
<1> SUFFICES ASSUME SuiteInv, NextLeg PROVE SuiteInv'
  OBVIOUS
<1> USE DEF NextLeg, setting
<1>1. HeldOrLeaked /\ open = {}
  BY DEF SuiteInv
<1>2. HeldOrLeaked' /\ BoxesAreAList'
  BY <1>1, EmptyHanded
<1>3. Len(boxes') = 0
  BY EmptySeq
<1>4. SuiteTypeOK'
  BY <1>1, <1>3 DEF SuiteInv, SuiteTypeOK
<1>5. RosterSoFar' /\ NothingHeldBetweenChecks'
  BY DEF SuiteInv, RosterSoFar, NothingHeldBetweenChecks
<1> QED BY <1>2, <1>4, <1>5 DEF SuiteInv, RemovedOrReported, EveryCheckAccounted, NothingLeakedYet

\* A check ends with nothing in hand, and is accounted for.
LEMMA EndCheckKeepsInv == SuiteInv /\ EndCheck => SuiteInv'
<1> SUFFICES ASSUME SuiteInv, EndCheck PROVE SuiteInv'
  OBVIOUS
<1> USE DEF EndCheck, Judged, setting
<1>1. /\ open = {} /\ HeldOrLeaked
      /\ selected \in Seq(STRING) /\ Len(selected) \in Nat /\ now \in 1 .. Len(selected)
      /\ roster = SubSeq(selected, 1, now - 1) /\ result # "nil"
  <2>1. selected \in Seq(STRING) /\ Len(selected) \in Nat
    BY LenProperties DEF SuiteInv, RosterSoFar
  <2> QED BY <2>1 DEF SuiteInv, SuiteTypeOK, RosterSoFar
<1>2. HeldOrLeaked' /\ BoxesAreAList' /\ NothingHeldBetweenChecks'
  BY <1>1, EmptyHanded
<1>3. roster' = SubSeq(selected, 1, now) /\ roster' \in Seq(STRING)
  BY <1>1, RosterGrows
<1>4. Len(boxes') = 0
  BY EmptySeq
<1>5. SuiteTypeOK'
  BY <1>1, <1>4 DEF SuiteInv, SuiteTypeOK
<1>6. RosterSoFar'
  <2>1. now' - 1 = now
    BY <1>1
  <2> QED BY <1>1, <1>3, <2>1 DEF RosterSoFar
<1> QED BY <1>2, <1>5, <1>6 DEF SuiteInv, RemovedOrReported, EveryCheckAccounted, NothingLeakedYet

\* The run begins, or fails at its first question with nothing to give back.
LEMMA AskKeepsInv == SuiteInv /\ AskCapabilities => SuiteInv'
<1> SUFFICES ASSUME SuiteInv, AskCapabilities PROVE SuiteInv'
  OBVIOUS
<1> USE DEF AskCapabilities, setting, script
<1>1. /\ open = {} /\ boxes = <<>> /\ cur = 0 /\ leaked = {} /\ result # "nil"
      /\ {s \in alive : s[3] # 0} = {}
  BY DEF SuiteInv, HeldOrLeaked, NothingHeldBetweenChecks, NothingLeakedYet, RosterSoFar
<1>2. HeldOrLeaked' /\ BoxesAreAList' /\ NothingHeldBetweenChecks'
  BY <1>1, EmptyHanded DEF SuiteInv
<1>3. SuiteTypeOK'
  BY <1>1 DEF SuiteInv, SuiteTypeOK
<1>4. RosterSoFar' /\ RemovedOrReported' /\ EveryCheckAccounted' /\ NothingLeakedYet'
  BY <1>1 DEF SuiteInv, RosterSoFar, RemovedOrReported, EveryCheckAccounted, NothingLeakedYet
<1> QED BY <1>2, <1>3, <1>4 DEF SuiteInv

\* A check starts, or there is none left.
LEMMA StartOrFinishKeepsInv == SuiteInv /\ (StartCheck \/ Finish) => SuiteInv'
<1> SUFFICES ASSUME SuiteInv, StartCheck \/ Finish PROVE SuiteInv'
  OBVIOUS
<1> USE DEF StartCheck, Finish, setting, script
<1>1. /\ open = {} /\ boxes = <<>> /\ cur = 0 /\ result # "nil"
      /\ Len(selected) \in Nat /\ now \in 1 .. Len(selected) + 1
  <2>1. Len(selected) \in Nat
    BY LenProperties DEF SuiteInv, RosterSoFar
  <2> QED BY <2>1 DEF SuiteInv, SuiteTypeOK, NothingHeldBetweenChecks, RosterSoFar
<1>2. HeldOrLeaked' /\ BoxesAreAList' /\ NothingHeldBetweenChecks'
  BY <1>1, EmptyHanded DEF SuiteInv
<1>3. SuiteTypeOK'
  BY <1>1 DEF SuiteInv, SuiteTypeOK
<1>4. RosterSoFar' /\ RemovedOrReported' /\ EveryCheckAccounted' /\ NothingLeakedYet'
  BY <1>1 DEF SuiteInv, RosterSoFar, RemovedOrReported, EveryCheckAccounted, NothingLeakedYet
<1> QED BY <1>2, <1>3, <1>4 DEF SuiteInv

\* The run returns, and reports what it could not remove.
LEMMA ReturnKeepsInv == SuiteInv /\ Return => SuiteInv'
<1> SUFFICES ASSUME SuiteInv, Return PROVE SuiteInv'
  OBVIOUS
<1> USE DEF Return, setting, script
<1>1. /\ open = {} /\ boxes = <<>> /\ cur = 0 /\ HeldOrLeaked
      /\ selected \in Seq(STRING) /\ roster \in Seq(STRING)
      /\ roster = SubSeq(selected, 1, now - 1)
      /\ Len(selected) \in Nat
      /\ result = "nil" => now = Len(selected) + 1
  <2>1. selected \in Seq(STRING) /\ Len(selected) \in Nat
    BY LenProperties DEF SuiteInv, RosterSoFar
  <2> QED BY <2>1 DEF SuiteInv, NothingHeldBetweenChecks, RosterSoFar
<1>2. HeldOrLeaked' /\ BoxesAreAList' /\ NothingHeldBetweenChecks'
  BY <1>1, EmptyHanded
<1>3. SuiteTypeOK'
  BY <1>1 DEF SuiteInv, SuiteTypeOK
<1>4. RemovedOrReported' /\ NothingLeakedYet'
  BY <1>1 DEF HeldOrLeaked, RemovedOrReported, NothingLeakedYet, Is
<1>5. roster' = roster \o (IF leaked = {} THEN <<>> ELSE <<"cleanup">>)
  <2>1. CASE leaked = {}
    BY <1>1, <2>1, ConcatEmptySeq
  <2>2. CASE leaked # {}
    <3> DEFINE S == STRING \cup {"cleanup"}
    <3>1. roster' = Append(roster, "cleanup")
      BY <2>2
    <3>2. roster \in Seq(S) /\ "cleanup" \in S
      BY <1>1, SeqMonotonic
    <3> HIDE DEF S
    <3>3. Append(roster, "cleanup") = roster \o <<"cleanup">>
      BY <3>2, AppendIsConcat
    <3> QED BY <2>2, <3>1, <3>3
  <2> QED BY <2>1, <2>2
<1>6. EveryCheckAccounted'
  <2> SUFFICES ASSUME result = "nil"
               PROVE  roster' = selected \o (IF leaked = {} THEN <<>> ELSE <<"cleanup">>)
    BY DEF EveryCheckAccounted
  <2>1. now - 1 = Len(selected)
    BY <1>1
  <2>2. roster = selected
    BY <1>1, <2>1, SubSeqFull
  <2> QED BY <1>5, <2>2
<1>7. RosterSoFar'
  BY <1>1, <1>5 DEF SuiteInv, RosterSoFar
<1> QED BY <1>2, <1>3, <1>4, <1>6, <1>7 DEF SuiteInv

\* The deadline expires, or the body of a leg returns: nothing else changes.
LEMMA PassingKeepsInv == SuiteInv /\ (Expire \/ LegReturns \/ UNCHANGED vars) => SuiteInv'
<1> SUFFICES ASSUME SuiteInv, Expire \/ LegReturns \/ UNCHANGED vars PROVE SuiteInv'
  OBVIOUS
<1>1. /\ UNCHANGED <<setting, now, script, report, roster, result, alive, leaked>>
      /\ pc' = pc \/ (pc = "step" /\ pc' = "defer")
  BY DEF Expire, LegReturns, vars
<1>2. SuiteTypeOK' /\ BoxesAreAList'
  BY <1>1 DEF SuiteInv, SuiteTypeOK, BoxesAreAList, setting, script, Id
<1>3. HeldOrLeaked' /\ NothingHeldBetweenChecks' /\ NothingLeakedYet'
  BY <1>1 DEF SuiteInv, HeldOrLeaked, NothingHeldBetweenChecks, NothingLeakedYet, setting,
     script, Id, Is
<1>4. RosterSoFar' /\ EveryCheckAccounted'
  BY <1>1 DEF SuiteInv, RosterSoFar, EveryCheckAccounted, setting
<1>5. RemovedOrReported'
  BY <1>1 DEF SuiteInv, RemovedOrReported, setting, Is
<1> QED BY <1>2, <1>3, <1>4, <1>5 DEF SuiteInv

-----------------------------------------------------------------------------
(* The theorems.                                                           *)

\* A sandbox is always in somebody's hands, and the roster holds the checks so
\* far: whatever the scripts do, the runtime answers and the deadline is.
THEOREM RunnerInvariant == Spec => []SuiteInv
<1>1. SuiteInv /\ [Next]_vars => SuiteInv'
  BY AskKeepsInv, SkipKeepsInv, StartOrFinishKeepsInv, NextLegKeepsInv, EndCheckKeepsInv,
     ReturnKeepsInv, CreateKeepsInv, PlayingKeepsInv, RemoveKeepsInv, PassingKeepsInv,
     WorkloadKeepsInv DEF Next, Run
<1> QED BY <1>1, SuiteInitInv, PTL DEF Spec

\* In particular a deferred cleanup holds a sandbox that exists.
THEOREM RunnerTypes == Spec => []SuiteTypeOK
<1>1. SuiteInv => SuiteTypeOK
  BY DEF SuiteInv
<1> QED BY <1>1, RunnerInvariant, PTL

\* When the run returns, each sandbox whose id was learned is gone or reported:
\* for every list of checks, also those not written yet.
THEOREM NothingLeaksSilently == Spec => []RemovedOrReported
<1>1. SuiteInv => RemovedOrReported
  BY DEF SuiteInv
<1> QED BY <1>1, RunnerInvariant, PTL

\* A run that returns nil has accounted for each selected check, once and in order.
THEOREM RosterIsComplete == Spec => []EveryCheckAccounted
<1>1. SuiteInv => EveryCheckAccounted
  BY DEF SuiteInv
<1> QED BY <1>1, RunnerInvariant, PTL
=============================================================================

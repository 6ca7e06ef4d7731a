------------------------------ MODULE Versions ------------------------------
(***************************************************************************)
(* Versions and version constraints (spec/version.go): how a requires      *)
(* entry is accepted at parse and rendered in its canonical form.          *)
(*                                                                         *)
(* A version is a nonempty sequence of segments whose first is a number.   *)
(* Of a segment the code reads three things: whether it is all digits and  *)
(* then its value, its place in byte order, and its spelling without       *)
(* leading zeros.  The segment a shorter version is padded with, "", is no *)
(* number and comes first in byte order.                                   *)
(***************************************************************************)
EXTENDS Integers, Sequences, FiniteSets

CONSTANTS
  Segment,        \* segments a version can be written with
  Value,          \* Value[s]: the number s spells, or NotNumber
  NotNumber,
  Lex,            \* Lex[s]: the place of s in byte order; that of "" is 0
  Trimmed,        \* Trimmed[s]: s without leading zeros, when it is a number
  Zero, Dash,     \* the segments "0" and "-"
  Unversioned,    \* no version
  MaxEntries,     \* entries read one after the other
  Written,        \* Written[n]: the constraint lists the n-th can have
  Probe,          \* the versions by which meanings are told apart
  NoBound

Numeric(s) == Value[s] # NotNumber

ASSUME SegmentsAssumption ==
  /\ {Zero, Dash} \subseteq Segment
  /\ Value \in [Segment -> Nat \cup {NotNumber}] /\ NotNumber \notin Nat
  /\ Lex \in [Segment -> Nat \ {0}]
  /\ \A s, t \in Segment : Lex[s] = Lex[t] => s = t
  /\ Value[Zero] = 0 /\ ~Numeric(Dash)
  /\ \A s \in Segment : Lex[Dash] <= Lex[s]
ASSUME TrimmingAssumption ==
  /\ Trimmed \in [Segment -> Segment]
  /\ \A s \in Segment : Value[Trimmed[s]] = Value[s]
  /\ \A s \in Segment : ~Numeric(s) => Trimmed[s] = s
  /\ \A s, t \in Segment :
       Numeric(s) /\ Value[s] = Value[t] => Trimmed[s] = Trimmed[t]

IsVersion(v) == v \in Seq(Segment) /\ v # <<>> /\ Numeric(v[1])
Op == {">=", ">", "<=", "<", "="}
Constraints == [op : Op, version : Seq(Segment)]
IsConstraint(c) == c \in Constraints /\ IsVersion(c.version)
Constraint(op, v) == [op |-> op, version |-> v]

\* The smallest version above v.
NextVersion(v) == Append(v, Dash)

ASSUME EntriesAssumption ==
  /\ MaxEntries \in Nat \ {0} /\ DOMAIN Written = 1..MaxEntries
  /\ \A n \in 1..MaxEntries : \A w \in Written[n] :
       w \in Seq(Constraints) /\ \A k \in DOMAIN w : IsConstraint(w[k])
  /\ NoBound \notin Constraints
\* The probes are versions, among them the ends of every range that is written.
ASSUME ProbeAssumption ==
  /\ (\A v \in Probe : IsVersion(v)) /\ Unversioned \notin Probe
  /\ <<Zero>> \in Probe
  /\ \A n \in 1..MaxEntries : \A w \in Written[n] : \A k \in DOMAIN w :
       {w[k].version, NextVersion(w[k].version)} \subseteq Probe

-----------------------------------------------------------------------------
(* Comparison. *)

Sign(n) == IF n < 0 THEN -1 ELSE IF n > 0 THEN 1 ELSE 0

\* Two segments at one position: by value when both are numbers, else by
\* bytes.
SegmentOrder(v, w, k) ==
  LET place(x) == IF k \in DOMAIN x THEN Lex[x[k]] ELSE 0
      number(x) == k \in DOMAIN x /\ Numeric(x[k])
  IN IF number(v) /\ number(w) THEN Sign(Value[v[k]] - Value[w[k]])
                               ELSE Sign(place(v) - place(w))

\* The first position at which they differ decides.
CompareVersions(v, w) ==
  LET differ == {k \in DOMAIN v \cup DOMAIN w : SegmentOrder(v, w, k) # 0}
  IN IF differ = {} THEN 0
     ELSE SegmentOrder(v, w, CHOOSE k \in differ : \A j \in differ : k <= j)

ConstraintHolds(v, c) ==
  LET cmp == CompareVersions(v, c.version)
  IN CASE c.op = ">=" -> cmp >= 0
       [] c.op = ">"  -> cmp > 0
       [] c.op = "<=" -> cmp <= 0
       [] c.op = "<"  -> cmp < 0
       [] c.op = "="  -> cmp = 0

\* A constraint never matches a provide that declares no version.
Satisfies(v, w) ==
  w # <<>> => v # Unversioned /\ \A k \in DOMAIN w : ConstraintHolds(v, w[k])

\* What a list of constraints means: the provided versions that satisfy it.
Meaning(w) == {v \in Probe \cup {Unversioned} : Satisfies(v, w)}

\* Whether lower bound c replaces lo, and upper bound c replaces hi: a
\* tighter version, or the same one excluded where it was included.
TightensLo(c, lo) ==
  LET cmp == CompareVersions(c.version, lo.version)
  IN cmp > 0 \/ (cmp = 0 /\ c.op = ">" /\ lo.op # ">")
TightensHi(c, hi) ==
  hi = NoBound \/ LET cmp == CompareVersions(c.version, hi.version)
                  IN cmp < 0 \/ (cmp = 0 /\ c.op = "<" /\ hi.op # "<")

\* Mutant: the endpoints are compared as written.
InvertedByEndpoints(lo, hi) ==
  LET cmp == CompareVersions(lo.version, hi.version)
  IN cmp > 0 \/ (cmp = 0 /\ (lo.op = ">" \/ hi.op = "<"))
\* Mutant: bounds that meet are taken for inverted.
InvertedWhenMeeting(lo, hi) ==
  CompareVersions(IF lo.op = ">" THEN NextVersion(lo.version) ELSE lo.version, hi.version) >= 0

\* A lower bound above, or exclusively equal to, an upper bound; an
\* exclusive lower bound admits the next version.
Inverted(lo, hi) ==
  LET cmp == CompareVersions(IF lo.op = ">" THEN NextVersion(lo.version) ELSE lo.version,
                             hi.version)
  IN cmp > 0 \/ (cmp = 0 /\ hi.op = "<")

\* Mutant: any exclusive upper bound is cut at its last segment.
NormalizeEveryUpper(c) ==
  LET last == Len(c.version)
  IN IF c.op = ">" THEN Constraint(">=", NextVersion(c.version))
     ELSE IF c.op = "<" /\ last > 1
          THEN Constraint("<=", SubSeq(c.version, 1, last - 1))
          ELSE c

\* An exclusive bound as the inclusive bound it equals, where it has one.
Normalize(c) ==
  LET last == Len(c.version)
  IN IF c.op = ">" THEN Constraint(">=", NextVersion(c.version))
     ELSE IF c.op = "<" /\ c.version[last] = Dash
          THEN Constraint("<=", SubSeq(c.version, 1, last - 1))
          ELSE c

\* Mutant: leading zeros stay.
CanonicalVersionAsWritten(v) == v

\* Leading zeros are stripped from the segments that are numbers.
CanonicalVersion(v) == [k \in DOMAIN v |-> Trimmed[v[k]]]

\* What the simplified bounds render as; bounds that meet are a pin.  The
\* rendering is sorted, so it is a set.
Rendered(lo, hi) ==
  LET bounds == {lo, hi} \ {NoBound}
      meet == /\ lo # NoBound /\ hi # NoBound /\ lo.op = ">=" /\ hi.op = "<="
              /\ CompareVersions(lo.version, hi.version) = 0
      kept == IF meet THEN {Constraint("=", lo.version)} ELSE bounds
  IN {Constraint(c.op, CanonicalVersion(c.version)) : c \in kept}

-----------------------------------------------------------------------------
(* Reading an entry: ParseRequire, with its check that some version can    *)
(* meet the constraints, then CanonicalRequire.                            *)

VARIABLES
  pc,     \* where the reading of the current entry stands
  cs,     \* the constraints as written
  i,      \* the next constraint of the running loop
  pin,    \* the pin the first loop last met, or NoBound
  lo, hi, \* the bounds of the running scan, or NoBound
  done    \* the entries read so far, each with its canonical form
vars == <<pc, cs, i, pin, lo, hi, done>>

Init ==
  /\ pc = "idle" /\ cs = <<>> /\ i = 1
  /\ pin = NoBound /\ lo = NoBound /\ hi = NoBound /\ done = {}

\* The next entry of the relation.
Start ==
  /\ pc = "idle" /\ Cardinality(done) < MaxEntries
  /\ cs' \in {w \in Written[Cardinality(done) + 1] : \A e \in done : e.written # w}
  /\ pc' = IF cs' = <<>> THEN "simplify" ELSE "pins"
  /\ i' = 1 /\ pin' = NoBound /\ lo' = NoBound /\ hi' = NoBound
  /\ UNCHANGED done

\* The first loop: pins that differ refuse the entry.
ScanPin ==
  /\ pc = "pins" /\ i <= Len(cs)
  /\ LET clash == pin # NoBound /\ CompareVersions(pin.version, cs[i].version) # 0
     IN IF cs[i].op # "=" THEN pc' = pc /\ pin' = pin
        ELSE IF clash THEN pc' = "refused" /\ pin' = pin
        ELSE pc' = pc /\ pin' = cs[i]
  /\ i' = i + 1 /\ UNCHANGED <<cs, lo, hi, done>>
\* A pin must hold every constraint; with none the bounds are scanned, from
\* the floor of the grammar, the inclusive lower bound 0.
AfterPins ==
  /\ pc = "pins" /\ i > Len(cs)
  /\ IF pin # NoBound
     THEN /\ pc' = IF \A k \in DOMAIN cs : ConstraintHolds(pin.version, cs[k])
                   THEN "simplify" ELSE "refused"
          /\ lo' = NoBound
     ELSE pc' = "bounds" /\ lo' = Constraint(">=", <<Zero>>)
  /\ i' = 1 /\ hi' = NoBound /\ UNCHANGED <<cs, pin, done>>

ScanBound ==
  /\ pc = "bounds" /\ i <= Len(cs)
  /\ lo' = IF cs[i].op \in {">=", ">"} /\ TightensLo(cs[i], lo) THEN cs[i] ELSE lo
  /\ hi' = IF cs[i].op \in {"<=", "<"} /\ TightensHi(cs[i], hi) THEN cs[i] ELSE hi
  /\ i' = i + 1 /\ UNCHANGED <<pc, cs, pin, done>>

\* The verdict; simplification starts again from the list as written.
AfterBounds ==
  /\ pc = "bounds" /\ i > Len(cs)
  /\ pc' = IF hi # NoBound /\ Inverted(lo, hi) THEN "refused" ELSE "simplify"
  /\ i' = 1 /\ lo' = NoBound /\ hi' = NoBound /\ UNCHANGED <<cs, pin, done>>

Finish(form) ==
  /\ pc' = "idle" /\ done' = done \cup {[written |-> cs, form |-> form]}
  /\ cs' = <<>> /\ i' = 1 /\ pin' = NoBound /\ lo' = NoBound /\ hi' = NoBound

\* A pin answers everything: the first one written is rendered alone.
RenderPin ==
  /\ pc = "simplify" /\ \E k \in DOMAIN cs : cs[k].op = "="
  /\ LET first == CHOOSE k \in DOMAIN cs :
                    cs[k].op = "=" /\ \A j \in 1..(k - 1) : cs[j].op # "="
     IN Finish({Constraint("=", CanonicalVersion(cs[first].version))})

\* One normalized constraint of the second scan, which has no floor.
ScanNormalized ==
  /\ pc = "simplify" /\ i <= Len(cs) /\ \A k \in DOMAIN cs : cs[k].op # "="
  /\ LET c == Normalize(cs[i])
     IN /\ lo' = IF c.op = ">=" /\ (lo = NoBound \/ TightensLo(c, lo)) THEN c ELSE lo
        /\ hi' = IF c.op \in {"<=", "<"} /\ TightensHi(c, hi) THEN c ELSE hi
  /\ i' = i + 1 /\ UNCHANGED <<pc, cs, pin, done>>

RenderBounds ==
  /\ pc = "simplify" /\ i > Len(cs) /\ \A k \in DOMAIN cs : cs[k].op # "="
  /\ Finish(Rendered(lo, hi))

Next == \/ Start \/ ScanPin \/ AfterPins \/ ScanBound \/ AfterBounds
        \/ RenderPin \/ ScanNormalized \/ RenderBounds

Spec == Init /\ [][Next]_vars

-----------------------------------------------------------------------------
(* Properties. *)

\* Type invariant of reading an entry (spec/version.go, ParseRequire,
\* CanonicalRequire): what is in hand is a bound or nothing, the index within
\* its list, every canonical form made of constraints. A part of VInv.
IsBound(b) == b = NoBound \/ IsConstraint(b)
VTypeOK ==
  /\ pc \in {"idle", "pins", "bounds", "simplify", "refused"}
  /\ \A k \in DOMAIN cs : IsConstraint(cs[k])
  /\ i \in 1..(Len(cs) + 1)
  /\ IsBound(pin) /\ IsBound(lo) /\ IsBound(hi)
  /\ \A e \in done : \A c \in e.form : IsConstraint(c)

Admitted(w) == {v \in Probe : Satisfies(v, w)}

\* checkConstraintsSatisfiable "rejects constraint sets no version can
\* meet": an entry that is refused at parse could never have resolved.
RefusedIsUnsatisfiable == pc = "refused" => Admitted(cs) = {}

\* "A kit cannot publish a require that can never resolve": some version
\* meets every entry that is accepted.
AcceptedIsSatisfiable == pc = "simplify" => Admitted(cs) # {}

\* CanonicalRequire renders what the entry says: the canonical form admits
\* exactly the provides the written constraints admit, so two entries with
\* one rendering never mean different things.
AllHold(v, form) == form # {} => v # Unversioned /\ \A c \in form : ConstraintHolds(v, c)
CanonicalKeepsMeaning ==
  \A e \in done : \A v \in Probe \cup {Unversioned} :
    Satisfies(v, e.written) <=> AllHold(v, e.form)

\* The comment of CanonicalRequire: "two entries meaning the same thing
\* compare equal however they were written".
CanonicalIsUnique ==
  \A e, f \in done : e.form # f.form => Meaning(e.written) # Meaning(f.written)

\* CanonicalRequire has one rendering per meaning among the entries that
\* agree on whether they write down a lower end (a pin or a lower bound),
\* whatever the order, redundancy, zeros or exclusive bounds they use.
HasFloor(w) == \E k \in DOMAIN w : w[k].op \in {"=", ">=", ">"}
CanonicalIsUniqueAboveAFloor ==
  \A e, f \in done :
    (HasFloor(e.written) <=> HasFloor(f.written)) /\ e.form # f.form
      => Meaning(e.written) # Meaning(f.written)

-----------------------------------------------------------------------------
(* The inductive invariant behind these: what each loop has found so far   *)
(* means what the constraints it has read mean.                            *)

\* One segment after the other: by value, or by bytes where one is no number.
\* Where the two orders disagree the comparison has cycles (2 < 10 by value,
\* 10 < 1a < 2 by bytes) and no bound can be trusted; this says that there
\* are none among the segments in use.
Order(s, t) == IF Numeric(s) /\ Numeric(t) THEN Sign(Value[s] - Value[t])
                                          ELSE Sign(Lex[s] - Lex[t])
OrderIsTransitive ==
  \A s, t, u \in Segment : Order(s, t) <= 0 /\ Order(t, u) <= 0 => Order(s, u) <= 0

Lower == {">=", ">"}
Upper == {"<=", "<"}
Within(v, b) == b = NoBound \/ ConstraintHolds(v, b)
Read(v) == \A k \in 1..(i - 1) : ConstraintHolds(v, cs[k])
HasPin == \E k \in DOMAIN cs : cs[k].op = "="

Reading ==
  /\ cs \in Seq(Constraints) /\ IsFiniteSet(done)
  /\ pc # "idle" => \E n \in 1..MaxEntries : cs \in Written[n]

\* The pin in hand was read, and there is one if one was.
PinsSoFar ==
  /\ pin # NoBound => pin.op = "=" /\ \E k \in DOMAIN cs : cs[k] = pin
  /\ pc = "pins" => \A k \in 1..(i - 1) : cs[k].op = "=" => pin # NoBound
  /\ pc = "bounds" => ~HasPin
  /\ pc = "simplify" /\ HasPin =>
       pin # NoBound /\ \A k \in DOMAIN cs : ConstraintHolds(pin.version, cs[k])

\* The bounds in hand are bounds, and admit what the constraints read admit.
BoundsSoFar ==
  /\ lo # NoBound => lo.op \in Lower
  /\ hi # NoBound => hi.op \in Upper
  /\ pc = "bounds" =>
       /\ lo = Constraint(">=", <<Zero>>) \/ \E k \in DOMAIN cs : cs[k] = lo
       /\ \A v \in Probe : Read(v) <=> ConstraintHolds(v, lo) /\ Within(v, hi)
  /\ pc = "simplify" /\ ~HasPin =>
       /\ lo # NoBound => lo.op = ">="
       /\ i > 1 <=> lo # NoBound \/ hi # NoBound
       /\ \A v \in Probe : Read(v) <=> Within(v, lo) /\ Within(v, hi)

VInv ==
  /\ VTypeOK /\ Reading /\ PinsSoFar /\ BoundsSoFar
  /\ RefusedIsUnsatisfiable /\ AcceptedIsSatisfiable /\ CanonicalKeepsMeaning

\* For CanonicalIsUniqueAboveAFloor: the bounds that simplifyConstraints keeps
\* end at probes, the upper ones just below one, and there is a lower one when
\* one was read; every form is the rendering of two such ends.
LowerEnds == {NoBound} \cup {Constraint(">=", v) : v \in Probe}
UpperEnds == {NoBound} \cup {Normalize(Constraint("<", v)) : v \in Probe}
EndsSoFar ==
  pc = "simplify" /\ ~HasPin =>
    /\ lo \in LowerEnds /\ hi \in UpperEnds
    /\ lo # NoBound <=> \E k \in 1..(i - 1) : cs[k].op \in Lower
FormsAreRanges ==
  \A e \in done :
    /\ Admitted(e.written) # {}
    /\ \E b \in LowerEnds : \E c \in UpperEnds :
         (b # NoBound <=> HasFloor(e.written)) /\ e.form = Rendered(b, c)

FormInv == VInv /\ EndsSoFar /\ FormsAreRanges
=============================================================================

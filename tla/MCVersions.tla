----------------------------- MODULE MCVersions -----------------------------
(***************************************************************************)
(* Instances of Versions for TLC.  Segments are the strings they spell.    *)
(***************************************************************************)
EXTENDS Versions

\* Spellings, values and byte order; 00 is 0 with a leading zero.
Spellings == {"-", "0", "00", "1", "a"}
ValueOf == [s \in Spellings |-> CASE s \in {"0", "00"} -> 0 [] s = "1" -> 1 [] OTHER -> NotNumber]
LexOf == [s \in Spellings |-> CASE s = "-" -> 1 [] s = "0" -> 2 [] s = "00" -> 3
                                [] s = "1" -> 4 [] s = "a" -> 5]
TrimmedOf == [s \in Spellings |-> IF s = "00" THEN "0" ELSE s]

\* Versions of n segments over S.
Of(S, n) == {v \in [1..n -> S] : Numeric(v[1])}
Lists(V, lengths) == UNION {[1..n -> {Constraint(op, v) : op \in Op, v \in V}] : n \in lengths}

\* First a list of up to two constraints on neighbouring versions, or of
\* three on two of them; then one of up to one constraint.
Neighbours == {<<"0">>, <<"00">>, <<"1">>, <<"0", "-">>, <<"0", "0">>, <<"0", "a">>,
               <<"1", "-">>, <<"0", "-", "-">>}
RulesWritten == << Lists(Neighbours, 0..2) \cup Lists({<<"0">>, <<"0", "-">>}, {3}),
                   Lists({<<"0">>, <<"1">>, <<"0", "-">>, <<"00", "-">>}, 0..1) >>
RulesProbe == UNION {Of({"-", "0", "a"}, n) : n \in 1..3}
                \cup {<<"0", "-", "-", "-">>, <<"00">>, <<"00", "-">>, <<"00", "-", "-">>,
                      <<"1">>, <<"1", "-">>, <<"1", "-", "-">>, <<"1", "-", "0">>, <<"1", "0">>}

\* Segments that mix digits and letters: 2 is below 10 by value, 10 below 1a
\* and 1a below 2 by bytes.
MixedSpellings == {"-", "0", "2", "10", "1a"}
MixedValue == [s \in MixedSpellings |-> CASE s = "0" -> 0 [] s = "2" -> 2 [] s = "10" -> 10
                                          [] OTHER -> NotNumber]
MixedLex == [s \in MixedSpellings |-> CASE s = "-" -> 1 [] s = "0" -> 2 [] s = "10" -> 3
                                        [] s = "1a" -> 4 [] s = "2" -> 5]
MixedTrimmed == [s \in MixedSpellings |-> s]
MixedWritten == << Lists({<<"0", s>> : s \in {"2", "10", "1a"}}, {2}) >>
MixedProbe == UNION {Of(MixedSpellings, n) : n \in 1..2} \cup {<<"0", s, "-">> : s \in MixedSpellings}

\* Two lists of up to two constraints on 0 and 1.
FloorWritten == [n \in 1..2 |-> Lists({<<"0">>, <<"1">>}, 1..2)]
=============================================================================

------------------------------ MODULE Registry ------------------------------
(***************************************************************************)
(* How the fetch client finds a kit in a registry (fetch/registry.go,      *)
(* fetch/image.go): the bounded walk from the root a reference resolves to *)
(* down to the manifest of the platform asked for.  It is walked twice per *)
(* kit: once for the descriptor annotation, where the annotation of the    *)
(* root index is enough, and once for the image.                           *)
(*                                                                         *)
(* A registry is a function S from nodes (digests) to what is stored:      *)
(*   served   FALSE: 404, or bytes that fail readVerified                  *)
(*   plain    FALSE: refused by its schemaVersion, artifactType or config  *)
(*   ann      the descriptor annotation, None when it is empty             *)
(*   kids     an index's descriptors, [node, media, plat] in order         *)
(*   image    a manifest's config and layers                               *)
(* Digests address content, so a walk is a function of S; only the tag it  *)
(* starts from can change under it.                                        *)
(***************************************************************************)
EXTENDS Integers, Sequences, Strict

CONSTANTS
  MaxIndexDepth,       \* maxIndexDepth: 4
  MaxManifestFetches,  \* maxManifestFetches: 32
  None                 \* no value: an absent annotation, no node

ASSUME DepthIsBounded == MaxIndexDepth \in Nat
ASSUME FetchesAreBounded == MaxManifestFetches \in Nat \ {0}

\* The platforms platforms.Only matches for the platform asked for, closest
\* first. "none" is a descriptor with no platform, "unknown" is os=unknown,
\* and any other platform is one the client does not run.
Closest == <<"amd64", "386">>

Matches(plat) == plat \in ToSet(Closest)
Distance(plat) == CHOOSE i \in 1..Len(Closest) : Closest[i] = plat
Exact(plat) == plat = Closest[1]

\* a is a closer match than b; a named platform outranks one that names none.
BetterPlatform(a, b) ==
  /\ a # "none"
  /\ b # "none" => Distance(a) < Distance(b)

-----------------------------------------------------------------------------
\* The children an index offers for the platform asked for.
IndexesIn(kids) == SelectSeq(kids, LAMBDA d : d.media = "index")
Runnable(kids) ==
  SelectSeq(kids, LAMBDA d : d.media \in {"image", "blank"} /\ d.plat # "unknown")

\* The first of the closest matches.
BestMatch(kids) ==
  LET matched == SelectSeq(Runnable(kids), LAMBDA d : Matches(d.plat))
  IN SelectSeq(matched, LAMBDA d : \A i \in 1..Len(matched) :
                                     ~BetterPlatform(matched[i].plat, d.plat))

\* Mutant: any match hides the nested indexes, not only an exact one.
ChooseAnyMatch(kids) ==
  IF BestMatch(kids) # <<>>
  THEN [direct |-> <<BestMatch(kids)[1]>>, nested |-> <<>>]
  ELSE IF Len(Runnable(kids)) = 1 /\ Runnable(kids)[1].plat = "none"
       THEN [direct |-> Runnable(kids), nested |-> IndexesIn(kids)]
       ELSE [direct |-> <<>>, nested |-> IndexesIn(kids)]

\* direct is empty or holds the one descriptor chosen at this level. A sole
\* manifest that names no platform is chosen when nothing matches.
ChooseManifest(kids) ==
  IF BestMatch(kids) # <<>>
  THEN [direct |-> <<BestMatch(kids)[1]>>,
        nested |-> IF Exact(BestMatch(kids)[1].plat) THEN <<>> ELSE IndexesIn(kids)]
  ELSE IF Len(Runnable(kids)) = 1 /\ Runnable(kids)[1].plat = "none"
       THEN [direct |-> Runnable(kids), nested |-> IndexesIn(kids)]
       ELSE [direct |-> <<>>, nested |-> IndexesIn(kids)]

-----------------------------------------------------------------------------
\* The state of a walk: whether it failed, the manifest in hand, its platform,
\* the budget spent and the reads sent to the registry.
Walking == [ok |-> TRUE, node |-> None, plat |-> "none", spent |-> 0, reads |-> 0]
Found(w) == w.ok /\ w.node # None
Failed(w) == [w EXCEPT !.ok = FALSE, !.node = None]
Holding(w, d) == [w EXCEPT !.node = d.node, !.plat = d.plat]
EmptyHanded(w) == [w EXCEPT !.node = None, !.plat = "none"]

\* Mutant: the budget is checked one read too late.
ConsumeLate(w) ==
  IF w.spent > MaxManifestFetches THEN Failed(w) ELSE [w EXCEPT !.spent = @ + 1]

Consume(w) ==
  IF w.spent >= MaxManifestFetches THEN Failed(w) ELSE [w EXCEPT !.spent = @ + 1]

\* fetchManifest and fetchDescriptor: charge the budget, then read and verify.
FetchNode(S, node, w) ==
  LET charged == Consume(w)
      read    == [charged EXCEPT !.reads = @ + 1]
  IN IF ~charged.ok THEN charged
     ELSE IF S[node].served THEN read ELSE Failed(read)

\* Keep what is in hand unless what comes back is closer.
Consider(best, w) ==
  IF Found(w) /\ (best.node = None \/ BetterPlatform(w.plat, best.plat))
  THEN w
  ELSE [best EXCEPT !.spent = w.spent, !.reads = w.reads]

\* Nothing closer can come, or nothing can come at all.
Settled(w) == ~w.ok \/ (Found(w) /\ Exact(w.plat))

RECURSIVE Metadata(_, _, _, _, _), Branches(_, _, _, _, _)

\* Reads one child and what is below it, at the next depth.
ReadChild(S, d, depth, w, annotationOnly) ==
  With(FetchNode(S, d.node, EmptyHanded(w)), LAMBDA fetched :
    IF fetched.ok THEN Metadata(S, d, depth + 1, fetched, annotationOnly) ELSE fetched)

\* The nested indexes in order. An error ends the walk; an exact match ends
\* the search.
Branches(S, nested, depth, best, annotationOnly) ==
  IF nested = <<>> THEN best
  ELSE With(ReadChild(S, Head(nested), depth, best, annotationOnly), LAMBDA w :
         IF Settled(w) THEN w
         ELSE With(Consider(best, w), LAMBDA b :
                Branches(S, Tail(nested), depth, b, annotationOnly)))

\* The fallback at this level, after the nested indexes. It loses to a closer
\* manifest below it, and when it cannot be read also to one as close.
FallBack(S, d, depth, best, annotationOnly) ==
  With(ReadChild(S, d, depth, best, annotationOnly), LAMBDA last :
    IF /\ Found(best)
       /\ IF last.ok THEN BetterPlatform(best.plat, last.plat)
          ELSE ~BetterPlatform(d.plat, best.plat)
    THEN [best EXCEPT !.spent = last.spent, !.reads = last.reads]
    ELSE last)

\* An index: an exact match, or the only candidate, is read at once; any other
\* choice at this level is a fallback.
ReadIndex(S, chosen, depth, w, annotationOnly) ==
  LET direct == chosen.direct
      now    == direct # <<>> /\ (Exact(direct[1].plat) \/ chosen.nested = <<>>)
  IN IF now THEN ReadChild(S, direct[1], depth, w, annotationOnly)
     ELSE With(Branches(S, chosen.nested, depth, EmptyHanded(w), annotationOnly), LAMBDA best :
            IF Settled(best) \/ direct = <<>> THEN best
            ELSE FallBack(S, direct[1], depth, best, annotationOnly))

\* What the walk holds below descriptor d, whose bytes have been fetched.
Metadata(S, d, depth, w, annotationOnly) ==
  IF d.media # "index"
  THEN IF d.media = "image" /\ S[d.node].plain THEN Holding(w, d) ELSE Failed(w)
  ELSE IF depth > MaxIndexDepth \/ ~S[d.node].plain THEN Failed(w)
  ELSE IF depth = 0 /\ annotationOnly /\ S[d.node].ann # None
  THEN Holding(w, [d EXCEPT !.plat = "none"])
  ELSE With(ChooseManifest(S[d.node].kids), LAMBDA chosen :
         ReadIndex(S, chosen, depth, w, annotationOnly))

\* The walk from a root, whose descriptor carries no platform.
Walk(S, root, annotationOnly) ==
  LET d == [node |-> root, media |-> S[root].media, plat |-> "none"]
  IN With(FetchNode(S, root, Walking), LAMBDA fetched :
       IF fetched.ok THEN Metadata(S, d, 0, fetched, annotationOnly) ELSE fetched)

\* Fetch: the annotation of the node in hand, which must be a descriptor.
FetchDescriptor(S, root) ==
  With(Walk(S, root, TRUE), LAMBDA w :
    [ok    |-> Found(w) /\ S[w.node].ann # None /\ S[w.node].ann.valid,
     ann   |-> IF Found(w) THEN S[w.node].ann ELSE None,
     reads |-> w.reads])

\* The config must be served and agree with the manifest's platform when it
\* names one, with the platform asked for, and with the layers.
ConfigAgrees(config, plat) ==
  /\ config.served
  /\ plat # "none" => config.plat = plat
  /\ Matches(config.plat)
  /\ Len(config.diffs) = Len(config.layers)

\* LoadImage: the manifest of the platform asked for, and its config.
LoadImage(S, root) ==
  With(Walk(S, root, FALSE), LAMBDA w :
    [ok    |-> Found(w) /\ ConfigAgrees(S[w.node].image, w.plat),
     node  |-> w.node,
     plat  |-> w.plat,
     reads |-> w.reads])
=============================================================================

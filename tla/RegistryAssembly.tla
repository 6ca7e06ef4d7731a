-------------------------- MODULE RegistryAssembly --------------------------
(***************************************************************************)
(* Assembly with the loader of the fetch client (Registry) and the file    *)
(* check of DefaultLayerValidator (Overlay), and what holds of the three   *)
(* together.  A cfg gives Assembly's parameters the operators below:       *)
(* ReadDescriptor is FetchDescriptor, ReadImage is LoadImage, JudgeFiles   *)
(* is FileCollisions and Absent is None.                                   *)
(***************************************************************************)
EXTENDS Assembly, Registry, Overlay

\* checkFileCollisions: each kit over the index of the kits below it, before
\* it adds its own.
FileCollisions(layers, refs) ==
  LET Check(r, ref, tree) ==
        IF Collides(r.owners, tree) THEN [r EXCEPT !.err = "collision"]
        ELSE [r EXCEPT !.owners = Claim(@, tree, ref)]
      Kit(r, i) ==
        IF r.err # "none" THEN r
        ELSE With(ExtractKit(layers[i], refs[i]), LAMBDA got :
               IF got.ok
               THEN With(StackAll(got.trees), LAMBDA tree : Check(r, refs[i], tree))
               ELSE [r EXCEPT !.err = "extract"])
  IN Fold(Kit, [err |-> "none", owners |-> Empty], [i \in 1..Len(refs) |-> i]).err

-----------------------------------------------------------------------------
RECURSIVE Offers(_, _), NodesBelow(_, _, _)

\* The platforms an index offers, at any depth.
Offers(S, kids) ==
  LET named == {k.plat : k \in {d \in ToSet(Runnable(kids)) : Matches(d.plat)}}
  IN UNION {Offers(S, S[k.node].kids) : k \in ToSet(IndexesIn(kids))}
       \cup (IF named = {} /\ Len(Runnable(kids)) = 1 /\ Runnable(kids)[1].plat = "none"
             THEN {"none"} ELSE named)

\* What an index holds, as <<descriptor, depth>>.
NodesBelow(S, kids, depth) ==
  (ToSet(kids) \X {depth})
    \cup UNION {NodesBelow(S, S[k.node].kids, depth + 1) : k \in ToSet(IndexesIn(kids))}

NodesUnder(S, root) == IF S[root].media = "index" THEN NodesBelow(S, S[root].kids, 1) ELSE {}

\* Nothing under the root stands in the way of a walk.
Readable(S, root) ==
  /\ S[root].served /\ S[root].plain /\ S[root].media \in {"image", "index"}
  /\ Offers(S, S[root].kids) # {} \/ S[root].media = "image"
  /\ Cardinality(NodesUnder(S, root)) < MaxManifestFetches
  /\ \A n \in NodesUnder(S, root) :
       /\ n[1].media \in {"image", "index", "other"}
       /\ S[n[1].node].served /\ S[n[1].node].plain
       /\ n[1].media = "index" => n[2] <= MaxIndexDepth

\* Among the manifests a reference offers at any depth, the one read is as
\* close to the platform asked for as any, whatever the order of the index and
\* however the branches answer; and a walk fails only where something under
\* the root cannot be read or is beyond the bounds (metadata, chooseManifest).
ClosestPlatform ==
  /\ \A r \in Kits :
       LET S == given.store
           k == loaded[r]
       IN k.node # Absent /\ S[k.root].media = "index" =>
            \A plat \in Offers(S, S[k.root].kids) : ~BetterPlatform(plat, k.plat)
  /\ stage = "load" /\ phase = "leave" /\ err = "image" =>
       LET w == Walk(given.store, loaded[Requested].root, FALSE)
       IN Readable(given.store, loaded[Requested].root) => Found(w)

\* One reference causes at most MaxManifestFetches reads, however wide and deep
\* its indexes (manifestBudget).
ReadsBounded == reads <= MaxManifestFetches

\* The trees of the first i kits' layers, and the filesystem they make.
Trees(i) == ExtractKit(inventories[i], Ordered[i]).trees
OwnTree(i) == StackAll(Trees(i))
ComposedUpTo(i) == StackAll(FlattenSeq([j \in 1..i |-> Trees(j)]))
Visible(t) == {p \in DOMAIN t \ {<<>>} : t[p].kind # "whiteout"}

\* A path and the kit that put it there first, among the kits below kit i.
Contributed(own, i) ==
  {<<j, p>> \in UNION {{<<j, p>> : p \in Visible(own[j])} : j \in 1..(i - 1)} :
     \A k \in 1..(j - 1) : p \notin Visible(own[k])}

\* Nothing is there any more, or something of another kind, or of another kit:
\* a directory that only changed hands is still the directory it was.
Lost(was, top, p, owner) ==
  \/ p \notin DOMAIN top
  \/ top[p].kind # was.kind
  \/ was.kind # "dir" /\ top[p].by # owner
ChangedHands(top, p, owner) == p \notin DOMAIN top \/ top[p].by # owner

\* A set of kits is accepted only when, with each kit's layers laid over the
\* ones before, everything an earlier kit contributes is still there - no file,
\* link, whiteout, opaque directory or directory in a deleted one's place took
\* or hid it - and every link leads where its own kit's layers lead it. A set
\* refused for a collision really has a path that another kit took over
\* (checkFileCollisions, overlayfs).
CollisionsAreLosses ==
  stage = "collisions" /\ phase = "report" /\ err \in {"none", "collision"} =>
    With([i \in 1..Len(Ordered) |-> OwnTree(i)], LAMBDA own :
    With([i \in 1..Len(Ordered) |-> ComposedUpTo(i)], LAMBDA top :
      /\ err = "none" =>
           /\ \A i \in DOMAIN own : \A c \in Contributed(own, i) :
                ~Lost(own[c[1]][c[2]], top[i], c[2], Ordered[c[1]])
           /\ \A i \in DOMAIN own : \A p \in Visible(own[i]) \ DanglingSymlinks(own[i]) :
                own[i][p].kind = "symlink" =>
                  LeadsTo(top[Len(Ordered)], p) = LeadsTo(own[i], p)
      /\ err = "collision" =>
           \E i \in DOMAIN own : \E c \in Contributed(own, i) :
             \/ Lost(own[c[1]][c[2]], top[i], c[2], Ordered[c[1]])
             \/ ChangedHands(top[i], c[2], Ordered[c[1]])))
=============================================================================

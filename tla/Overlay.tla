------------------------------ MODULE Overlay -------------------------------
(***************************************************************************)
(* The filesystem image layers extract to (internal/overlayfs/fs.go), and  *)
(* the check that no kit of a set replaces or deletes what another one     *)
(* contributes (fetch/assemble_collisions.go).                             *)
(*                                                                         *)
(* A tree is a function from paths (sequences of names, <<>> the root) to  *)
(* nodes; its domain is prefix-closed and only directories have paths      *)
(* below them.  A header is [name, type, to, meta]: name is the cleaned    *)
(* path, and for an opaque marker or a whiteout its last component is what *)
(* the marker applies to ("*" for opaque).  A link target is               *)
(* [abs, up, path]: absolute or not, leading ".."s, and the rest, cleaned. *)
(***************************************************************************)
EXTENDS Integers, Sequences, Strict

CONSTANTS
  MaxLookupSymlinks,   \* maxLookupSymlinks: 40
  MaxExtractSymlinks   \* maxExtractSymlinks: 255

ASSUME LinksAreBounded == MaxLookupSymlinks \in Nat \ {0} /\ MaxExtractSymlinks \in Nat

NoTarget == [abs |-> FALSE, up |-> 0, path |-> <<>>]
RootOwned == "root"    \* uid 0, gid 0, mode 0755

Node(kind, to, by) ==
  [kind |-> kind, to |-> to, explicit |-> FALSE, meta |-> RootOwned,
   opaque |-> FALSE, by |-> by]
NewDir(by) == Node("dir", NoTarget, by)
Declared(n, meta) == [n EXCEPT !.explicit = TRUE, !.meta = meta]

EmptyTree == [p \in {<<>>} |-> NewDir(0)]

PathsTo(p) == [i \in 1..Len(p) |-> SubSeq(p, 1, i)]
Beneath(t, p) == {q \in DOMAIN t : IsStrictPrefix(p, q)}
IsDir(t, p) == p \in DOMAIN t /\ t[p].kind = "dir"

Drop(t, p) == [q \in DOMAIN t \ (Beneath(t, p) \cup {p}) |-> t[q]]
Put(t, p, n) ==
  [q \in (DOMAIN t \ Beneath(t, p)) \cup {p} |-> IF q = p THEN n ELSE t[q]]

-----------------------------------------------------------------------------
(* Path lookup.                                                            *)

Reached(p) == [there |-> TRUE, at |-> p, failed |-> FALSE]
Missing == [there |-> FALSE, at |-> <<>>, failed |-> FALSE]
Refused == [there |-> FALSE, at |-> <<>>, failed |-> TRUE]

Steps(to) == [i \in 1..to.up |-> ".."] \o to.path

RECURSIVE Follow(_, _, _, _, _)

\* The kernel's lookup: each link expanded before the components after it,
\* `left` expansions to go. On the host side (hostLookup) the root is a
\* directory of the machine: what leaves it does not exist, and a file on the
\* way is ENOTDIR.
Follow(t, at, pending, left, onHost) ==
  IF pending = <<>> THEN Reached(at)
  ELSE
    LET rest == Tail(pending)
        p    == Append(at, Head(pending))
    IN CASE Head(pending) = ".." /\ at = <<>> ->
              IF onHost THEN Missing ELSE Follow(t, at, rest, left, onHost)
         [] Head(pending) = ".." /\ at # <<>> ->
              Follow(t, Front(at), rest, left, onHost)
         [] Head(pending) # ".." /\ p \notin DOMAIN t -> Missing
         [] IsDir(t, p) -> Follow(t, p, rest, left, onHost)
         [] OTHER ->
              IF t[p].kind = "symlink"
              THEN IF left = 0 THEN Refused
                   ELSE IF onHost /\ t[p].to.abs THEN Missing
                   ELSE Follow(t, IF t[p].to.abs THEN <<>> ELSE at,
                               Steps(t[p].to) \o rest, left - 1, onHost)
              ELSE IF onHost THEN Refused
              ELSE IF t[p].kind = "file" /\ rest = <<>> THEN Reached(p)
              ELSE Missing

\* lstat within a tree: the directory as the kernel finds it, the last
\* component as it is.
Lstat(t, p) ==
  IF p = <<>> THEN Reached(<<>>)
  ELSE LET d == Follow(t, <<>>, Front(p), MaxLookupSymlinks, TRUE)
           q == Append(d.at, Last(p))
       IN IF ~d.there THEN d ELSE IF q \in DOMAIN t THEN Reached(q) ELSE Missing

JoinTarget(dir, to) ==
  IF to.abs THEN to.path
  ELSE SubSeq(dir, 1, Len(dir) - to.up) \o to.path

RECURSIVE WalkLinks(_, _, _), Passes(_, _, _)

\* The last component of p, its directory resolved.
WalkLink(t, dir, name) ==
  With(Lstat(t, Append(dir.path, name)), LAMBDA found :
    IF dir.walked > MaxExtractSymlinks \/ found.failed THEN [dir EXCEPT !.ok = FALSE]
    ELSE IF found.there /\ t[found.at].kind = "symlink"
    THEN [ok |-> TRUE, path |-> JoinTarget(dir.path, t[found.at].to),
          walked |-> dir.walked + 1]
    ELSE [dir EXCEPT !.path = Append(@, name)])

\* One pass: the directory part first, then the target of a link at its end.
WalkLinks(t, p, walked) ==
  IF p = <<>> THEN [ok |-> TRUE, path |-> <<>>, walked |-> walked]
  ELSE With(WalkLinks(t, Front(p), walked), LAMBDA dir :
         IF dir.ok THEN WalkLink(t, dir, Last(p)) ELSE dir)

\* Passes are repeated until one expands no link.
Passes(t, p, walked) ==
  With(WalkLinks(t, p, walked), LAMBDA pass :
    IF ~pass.ok \/ pass.walked = walked THEN pass
    ELSE Passes(t, pass.path, pass.walked))

CrossesSymlink(t, p) ==
  \E i \in 1..Len(p) : PathsTo(p)[i] \in DOMAIN t /\ ~IsDir(t, PathsTo(p)[i])

RootPath(t, p) ==
  IF CrossesSymlink(t, p) THEN Passes(t, p, 0)
  ELSE [ok |-> TRUE, path |-> p, walked |-> 0]

-----------------------------------------------------------------------------
(* Extraction of one layer.                                                *)

RECURSIVE InheritDirInfo(_, _, _)

\* The metadata of a directory created at p: the nearest lower layer that has
\* the path decides, and a path that cannot be resolved there fails the entry.
InheritDirInfo(n, lowers, p) ==
  IF lowers = <<>> THEN [ok |-> TRUE, node |-> n]
  ELSE
    LET lower == Last(lowers)
        at    == RootPath(lower, p)
    IN With(IF at.ok THEN Lstat(lower, at.path) ELSE Refused, LAMBDA found :
         IF found.failed THEN [ok |-> FALSE, node |-> n]
         ELSE IF ~found.there THEN InheritDirInfo(n, Front(lowers), p)
         ELSE [ok |-> TRUE,
               node |-> IF IsDir(lower, found.at)
                        THEN [n EXCEPT !.explicit = lower[found.at].explicit,
                                       !.meta = lower[found.at].meta]
                        ELSE Declared(n, RootOwned)])

\* The directories along p, each made where nothing is; anything else refuses.
MkParent(t, lowers, p, by) ==
  LET Make(r, q) ==
        IF ~r.ok THEN r
        ELSE IF q \in DOMAIN r.tree THEN [r EXCEPT !.ok = IsDir(r.tree, q)]
        ELSE With(InheritDirInfo(NewDir(by), lowers, q), LAMBDA made :
               [ok |-> made.ok,
                tree |-> IF made.ok THEN Put(r.tree, q, made.node) ELSE r.tree])
  IN Fold(Make, [ok |-> TRUE, tree |-> t], PathsTo(p))

\* The node a hard link shares: its target's, in this layer and not a directory.
LinkTarget(t, to) ==
  LET dir == RootPath(t, Front(to.path))
      at  == Lstat(t, Append(dir.path, Last(to.path)))
  IN IF dir.ok /\ at.there /\ ~IsDir(t, at.at) THEN at ELSE Missing

\* The entry itself, once its parent directory has been made in the tree.
Place(tree, dir, hdr, by) ==
  LET at == Append(dir, Last(hdr.name))
      Is(t) == [ok |-> TRUE, tree |-> t]
      Becomes(n) == Is(Put(tree, at, n))
      No == [ok |-> FALSE, tree |-> tree]
  IN CASE hdr.type = "opaque" -> Is([tree EXCEPT ![dir].opaque = dir # <<>>])
       [] hdr.type = "remove" ->
            IF at \in DOMAIN tree THEN Is(tree) ELSE Becomes(Node("whiteout", NoTarget, by))
       [] hdr.type = "global" -> Is(Drop(tree, at))
       [] hdr.type = "whiteout" -> Becomes(Node("whiteout", NoTarget, by))
       [] hdr.type = "dir" ->
            IF IsDir(tree, at) THEN Is([tree EXCEPT ![at] = Declared(@, hdr.meta)])
            ELSE Becomes(Declared(NewDir(by), hdr.meta))
       [] hdr.type = "symlink" ->
            IF hdr.to = NoTarget THEN No ELSE Becomes(Node("symlink", hdr.to, by))
       [] hdr.type = "link" ->
            With(LinkTarget(tree, hdr.to), LAMBDA target :
              IF target.there THEN Becomes(tree[target.at]) ELSE No)
       [] hdr.type = "file" -> Becomes(Node("file", NoTarget, by))

\* One archive entry: its parents are made, then a marker is placed or the
\* entry takes its path. ok is FALSE for an entry the extractor refuses.
Extract(t, lowers, hdr, by) ==
  IF hdr.name = <<>> THEN [ok |-> TRUE, tree |-> t]
  ELSE With(RootPath(t, Front(hdr.name)), LAMBDA dir :
         IF ~dir.ok THEN [ok |-> FALSE, tree |-> t]
         ELSE With(MkParent(t, lowers, dir.path, by), LAMBDA made :
                IF made.ok THEN Place(made.tree, dir.path, hdr, by) ELSE made))

ExtractLayer(headers, lowers, by) ==
  LET Add(r, hdr) == IF r.ok THEN Extract(r.tree, lowers, hdr, by) ELSE r
  IN Fold(Add, [ok |-> TRUE, tree |-> EmptyTree], headers)

-----------------------------------------------------------------------------
(* Stacking.                                                               *)

\* What the lower tree still shows at p under the upper layer: every directory
\* above p merges, and none of them is opaque.
Shows(lower, upper, p) ==
  /\ p \in DOMAIN lower
  /\ \A i \in 0..(Len(p) - 1) :
       SubSeq(p, 1, i) \in DOMAIN upper =>
         IsDir(upper, SubSeq(p, 1, i)) /\ ~upper[SubSeq(p, 1, i)].opaque

\* Mutant: a directory that replaces a non-directory is not opaque.
StackDirResurrects(lower, upper, p) ==
  LET n == upper[p]
      l == IF Shows(lower, upper, p) /\ IsDir(lower, p) THEN lower[p] ELSE NewDir(n.by)
  IN [l EXCEPT !.opaque = @ \/ n.opaque,
               !.explicit = @ \/ n.explicit,
               !.meta = IF n.explicit THEN n.meta ELSE @]

\* A directory of the upper layer: merged with a lower directory, or new, and
\* then opaque when it replaces something.
StackDir(lower, upper, p) ==
  LET n == upper[p]
      l == IF Shows(lower, upper, p) /\ IsDir(lower, p) THEN lower[p]
           ELSE [NewDir(n.by) EXCEPT !.opaque = Shows(lower, upper, p)]
  IN [l EXCEPT !.opaque = @ \/ n.opaque,
               !.explicit = @ \/ n.explicit,
               !.meta = IF n.explicit THEN n.meta ELSE @]

Stack(lower, upper) ==
  LET left == {p \in DOMAIN lower \ DOMAIN upper : Shows(lower, upper, p)}
  IN [p \in DOMAIN upper \cup left |->
        IF p \in left THEN lower[p]
        ELSE IF IsDir(upper, p) THEN StackDir(lower, upper, p)
        ELSE upper[p]]

StackAll(trees) == Fold(Stack, EmptyTree, trees)

\* The layers of one kit, extracted in order over each other.
ExtractKit(layers, by) ==
  LET Apply(r, headers) ==
        IF ~r.ok THEN r
        ELSE With(ExtractLayer(headers, r.trees, by), LAMBDA layer :
               [ok |-> layer.ok, trees |-> Append(r.trees, layer.tree)])
  IN Fold(Apply, [ok |-> TRUE, trees |-> <<>>], layers)

\* Where the link at p leads in the filesystem exposed, if anywhere.
LeadsTo(t, p) ==
  Follow(t, IF t[p].to.abs THEN <<>> ELSE Front(p), Steps(t[p].to),
         MaxLookupSymlinks - 1, FALSE)

DanglingSymlinks(t) ==
  {p \in DOMAIN t : t[p].kind = "symlink" /\ ~LeadsTo(t, p).there}

-----------------------------------------------------------------------------
(* Collisions. owners is the index of what the kits so far contribute:     *)
(* path |-> [kit, directory].                                              *)

\* Mutant: what an opaque directory hides is not looked at.
CollidesIgnoringOpaque(owners, t) ==
  \E p \in DOMAIN t :
    \/ /\ p \in DOMAIN owners
       /\ ~IsDir(t, p) \/ ~owners[p].directory
    \/ /\ Beneath(owners, p) # {}
       /\ ~IsDir(t, p)

\* An entry replaces an owned path, unless both are directories, or hides one.
Collides(owners, t) ==
  \E p \in DOMAIN t :
    \/ /\ p \in DOMAIN owners
       /\ ~IsDir(t, p) \/ ~owners[p].directory
    \/ /\ Beneath(owners, p) # {}
       /\ ~IsDir(t, p) \/ t[p].opaque

\* A deletion claims no path, and the first owner of a directory keeps it.
Claim(owners, t, kit) ==
  LET claimed == {p \in DOMAIN t : p # <<>> /\ t[p].kind # "whiteout"}
  IN [p \in DOMAIN owners \cup claimed |->
        IF p \in DOMAIN owners THEN owners[p]
        ELSE [kit |-> kit, directory |-> IsDir(t, p)]]
=============================================================================

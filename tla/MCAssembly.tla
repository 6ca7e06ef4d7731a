----------------------------- MODULE MCAssembly -----------------------------
(***************************************************************************)
(* Calls of Assemble for TLC, by what they exercise: the shapes of an      *)
(* index, tags that move, sets of kits under cancellation, layers under    *)
(* the cache and the budget, and layers laid over each other.              *)
(***************************************************************************)
EXTENDS RegistryAssembly, TLC

-----------------------------------------------------------------------------
(* Descriptors, images and registries.                                     *)

Tool == [valid |-> TRUE, kind |-> "mixin", after |-> {}, args |-> TRUE,
         exports |-> Empty, asks |-> <<>>]
Agent == [Tool EXCEPT !.kind = "workload"]

H(path, type) == [name |-> path, type |-> type, to |-> NoTarget, meta |-> RootOwned]
File(path) == H(path, "file")
Plain(digest) == [is |-> digest, size |-> 1, diff |-> digest, headers |-> <<>>]
Blob(digest, headers) == [Plain(digest) EXCEPT !.headers = headers]

ImageOf(digests) ==
  [served |-> TRUE, sound |-> TRUE, plat |-> "amd64", env |-> Empty, path |-> <<>>,
   layers |-> [i \in 1..Len(digests) |-> [digest |-> digests[i], size |-> 1]],
   diffs  |-> digests]

Manifest(ann, image) ==
  [media |-> "image", served |-> TRUE, plain |-> TRUE, ann |-> ann, kids |-> <<>>,
   image |-> image]
Index(ann, kids) ==
  [media |-> "index", served |-> TRUE, plain |-> TRUE, ann |-> ann, kids |-> kids,
   image |-> ImageOf(<<>>)]

KitNode == <<"k1", "k2", "k3">>

\* One reference per kit, in string order, all requested.
CallOf(kits, blobs) ==
  LET node == SubSeq(KitNode, 1, Len(kits))
  IN [requests |-> [i \in DOMAIN kits |-> i],
      tags |-> node, moves |-> Empty,
      store |-> [n \in ToSet(node) |-> kits[CHOOSE i \in DOMAIN kits : node[i] = n]],
      blobs |-> blobs,
      supported |-> {"net", "ssh"}, overrides |-> Empty, overridesValid |-> TRUE,
      validate |-> TRUE, merges |-> TRUE, mayCancel |-> FALSE]

-----------------------------------------------------------------------------
(* The shapes of an index.                                                 *)

Leaf(plat) == Manifest(Agent, [ImageOf(<<"l1">>) EXCEPT !.plat = plat])
Img(node, plat) == [node |-> node, media |-> "image", plat |-> plat]
Idx(node) == [node |-> node, media |-> "index", plat |-> "unknown"]

A == Img("amd64", "amd64")
C == Img("386", "386")
N == Img("amd64", "none")
GoneC == Img("gone", "386")
GoneN == Img("gone", "none")
Blank == [A EXCEPT !.media = "blank"]

Leaves ==
  [n \in {"amd64", "386", "gone", "artifact"} |->
     CASE n = "amd64" -> Leaf("amd64")
       [] n = "386" -> Leaf("386")
       [] n = "gone" -> [Leaf("amd64") EXCEPT !.served = FALSE]
       [] n = "artifact" -> [Leaf("amd64") EXCEPT !.plain = FALSE]]

Chain ==
  [n \in {"deep", "deeper"} |->
     IF n = "deep" THEN Index(None, <<Idx("deeper")>>) ELSE Index(None, <<A>>)]

Rare == {Blank, Img("amd64", "unknown"), Img("arm", "arm"), Img("artifact", "amd64"),
         Img("gone", "amd64"), GoneN, [A EXCEPT !.media = "other"], Img("386", "amd64")}
Common == {Idx("n1"), Idx("n2"), A, C, N, GoneC}

Roots == {<<d>> : d \in Common \cup Rare}
           \cup ((Common \cup Rare) \X Common) \cup (Common \X Common \X Common)
Uses(kids, n) == Idx(n) \in ToSet(kids)

\* The inner indexes vary only where the root names them.
Shapes ==
  UNION {{[root |-> root, n1 |-> n1, n2 |-> n2, ann |-> None] :
            n1 \in IF Uses(root, "n1")
                   THEN {<<A>>, <<C>>, <<N>>, <<GoneC>>, <<C, A>>, <<Idx("deep")>>} ELSE {<<>>},
            n2 \in IF Uses(root, "n2") THEN {<<C>>, <<N>>, <<>>} ELSE {<<>>}}
         : root \in Roots}
  \cup {[root |-> root, n1 |-> <<C>>, n2 |-> <<>>, ann |-> ann] :
          root \in {<<A>>, <<C, Idx("n1")>>, <<GoneC>>},
          ann \in {Agent, [Agent EXCEPT !.valid = FALSE]}}

ShapeStore(s) ==
  Leaves @@ Chain
    @@ [n \in {"root", "n1", "n2"} |->
          IF n = "root" THEN Index(s.ann, s.root)
          ELSE Index(None, IF n = "n1" THEN s.n1 ELSE s.n2)]

OneRequest(store, root) ==
  [CallOf(<<store[root]>>, [d \in {"l1"} |-> Plain(d)]) EXCEPT
     !.tags = <<root>>, !.store = store, !.validate = FALSE]

Registries ==
  {OneRequest(ShapeStore(s), "root") : s \in Shapes}
    \cup {OneRequest(ShapeStore([root |-> <<A>>, n1 |-> <<>>, n2 |-> <<>>, ann |-> None]), n) :
            n \in {"amd64", "386", "gone", "artifact"}}

-----------------------------------------------------------------------------
(* Tags that move between the two reads of a kit.                          *)

BeforeMove == Manifest(Agent, ImageOf(<<"l1">>))
AfterMove == Manifest([Agent EXCEPT !.exports = "V" :> "new"], ImageOf(<<"l1", "l1">>))

Moving ==
  {[OneRequest([n \in {"old", "new", "oldIndex"} |->
                  CASE n = "old" -> BeforeMove
                    [] n = "new" -> AfterMove
                    [] n = "oldIndex" -> Index(ann, <<Img("old", "amd64")>>)], root)
      EXCEPT !.moves = (1 :> "new"), !.mayCancel = TRUE] :
     ann \in {None, Agent}, root \in {"old", "oldIndex"}}

-----------------------------------------------------------------------------
(* Sets of kits: what they declare, what the caller gives, cancellation.   *)

Needs(caps, optional) == [caps |-> caps, optional |-> optional, uses |-> None]
Refers(v) == [caps |-> {"net"}, optional |-> FALSE, uses |-> v]

Tools == {Tool} \cup
  {[Tool EXCEPT !.asks = asks] :
     asks \in {<<Needs({"net"}, FALSE)>>, <<Needs({"gpu"}, FALSE)>>, <<Needs({"gpu"}, TRUE)>>,
               <<Needs({"net", "gpu"}, TRUE), Needs({"net", "ssh"}, FALSE)>>,
               <<Refers("V")>>, <<Refers("E")>>}}
  \cup {[Tool EXCEPT !.exports = "V" :> v, !.asks = <<Refers("V")>>] : v \in {"x", "y"}}
  \cup {[Tool EXCEPT !.exports = e, !.asks = <<Refers("PATH")>>] : e \in {Empty, "PATH" :> <<"/x">>}}
  \cup {[Tool EXCEPT !.args = FALSE], [Tool EXCEPT !.kind = "workload"],
        [Tool EXCEPT !.after = {2}], [Tool EXCEPT !.after = {3}]}

Agents == {[Agent EXCEPT !.exports = "V" :> "x", !.after = {1}],
           [Agent EXCEPT !.asks = <<Needs({"ssh"}, TRUE)>>, !.after = {1}],
           Agent, [Agent EXCEPT !.kind = "mixin"]}

ToolImages == {[ImageOf(<<"l1">>) EXCEPT !.env = "E" :> "tool", !.path = path] :
                 path \in {<<>>, <<"/t", "/bin">>, <<"/t", "/t">>}}
               \cup {[ImageOf(<<"l1">>) EXCEPT !.plat = "386"]}
AgentImages == {[ImageOf(<<"l2">>) EXCEPT !.env = "E" :> e, !.path = path] :
                  e \in {"tool", "agent"}, path \in {<<>>, <<"/bin">>, <<"/bin", "/t", "/bin">>}}

Pair(tool, agent, toolImage, agentImage) ==
  CallOf(<<Manifest(tool, toolImage), Manifest(agent, agentImage)>>,
        [d \in {"l1", "l2"} |-> Blob(d, <<File(<<d>>)>>)])

GoodTool == [ImageOf(<<"l1">>) EXCEPT !.env = "E" :> "tool", !.path = <<"/t", "/bin">>]
GoodAgent == [ImageOf(<<"l2">>) EXCEPT !.env = "E" :> "tool", !.path = <<"/bin">>]

Sets ==
  {[Pair(t, a, GoodTool, GoodAgent) EXCEPT !.mayCancel = TRUE, !.overrides = o] :
     t \in Tools, a \in Agents, o \in {Empty, "V" :> "over", "PATH" :> <<"/o">>}}
  \cup {Pair(t, Agent, ti, ai) : t \in {Tool, [Tool EXCEPT !.asks = <<Refers("PATH")>>]},
                                 ti \in ToolImages, ai \in AgentImages}
  \cup {[Pair(Tool, Agent, GoodTool, GoodAgent) EXCEPT !.requests = r, !.mayCancel = TRUE] :
          r \in {<<>>, <<1, 1>>, <<2, 1>>, <<2>>}}
  \cup {[Pair(Tool, Agent, GoodTool, GoodAgent) EXCEPT !.overridesValid = FALSE],
        [Pair(Tool, Agent, GoodTool, GoodAgent) EXCEPT !.merges = FALSE, !.mayCancel = TRUE],
        [Pair(Tool, Agent, GoodTool, GoodAgent) EXCEPT !.validate = FALSE],
        Pair(Tool, Agent, [GoodTool EXCEPT !.sound = FALSE], GoodAgent),
        Pair(Tool, Agent, ImageOf(<<>>), GoodAgent),
        Pair(Tool, Agent, [GoodTool EXCEPT !.served = FALSE], GoodAgent)}

-----------------------------------------------------------------------------
(* Layers: the blobs of two kits under the cache and the budget.           *)

Digests == {"l1", "l2"}
Listed == {<<"l1">>, <<"l2">>, <<"l1", "l1">>, <<"l1", "l2">>, <<"l1", "l1", "l1">>}
Liar(image) == [image EXCEPT !.diffs = [i \in DOMAIN image.diffs |-> "l2"]]

\* Two kits may hold one layer when it only makes directories.
SharedLayer == [d \in Digests |-> Blob(d, <<H(<<"dir">>, "dir")>>)]

\* Five layers and six, and twelve components and fourteen: at a limit and past it.
AtLimits ==
  {CallOf(<<Manifest(Tool, ImageOf(<<"l1", "l1", "l1">>)), Manifest(Agent, ImageOf(a))>>, SharedLayer) :
     a \in {<<"l1", "l1">>, <<"l1", "l1", "l1">>}}
  \cup {CallOf(<<Manifest(Tool, ImageOf(<<"l1">>)), Manifest(Agent, ImageOf(<<"l1">>))>>,
               [d \in {"l1"} |-> Blob(d, <<H(path, "dir")>>)]) :
          path \in {<<"a", "b", "c", "d", "e", "f">>, <<"a", "b", "c", "d", "e", "f", "g">>}}

LayerSets ==
  {CallOf(<<Manifest(Tool, t), Manifest(Agent, ImageOf(a))>>,
         [d \in Digests |-> Blob(d, <<File(<<"dir", d>>), File(<<"dir">>)>>)]) :
     t \in {ImageOf(l) : l \in Listed} \cup {Liar(ImageOf(<<"l1">>)), Liar(ImageOf(<<"l2", "l1">>))},
     a \in Listed}
  \cup {CallOf(<<Manifest(Tool, t), Manifest(Agent, ImageOf(<<"l1">>))>>, SharedLayer) :
          t \in {ImageOf(<<"l1">>), Liar(ImageOf(<<"l1">>))}}
  \cup {CallOf(<<Manifest(Agent, ImageOf(<<"l1">>))>>, [d \in {"l1"} |-> b]) :
          b \in {Plain("l1"), Plain("l2"), [Plain("l1") EXCEPT !.size = 2],
                 [Plain("l1") EXCEPT !.diff = "l2"]}}

-----------------------------------------------------------------------------
(* Layers laid over each other.                                            *)

To(path, type, to) == [H(path, type) EXCEPT !.to = to]
Rel(up, path) == [abs |-> FALSE, up |-> up, path |-> path]
Abs(path) == [abs |-> TRUE, up |-> 0, path |-> path]

Headers ==
  {H(<<"a">>, "file"), H(<<"a">>, "dir"), H(<<"a", "b">>, "file"), H(<<"a">>, "remove"),
   H(<<"a", "b">>, "remove"), H(<<"a", "*">>, "opaque"), H(<<"a">>, "global"),
   H(<<"a", "b">>, "dir"),
   To(<<"a">>, "symlink", Rel(0, <<"c">>)), H(<<"c">>, "file"),
   To(<<"c">>, "link", Abs(<<"a", "b">>))}

Lower ==
  {<<H(<<"a", "b">>, "file")>>, <<H(<<"a">>, "dir")>>, <<H(<<"a">>, "remove")>>,
   <<H(<<"a", "b">>, "dir")>>,
   <<H(<<"a">>, "file"), H(<<"c", "b">>, "file")>>,
   <<To(<<"a">>, "symlink", Rel(0, <<"c">>)), H(<<"a", "b">>, "file")>>,
   <<H(<<"a", "b">>, "file"), To(<<"c">>, "symlink", Abs(<<"a", "b">>))>>}

Upper ==
  {<<<<h>>>> : h \in Headers} \cup {<<<<h, k>>>> : h, k \in Headers}
    \cup {<<<<h>>, <<k>>>> : h, k \in Headers}
    \cup {<<<<h>>, <<H(<<"a">>, "remove")>>, <<k>>>> : h, k \in
            {H(<<"a">>, "dir"), H(<<"a", "b">>, "file"), H(<<"c">>, "file")}}
    \cup {<<<<H(<<"a">>, "whiteout"), H(<<"c">>, "dir")>>>>,
          <<<<To(<<"a">>, "symlink", NoTarget)>>>>,
          <<<<To(<<"a">>, "symlink", Rel(0, <<"a">>)), H(<<"a", "b">>, "file")>>>>,
          <<<<To(<<"a">>, "symlink", Rel(0, <<"c">>)), To(<<"c">>, "symlink", Rel(0, <<"a">>)),
              H(<<"a", "b">>, "file")>>>>,
          <<<<To(<<"c", "d">>, "symlink", Rel(1, <<"a">>)), H(<<"c", "d", "b">>, "file")>>>>}

UpperDigests == <<"u1", "u2", "u3">>

Stacked(lower, upper) ==
  LET uppers == SubSeq(UpperDigests, 1, Len(upper))
  IN CallOf(<<Manifest(Tool, ImageOf(uppers)), Manifest(Agent, ImageOf(<<"l1">>))>>,
           [d \in {"l1"} \cup ToSet(uppers) |->
              IF d = "l1" THEN Blob(d, lower)
              ELSE Blob(d, upper[CHOOSE i \in 1..Len(upper) : uppers[i] = d])])

\* A deletion by the first kit, a file by the second, a deletion by the third.
Three ==
  {CallOf(<<Manifest(Tool, ImageOf(<<"u1">>)), Manifest(Tool, ImageOf(<<"u2">>)),
           Manifest(Agent, ImageOf(<<"l1">>))>>,
         [d \in {"l1", "u1", "u2"} |->
            Blob(d, <<CASE d = "l1" -> h [] d = "u1" -> k [] d = "u2" -> l>>)]) :
     h, k, l \in {H(<<"a">>, "remove"), H(<<"a", "b">>, "file"), H(<<"a">>, "dir"),
                  H(<<"a", "*">>, "opaque")}}

Filesystems == {Stacked(l, u) : l \in Lower, u \in Upper} \cup Three

MCScenarios == Registries \cup Moving \cup Sets \cup LayerSets \cup AtLimits \cup Filesystems
=============================================================================

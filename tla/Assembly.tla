------------------------------ MODULE Assembly ------------------------------
(***************************************************************************)
(* fetch.Assemble with DefaultLayerValidator: each requested kit is        *)
(* loaded, the images are composed, arguments and environment are expanded *)
(* and capabilities selected, every layer is inventoried, and the kits'    *)
(* files are checked against each other.  Every stage runs inside          *)
(* progressStep.  The caller may cancel the context and a publisher may    *)
(* move a tag between any two steps.                                       *)
(*                                                                         *)
(* What the two reads of a kit find (Options.Loader) and the verdict on    *)
(* the files (checkFileCollisions) are parameters; RegistryAssembly gives  *)
(* them their values.                                                      *)
(*                                                                         *)
(* References are numbered in string order.  A descriptor (an annotation)  *)
(* is [valid, kind, after, args, exports, asks]: the references it         *)
(* requires, whether every required argument has a value, the variables    *)
(* its arguments export, and its capability requests, each                 *)
(* [caps, optional, uses] - a group when caps has several members - where  *)
(* uses is the variable its config refers to.  A value of PATH is the list *)
(* of its elements; an image holds it apart from its other variables, <<>> *)
(* when it states none.                                                    *)
(***************************************************************************)
EXTENDS Integers, Sequences, FiniteSets, Strict

CONSTANTS
  Scenarios,              \* the calls to be made
  ReadDescriptor(_, _),   \* the descriptor under a root: [ok, ann, reads]
  ReadImage(_, _),        \* the image under a root: [ok, node, plat, reads]
  JudgeFiles(_, _),       \* the verdict on the inventories of kits in order
  Absent,                 \* no value: no node yet, no variable referred to
  MaxInventoryLayers,     \* maxInventoryLayers: 4096
  MaxInventoryEntries,    \* maxInventoryEntries: 250000
  MaxInventoryComponents  \* maxInventoryComponents: 250000

ASSUME InventoryIsBounded ==
  {MaxInventoryLayers, MaxInventoryEntries, MaxInventoryComponents} \subseteq Nat

Components(hdr) == Len(hdr.name) + hdr.to.up + Len(hdr.to.path)

-----------------------------------------------------------------------------
(* What a call is given.                                                   *)

IsList(seq) == seq \in Seq(ToSet(seq))

\* The roots a reference can resolve to while the call runs.
RootsOf(s) == {s.tags[r] : r \in DOMAIN s.tags} \cup {s.moves[r] : r \in DOMAIN s.moves}

\* A node that every set with the root in it and closed under indexes holds.
Under(S, root, node) ==
  \A T \in SUBSET DOMAIN S :
    /\ root \in T
    /\ \A n \in T : \A kid \in ToSet(S[n].kids) : kid.node \in T
    => node \in T

\* Requests are references, which are numbered, and blobs are lists of headers.
ASSUME CallsAreListed ==
  \A s \in Scenarios :
    /\ IsList(s.requests)
    /\ DOMAIN s.tags \subseteq Nat
    /\ ToSet(s.requests) \subseteq DOMAIN s.tags
    /\ \A d \in DOMAIN s.blobs :
         /\ IsList(s.blobs[d].headers)
         /\ \A hdr \in ToSet(s.blobs[d].headers) : Components(hdr) \in Nat

\* A descriptor that was read lists its requests. An image that was read lies
\* under the root it was read from, its layers are blobs, and its PATH is apart.
ASSUME LoaderReadsKits ==
  \A s \in Scenarios : \A root \in RootsOf(s) :
    LET descriptor == ReadDescriptor(s.store, root)
        image      == ReadImage(s.store, root)
    IN /\ descriptor.ok => IsList(descriptor.ann.asks)
       /\ image.ok =>
            /\ image.node \in DOMAIN s.store
            /\ Under(s.store, root, image.node)
            /\ "PATH" \notin DOMAIN s.store[image.node].image.env
            /\ IsList(s.store[image.node].image.layers)
            /\ \A desc \in ToSet(s.store[image.node].image.layers) :
                 desc.digest \in DOMAIN s.blobs

-----------------------------------------------------------------------------
VARIABLES
  given,        \* the call: requests, registry, blobs, selector, overrides,
                \* and whether the descriptors it selects merge
  tag,          \* the root each reference's tag points at now
  cancelled,    \* the context is done
  stage,        \* the progressStep entered or running
  item,         \* which request, or which kit in the order of the layers
  layer,        \* which of the kit's layers
  phase,        \* where in progressStep
  err,          \* the error in hand, "none" when nil
  events,       \* the progress reported
  reads,        \* manifests read by the last walk of the registry
  loaded,       \* the kits loaded so far and the one being loaded, by reference
  chosen,       \* what was decided on each kit's capability requests
  cache,        \* layer inventories by blob key
  left,         \* the inventory budget
  inventories,  \* the headers of each kit's layers
  result        \* what Assemble returned

vars == <<given, tag, cancelled, stage, item, layer, phase, err, events, reads, loaded,
          chosen, cache, left, inventories, result>>

Call == <<given, tag, cancelled>>
Gathered == <<reads, loaded, chosen, cache, left, inventories>>

Empty == [n \in {} |-> 0]
Running == [done |-> FALSE, err |-> "none", env |-> Empty]

Init ==
  /\ given \in Scenarios
  /\ tag = given.tags
  /\ cancelled = FALSE
  /\ stage = "begin"
  /\ item = 0
  /\ layer = 0
  /\ phase = "enter"
  /\ err = "none"
  /\ events = <<>>
  /\ reads = 0
  /\ loaded = Empty
  /\ chosen = <<>>
  /\ cache = Empty
  /\ left = [layers |-> MaxInventoryLayers, entries |-> MaxInventoryEntries,
             components |-> MaxInventoryComponents]
  /\ inventories = <<>>
  /\ result = Running

-----------------------------------------------------------------------------
(* Composition order.                                                      *)

Kits == DOMAIN loaded
Descriptor(r) == loaded[r].ann
Image(r) == given.store[loaded[r].node].image

\* Before position i, and what may come there: what all it requires precedes.
Placed(seq, i) == {seq[j] : j \in 1..(i - 1)}
Ready(seq, i) ==
  {r \in Kits \ Placed(seq, i) : Descriptor(r).after \subseteq Placed(seq, i)}

\* Providers before the kits that require them, the smallest reference first.
\* There is one such order, or none where requirements run in a circle.
Orders ==
  {seq \in [1..Len(given.requests) -> Kits] :
     /\ {seq[i] : i \in DOMAIN seq} = Kits
     /\ \A i \in DOMAIN seq :
          seq[i] \in Ready(seq, i) /\ \A r \in Ready(seq, i) : seq[i] <= r}
Topological == CHOOSE seq \in Orders : TRUE

IsWorkload(r) == Descriptor(r).kind = "workload"
Coherent ==
  /\ \E w \in Kits : \A r \in Kits : IsWorkload(r) <=> r = w
  /\ Orders # {}

\* Layers and image configs start with the workload, wherever it depends.
Ordered ==
  LET w == CHOOSE i \in DOMAIN Topological : IsWorkload(Topological[i])
  IN [i \in DOMAIN Topological |->
        IF i = 1 THEN Topological[w]
        ELSE IF i <= w THEN Topological[i - 1] ELSE Topological[i]]

Layers(k) == Image(Ordered[k]).layers
Diffs(k) == Image(Ordered[k]).diffs

-----------------------------------------------------------------------------
(* Composed environment.                                                   *)

\* The later function wins.
Over(f, g) ==
  [n \in DOMAIN f \cup DOMAIN g |-> IF n \in DOMAIN g THEN g[n] ELSE f[n]]

AllAgree(envs) ==
  \A i, j \in DOMAIN envs :
    \A n \in DOMAIN envs[i] \cap DOMAIN envs[j] : envs[i][n] = envs[j][n]

\* What functions that agree say between them.
Union(envs) ==
  [n \in UNION {DOMAIN envs[i] : i \in DOMAIN envs} |->
     envs[CHOOSE i \in DOMAIN envs : n \in DOMAIN envs[i]][n]]

\* The first kit to state a variable owns it, and nobody may state another value.
ImageEnvs == [i \in DOMAIN Ordered |-> Image(Ordered[i]).env]

Exports == [i \in DOMAIN Ordered |-> Descriptor(Ordered[i]).exports]

\* Mutant: the elements a kit brings go first.
MergePathInFront(path, addition) ==
  Fold(LAMBDA seq, e : IF e \in ToSet(seq) THEN seq ELSE <<e>> \o seq, path, addition)

\* PATH is added to: the elements a kit brings follow the ones already there.
MergePath(path, addition) ==
  Fold(LAMBDA seq, e : IF e \in ToSet(seq) THEN seq ELSE Append(seq, e), path, addition)

MergePaths(first, paths) == Fold(MergePath, first, paths)

\* The PATH of the merged image.
SearchPath ==
  LET paths == [i \in DOMAIN Ordered |-> Image(Ordered[i]).path]
  IN MergePaths(paths[1], paths)

\* The environment of the merged image.
ImageDefaults ==
  Over(Union(ImageEnvs), [n \in IF SearchPath = <<>> THEN {} ELSE {"PATH"} |-> SearchPath])

\* What kit.env references see: defaults, then exports, then overrides. PATH is a
\* variable like the others here.
Snapshot == Over(Over(ImageDefaults, Union(Exports)), given.overrides)

\* Mutant: an export replaces what the caller overrides.
ExportsWin == Over(Over(ImageDefaults, given.overrides), Union(Exports))

\* The container environment handed back, copied over the same defaults again.
Environment == Over(Over(ImageDefaults, Union(Exports)), given.overrides)

-----------------------------------------------------------------------------
(* progressStep.                                                           *)

Goto(s, i, l) ==
  stage' = s /\ item' = i /\ layer' = l /\ phase' = "enter" /\ err' = "none"

Return(e) ==
  /\ result' = [done |-> TRUE, err |-> e,
                env |-> IF e = "none" THEN Environment ELSE Empty]
  /\ stage' = "returned"
  /\ phase' = "enter"
  /\ err' = e
  /\ UNCHANGED <<item, layer>>

Event(state) ==
  Append(events, [stage |-> stage, item |-> item, layer |-> layer, state |-> state])

\* ctx.Err() in place of a nil error.
OrCancelled(e) == IF e = "none" /\ cancelled THEN "cancelled" ELSE e

Stages == {"load", "compose", "resolve", "inventory", "collisions"}

\* The duplicate-reference check precedes the step of its request.
Duplicate == stage = "load" /\ given.requests[item] \in Kits

Enter ==
  /\ stage \in Stages /\ phase = "enter"
  /\ IF Duplicate THEN Return("duplicate") /\ UNCHANGED events
     ELSE IF cancelled THEN Return("cancelled") /\ UNCHANGED events
     ELSE /\ events' = Event("started")
          /\ phase' = "run"
          /\ UNCHANGED <<stage, item, layer, err, result>>
  /\ UNCHANGED <<Call, Gathered>>

\* The body is not run when the started callback cancelled.
Abandon ==
  /\ stage \in Stages /\ phase = "run" /\ cancelled
  /\ err' = "cancelled"
  /\ phase' = "report"
  /\ UNCHANGED <<Call, Gathered, stage, item, layer, events, result>>

Body(e) ==
  /\ err' = e
  /\ phase' = "report"
  /\ UNCHANGED <<Call, stage, item, layer, events, result>>

\* Mutant: a step cancelled while it ran returns without closing its event.
ReportUnlessCancelled ==
  /\ stage \in Stages /\ phase = "report"
  /\ err' = OrCancelled(err)
  /\ events' = IF err' = "cancelled" THEN events
               ELSE Event(IF err' = "none" THEN "completed" ELSE "failed")
  /\ phase' = "leave"
  /\ UNCHANGED <<Call, Gathered, stage, item, layer, result>>

Report ==
  /\ stage \in Stages /\ phase = "report"
  /\ err' = OrCancelled(err)
  /\ events' = Event(IF err' = "none" THEN "completed" ELSE "failed")
  /\ phase' = "leave"
  /\ UNCHANGED <<Call, Gathered, stage, item, layer, result>>

After ==
  CASE stage = "load" ->
         IF item < Len(given.requests) THEN Goto("load", item + 1, 0) ELSE Goto("compose", 0, 0)
    [] stage = "compose" -> Goto("resolve", 0, 0)
    [] stage = "resolve" ->
         IF given.validate THEN Goto("inventory", 1, 1) ELSE Goto("finish", 0, 0)
    [] stage = "inventory" ->
         IF layer < Len(Layers(item)) THEN Goto("inventory", item, layer + 1)
         ELSE IF item < Len(Ordered) THEN Goto("inventory", item + 1, 1)
         ELSE Goto("collisions", 0, 0)
    [] stage = "collisions" -> Goto("finish", 0, 0)

Leave ==
  /\ stage \in Stages /\ phase = "leave"
  /\ IF OrCancelled(err) # "none" THEN Return(OrCancelled(err))
     ELSE After /\ UNCHANGED result
  /\ UNCHANGED <<Call, Gathered, events>>

-----------------------------------------------------------------------------
(* The stages.                                                             *)

Begin ==
  /\ stage = "begin"
  /\ IF cancelled THEN Return("cancelled")
     ELSE IF given.requests = <<>> THEN Return("empty")
     ELSE IF ~given.overridesValid THEN Return("overrides")
     ELSE Goto("load", 1, 0) /\ UNCHANGED result
  /\ UNCHANGED <<Call, Gathered, events>>

Requested == given.requests[item]

\* LoadKit, first half: the descriptor, and the digest its tag resolved to.
Fetch ==
  /\ stage = "load" /\ phase = "run" /\ ~cancelled
  /\ LET fetched == ReadDescriptor(given.store, tag[Requested])
     IN /\ reads' = fetched.reads
        /\ IF fetched.ok
           THEN /\ loaded' = Over(loaded, [r \in {Requested} |->
                     [root |-> tag[Requested], ann |-> fetched.ann, node |-> Absent, plat |-> "none"]])
                /\ phase' = "image"
                /\ UNCHANGED <<Call, stage, item, layer, err, events, result>>
           ELSE Body("fetch") /\ UNCHANGED loaded
  /\ UNCHANGED <<chosen, cache, left, inventories>>

\* Mutant: a load the context cancelled is never given up.
LoadForever ==
  /\ stage = "load" /\ phase = "image" /\ ~cancelled
  /\ LET image == ReadImage(given.store, loaded[Requested].root)
         valid == LET c == given.store[image.node].image IN c.sound /\ c.layers # <<>>
     IN /\ reads' = image.reads
        /\ IF ~image.ok THEN Body("image") /\ UNCHANGED loaded
           ELSE /\ loaded' = [loaded EXCEPT ![Requested].node = image.node,
                                            ![Requested].plat = image.plat]
                /\ Body(IF valid THEN "none" ELSE "invalid")
  /\ UNCHANGED <<chosen, cache, left, inventories>>

\* LoadKit, second half: the image by the digest pinned, and validateLoadedKit.
Load ==
  /\ stage = "load" /\ phase = "image"
  /\ LET image == ReadImage(given.store, loaded[Requested].root)
         valid == LET c == given.store[image.node].image IN c.sound /\ c.layers # <<>>
     IN IF cancelled THEN Body("cancelled") /\ UNCHANGED <<loaded, reads>>
        ELSE /\ reads' = image.reads
             /\ IF ~image.ok THEN Body("image") /\ UNCHANGED loaded
                ELSE /\ loaded' = [loaded EXCEPT ![Requested].node = image.node,
                                                 ![Requested].plat = image.plat]
                     /\ Body(IF valid THEN "none" ELSE "invalid")
  /\ UNCHANGED <<chosen, cache, left, inventories>>

\* No two images state a variable differently.
ImagesMerge == AllAgree(ImageEnvs)

\* Units resolve without their capabilities; images of one platform merge.
Compose ==
  /\ stage = "compose" /\ phase = "run" /\ ~cancelled
  /\ Body(IF ~Coherent THEN "resolve"
          ELSE IF \E r \in Kits : Image(r).plat # Image(Ordered[1]).plat THEN "platform"
          ELSE IF ~ImagesMerge THEN "environment"
          ELSE "none")
  /\ UNCHANGED Gathered

\* Every required argument has a value.
ArgsResolve == \A r \in Kits : Descriptor(r).args

\* Every variable that a capability's config refers to is set.
KitsExpand ==
  \A r \in Kits : \A a \in ToSet(Descriptor(r).asks) : a.uses \in {Absent} \cup DOMAIN Snapshot

\* mergeKits up to selection: arguments, exports and kit.env references.
Expand ==
  /\ stage = "resolve" /\ phase = "run" /\ ~cancelled
  /\ err' = IF ~ArgsResolve THEN "arguments"
            ELSE IF ~AllAgree(Exports) THEN "exports"
            ELSE IF ~KitsExpand THEN "reference"
            ELSE "none"
  /\ phase' = IF err' = "none" THEN "select" ELSE "settle"
  /\ chosen' = IF err' = "none" THEN <<<<>>>> ELSE <<>>
  /\ UNCHANGED <<Call, stage, item, layer, events, result, reads, loaded, cache, left,
                 inventories>>

\* Kits are decided on in dependency order, their requests as they are listed.
Asks(k) == Descriptor(Topological[k]).asks
Deciding == Len(chosen)
Supported(ask) == ask.caps \subseteq given.supported

\* One request: a group is accepted whole.
Select ==
  /\ stage = "resolve" /\ phase = "select"
  /\ Len(chosen[Deciding]) < Len(Asks(Deciding))
  /\ LET ask == Asks(Deciding)[Len(chosen[Deciding]) + 1]
     IN chosen' = [chosen EXCEPT ![Deciding] = Append(@,
          [accepted |-> ~cancelled /\ Supported(ask),
           value    |-> IF ask.uses = Absent THEN Absent ELSE Snapshot[ask.uses]])]
  /\ UNCHANGED <<Call, stage, item, layer, phase, err, events, result, reads, loaded,
                 cache, left, inventories>>

\* A required request of the kit was rejected.
Rejected(k) ==
  \E i \in DOMAIN chosen[k] : ~chosen[k][i].accepted /\ ~Asks(k)[i].optional

\* A kit's list has been gone through. After the last kit, what was selected
\* must merge into one descriptor that is valid in turn.
Selected ==
  /\ stage = "resolve" /\ phase = "select"
  /\ Len(chosen[Deciding]) = Len(Asks(Deciding))
  /\ IF ~Rejected(Deciding) /\ Deciding < Len(Topological)
     THEN chosen' = Append(chosen, <<>>) /\ UNCHANGED <<phase, err>>
     ELSE /\ err' = IF Rejected(Deciding) THEN "capability"
                    ELSE IF given.merges THEN "none" ELSE "merge"
          /\ phase' = "settle"
          /\ UNCHANGED chosen
  /\ UNCHANGED <<Call, stage, item, layer, events, result, reads, loaded, cache, left,
                 inventories>>

\* Mutant: a rejection by a cancelled selector stays a rejection.
SettleAsIs ==
  /\ stage = "resolve" /\ phase = "settle"
  /\ Body(OrCancelled(err))
  /\ UNCHANGED Gathered

\* A cancelled selector rejects everything, so the context's error comes first.
Settle ==
  /\ stage = "resolve" /\ phase = "settle"
  /\ Body(IF cancelled THEN "cancelled" ELSE err)
  /\ UNCHANGED Gathered

\* The path components of a list of headers, one by one.
PathComponents(headers) ==
  UNION {{e} \X (1..Components(headers[e])) : e \in DOMAIN headers}

\* A layer and its headers against the budget of the whole operation.
Charge(headers) ==
  [layers     |-> left.layers - 1,
   entries    |-> left.entries - Len(headers),
   components |-> left.components - Cardinality(PathComponents(headers))]
Affordable(after) == after.layers >= 0 /\ after.entries >= 0 /\ after.components >= 0

\* Mutant: what is in the cache costs nothing.
FreeReplay(headers) == left

\* Replaying a cached inventory costs what reading it did.
Replay(headers) == Charge(headers)

\* Mutant: a blob is looked up by digest and size alone.
BlobKeyWithoutDiffID(desc, diff) == <<desc.digest, desc.size>>

BlobKey(desc, diff) == <<desc.digest, desc.size, diff>>

\* The stream matches what the manifest and the config say of it.
Verified(desc, diff) ==
  LET blob == given.blobs[desc.digest]
  IN blob.is = desc.digest /\ blob.size = desc.size /\ blob.diff = diff

\* The layer at hand: its headers, replayed or read, what is left of the
\* budget, and the first thing that is wrong.
InventoryLayer ==
  /\ stage = "inventory" /\ phase = "run" /\ ~cancelled
  /\ LET desc  == Layers(item)[layer]
         diff  == Diffs(item)[layer]
         key   == BlobKey(desc, diff)
         hit   == key \in DOMAIN cache
         files == IF hit THEN cache[key] ELSE given.blobs[desc.digest].headers
         after == IF hit THEN Replay(files) ELSE Charge(files)
         wrong == IF ~Affordable(after) THEN "budget"
                  ELSE IF ~hit /\ ~Verified(desc, diff) THEN "mismatch"
                  ELSE "none"
     IN /\ Body(wrong)
        /\ IF wrong = "none"
           THEN /\ left' = after
                /\ cache' = Over(cache, [k \in {key} |-> files])
                /\ inventories' = IF layer = 1 THEN Append(inventories, <<files>>)
                                  ELSE [inventories EXCEPT ![item] = Append(@, files)]
           ELSE UNCHANGED <<left, cache, inventories>>
  /\ UNCHANGED <<reads, loaded, chosen>>

Verdicts == {"none", "extract", "collision"}

CheckFileCollisions ==
  /\ stage = "collisions" /\ phase = "run" /\ ~cancelled
  /\ \E verdict \in {JudgeFiles(inventories, Ordered)} : verdict \in Verdicts /\ Body(verdict)
  /\ UNCHANGED Gathered

Finish ==
  /\ stage = "finish"
  /\ Return(OrCancelled("none"))
  /\ UNCHANGED <<Call, Gathered, events>>

-----------------------------------------------------------------------------
Cancel ==
  /\ given.mayCancel /\ ~cancelled /\ ~result.done
  /\ cancelled' = TRUE
  /\ UNCHANGED <<given, tag, stage, item, layer, phase, err, events, Gathered, result>>

\* The publisher pushes another root under a tag.
MoveTag(r) ==
  /\ r \in DOMAIN given.moves /\ tag[r] # given.moves[r] /\ ~result.done
  /\ tag' = [tag EXCEPT ![r] = given.moves[r]]
  /\ UNCHANGED <<given, cancelled, stage, item, layer, phase, err, events, Gathered, result>>

Assemble ==
  \/ Begin \/ Enter \/ Abandon \/ Report \/ Leave
  \/ Fetch \/ Load \/ Compose \/ Expand \/ Select \/ Selected \/ Settle
  \/ InventoryLayer \/ CheckFileCollisions \/ Finish

Next ==
  \/ Assemble
  \/ Cancel
  \/ \E r \in DOMAIN tag : MoveTag(r)

Spec == Init /\ [][Next]_vars /\ WF_vars(Assemble)

-----------------------------------------------------------------------------
(* Properties.                                                             *)

Succeeded == result.done /\ result.err = "none"

\* What is assembled is what was pinned: the image of a kit lies under the root
\* its descriptor was read from, though the tag may have moved between the two
\* reads (LoadKit), and with the layer validator every layer's blob is the one
\* the kit's own manifest and config name, though another kit's layer may have
\* filled the cache (inventoryKits, readLayerInventory).
VerifiedAsListed ==
  Succeeded =>
    \A r \in Kits :
      /\ loaded[r].ann = ReadDescriptor(given.store, loaded[r].root).ann
      /\ Under(given.store, loaded[r].root, loaded[r].node)
      /\ given.validate =>
           \A i \in DOMAIN Image(r).layers :
             LET desc == Image(r).layers[i]
                 blob == given.blobs[desc.digest]
             IN <<blob.is, blob.size, blob.diff>>
                  = <<desc.digest, desc.size, Image(r).diffs[i]>>

\* The layers applied, their entries and the entries' path components.
Applied == UNION {{k} \X DOMAIN inventories[k] : k \in DOMAIN inventories}
Files(a) == inventories[a[1]][a[2]]
AppliedEntries == UNION {{a} \X DOMAIN Files(a) : a \in Applied}
AppliedComponents == UNION {{a} \X PathComponents(Files(a)) : a \in Applied}

\* One call applies no more layers, entries and path components than the
\* inventory's limits, those replayed from the cache counted again
\* (inventoryBudget).
WorkBounded ==
  /\ Cardinality(Applied) <= MaxInventoryLayers
  /\ Cardinality(AppliedEntries) <= MaxInventoryEntries
  /\ Cardinality(AppliedComponents) <= MaxInventoryComponents

Step(s, i, l) == [stage |-> s, item |-> i, layer |-> l]
StepOf(e) == Step(e.stage, e.item, e.layer)

\* The steps a complete assembly reports.
WholeStory ==
  {Step("load", i, 0) : i \in 1..Len(given.requests)}
    \cup {Step("compose", 0, 0), Step("resolve", 0, 0)}
    \cup (IF given.validate
          THEN {Step("collisions", 0, 0)}
                 \cup UNION {{Step("inventory", k, i) : i \in DOMAIN Layers(k)} :
                             k \in DOMAIN Ordered}
          ELSE {})

Rank == [load |-> 1, compose |-> 2, resolve |-> 3, inventory |-> 4, collisions |-> 5]

\* Stages in order, requests and kits in order, layers in order.
Precedes(a, b) ==
  \/ Rank[a.stage] < Rank[b.stage]
  \/ a.stage = b.stage /\ a.item < b.item
  \/ a.stage = b.stage /\ a.item = b.item /\ a.layer < b.layer

Opens(i) == events[i].state = "started"

\* Every started step is closed by one completed or failed event before the
\* next one starts and before Assemble returns, also when the callback or
\* anybody else cancels in the middle; steps come in order and none twice;
\* nothing follows a failure; and success has reported every step of the set
\* and no other (progressStep, OnProgress).
ProgressBracketed ==
  /\ \A i \in DOMAIN events :
       /\ Opens(i) <=> (i = 1 \/ ~Opens(i - 1))
       /\ ~Opens(i) => StepOf(events[i]) = StepOf(events[i - 1])
       /\ Opens(i) => \A j \in 1..(i - 1) : Precedes(events[j], events[i])
       /\ events[i].state = "failed" => i = Len(events)
  /\ result.done /\ events # <<>> => ~Opens(Len(events))
  /\ Succeeded => {StepOf(events[i]) : i \in DOMAIN events} = WholeStory

\* Cancellation never passes for a decision: a set is refused for a capability
\* only when the selector really lacks a required one, and a set is accepted
\* with every request the selector supports (Assemble's selector closure).
CancellationDecidesNothing ==
  /\ result.done /\ result.err = "capability" =>
       \E r \in Kits : \E a \in ToSet(Descriptor(r).asks) : ~a.optional /\ ~Supported(a)
  /\ Succeeded =>
       /\ Len(chosen) = Len(Topological)
       /\ \A k \in DOMAIN chosen :
            /\ Len(chosen[k]) = Len(Asks(k))
            /\ \A i \in DOMAIN chosen[k] : chosen[k][i].accepted <=> Supported(Asks(k)[i])

\* Capability configs were expanded with the environment the container gets,
\* and that environment is what every kit was promised: its exports hold unless
\* the caller overrode them, and its image's variables unless something
\* exported or overrode them (Merge, combineExports, WithEnvironment and the
\* copies at the end).
SnapshotIsTheEnvironment ==
  Succeeded =>
    /\ \A k \in DOMAIN chosen : \A i \in DOMAIN chosen[k] :
         Asks(k)[i].uses # Absent => result.env[Asks(k)[i].uses] = chosen[k][i].value
    /\ \A n \in DOMAIN given.overrides : result.env[n] = given.overrides[n]
    /\ \A r \in Kits :
         /\ \A n \in DOMAIN Descriptor(r).exports \ DOMAIN given.overrides :
              result.env[n] = Descriptor(r).exports[n]
         /\ \A n \in DOMAIN Image(r).env \ DOMAIN given.overrides :
              \/ result.env[n] = Image(r).env[n]
              \/ \E q \in Kits : n \in DOMAIN Descriptor(q).exports

\* Unless the caller or a kit's argument sets PATH as a whole, the PATH returned
\* has the elements of every image's and no other: the workload's first, as it
\* states them, and each element that another kit adds once (mergePath, and the
\* copies at the end).
PathsAreSearched ==
  LET whole == {given.overrides} \cup {Descriptor(r).exports : r \in Kits}
      stated == UNION {ToSet(Image(r).path) : r \in Kits}
      path == result.env["PATH"]
  IN Succeeded /\ stated # {} /\ (\A f \in whole : "PATH" \notin DOMAIN f) =>
       /\ "PATH" \in DOMAIN result.env
       /\ ToSet(path) = stated
       /\ \A w \in Kits : IsWorkload(w) =>
            LET base == Image(w).path
            IN /\ IsPrefix(base, path)
               /\ Len(path) = Len(base) + Cardinality(stated \ ToSet(base))

\* Assemble returns, whatever the registry holds, as long as its reads do.
AssembleReturns == <>(result.done)
=============================================================================

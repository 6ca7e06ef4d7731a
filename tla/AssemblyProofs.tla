--------------------------- MODULE AssemblyProofs ---------------------------
(***************************************************************************)
(* Proofs about Assemble, for any calls, any loader that reads what lies   *)
(* under the root it is given, any verdict on the files and any inventory  *)
(* limits.                                                                 *)
(*                                                                         *)
(* The stages hand what they established on to the next ones through the   *)
(* error in hand: AInv says what holds while it is nil, and an error once  *)
(* there is never taken back.  The events and the budget are followed      *)
(* whether or not there is one.                                            *)
(***************************************************************************)
EXTENDS Assembly, FiniteSetTheorems, SequenceTheorems, WellFoundedInduction, TLAPS

-----------------------------------------------------------------------------
(* The inductive invariant.                                                *)

Here == Step(stage, item, layer)
Open == {"run", "image", "select", "settle", "report"}

\* Where progressStep may be in each stage, and when an error is in hand.
ControlInv ==
  /\ given \in Scenarios
  /\ DOMAIN tag = DOMAIN given.tags
  /\ \A r \in DOMAIN tag : tag[r] \in RootsOf(given)
  /\ cancelled \in BOOLEAN
  /\ stage \in Stages \cup {"begin", "finish", "returned"}
  /\ phase \in {"enter", "leave"} \cup Open
  /\ stage \in {"begin", "finish", "returned"} => phase = "enter"
  /\ phase = "image" => stage = "load"
  /\ phase \in {"select", "settle"} => stage = "resolve"
  /\ stage = "load" => item \in 1..Len(given.requests) /\ layer = 0
  /\ stage \in {"compose", "resolve", "collisions"} => item = 0 /\ layer = 0
  /\ stage \in {"inventory", "collisions"} => given.validate
  /\ phase \in {"enter", "run", "image", "select"} /\ stage # "returned" => err = "none"
  /\ result.done <=> stage = "returned"
  /\ stage = "returned" => err = result.err

\* A kit's descriptor and image are those of one root.
Pinned(r) ==
  LET read == ReadDescriptor(given.store, loaded[r].root)
  IN /\ r \in DOMAIN given.tags
     /\ DOMAIN loaded[r] = {"root", "ann", "node", "plat"}
     /\ loaded[r].root \in RootsOf(given) /\ read.ok /\ loaded[r].ann = read.ann
Complete(r) ==
  LET read == ReadImage(given.store, loaded[r].root)
  IN /\ read.ok
     /\ loaded[r].node = read.node
     /\ Image(r).layers # <<>>

LoadInv ==
  /\ \A r \in Kits : Pinned(r)
  /\ stage = "begin" => Kits = {}
  /\ phase = "image" => Requested \in Kits
  /\ err = "none" => \A r \in Kits : Complete(r) \/ (phase = "image" /\ r = Requested)

\* Compose, and the resolve step up to selection, have succeeded.
Composed ==
  \/ stage = "compose" /\ phase \in {"report", "leave"}
  \/ stage \in {"resolve", "inventory", "collisions", "finish", "returned"}
Expanded ==
  \/ stage = "resolve" /\ phase \in {"select", "settle", "report", "leave"}
  \/ stage \in {"inventory", "collisions", "finish", "returned"}

ComposeInv ==
  err = "none" =>
    /\ Composed => Coherent /\ ImagesMerge
    /\ Expanded => AllAgree(Exports)

\* Kits are decided on one after another, each request where it is listed, with
\* the snapshot's value for the variable it refers to.
ChosenInv ==
  /\ IsList(chosen)
  /\ \A k \in DOMAIN chosen : IsList(chosen[k])
  /\ err = "none" /\ Expanded =>
       /\ Len(chosen) \in 1..Len(Topological)
       /\ \A k \in 1..(Len(chosen) - 1) : Len(chosen[k]) = Len(Asks(k))
       /\ Len(chosen[Len(chosen)]) <= Len(Asks(Len(chosen)))
       /\ phase # "select" => /\ Len(chosen) = Len(Topological)
                              /\ Len(chosen[Len(chosen)]) = Len(Asks(Len(chosen)))
       /\ \A k \in DOMAIN chosen : \A i \in DOMAIN chosen[k] :
            Asks(k)[i].uses # Absent => chosen[k][i].value = Snapshot[Asks(k)[i].uses]

\* A context cancelled during selection spoils answers only until the step ends.
Asking == stage = "resolve" /\ phase \in {"select", "settle"}
Lacking == \E r \in Kits : \E a \in ToSet(Descriptor(r).asks) : ~a.optional /\ ~Supported(a)

AnswersInv ==
  /\ err = "none" /\ Expanded /\ ~(Asking /\ cancelled) =>
       \A k \in DOMAIN chosen : \A i \in DOMAIN chosen[k] :
         chosen[k][i].accepted <=> Supported(Asks(k)[i])
  /\ err = "capability" /\ ~(Asking /\ cancelled) => Lacking
  /\ err = "capability" => stage \in {"resolve", "returned"}

\* What the cache holds under a key was read from the blob that key describes.
CacheInv ==
  \A key \in DOMAIN cache :
    /\ \E d, f : key = BlobKey(d, f) /\ Verified(d, f)
    /\ IsList(cache[key])
    /\ \A e \in DOMAIN cache[key] : Components(cache[key][e]) \in Nat

\* The layers before this one, and this one once it is done, were taken in.
InventoryInv ==
  err = "none" =>
    /\ stage \in {"begin", "load", "compose", "resolve"} => inventories = <<>>
    /\ stage = "inventory" =>
         /\ item \in DOMAIN Ordered
         /\ layer \in DOMAIN Layers(item)
         /\ \A k \in 1..(item - 1) : Len(inventories[k]) = Len(Layers(k))
         /\ phase \in {"enter", "run"} /\ layer = 1 => Len(inventories) = item - 1
         /\ phase \in {"enter", "run"} /\ layer # 1 =>
              Len(inventories) = item /\ Len(inventories[item]) = layer - 1
         /\ phase \in {"report", "leave"} =>
              Len(inventories) = item /\ Len(inventories[item]) = layer
    /\ stage \in {"collisions", "finish", "returned"} /\ given.validate =>
         /\ Len(inventories) = Len(Ordered)
         /\ \A k \in DOMAIN Ordered : Len(inventories[k]) = Len(Layers(k))
    /\ \A k \in DOMAIN inventories : \A i \in DOMAIN inventories[k] :
         Verified(Layers(k)[i], Diffs(k)[i])

\* The budget and what was taken in add up.
BudgetInv ==
  /\ IsList(inventories)
  /\ \A k \in DOMAIN inventories :
       /\ IsList(inventories[k])
       /\ \A i \in DOMAIN inventories[k] :
            /\ IsList(inventories[k][i])
            /\ \A e \in DOMAIN inventories[k][i] : Components(inventories[k][i][e]) \in Nat
  /\ left \in [layers : Nat, entries : Nat, components : Nat]
  /\ IsFiniteSet(Applied) /\ IsFiniteSet(AppliedEntries) /\ IsFiniteSet(AppliedComponents)
  /\ left.layers + Cardinality(Applied) = MaxInventoryLayers
  /\ left.entries + Cardinality(AppliedEntries) = MaxInventoryEntries
  /\ left.components + Cardinality(AppliedComponents) = MaxInventoryComponents

\* Steps of the whole story, seen from the step at hand.
InStory(s) ==
  \/ s.stage = "load" /\ s.item \in 1..Len(given.requests) /\ s.layer = 0
  \/ s.stage \in {"compose", "resolve"} /\ s.item = 0 /\ s.layer = 0
  \/ s.stage = "collisions" /\ given.validate /\ s.item = 0 /\ s.layer = 0
  \/ /\ s.stage = "inventory" /\ given.validate
     /\ s.item \in DOMAIN Ordered /\ s.layer \in DOMAIN Layers(s.item)

Closed == events # <<>> => ~Opens(Len(events))

Bracketed(i) ==
  /\ events[i].stage \in Stages /\ events[i].item \in Nat /\ events[i].layer \in Nat
  /\ Opens(i) <=> (i = 1 \/ ~Opens(i - 1))
  /\ ~Opens(i) => StepOf(events[i]) = StepOf(events[i - 1])
  /\ Opens(i) => \A j \in 1..(i - 1) : Precedes(events[j], events[i])
  /\ events[i].state = "failed" => i = Len(events) /\ err # "none"

\* What was reported is bracketed, and where it ends depends on the phase.
EventsInv ==
  /\ IsList(events)
  /\ \A i \in DOMAIN events : Bracketed(i)
  /\ phase \in {"enter", "leave"} => Closed
  /\ phase \in Open => events # <<>> /\ Opens(Len(events))
  /\ phase # "enter" => events # <<>> /\ StepOf(events[Len(events)]) = Here
  /\ stage = "begin" => events = <<>>
  /\ stage \in Stages /\ phase = "enter" => \A j \in DOMAIN events : Precedes(events[j], Here)

\* While there is no error the steps reported are the ones gone through.
Gone(s) ==
  CASE stage = "begin" -> FALSE
    [] stage \in {"finish", "returned"} -> TRUE
    [] stage \in Stages -> Precedes(s, Here) \/ (phase # "enter" /\ s = Here)
AnyStep == [stage : Stages, item : Nat, layer : Nat]
StoryInv ==
  err = "none" =>
    /\ \A j \in DOMAIN events :
         InStory(events[j]) /\ (stage = "load" => events[j].stage = "load")
    /\ \A s \in AnyStep : InStory(s) /\ Gone(s) => \E j \in DOMAIN events : StepOf(events[j]) = s

ResultInv == Succeeded => result.env = Environment

AInv ==
  /\ ControlInv /\ LoadInv /\ ComposeInv /\ ChosenInv /\ AnswersInv
  /\ CacheInv /\ InventoryInv /\ BudgetInv /\ EventsInv /\ StoryInv /\ ResultInv

-----------------------------------------------------------------------------
(* Lists.                                                                  *)

LEMMA ListFacts ==
  ASSUME NEW s, IsList(s)
  PROVE  Len(s) \in Nat /\ DOMAIN s = 1..Len(s) /\ (s # <<>> => Len(s) # 0)
BY DEF IsList

LEMMA AppendList ==
  ASSUME NEW s, IsList(s), NEW x
  PROVE  /\ IsList(Append(s, x))
         /\ Len(Append(s, x)) = Len(s) + 1
         /\ DOMAIN Append(s, x) = 1..(Len(s) + 1)
         /\ Append(s, x)[Len(s) + 1] = x
         /\ \A i \in 1..Len(s) : Append(s, x)[i] = s[i]
<1> DEFINE T == ToSet(s) \cup {x}
           a == Append(s, x)
<1>1. s \in Seq(T)
  BY DEF IsList
<1>2. /\ a \in Seq(T) /\ Len(a) = Len(s) + 1 /\ a[Len(s) + 1] = x
      /\ \A i \in 1..Len(s) : a[i] = s[i]
  BY <1>1
<1>3. Len(a) \in Nat /\ DOMAIN a = 1..Len(a)
  BY <1>2
<1>4. a \in Seq(ToSet(a))
  BY <1>2, <1>3 DEF ToSet
<1> QED BY <1>2, <1>3, <1>4 DEF IsList

LEMMA UpdateList ==
  ASSUME NEW s, IsList(s), NEW k \in 1..Len(s), NEW x
  PROVE  /\ IsList([s EXCEPT ![k] = x])
         /\ Len([s EXCEPT ![k] = x]) = Len(s)
         /\ DOMAIN [s EXCEPT ![k] = x] = 1..Len(s)
         /\ [s EXCEPT ![k] = x][k] = x
         /\ \A i \in 1..Len(s) : i # k => [s EXCEPT ![k] = x][i] = s[i]
<1> DEFINE T == ToSet(s) \cup {x}
           a == [s EXCEPT ![k] = x]
<1>1. s \in Seq(T) /\ Len(s) \in Nat /\ DOMAIN s = 1..Len(s)
  BY DEF IsList
<1>2. DOMAIN a = 1..Len(s) /\ a[k] = x /\ \A i \in 1..Len(s) : i # k => a[i] = s[i]
  BY <1>1
<1>3. a \in [1..Len(s) -> ToSet(a)]
  BY <1>2 DEF ToSet
<1> HIDE DEF a
<1>4. a \in Seq(ToSet(a))
  BY <1>1, <1>3
<1>5. Len(a) \in Nat /\ DOMAIN a = 1..Len(a)
  BY <1>4
<1>6. Len(a) <= Len(s) /\ Len(s) <= Len(a)
  BY <1>1, <1>2, <1>5
<1>7. \A m, n \in Nat : m <= n /\ n <= m => m = n
  OBVIOUS
<1>8. Len(a) = Len(s)
  BY <1>1, <1>5, <1>6, <1>7, Zenon
<1> QED BY <1>2, <1>4, <1>8 DEF IsList, a

-----------------------------------------------------------------------------
(* What a step that loads nothing leaves as it was.                        *)

LEMMA Stable ==
  ASSUME given' = given, loaded' = loaded
  PROVE  /\ Kits' = Kits
         /\ Topological' = Topological
         /\ Ordered' = Ordered
         /\ Coherent' = Coherent
         /\ ImagesMerge' = ImagesMerge
         /\ AllAgree(Exports)' = AllAgree(Exports)
         /\ Snapshot' = Snapshot
         /\ Environment' = Environment
         /\ \A k : Layers(k)' = Layers(k) /\ Diffs(k)' = Diffs(k) /\ Asks(k)' = Asks(k)
         /\ \A r : Pinned(r)' = Pinned(r) /\ Complete(r)' = Complete(r)
<1>0. Kits' = Kits /\ Orders' = Orders
  BY DEF Orders, Ready, Placed, Kits, Descriptor
<1>1. Topological' = Topological
  BY <1>0 DEF Topological
<1>2. Ordered' = Ordered
  BY <1>1 DEF Ordered, IsWorkload, Descriptor
<1>3. Coherent' = Coherent
  BY <1>0 DEF Coherent, IsWorkload, Descriptor, Kits
<1>4. ImageEnvs' = ImageEnvs /\ Exports' = Exports
  BY <1>2 DEF ImageEnvs, Exports, Image, Descriptor
<1>5. ImagesMerge' = ImagesMerge /\ AllAgree(Exports)' = AllAgree(Exports)
  BY <1>4 DEF ImagesMerge, AllAgree
<1>6. Snapshot' = Snapshot /\ Environment' = Environment
  <2>1. SearchPath' = SearchPath
    BY <1>2 DEF SearchPath, Image
  <2>2. ImageDefaults' = ImageDefaults
    BY <1>4, <2>1 DEF ImageDefaults, Union, Over
  <2> QED BY <1>4, <2>2 DEF Snapshot, Environment, Union, Over
<1>7. \A k : Layers(k)' = Layers(k) /\ Diffs(k)' = Diffs(k)
  BY <1>2 DEF Layers, Diffs, Image
<1>8. \A k : Asks(k)' = Asks(k)
  BY <1>1 DEF Asks, Descriptor
<1>9. \A r : Pinned(r)' = Pinned(r) /\ Complete(r)' = Complete(r)
  BY DEF Pinned, Complete, Image
<1> QED BY <1>0, <1>1, <1>2, <1>3, <1>5, <1>6, <1>7, <1>8, <1>9

-----------------------------------------------------------------------------
(* Control.                                                                *)

\* Every call starts before its first step.
LEMMA InitControl == Init => ControlInv
<1> SUFFICES ASSUME Init PROVE ControlInv
  OBVIOUS
<1>1. result.done = FALSE /\ result.err = "none"
  BY DEF Init, Running
<1>2. /\ given \in Scenarios /\ DOMAIN tag = DOMAIN given.tags
      /\ \A r \in DOMAIN tag : tag[r] \in RootsOf(given)
  BY DEF Init, RootsOf
<1> QED BY <1>1, <1>2 DEF Init, ControlInv, Stages, Open

\* What a call is given never changes, and its tags move among its roots.
LEMMA GivenStep ==
  ASSUME ControlInv, [Next]_vars
  PROVE  /\ given' = given /\ given \in Scenarios
         /\ DOMAIN tag' = DOMAIN given.tags
         /\ \A r \in DOMAIN tag' : tag'[r] \in RootsOf(given)
         /\ cancelled' \in BOOLEAN
         /\ cancelled => cancelled'
<1>1. CASE UNCHANGED vars
  BY <1>1 DEF vars, ControlInv
<1>2. CASE Assemble
  <2>1. UNCHANGED Call
    BY <1>2 DEF Assemble, Begin, Enter, Abandon, Report, Leave, Fetch, Load, Compose, Expand,
                Select, Selected, Settle, InventoryLayer, CheckFileCollisions, Finish, Body, Call
  <2> QED BY <2>1 DEF Call, ControlInv
<1>3. CASE Cancel
  BY <1>3 DEF Cancel, ControlInv
<1>4. ASSUME NEW r \in DOMAIN tag, MoveTag(r)
      PROVE  /\ given' = given /\ given \in Scenarios
             /\ DOMAIN tag' = DOMAIN given.tags
             /\ \A q \in DOMAIN tag' : tag'[q] \in RootsOf(given)
             /\ cancelled' = cancelled
  BY <1>4 DEF MoveTag, ControlInv, RootsOf
<1> QED BY <1>1, <1>2, <1>3, <1>4 DEF Next, ControlInv

\* An error is never taken back.
LEMMA ErrorStays ==
  ASSUME ControlInv, [Next]_vars, err' = "none"
  PROVE  err = "none"
BY DEF ControlInv, Next, vars, Assemble, Begin, Enter, Abandon, Report, Leave, Fetch, Load,
       Compose, Expand, Select, Selected, Settle, InventoryLayer, CheckFileCollisions, Finish,
       Cancel, MoveTag, Body, Return, Goto, OrCancelled, Stages

\* Where a step may be after each action.
LEMMA ControlStep ==
  ASSUME ControlInv, [Next]_vars
  PROVE  ControlInv'
<1> DEFINE Shape ==
      /\ stage \in Stages \cup {"begin", "finish", "returned"}
      /\ phase \in {"enter", "leave"} \cup Open
      /\ stage \in {"begin", "finish", "returned"} => phase = "enter"
      /\ phase = "image" => stage = "load"
      /\ phase \in {"select", "settle"} => stage = "resolve"
      /\ stage = "load" => item \in 1..Len(given.requests) /\ layer = 0
      /\ stage \in {"compose", "resolve", "collisions"} => item = 0 /\ layer = 0
      /\ stage \in {"inventory", "collisions"} => given.validate
      /\ phase \in {"enter", "run", "image", "select"} /\ stage # "returned" => err = "none"
      /\ result.done <=> stage = "returned"
      /\ stage = "returned" => err = result.err
<1>0. Shape
  BY DEF ControlInv
<1>1. given' = given
  BY GivenStep
<1>2. IsList(given.requests)
  BY CallsAreListed DEF ControlInv
<1>3. Len(given.requests) \in Nat /\ (given.requests # <<>> => Len(given.requests) > 0)
  BY <1>2 DEF IsList
<1> SUFFICES Shape'
  BY <1>1, GivenStep DEF ControlInv
<1>4. CASE UNCHANGED vars
  BY <1>0, <1>1, <1>4 DEF vars
<1>5. CASE Begin
  BY <1>0, <1>1, <1>3, <1>5 DEF Begin, Return, Goto, Stages, Open
<1>6. CASE Enter
  BY <1>0, <1>1, <1>6 DEF Enter, Return, Stages, Open
<1>7. CASE Abandon
  BY <1>0, <1>1, <1>7 DEF Abandon, Stages, Open
<1>8. CASE Report
  BY <1>0, <1>1, <1>8 DEF Report, Stages, Open
<1>9. CASE Leave
  <2>1. CASE OrCancelled(err) # "none"
    BY <1>0, <1>1, <1>9, <2>1 DEF Leave, Return, Stages, Open
  <2>2. CASE OrCancelled(err) = "none"
    <3>1. After /\ UNCHANGED result /\ stage \in Stages
      BY <1>9, <2>2 DEF Leave
    <3>2. CASE stage = "load"
      <4>1. \/ item < Len(given.requests) /\ Goto("load", item + 1, 0)
            \/ Goto("compose", 0, 0)
        BY <3>1, <3>2 DEF After
      <4> QED BY <1>0, <1>1, <1>3, <3>1, <3>2, <4>1 DEF Goto, Stages, Open
    <3>3. CASE stage = "compose"
      BY <1>0, <1>1, <3>1, <3>3 DEF After, Goto, Stages, Open
    <3>4. CASE stage = "resolve"
      BY <1>0, <1>1, <3>1, <3>4 DEF After, Goto, Stages, Open
    <3>5. CASE stage = "inventory"
      <4>1. \E k, l : Goto("inventory", k, l) \/ Goto("collisions", 0, 0)
        BY <3>1, <3>5 DEF After
      <4> QED BY <1>0, <1>1, <3>1, <3>5, <4>1 DEF Goto, Stages, Open
    <3>6. CASE stage = "collisions"
      BY <1>0, <1>1, <3>1, <3>6 DEF After, Goto, Stages, Open
    <3> QED BY <3>1, <3>2, <3>3, <3>4, <3>5, <3>6 DEF Stages
  <2> QED BY <2>1, <2>2
<1>10. CASE Fetch \/ Load \/ Compose \/ Settle \/ InventoryLayer \/ CheckFileCollisions
  <2>1. /\ UNCHANGED <<stage, item, layer, result>>
        /\ stage \in Stages
        /\ \/ phase' = "report"
           \/ phase' = "image" /\ stage = "load" /\ err' = "none"
    BY <1>0, <1>10 DEF Fetch, Load, Compose, Settle, InventoryLayer, CheckFileCollisions, Body, Stages
  <2> QED BY <1>0, <1>1, <2>1 DEF Stages, Open
<1>11. CASE Expand \/ Select \/ Selected
  <2>1. /\ UNCHANGED <<stage, item, layer, result>>
        /\ stage = "resolve"
        /\ \/ phase' = "settle"
           \/ phase' = "select" /\ err' = "none"
    BY <1>0, <1>11 DEF Expand, Select, Selected
  <2> QED BY <1>0, <1>1, <2>1 DEF Stages, Open
<1>12. CASE Finish
  BY <1>0, <1>1, <1>12 DEF Finish, Return, Stages, Open
<1>13. CASE Cancel
  BY <1>0, <1>1, <1>13 DEF Cancel
<1>14. ASSUME NEW r \in DOMAIN tag, MoveTag(r) PROVE Shape'
  BY <1>0, <1>1, <1>14 DEF MoveTag
<1> QED BY <1>4, <1>5, <1>6, <1>7, <1>8, <1>9, <1>10, <1>11, <1>12, <1>13, <1>14 DEF Next, Assemble

-----------------------------------------------------------------------------
(* Loading.                                                                *)

\* The reference being loaded is one of the call's.
LEMMA RequestedIsTagged ==
  ASSUME ControlInv, stage = "load"
  PROVE  Requested \in DOMAIN tag
<1>1. IsList(given.requests) /\ ToSet(given.requests) \subseteq DOMAIN given.tags
  BY CallsAreListed DEF ControlInv
<1>2. item \in DOMAIN given.requests
  BY <1>1, ListFacts DEF ControlInv
<1> QED BY <1>1, <1>2 DEF Requested, ToSet, ControlInv

\* Only the two reads of a kit touch what is loaded.
LEMMA LoadedFrame ==
  ASSUME ControlInv, [Next]_vars, ~Fetch, ~Load
  PROVE  /\ loaded' = loaded
         /\ phase' = "image" <=> phase = "image"
         /\ phase = "image" => item' = item
         /\ stage' = "begin" => stage = "begin"
<1>1. CASE UNCHANGED vars
  BY <1>1 DEF vars
<1>2. CASE Begin \/ Enter \/ Abandon \/ Report \/ Finish
  BY <1>2 DEF Begin, Enter, Abandon, Report, Finish, Return, Goto, Gathered, ControlInv, Stages
<1>3. CASE Leave
  BY <1>3 DEF Leave, Return, After, Goto, Gathered, Stages
<1>4. CASE Compose \/ Settle \/ CheckFileCollisions \/ InventoryLayer
  BY <1>4 DEF Compose, Settle, CheckFileCollisions, InventoryLayer, Body, Gathered
<1>5. CASE Expand \/ Select \/ Selected
  BY <1>5 DEF Expand, Select, Selected
<1>6. CASE Cancel \/ \E r \in DOMAIN tag : MoveTag(r)
  BY <1>6 DEF Cancel, MoveTag, Gathered
<1> QED BY <1>1, <1>2, <1>3, <1>4, <1>5, <1>6 DEF Next, Assemble

\* A kit that was loaded stays pinned, and is complete when there is no error.
LEMMA LoadStep ==
  ASSUME ControlInv, LoadInv, [Next]_vars
  PROVE  LoadInv'
<1>1. given' = given /\ (err' = "none" => err = "none")
  BY GivenStep, ErrorStays
<1>2. CASE ~Fetch /\ ~Load
  <2>1. /\ loaded' = loaded
        /\ phase' = "image" <=> phase = "image"
        /\ phase = "image" => item' = item
        /\ stage' = "begin" => stage = "begin"
    BY <1>2, LoadedFrame
  <2>2. Kits' = Kits /\ \A r : Pinned(r)' = Pinned(r) /\ Complete(r)' = Complete(r)
    BY <1>1, <2>1, Stable
  <2> QED BY <1>1, <2>1, <2>2 DEF LoadInv, Requested
<1>3. CASE Fetch
  <2> DEFINE q == Requested
             read == ReadDescriptor(given.store, tag[q])
             new == [root |-> tag[q], ann |-> read.ann, node |-> Absent, plat |-> "none"]
  <2>1. /\ q \in DOMAIN given.tags /\ tag[q] \in RootsOf(given)
        /\ stage = "load" /\ phase = "run" /\ err = "none"
    BY <1>3, RequestedIsTagged DEF Fetch, ControlInv
  <2>2. stage' = stage /\ Requested' = Requested
    BY <1>1, <1>3 DEF Fetch, Body, Requested
  <2>3. CASE ~read.ok
    <3>1. loaded' = loaded /\ err' = "fetch" /\ phase' = "report"
      BY <1>3, <2>3 DEF Fetch, Body
    <3>2. Kits' = Kits /\ \A r : Pinned(r)' = Pinned(r)
      BY <1>1, <3>1, Stable
    <3> QED BY <2>1, <2>2, <3>1, <3>2 DEF LoadInv
  <2>4. CASE read.ok
    <3>1. /\ loaded' = Over(loaded, [r \in {q} |-> new])
          /\ phase' = "image" /\ err' = err
      BY <1>3, <2>4 DEF Fetch
    <3>2. /\ Kits' = Kits \cup {q} /\ loaded'[q] = new
          /\ \A r \in Kits : r # q => loaded'[r] = loaded[r]
      BY <3>1 DEF Over, Kits
    <3>3. \A r : r = q => Pinned(r)'
      BY <1>1, <2>1, <2>4, <3>2 DEF Pinned, RootsOf
    <3>4. \A r \in Kits : r # q => Pinned(r)' /\ Complete(r)'
      BY <1>1, <2>1, <3>2 DEF LoadInv, Pinned, Complete, Image
    <3> QED BY <2>1, <2>2, <3>1, <3>2, <3>3, <3>4 DEF LoadInv
  <2> QED BY <2>3, <2>4
<1>4. CASE Load
  <2> DEFINE q == Requested
             read == ReadImage(given.store, loaded[q].root)
             image == given.store[read.node].image
  <2>1. stage = "load" /\ phase = "image" /\ err = "none" /\ q \in Kits
    BY <1>4 DEF Load, ControlInv, LoadInv
  <2>2. stage' = stage /\ Requested' = Requested /\ phase' = "report"
    BY <1>1, <1>4 DEF Load, Body, Requested
  <2>3. CASE cancelled \/ ~read.ok
    <3>1. loaded' = loaded /\ err' \in {"cancelled", "image"}
      BY <1>4, <2>3 DEF Load, Body
    <3>2. Kits' = Kits /\ \A r : Pinned(r)' = Pinned(r)
      BY <1>1, <3>1, Stable
    <3> QED BY <2>1, <2>2, <3>1, <3>2 DEF LoadInv
  <2>4. CASE ~cancelled /\ read.ok
    <3>1. /\ loaded' = [loaded EXCEPT ![q].node = read.node, ![q].plat = read.plat]
          /\ err' = "none" => image.layers # <<>>
      BY <1>4, <2>4 DEF Load, Body
    <3>0. q \in DOMAIN loaded /\ DOMAIN loaded[q] = {"root", "ann", "node", "plat"}
      BY <2>1 DEF Kits, LoadInv, Pinned
    <3>2. /\ Kits' = Kits
          /\ DOMAIN loaded'[q] = {"root", "ann", "node", "plat"}
          /\ loaded'[q].node = read.node /\ loaded'[q].root = loaded[q].root
          /\ loaded'[q].ann = loaded[q].ann
          /\ \A r \in Kits : r # q => loaded'[r] = loaded[r]
      BY <3>0, <3>1 DEF Kits
    <3>3. \A r \in Kits : Pinned(r)'
      BY <1>1, <3>2 DEF LoadInv, Pinned
    <3>4. \A r : r = q /\ err' = "none" => Complete(r)'
      BY <1>1, <2>4, <3>1, <3>2 DEF Complete, Image
    <3>5. \A r \in Kits : r # q => Complete(r)'
      BY <1>1, <2>1, <3>2 DEF LoadInv, Complete, Image
    <3> QED BY <2>1, <2>2, <3>2, <3>3, <3>4, <3>5 DEF LoadInv
  <2> QED BY <2>3, <2>4
<1> QED BY <1>2, <1>3, <1>4

\* What is loaded is settled once the last kit has been.
LEMMA LoadedForGood ==
  ASSUME ControlInv, [Next]_vars, stage \notin {"begin", "load"}
  PROVE  loaded' = loaded
<1>1. ~Fetch /\ ~Load
  BY DEF Fetch, Load
<1> QED BY <1>1, LoadedFrame

-----------------------------------------------------------------------------
(* Composing and expanding.                                                *)

\* Without an error, a stage is entered only through the one before it.
LEMMA NoWayRound ==
  ASSUME ControlInv, [Next]_vars, err' = "none"
  PROVE  /\ Composed' => Composed \/ Compose
         /\ Expanded' => Expanded \/ Expand
<1>1. CASE UNCHANGED vars
  BY <1>1 DEF vars, Composed, Expanded
<1>2. CASE Begin \/ Enter \/ Abandon \/ Report \/ Finish
  BY <1>2 DEF Begin, Enter, Abandon, Report, Finish, Return, Goto, Composed, Expanded, Stages
<1>3. CASE Leave
  <2>1. After /\ stage \in Stages /\ phase = "leave"
    BY <1>3 DEF Leave, Return
  <2> QED BY <2>1 DEF After, Goto, Composed, Expanded, Stages
<1>4. CASE Fetch \/ Load \/ CheckFileCollisions \/ InventoryLayer
  BY <1>4 DEF Fetch, Load, CheckFileCollisions, InventoryLayer, Body, Composed, Expanded
<1>5. CASE Compose \/ Settle
  BY <1>5 DEF Compose, Settle, Body, Composed, Expanded
<1>6. CASE Expand \/ Select \/ Selected
  BY <1>6 DEF Expand, Select, Selected, Composed, Expanded
<1>7. CASE Cancel \/ \E r \in DOMAIN tag : MoveTag(r)
  BY <1>7 DEF Cancel, MoveTag, Composed, Expanded
<1> QED BY <1>1, <1>2, <1>3, <1>4, <1>5, <1>6, <1>7 DEF Next, Assemble

\* A set that was found coherent, and exports found to agree, remain so.
LEMMA ComposeStep ==
  ASSUME ControlInv, ComposeInv, [Next]_vars
  PROVE  ComposeInv'
<1> SUFFICES ASSUME err' = "none"
             PROVE  /\ Composed' => Coherent' /\ ImagesMerge'
                    /\ Expanded' => AllAgree(Exports)'
  BY DEF ComposeInv
<1>1. err = "none" /\ given' = given
  BY ErrorStays, GivenStep
<1>2. Composed \/ Compose => loaded' = loaded
  BY LoadedForGood DEF Composed, Compose
<1>3. Expanded \/ Expand => loaded' = loaded
  BY LoadedForGood DEF Expanded, Expand
<1>4. Compose => Coherent /\ ImagesMerge
  BY DEF Compose, Body
<1>5. Expand => AllAgree(Exports)
  BY DEF Expand
<1> QED BY <1>1, <1>2, <1>3, <1>4, <1>5, NoWayRound, Stable DEF ComposeInv

-----------------------------------------------------------------------------
(* The two orders of the kits.                                             *)

\* A function on 1..n is a list of length n.
LEMMA FunctionIsList ==
  ASSUME NEW n \in Nat, NEW f, f \in [1..n -> ToSet(f)]
  PROVE  IsList(f) /\ Len(f) = n
<1>1. f \in Seq(ToSet(f))
  OBVIOUS
<1>2. Len(f) \in Nat /\ DOMAIN f = 1..Len(f)
  BY <1>1
<1>3. Len(f) <= n /\ n <= Len(f)
  BY <1>2
<1>4. \A m, k \in Nat : m <= k /\ k <= m => m = k
  OBVIOUS
<1> QED BY <1>1, <1>2, <1>3, <1>4 DEF IsList

\* The dependency order of a coherent set lists its kits.
LEMMA TopologicalFacts ==
  ASSUME ControlInv, Coherent
  PROVE  /\ IsList(Topological) /\ Len(Topological) \in Nat \ {0}
         /\ DOMAIN Topological = 1..Len(Topological)
         /\ \A i \in DOMAIN Topological : Topological[i] \in Kits
         /\ \A r \in Kits : \E i \in DOMAIN Topological : Topological[i] = r
<1> DEFINE n == Len(given.requests)
           T == Topological
<1>1. n \in Nat
  BY CallsAreListed DEF ControlInv, IsList
<1>2. T \in Orders
  BY DEF Coherent, Topological
<1>3. T \in [1..n -> Kits] /\ {T[i] : i \in DOMAIN T} = Kits
  BY <1>2 DEF Orders
<1> HIDE DEF T, n
<1>4. DOMAIN T = 1..n /\ T \in [1..n -> ToSet(T)]
  BY <1>3 DEF ToSet
<1>5. IsList(T) /\ Len(T) = n
  BY <1>1, <1>4, FunctionIsList
<1>6. PICK w \in Kits : TRUE
  BY DEF Coherent
<1>7. PICK i \in DOMAIN T : T[i] = w
  BY <1>3, <1>6
<1>8. n # 0
  BY <1>1, <1>4, <1>7
<1> QED BY <1>1, <1>3, <1>4, <1>5, <1>8 DEF T

\* So does the order of the layers, in which only the workload moved.
LEMMA OrderedFacts ==
  ASSUME ControlInv, Coherent
  PROVE  /\ IsList(Ordered) /\ Len(Ordered) = Len(Topological)
         /\ DOMAIN Ordered = 1..Len(Ordered) /\ Len(Ordered) \in Nat \ {0}
         /\ \A i \in DOMAIN Ordered : Ordered[i] \in Kits
         /\ \A r \in Kits : \E i \in DOMAIN Ordered : Ordered[i] = r
<1> DEFINE n == Len(Topological)
           w == CHOOSE i \in DOMAIN Topological : IsWorkload(Topological[i])
           O == Ordered
<1>1. /\ n \in Nat \ {0} /\ DOMAIN Topological = 1..n
      /\ \A i \in 1..n : Topological[i] \in Kits
      /\ \A r \in Kits : \E i \in 1..n : Topological[i] = r
  BY TopologicalFacts
<1>2. \E i \in DOMAIN Topological : IsWorkload(Topological[i])
  BY <1>1 DEF Coherent
<1>3. w \in 1..n
  BY <1>1, <1>2
<1>4. O = [i \in 1..n |-> IF i = 1 THEN Topological[w]
                          ELSE IF i <= w THEN Topological[i - 1] ELSE Topological[i]]
  BY <1>1 DEF Ordered
<1> HIDE DEF w, n, O
<1>5. DOMAIN O = 1..n /\ \A i \in 1..n : O[i] \in Kits
  BY <1>1, <1>3, <1>4
<1>6. O \in [1..n -> ToSet(O)]
  BY <1>4, <1>5 DEF ToSet
<1>7. IsList(O) /\ Len(O) = n
  BY <1>1, <1>6, FunctionIsList
<1>8. ASSUME NEW r \in Kits PROVE \E i \in 1..n : O[i] = r
  <2>1. PICK j \in 1..n : Topological[j] = r
    BY <1>1
  <2>2. CASE j = w
    BY <1>1, <1>4, <2>1, <2>2
  <2>3. CASE j < w
    <3>1. j + 1 \in 1..n /\ j + 1 # 1 /\ j + 1 <= w /\ (j + 1) - 1 = j
      BY <1>1, <1>3, <2>3
    <3>2. O[j + 1] = Topological[j]
      BY <1>4, <3>1
    <3> QED BY <2>1, <3>1, <3>2
  <2>4. CASE j > w
    <3>1. j # 1 /\ ~(j <= w)
      BY <1>1, <1>3, <2>4
    <3> QED BY <1>4, <2>1, <3>1
  <2> QED BY <1>1, <1>3, <2>2, <2>3, <2>4
<1> QED BY <1>1, <1>5, <1>7, <1>8 DEF O, n

\* What the loader's contract says of the kits of a call.
LEMMA PinnedFacts ==
  ASSUME ControlInv, NEW r \in Kits, Pinned(r)
  PROVE  IsList(Descriptor(r).asks)
BY LoaderReadsKits DEF ControlInv, Pinned, Descriptor

LEMMA CompleteFacts ==
  ASSUME ControlInv, NEW r \in Kits, Pinned(r), Complete(r)
  PROVE  /\ Under(given.store, loaded[r].root, loaded[r].node)
         /\ IsList(Image(r).layers)
         /\ \A i \in DOMAIN Image(r).layers : Image(r).layers[i].digest \in DOMAIN given.blobs
         /\ Len(Image(r).layers) \in Nat \ {0}
         /\ DOMAIN Image(r).layers = 1..Len(Image(r).layers)
         /\ "PATH" \notin DOMAIN Image(r).env
<1> DEFINE image == ReadImage(given.store, loaded[r].root)
           list == given.store[image.node].image.layers
<1>1. /\ image.ok /\ loaded[r].node = image.node /\ Image(r).layers = list /\ list # <<>>
      /\ loaded[r].root \in RootsOf(given) /\ given \in Scenarios
  BY DEF Complete, Pinned, ControlInv, Image
<1>2. /\ Under(given.store, loaded[r].root, image.node) /\ IsList(list)
      /\ \A desc \in ToSet(list) : desc.digest \in DOMAIN given.blobs
  BY <1>1, LoaderReadsKits
<1>3. Len(list) \in Nat /\ DOMAIN list = 1..Len(list) /\ Len(list) # 0
  BY <1>1, <1>2, ListFacts
<1>4. "PATH" \notin DOMAIN Image(r).env
  BY <1>1, LoaderReadsKits DEF Image
<1> QED BY <1>1, <1>2, <1>3, <1>4 DEF ToSet

\* With no error after the compose step, every kit has its lists.
LEMMA KitFacts ==
  ASSUME ControlInv, LoadInv, ComposeInv, err = "none", Composed
  PROVE  /\ Coherent
         /\ \A k \in DOMAIN Topological :
              /\ IsList(Asks(k)) /\ Len(Asks(k)) \in Nat /\ DOMAIN Asks(k) = 1..Len(Asks(k))
         /\ \A k \in DOMAIN Ordered :
              /\ IsList(Layers(k)) /\ Len(Layers(k)) \in Nat \ {0}
              /\ DOMAIN Layers(k) = 1..Len(Layers(k))
              /\ \A i \in DOMAIN Layers(k) : Layers(k)[i].digest \in DOMAIN given.blobs
<1>1. Coherent
  BY DEF ComposeInv
<1>2. phase # "image"
  BY DEF ControlInv, Composed
<1>3. \A r \in Kits : Pinned(r) /\ Complete(r)
  BY <1>2 DEF LoadInv
<1>4. \A k \in DOMAIN Topological : IsList(Asks(k))
  BY <1>1, <1>3, TopologicalFacts, PinnedFacts DEF Asks
<1>5. \A k \in DOMAIN Topological : Len(Asks(k)) \in Nat /\ DOMAIN Asks(k) = 1..Len(Asks(k))
  BY <1>4, ListFacts
<1> QED BY <1>1, <1>3, <1>4, <1>5, OrderedFacts, CompleteFacts DEF Layers

-----------------------------------------------------------------------------
(* Selecting.                                                              *)

\* Only mergeKits decides on requests.
LEMMA ChosenFrame ==
  ASSUME ControlInv, [Next]_vars, ~Expand, ~Select, ~Selected
  PROVE  chosen' = chosen /\ (phase = "select" => phase' = "select")
<1>1. CASE UNCHANGED vars
  BY <1>1 DEF vars
<1>2. CASE Begin \/ Enter \/ Abandon \/ Report \/ Leave \/ Finish
  BY <1>2 DEF Begin, Enter, Abandon, Report, Leave, Finish, Gathered, ControlInv
<1>3. CASE Fetch \/ Load \/ Compose \/ Settle \/ CheckFileCollisions \/ InventoryLayer
  BY <1>3 DEF Fetch, Load, Compose, Settle, CheckFileCollisions, InventoryLayer, Gathered
<1>4. CASE Cancel \/ \E r \in DOMAIN tag : MoveTag(r)
  BY <1>4 DEF Cancel, MoveTag, Gathered
<1> QED BY <1>1, <1>2, <1>3, <1>4 DEF Next, Assemble

\* Decisions are added one at a time, where they belong.
LEMMA ChosenStep ==
  ASSUME ControlInv, LoadInv, ComposeInv, ChosenInv, [Next]_vars
  PROVE  ChosenInv'
<1> DEFINE n == Len(chosen)
<1>1. given' = given /\ (err' = "none" => err = "none")
  BY GivenStep, ErrorStays
<1>2. CASE ~Expand /\ ~Select /\ ~Selected
  <2>1. chosen' = chosen /\ (phase = "select" => phase' = "select")
    BY <1>2, ChosenFrame
  <2>2. err' = "none" /\ Expanded' => Expanded /\ loaded' = loaded
    BY <1>2, NoWayRound, LoadedForGood DEF Expanded
  <2>3. err' = "none" /\ Expanded' =>
          /\ Topological' = Topological /\ Snapshot' = Snapshot /\ \A k : Asks(k)' = Asks(k)
    BY <1>1, <2>2, Stable
  <2> QED BY <1>1, <2>1, <2>2, <2>3 DEF ChosenInv
<1>3. CASE Expand
  <2>1. stage = "resolve" /\ phase = "run" /\ err = "none" /\ Composed /\ loaded' = loaded
    BY <1>3, LoadedForGood DEF Expand, ControlInv, Composed
  <2>2. Topological' = Topological /\ Asks(1)' = Asks(1)
    BY <1>1, <2>1, Stable
  <2>3. Len(Topological) \in Nat \ {0} /\ Len(Asks(1)) \in Nat
    BY <2>1, KitFacts, TopologicalFacts
  <2>4. CASE err' = "none"
    <3>1. chosen' = <<<<>>>> /\ phase' = "select"
      BY <1>3, <2>4 DEF Expand
    <3>2. IsList(chosen') /\ Len(chosen') = 1 /\ DOMAIN chosen' = {1} /\ chosen'[1] = <<>>
      BY <3>1 DEF IsList, ToSet
    <3>3. IsList(<<>>) /\ Len(<<>>) = 0 /\ DOMAIN <<>> = {}
      BY DEF IsList
    <3> QED BY <2>2, <2>3, <2>4, <3>1, <3>2, <3>3 DEF ChosenInv
  <2>5. CASE err' # "none"
    <3>1. chosen' = <<>>
      BY <1>3, <2>5 DEF Expand
    <3>2. IsList(<<>>) /\ DOMAIN <<>> = {}
      BY DEF IsList
    <3> QED BY <2>5, <3>1, <3>2 DEF ChosenInv
  <2> QED BY <2>4, <2>5
<1>4. ASSUME Select \/ Selected
      PROVE  /\ stage = "resolve" /\ phase = "select" /\ err = "none" /\ Composed /\ Expanded
             /\ Topological' = Topological /\ Snapshot' = Snapshot
             /\ \A k : Asks(k)' = Asks(k)
             /\ n \in Nat /\ n \in 1..Len(Topological) /\ n \in DOMAIN chosen
             /\ DOMAIN chosen = 1..n /\ n \in DOMAIN Topological
             /\ Len(Topological) \in Nat
             /\ Len(chosen[n]) \in Nat /\ DOMAIN chosen[n] = 1..Len(chosen[n])
             /\ Len(Asks(n)) \in Nat
  <2>1. stage = "resolve" /\ phase = "select" /\ err = "none"
    BY <1>4 DEF Select, Selected, ControlInv
  <2>2. Composed /\ Expanded /\ loaded' = loaded
    BY <2>1, LoadedForGood DEF Composed, Expanded
  <2>3. Topological' = Topological /\ Snapshot' = Snapshot /\ \A k : Asks(k)' = Asks(k)
    BY <1>1, <2>2, Stable
  <2>4. n \in Nat /\ DOMAIN chosen = 1..n /\ n \in 1..Len(Topological)
    BY <2>1, <2>2, ListFacts DEF ChosenInv
  <2>5. DOMAIN Topological = 1..Len(Topological) /\ Len(Topological) \in Nat
    BY <2>1, <2>2, KitFacts, TopologicalFacts
  <2>6. n \in DOMAIN chosen /\ n \in DOMAIN Topological
    BY <2>4, <2>5
  <2>7. Len(chosen[n]) \in Nat /\ DOMAIN chosen[n] = 1..Len(chosen[n]) /\ Len(Asks(n)) \in Nat
    BY <2>1, <2>2, <2>6, KitFacts, ListFacts DEF ChosenInv
  <2> QED BY <2>1, <2>2, <2>3, <2>4, <2>5, <2>6, <2>7
<1>5. CASE Select
  <2> DEFINE i == Len(chosen[n]) + 1
             ask == Asks(n)[i]
             decision == [accepted |-> ~cancelled /\ Supported(ask),
                          value |-> IF ask.uses = Absent THEN Absent ELSE Snapshot[ask.uses]]
             new == Append(chosen[n], decision)
  <2>1. /\ chosen' = [chosen EXCEPT ![n] = new] /\ phase' = phase /\ err' = err
        /\ Len(chosen[n]) < Len(Asks(n))
    BY <1>5 DEF Select, Deciding
  <2>2. IsList(chosen) /\ IsList(chosen[n])
    BY <1>4, <1>5 DEF ChosenInv
  <2>3. ask.uses # Absent => decision.value = Snapshot[ask.uses]
    OBVIOUS
  <2> HIDE DEF decision
  <2>4. /\ IsList(new) /\ Len(new) = i /\ DOMAIN new = 1..i
        /\ new[i] = decision /\ \A j \in 1..(i - 1) : new[j] = chosen[n][j]
    BY <1>4, <1>5, <2>2, AppendList
  <2> HIDE DEF new
  <2>5. /\ IsList(chosen') /\ Len(chosen') = n /\ DOMAIN chosen' = 1..n
        /\ chosen'[n] = new /\ \A k \in 1..n : k # n => chosen'[k] = chosen[k]
    BY <1>4, <1>5, <2>1, <2>2, UpdateList
  <2>6. \A k \in DOMAIN chosen' : IsList(chosen'[k])
    BY <1>4, <1>5, <2>4, <2>5 DEF ChosenInv
  <2>7. \A k \in 1..(n - 1) : Len(chosen'[k]) = Len(Asks(k))
    <3>1. \A k \in 1..(n - 1) : Len(chosen[k]) = Len(Asks(k))
      BY <1>4, <1>5 DEF ChosenInv
    <3>2. \A k \in 1..(n - 1) : k \in 1..n /\ k # n
      <4>1. n \in Nat
        BY <1>4, <1>5
      <4> HIDE DEF n
      <4> QED BY <4>1
    <3>3. \A k \in 1..(n - 1) : chosen'[k] = chosen[k]
      BY <2>5, <3>2
    <3> QED BY <3>1, <3>3
  <2>8. Len(chosen'[n]) <= Len(Asks(n))
    BY <1>4, <1>5, <2>1, <2>4, <2>5
  <2>9. ASSUME NEW k \in DOMAIN chosen', NEW j \in DOMAIN chosen'[k], Asks(k)[j].uses # Absent
        PROVE  chosen'[k][j].value = Snapshot[Asks(k)[j].uses]
    <3>1. CASE k = n /\ j = i
      BY <2>3, <2>4, <2>5, <2>9, <3>1
    <3>2. CASE k = n /\ j # i
      <4>1. j \in 1..(i - 1) /\ j \in DOMAIN chosen[n]
        BY <1>4, <1>5, <2>4, <2>5, <2>9, <3>2
      <4>2. chosen'[k][j] = chosen[n][j]
        BY <2>4, <2>5, <3>2, <4>1
      <4>3. chosen[n][j].value = Snapshot[Asks(n)[j].uses]
        BY <1>4, <1>5, <2>9, <3>2, <4>1 DEF ChosenInv
      <4> QED BY <3>2, <4>2, <4>3
    <3>3. CASE k # n
      <4>1. k \in DOMAIN chosen /\ chosen'[k] = chosen[k]
        BY <1>4, <1>5, <2>5, <3>3
      <4>2. j \in DOMAIN chosen[k]
        BY <4>1
      <4> QED BY <1>4, <1>5, <2>9, <4>1, <4>2 DEF ChosenInv
    <3> QED BY <3>1, <3>2, <3>3
  <2>10. \A k \in DOMAIN chosen' : \A j \in DOMAIN chosen'[k] :
           Asks(k)[j].uses # Absent => chosen'[k][j].value = Snapshot[Asks(k)[j].uses]
    BY <2>9
  <2>11. phase' = "select" /\ Len(chosen') \in 1..Len(Topological)
    BY <1>4, <1>5, <2>1, <2>5
  <2> HIDE DEF n
  <2> QED BY <1>4, <1>5, <2>5, <2>6, <2>7, <2>8, <2>10, <2>11 DEF ChosenInv
<1>6. CASE Selected
  <2>1. CASE chosen' = chosen /\ phase' = "settle" /\ err' = "none"
    <3>1. ~(~Rejected(n) /\ n < Len(Topological))
      BY <1>4, <1>6, <2>1 DEF Selected, Deciding
    <3>2. ~Rejected(n)
      BY <1>6, <2>1, <3>1 DEF Selected, Deciding
    <3>3. n = Len(Topological) /\ Len(chosen[n]) = Len(Asks(n))
      BY <1>4, <1>6, <3>1, <3>2 DEF Selected, Deciding
    <3> QED BY <1>4, <1>6, <2>1, <3>3 DEF ChosenInv
  <2>2. CASE chosen' = chosen /\ err' # "none"
    BY <2>2 DEF ChosenInv
  <2>3. CASE chosen' = Append(chosen, <<>>) /\ UNCHANGED <<phase, err>> /\ n < Len(Topological)
    <3>1. IsList(<<>>) /\ Len(<<>>) = 0 /\ DOMAIN <<>> = {}
      BY DEF IsList
    <3>2. IsList(chosen) /\ Len(chosen[n]) = Len(Asks(n))
      BY <1>6 DEF ChosenInv, Selected, Deciding
    <3>3. /\ IsList(chosen') /\ Len(chosen') = n + 1 /\ DOMAIN chosen' = 1..(n + 1)
          /\ chosen'[n + 1] = <<>> /\ \A k \in 1..n : chosen'[k] = chosen[k]
      BY <2>3, <3>2, AppendList
    <3>4. \A k \in DOMAIN chosen' : IsList(chosen'[k])
      BY <1>4, <1>6, <3>1, <3>3 DEF ChosenInv
    <3>5. \A k \in 1..n : Len(chosen'[k]) = Len(Asks(k))
      <4>1. \A k \in 1..(n - 1) : Len(chosen[k]) = Len(Asks(k))
        BY <1>4, <1>6 DEF ChosenInv
      <4> QED BY <1>4, <1>6, <3>2, <3>3, <4>1
    <3>6. n + 1 \in DOMAIN Topological /\ n + 1 \in 1..Len(Topological) /\ (n + 1) - 1 = n
      BY <1>4, <1>6, <2>3, KitFacts, TopologicalFacts
    <3>7. Len(chosen'[n + 1]) <= Len(Asks(n + 1))
      BY <1>4, <1>6, <3>1, <3>3, <3>6, KitFacts
    <3>8. \A k \in DOMAIN chosen' : \A j \in DOMAIN chosen'[k] :
            Asks(k)[j].uses # Absent => chosen'[k][j].value = Snapshot[Asks(k)[j].uses]
      BY <1>4, <1>6, <3>1, <3>3 DEF ChosenInv
    <3> QED BY <1>4, <1>6, <2>3, <3>3, <3>4, <3>5, <3>6, <3>7, <3>8 DEF ChosenInv
  <2>4. n = Deciding
    BY DEF Deciding
  <2> QED BY <1>6, <2>1, <2>2, <2>3, <2>4 DEF Selected
<1> QED BY <1>2, <1>3, <1>5, <1>6

\* The questions end with Settle, and nothing but a rejected request of a kit
\* makes the error a capability.
LEMMA AskingFrame ==
  ASSUME ControlInv, [Next]_vars, ~Expand, ~Select, ~Selected
  PROVE  /\ ~Settle /\ Asking => Asking'
         /\ Settle => ~Asking' /\ err' = (IF cancelled THEN "cancelled" ELSE err)
         /\ err' = "capability" =>
              err = "capability" /\ (stage' = stage \/ stage' = "returned")
<1>1. CASE UNCHANGED vars
  BY <1>1 DEF vars, Asking, Settle, Body
<1>2. CASE Begin \/ Enter \/ Abandon \/ Report \/ Finish
  BY <1>2 DEF Begin, Enter, Abandon, Report, Finish, Return, Goto, OrCancelled, Asking, ControlInv,
              Stages, Settle, Body
<1>3. CASE Leave
  <2>1. /\ phase = "leave"
        /\ \/ err' = "none"
           \/ stage' = "returned" /\ err' = OrCancelled(err)
    BY <1>3 DEF Leave, Return, After, Goto, Stages
  <2> QED BY <2>1 DEF Asking, OrCancelled, Settle
<1>4. CASE Fetch \/ Load \/ Compose \/ CheckFileCollisions \/ InventoryLayer
  <2>1. phase \in {"run", "image"} /\ err' # "capability"
    BY <1>4 DEF Fetch, Load, Compose, CheckFileCollisions, InventoryLayer, Body, Verdicts, ControlInv
  <2> QED BY <2>1 DEF Asking, Settle
<1>5. CASE Settle
  BY <1>5 DEF Settle, Body, Asking
<1>6. CASE Cancel \/ \E r \in DOMAIN tag : MoveTag(r)
  <2>1. UNCHANGED <<stage, phase, err>>
    BY <1>6 DEF Cancel, MoveTag
  <2> QED BY <2>1 DEF Asking, Settle, Body
<1> QED BY <1>1, <1>2, <1>3, <1>4, <1>5, <1>6 DEF Next, Assemble

\* What a kit lacks does not depend on how far the call is.
LEMMA LackingStable ==
  ASSUME given' = given, loaded' = loaded
  PROVE  Lacking' = Lacking /\ \A a : Supported(a)' = Supported(a)
BY DEF Lacking, Kits, Descriptor, Supported

\* An answer given under a live context says what the selector supports.
LEMMA AnswersStep ==
  ASSUME ControlInv, LoadInv, ComposeInv, ChosenInv, AnswersInv, [Next]_vars
  PROVE  AnswersInv'
<1> DEFINE n == Len(chosen)
           Answered(k, i) == chosen[k][i].accepted <=> Supported(Asks(k)[i])
<1>1. given' = given /\ (err' = "none" => err = "none") /\ (cancelled => cancelled')
  BY GivenStep, ErrorStays
<1>2. CASE ~Expand /\ ~Select /\ ~Selected
  <2>1. chosen' = chosen
    BY <1>2, ChosenFrame
  <2>2. err' = "none" /\ Expanded' => Expanded /\ loaded' = loaded
    BY <1>2, NoWayRound, LoadedForGood DEF Expanded
  <2>3. err' = "none" /\ Expanded' => \A k : Asks(k)' = Asks(k)
    BY <1>1, <2>2, Stable
  <2>4. \A a : Supported(a)' = Supported(a)
    BY <1>1 DEF Supported
  <2>5. ASSUME err' = "none", Expanded', ~(Asking' /\ cancelled')
        PROVE  ~(Asking /\ cancelled)
    <3>1. SUFFICES ASSUME Asking, cancelled PROVE FALSE
      OBVIOUS
    <3>2. cancelled' /\ ~Asking'
      BY <1>1, <2>5, <3>1
    <3>3. Settle
      BY <1>2, <3>1, <3>2, AskingFrame
    <3> QED BY <1>2, <2>5, <3>1, <3>3, AskingFrame
  <2>6. ASSUME err' = "none", Expanded', ~(Asking' /\ cancelled'),
               NEW k \in DOMAIN chosen', NEW i \in DOMAIN chosen'[k]
        PROVE  Answered(k, i)'
    <3>1. Expanded /\ ~(Asking /\ cancelled) /\ err = "none"
      BY <1>1, <2>2, <2>5, <2>6
    <3>2. Answered(k, i)
      BY <2>1, <2>6, <3>1 DEF AnswersInv
    <3> QED BY <2>1, <2>3, <2>4, <2>6, <3>2
  <2>7. ASSUME err' = "capability", ~(Asking' /\ cancelled')
        PROVE  Lacking' /\ stage' \in {"resolve", "returned"}
    <3>1. err = "capability" /\ (stage' = stage \/ stage' = "returned")
      BY <1>2, <2>7, AskingFrame
    <3>2. ~(Asking /\ cancelled)
      <4>1. SUFFICES ASSUME Asking, cancelled PROVE FALSE
        OBVIOUS
      <4>2. Settle
        BY <1>1, <1>2, <2>7, <4>1, AskingFrame
      <4> QED BY <1>2, <2>7, <4>1, <4>2, AskingFrame
    <3>3. Lacking /\ stage \in {"resolve", "returned"}
      BY <3>1, <3>2 DEF AnswersInv
    <3>4. loaded' = loaded
      BY <3>3, LoadedForGood
    <3> QED BY <1>1, <3>1, <3>3, <3>4, LackingStable
  <2>8. err' = "capability" => stage' \in {"resolve", "returned"}
    BY <1>2, AskingFrame DEF AnswersInv
  <2> QED BY <2>6, <2>7, <2>8 DEF AnswersInv
<1>3. CASE Expand
  <2>1. err' # "capability"
    BY <1>3 DEF Expand
  <2>2. err' = "none" => chosen' = <<<<>>>>
    BY <1>3 DEF Expand
  <2>3. \A k \in DOMAIN <<<<>>>> : DOMAIN <<<<>>>>[k] = {}
    OBVIOUS
  <2> QED BY <2>1, <2>2, <2>3 DEF AnswersInv
<1>4. ASSUME Select \/ Selected
      PROVE  /\ stage = "resolve" /\ phase = "select" /\ err = "none" /\ Expanded /\ Composed
             /\ stage' = "resolve" /\ Asking' /\ cancelled' = cancelled /\ loaded' = loaded
             /\ n \in Nat /\ DOMAIN chosen = 1..n /\ n \in DOMAIN chosen
             /\ n \in DOMAIN Topological
             /\ \A a : Supported(a)' = Supported(a)
             /\ \A k : Asks(k)' = Asks(k)
  <2>1. stage = "resolve" /\ phase = "select" /\ err = "none"
    BY <1>4 DEF Select, Selected, ControlInv
  <2>2. /\ stage' = "resolve" /\ Asking' /\ cancelled' = cancelled /\ loaded' = loaded
        /\ Expanded /\ Composed
    BY <1>4, <2>1 DEF Select, Selected, Call, Asking, Expanded, Composed
  <2>3. n \in Nat /\ DOMAIN chosen = 1..n /\ n \in 1..Len(Topological)
    BY <2>1, <2>2, ListFacts DEF ChosenInv
  <2>4. DOMAIN Topological = 1..Len(Topological)
    BY <2>1, <2>2, KitFacts, TopologicalFacts
  <2>5. n \in DOMAIN chosen /\ n \in DOMAIN Topological
    BY <2>3, <2>4
  <2>6. \A a : Supported(a)' = Supported(a)
    BY <1>1 DEF Supported
  <2>7. \A k : Asks(k)' = Asks(k)
    BY <1>1, <2>2, Stable
  <2> QED BY <2>1, <2>2, <2>3, <2>5, <2>6, <2>7
<1>5. CASE Select
  <2> DEFINE i == Len(chosen[n]) + 1
             ask == Asks(n)[i]
             decision == [accepted |-> ~cancelled /\ Supported(ask),
                          value |-> IF ask.uses = Absent THEN Absent ELSE Snapshot[ask.uses]]
             new == Append(chosen[n], decision)
  <2>1. chosen' = [chosen EXCEPT ![n] = new] /\ err' = err
    BY <1>5 DEF Select, Deciding
  <2>2. IsList(chosen) /\ IsList(chosen[n])
    BY <1>4, <1>5 DEF ChosenInv
  <2>3. decision.accepted = (~cancelled /\ Supported(ask))
    OBVIOUS
  <2> HIDE DEF decision
  <2>4. /\ DOMAIN new = 1..i /\ Len(chosen[n]) \in Nat /\ DOMAIN chosen[n] = 1..Len(chosen[n])
        /\ new[i] = decision /\ \A j \in 1..Len(chosen[n]) : new[j] = chosen[n][j]
    BY <2>2, AppendList, ListFacts
  <2> HIDE DEF new
  <2>5. /\ DOMAIN chosen' = 1..n
        /\ chosen'[n] = new /\ \A k \in 1..n : k # n => chosen'[k] = chosen[k]
    BY <1>4, <1>5, <2>1, <2>2, UpdateList
  <2>6. ASSUME ~cancelled, NEW k \in DOMAIN chosen', NEW j \in DOMAIN chosen'[k]
        PROVE  chosen'[k][j].accepted <=> Supported(Asks(k)[j])
    <3>0. \A m \in DOMAIN chosen : \A l \in DOMAIN chosen[m] : Answered(m, l)
      BY <1>4, <1>5, <2>6 DEF AnswersInv
    <3>1. CASE k = n /\ j = i
      BY <2>3, <2>4, <2>5, <2>6, <3>1, Zenon
    <3>2. CASE k = n /\ j # i
      <4>1. j \in 1..Len(chosen[n]) /\ j \in DOMAIN chosen[n]
        BY <2>4, <2>5, <2>6, <3>2
      <4>2. chosen'[k][j] = chosen[k][j]
        BY <2>4, <2>5, <3>2, <4>1
      <4> QED BY <1>4, <1>5, <3>0, <3>2, <4>1, <4>2
    <3>3. CASE k # n
      <4>1. k \in DOMAIN chosen /\ chosen'[k] = chosen[k]
        BY <1>4, <1>5, <2>5, <3>3
      <4> QED BY <3>0, <4>1
    <3> QED BY <3>1, <3>2, <3>3
  <2>7. err' # "capability"
    BY <1>4, <1>5, <2>1
  <2> QED BY <1>4, <1>5, <2>6, <2>7 DEF AnswersInv
<1>6. CASE Selected
  <2>1. ASSUME ~cancelled, err' = "capability" PROVE Lacking'
    <3>1. Rejected(n)
      BY <1>4, <1>6, <2>1 DEF Selected, Deciding
    <3>2. PICK i \in DOMAIN chosen[n] : ~chosen[n][i].accepted /\ ~Asks(n)[i].optional
      BY <3>1 DEF Rejected
    <3>3. ~Supported(Asks(n)[i])
      BY <1>4, <1>6, <2>1, <3>2 DEF AnswersInv
    <3>4. Topological[n] \in Kits /\ i \in DOMAIN Asks(n)
      <4>1. IsList(chosen[n]) /\ Len(chosen[n]) = Len(Asks(n))
        BY <1>4, <1>6 DEF ChosenInv, Selected, Deciding
      <4>2. DOMAIN chosen[n] = 1..Len(chosen[n]) /\ DOMAIN Asks(n) = 1..Len(Asks(n))
        BY <1>4, <1>6, <4>1, ListFacts, KitFacts
      <4>3. Topological[n] \in Kits
        BY <1>4, <1>6, KitFacts, TopologicalFacts
      <4> QED BY <3>2, <4>1, <4>2, <4>3
    <3>5. Lacking
      BY <3>2, <3>3, <3>4 DEF Lacking, Asks, ToSet
    <3> QED BY <1>1, <1>4, <1>6, <3>5, LackingStable
  <2>2. ASSUME ~cancelled, NEW k \in DOMAIN chosen', NEW j \in DOMAIN chosen'[k]
        PROVE  chosen'[k][j].accepted <=> Supported(Asks(k)[j])
    <3>0. \A m \in DOMAIN chosen : \A l \in DOMAIN chosen[m] : Answered(m, l)
      BY <1>4, <1>6, <2>2 DEF AnswersInv
    <3>1. CASE chosen' = chosen
      BY <2>2, <3>0, <3>1
    <3>2. CASE chosen' = Append(chosen, <<>>)
      <4>1. IsList(chosen)
        BY DEF ChosenInv
      <4>2. /\ DOMAIN chosen' = 1..(n + 1) /\ chosen'[n + 1] = <<>>
            /\ \A m \in 1..n : chosen'[m] = chosen[m]
        BY <3>2, <4>1, AppendList
      <4>3. k # n + 1
        BY <2>2, <4>2
      <4>4. k \in DOMAIN chosen /\ chosen'[k] = chosen[k]
        BY <1>4, <1>6, <2>2, <4>2, <4>3
      <4> QED BY <3>0, <4>4
    <3> QED BY <1>6, <3>1, <3>2 DEF Selected
  <2> QED BY <1>4, <1>6, <2>1, <2>2 DEF AnswersInv
<1> QED BY <1>2, <1>3, <1>5, <1>6

-----------------------------------------------------------------------------
(* Counting what is taken in.                                              *)

\* The members of finitely many finite sets, each told apart by its set.
Tagged(A, F) == UNION {{a} \X F[a] : a \in A}

\* One more set adds its members to the count.
LEMMA TaggedGrows ==
  ASSUME NEW A, NEW b, b \notin A, NEW F, NEW G,
         \A a \in A : G[a] = F[a],
         IsFiniteSet(Tagged(A, F)), IsFiniteSet(G[b])
  PROVE  /\ IsFiniteSet(Tagged(A \cup {b}, G))
         /\ Cardinality(Tagged(A \cup {b}, G)) = Cardinality(Tagged(A, F)) + Cardinality(G[b])
<1> DEFINE S == Tagged(A, F)
           T == {b} \X G[b]
<1>1. Tagged(A \cup {b}, G) = S \cup T
  BY DEF Tagged
<1>2. S \cap T = {}
  BY DEF Tagged
<1>3. IsFiniteSet({b}) /\ Cardinality({b}) = 1
  BY FS_Singleton
<1>4. IsFiniteSet(T) /\ Cardinality(T) = Cardinality({b}) * Cardinality(G[b])
  BY <1>3, FS_Product
<1>5. Cardinality(G[b]) \in Nat
  BY FS_CardinalityType
<1>6. Cardinality(T) = Cardinality(G[b])
  BY <1>3, <1>4, <1>5
<1>7. /\ IsFiniteSet(S \cup T)
      /\ Cardinality(S \cup T) = Cardinality(S) + Cardinality(T) - Cardinality(S \cap T)
  BY <1>4, FS_Union
<1>8. Cardinality(S \cap T) = 0 /\ Cardinality(S) \in Nat
  BY <1>2, FS_EmptySet, FS_CardinalityType
<1>9. \A x, y, z \in Nat : x + y - 0 = x + y
  OBVIOUS
<1>10. Cardinality(S \cup T) = Cardinality(S) + Cardinality(G[b])
  BY <1>5, <1>6, <1>7, <1>8, <1>9
<1> QED BY <1>1, <1>7, <1>10

\* A layer has finitely many path components.
LEMMA ComponentsAreFinite ==
  ASSUME NEW files, IsList(files), \A e \in DOMAIN files : Components(files[e]) \in Nat
  PROVE  /\ IsFiniteSet(PathComponents(files))
         /\ Cardinality(PathComponents(files)) \in Nat
<1> DEFINE D == DOMAIN files
           f == [e \in D |-> {e} \X (1..Components(files[e]))]
           R == {{e} \X (1..Components(files[e])) : e \in D}
<1>1. IsFiniteSet(D)
  BY ListFacts, FS_Interval
<1>2. f \in Surjection(D, R)
  BY DEF Surjection
<1>3. IsFiniteSet(R)
  BY <1>1, <1>2, FS_Surjection
<1>4. ASSUME NEW e \in D PROVE IsFiniteSet({e} \X (1..Components(files[e])))
  <2>1. IsFiniteSet({e})
    BY FS_Singleton
  <2>2. 1 \in Int /\ Components(files[e]) \in Int
    OBVIOUS
  <2>3. IsFiniteSet(1..Components(files[e]))
    BY <2>2, FS_Interval
  <2> QED BY <2>1, <2>3, FS_Product
<1>5. \A T \in R : IsFiniteSet(T)
  BY <1>4
<1>6. IsFiniteSet(UNION R)
  BY <1>3, <1>5, FS_UNION
<1> QED BY <1>6, FS_CardinalityType DEF PathComponents

-----------------------------------------------------------------------------
(* The inventory.                                                          *)

\* Only the inventory step takes layers in.
LEMMA InventoryFrame ==
  ASSUME [Next]_vars, ~InventoryLayer
  PROVE  UNCHANGED <<cache, left, inventories>>
BY DEF Next, vars, Assemble, Begin, Enter, Abandon, Report, Leave, Fetch, Load, Compose, Expand,
       Select, Selected, Settle, CheckFileCollisions, Finish, Cancel, MoveTag, Gathered

\* A layer that is taken in, replayed or read, is the one its kit lists, and is
\* paid for.
LEMMA TakenIn ==
  ASSUME ControlInv, LoadInv, ComposeInv, CacheInv, InventoryInv, InventoryLayer, err' = "none"
  PROVE  \E files :
           /\ IsList(files)
           /\ \A e \in DOMAIN files : Components(files[e]) \in Nat
           /\ Verified(Layers(item)[layer], Diffs(item)[layer])
           /\ left' = Charge(files) /\ Affordable(Charge(files))
           /\ cache' = Over(cache, [k \in {BlobKey(Layers(item)[layer], Diffs(item)[layer])} |-> files])
           /\ inventories' = IF layer = 1 THEN Append(inventories, <<files>>)
                             ELSE [inventories EXCEPT ![item] = Append(@, files)]
<1> DEFINE desc == Layers(item)[layer]
           diff == Diffs(item)[layer]
           key == BlobKey(desc, diff)
           hit == key \in DOMAIN cache
           files == IF hit THEN cache[key] ELSE given.blobs[desc.digest].headers
<1>1. stage = "inventory" /\ phase = "run" /\ err = "none" /\ Composed
  BY DEF InventoryLayer, ControlInv, Composed
<1>2. item \in DOMAIN Ordered /\ layer \in DOMAIN Layers(item)
  BY <1>1 DEF InventoryInv
<1>3. desc.digest \in DOMAIN given.blobs
  BY <1>1, <1>2, KitFacts
<1>4. /\ Affordable(Charge(files)) /\ (hit \/ Verified(desc, diff))
      /\ left' = Charge(files)
      /\ cache' = Over(cache, [k \in {key} |-> files])
      /\ inventories' = IF layer = 1 THEN Append(inventories, <<files>>)
                        ELSE [inventories EXCEPT ![item] = Append(@, files)]
  BY DEF InventoryLayer, Body, Replay
<1>5. CASE hit
  <2>1. IsList(files) /\ \A e \in DOMAIN files : Components(files[e]) \in Nat
    BY <1>5 DEF CacheInv
  <2>2. PICK d, f : key = BlobKey(d, f) /\ Verified(d, f)
    BY <1>5 DEF CacheInv
  <2>3. d.digest = desc.digest /\ d.size = desc.size /\ f = diff
    BY <2>2 DEF BlobKey
  <2>4. Verified(desc, diff)
    BY <2>2, <2>3 DEF Verified
  <2> HIDE DEF files
  <2> QED BY <1>4, <2>1, <2>4
<1>6. CASE ~hit
  <2>1. files = given.blobs[desc.digest].headers
    BY <1>6
  <2>2. /\ IsList(given.blobs[desc.digest].headers)
        /\ \A hdr \in ToSet(given.blobs[desc.digest].headers) : Components(hdr) \in Nat
    BY <1>3, CallsAreListed DEF ControlInv
  <2> HIDE DEF files
  <2>3. IsList(files) /\ \A e \in DOMAIN files : Components(files[e]) \in Nat
    BY <2>1, <2>2 DEF ToSet
  <2> QED BY <1>4, <1>6, <2>3
<1> QED BY <1>5, <1>6

\* A layer that is not taken in leaves no trace.
LEMMA NotTakenIn ==
  ASSUME InventoryLayer, err' # "none"
  PROVE  UNCHANGED <<cache, left, inventories>>
BY DEF InventoryLayer, Body

\* What is cached under a key was verified against it.
LEMMA CacheStep ==
  ASSUME ControlInv, LoadInv, ComposeInv, CacheInv, InventoryInv, [Next]_vars
  PROVE  CacheInv'
<1>1. given' = given
  BY GivenStep
<1>2. \A d, f : Verified(d, f)' = Verified(d, f)
  BY <1>1 DEF Verified
<1>3. CASE cache' = cache
  BY <1>2, <1>3 DEF CacheInv
<1>4. CASE InventoryLayer /\ err' = "none"
  <2> DEFINE key == BlobKey(Layers(item)[layer], Diffs(item)[layer])
  <2>1. PICK files :
          /\ IsList(files) /\ \A e \in DOMAIN files : Components(files[e]) \in Nat
          /\ Verified(Layers(item)[layer], Diffs(item)[layer])
          /\ cache' = Over(cache, [k \in {key} |-> files])
    BY <1>4, TakenIn
  <2>2. \E d, f : key = BlobKey(d, f) /\ Verified(d, f)
    BY <2>1
  <2> HIDE DEF key
  <2>3. /\ DOMAIN cache' = DOMAIN cache \cup {key} /\ cache'[key] = files
        /\ \A k \in DOMAIN cache : k # key => cache'[k] = cache[k]
    BY <2>1 DEF Over
  <2>4. \A k \in DOMAIN cache' : \E d, f : k = BlobKey(d, f) /\ Verified(d, f)
    BY <2>2, <2>3 DEF CacheInv
  <2>5. \A k \in DOMAIN cache' :
          /\ IsList(cache'[k]) /\ \A e \in DOMAIN cache'[k] : Components(cache'[k][e]) \in Nat
    BY <2>1, <2>3 DEF CacheInv
  <2>6. \A d, f : BlobKey(d, f)' = BlobKey(d, f)
    BY DEF BlobKey
  <2> QED BY <1>2, <2>4, <2>5, <2>6 DEF CacheInv
<1> QED BY <1>3, <1>4, InventoryFrame, NotTakenIn

\* Without an error, steps follow each other as the loops say.
LEMMA Moves ==
  ASSUME ControlInv, [Next]_vars, err' = "none"
  PROVE  \/ /\ UNCHANGED <<stage, item, layer>>
            /\ \/ InventoryLayer
               \/ stage # "inventory"
               \/ phase \in {"enter", "run"} <=> phase' \in {"enter", "run"}
         \/ Begin /\ Goto("load", 1, 0)
         \/ Leave /\ After
         \/ Finish /\ stage' = "returned"
<1>1. CASE UNCHANGED vars
  BY <1>1 DEF vars
<1>2. CASE Begin
  BY <1>2 DEF Begin, Return
<1>3. CASE Enter \/ Abandon \/ Report
  BY <1>3 DEF Enter, Abandon, Report, Return
<1>4. CASE Leave
  BY <1>4 DEF Leave, Return
<1>5. CASE Fetch \/ Load \/ Compose \/ Settle \/ CheckFileCollisions \/ InventoryLayer
  BY <1>5 DEF Fetch, Load, Compose, Settle, CheckFileCollisions, InventoryLayer, Body
<1>6. CASE Expand \/ Select \/ Selected
  BY <1>6 DEF Expand, Select, Selected
<1>7. CASE Finish
  BY <1>7 DEF Finish, Return
<1>8. CASE Cancel \/ \E r \in DOMAIN tag : MoveTag(r)
  BY <1>8 DEF Cancel, MoveTag
<1> QED BY <1>1, <1>2, <1>3, <1>4, <1>5, <1>6, <1>7, <1>8 DEF Next, Assemble

\* The layer goes behind the ones of its kit that are in, or opens its kit.
LEMMA TakenShape ==
  ASSUME ControlInv, LoadInv, ComposeInv, InventoryInv, BudgetInv, InventoryLayer,
         NEW files,
         inventories' = IF layer = 1 THEN Append(inventories, <<files>>)
                        ELSE [inventories EXCEPT ![item] = Append(@, files)]
  PROVE  /\ item \in Nat \ {0} /\ layer \in Nat \ {0}
         /\ IsList(inventories') /\ IsList(inventories'[item])
         /\ DOMAIN inventories = IF layer = 1 THEN 1..(item - 1) ELSE 1..item
         /\ layer # 1 => DOMAIN inventories[item] = 1..(layer - 1)
         /\ Len(inventories') = item /\ DOMAIN inventories' = 1..item
         /\ Len(inventories'[item]) = layer /\ DOMAIN inventories'[item] = 1..layer
         /\ inventories'[item][layer] = files
         /\ \A k \in 1..(item - 1) : inventories'[k] = inventories[k] /\ k \in DOMAIN inventories
         /\ \A i \in 1..(layer - 1) :
              /\ item \in DOMAIN inventories /\ i \in DOMAIN inventories[item]
              /\ inventories'[item][i] = inventories[item][i]
<1>1. stage = "inventory" /\ phase = "run" /\ err = "none" /\ Composed
  BY DEF InventoryLayer, ControlInv, Composed
<1>2. /\ item \in DOMAIN Ordered /\ layer \in DOMAIN Layers(item)
      /\ layer = 1 => Len(inventories) = item - 1
      /\ layer # 1 => Len(inventories) = item /\ Len(inventories[item]) = layer - 1
  BY <1>1 DEF InventoryInv
<1>3. item \in Nat \ {0} /\ layer \in Nat \ {0}
  BY <1>1, <1>2, KitFacts, OrderedFacts
<1>4. /\ IsList(inventories) /\ Len(inventories) \in Nat /\ DOMAIN inventories = 1..Len(inventories)
      /\ \A k \in DOMAIN inventories :
           /\ IsList(inventories[k]) /\ Len(inventories[k]) \in Nat
           /\ DOMAIN inventories[k] = 1..Len(inventories[k])
  BY ListFacts DEF BudgetInv
<1>5. CASE layer = 1
  <2>1. inventories' = Append(inventories, <<files>>) /\ Len(inventories) = item - 1
    BY <1>2, <1>5
  <2>2. (item - 1) + 1 = item /\ 1..(layer - 1) = {}
    BY <1>3, <1>5
  <2>3. /\ IsList(inventories') /\ Len(inventories') = item /\ DOMAIN inventories' = 1..item
        /\ inventories'[item] = <<files>>
        /\ \A k \in 1..(item - 1) : inventories'[k] = inventories[k]
    BY <1>4, <2>1, <2>2, AppendList
  <2>4. IsList(<<files>>) /\ Len(<<files>>) = 1 /\ DOMAIN <<files>> = 1..1 /\ <<files>>[1] = files
    BY DEF IsList, ToSet
  <2> QED BY <1>3, <1>4, <1>5, <2>1, <2>2, <2>3, <2>4
<1>6. CASE layer # 1
  <2> DEFINE new == Append(inventories[item], files)
  <2>1. inventories' = [inventories EXCEPT ![item] = new]
        /\ Len(inventories) = item /\ Len(inventories[item]) = layer - 1
    BY <1>2, <1>6
  <2>2. item \in 1..Len(inventories) /\ item \in DOMAIN inventories /\ (layer - 1) + 1 = layer
    BY <1>3, <1>4, <2>1
  <2>3. /\ IsList(new) /\ Len(new) = layer /\ DOMAIN new = 1..layer /\ new[layer] = files
        /\ \A i \in 1..(layer - 1) : new[i] = inventories[item][i]
    BY <1>4, <2>1, <2>2, AppendList
  <2> HIDE DEF new
  <2>4. /\ IsList(inventories') /\ Len(inventories') = item /\ DOMAIN inventories' = 1..item
        /\ inventories'[item] = new
        /\ \A k \in 1..item : k # item => inventories'[k] = inventories[k]
    <3> DEFINE up == [inventories EXCEPT ![item] = new]
               n == Len(inventories)
    <3>1. IsList(inventories) /\ item \in 1..Len(inventories)
      BY <1>4, <2>2
    <3>2. /\ IsList(up) /\ Len(up) = n /\ DOMAIN up = 1..n /\ up[item] = new
          /\ \A k \in 1..n : k # item => up[k] = inventories[k]
      BY <3>1, UpdateList
    <3>3. inventories' = up /\ n = item
      BY <2>1
    <3> HIDE DEF up, n
    <3> QED BY <3>2, <3>3
  <2>5. \A k \in 1..(item - 1) : k \in 1..item /\ k # item
    BY <1>3
  <2>6. DOMAIN inventories = 1..item /\ DOMAIN inventories[item] = 1..(layer - 1)
    BY <1>4, <2>1, <2>2
  <2>7. \A k \in 1..(item - 1) : inventories'[k] = inventories[k] /\ k \in DOMAIN inventories
    BY <2>4, <2>5, <2>6
  <2>8. \A i \in 1..(layer - 1) :
          /\ item \in DOMAIN inventories /\ i \in DOMAIN inventories[item]
          /\ inventories'[item][i] = inventories[item][i]
    BY <2>2, <2>3, <2>4, <2>6
  <2> QED BY <1>3, <1>6, <2>3, <2>4, <2>6, <2>7, <2>8
<1> QED BY <1>5, <1>6

\* Kit after kit and layer after layer, none left out.
LEMMA InventoryStep ==
  ASSUME ControlInv, LoadInv, ComposeInv, CacheInv, InventoryInv, BudgetInv, [Next]_vars
  PROVE  InventoryInv'
<1> SUFFICES ASSUME err' = "none" PROVE InventoryInv'
  BY DEF InventoryInv
<1> DEFINE At(k, i) ==
             /\ k \in DOMAIN Ordered
             /\ i \in DOMAIN Layers(k)
             /\ \A j \in 1..(k - 1) : Len(inventories[j]) = Len(Layers(j))
           Before(k, i) ==
             /\ i = 1 => Len(inventories) = k - 1
             /\ i # 1 => Len(inventories) = k /\ Len(inventories[k]) = i - 1
           Behind(k, i) == Len(inventories) = k /\ Len(inventories[k]) = i
           All == /\ Len(inventories) = Len(Ordered)
                  /\ \A k \in DOMAIN Ordered : Len(inventories[k]) = Len(Layers(k))
           Sound == \A k \in DOMAIN inventories : \A i \in DOMAIN inventories[k] :
                      Verified(Layers(k)[i], Diffs(k)[i])
<1>1. given' = given /\ err = "none"
  BY GivenStep, ErrorStays
<1>2. \A d, f : Verified(d, f)' = Verified(d, f)
  BY <1>1 DEF Verified
<1>3. /\ IsList(inventories) /\ Len(inventories) \in Nat /\ DOMAIN inventories = 1..Len(inventories)
      /\ \A k \in DOMAIN inventories :
           /\ IsList(inventories[k]) /\ Len(inventories[k]) \in Nat
           /\ DOMAIN inventories[k] = 1..Len(inventories[k])
  BY ListFacts DEF BudgetInv
<1>4. Len(<<>>) = 0 /\ DOMAIN <<>> = {}
  OBVIOUS
<1>5. CASE stage \in {"begin", "load"}
  <2>1. inventories' = inventories /\ inventories = <<>>
    BY <1>1, <1>5, InventoryFrame DEF InventoryInv, InventoryLayer
  <2>2. stage' \in {"begin", "load", "compose"}
    BY <1>5, Moves DEF Leave, Stages, Goto, After, Finish
  <2> QED BY <1>4, <2>1, <2>2 DEF InventoryInv
<1>6. CASE stage \notin {"begin", "load"}
  <2>1. loaded' = loaded
    BY <1>6, LoadedForGood
  <2>2. Ordered' = Ordered /\ \A k : Layers(k)' = Layers(k) /\ Diffs(k)' = Diffs(k)
    BY <1>1, <2>1, Stable
  <2>3. ASSUME inventories' = inventories PROVE Sound'
    BY <1>1, <1>2, <2>2, <2>3 DEF InventoryInv
  <2>4. ASSUME Composed
        PROVE  /\ Len(Ordered) \in Nat \ {0} /\ DOMAIN Ordered = 1..Len(Ordered)
               /\ \A k \in DOMAIN Ordered : Len(Layers(k)) \in Nat \ {0}
                                            /\ DOMAIN Layers(k) = 1..Len(Layers(k))
    BY <1>1, <2>4, KitFacts, OrderedFacts
  <2>5. CASE Leave /\ After
    <3>1. inventories' = inventories /\ phase = "leave" /\ phase' = "enter" /\ stage \in Stages
      BY <2>5 DEF Leave, Gathered, After, Goto, Stages
    <3>2. CASE stage = "compose"
      BY <1>1, <1>4, <2>3, <2>5, <3>1, <3>2 DEF After, Goto, InventoryInv
    <3>3. CASE stage = "resolve"
      <4>1. inventories = <<>> /\ Composed
        BY <1>1, <3>3 DEF InventoryInv, Composed
      <4>2. CASE given.validate
        <5>1. stage' = "inventory" /\ item' = 1 /\ layer' = 1
          BY <2>5, <3>3, <4>2 DEF After, Goto
        <5>2. 1 \in DOMAIN Ordered /\ 1 \in DOMAIN Layers(1) /\ 1..(1 - 1) = {}
          BY <2>4, <4>1
        <5> QED BY <1>4, <2>2, <2>3, <3>1, <4>1, <5>1, <5>2 DEF InventoryInv
      <4>3. CASE ~given.validate
        <5>1. stage' = "finish"
          BY <2>5, <3>3, <4>3 DEF After, Goto
        <5> QED BY <1>1, <2>3, <3>1, <4>3, <5>1 DEF InventoryInv
      <4> QED BY <4>2, <4>3
    <3>4. CASE stage = "inventory"
      <4>1. At(item, layer) /\ Behind(item, layer) /\ Composed
        BY <1>1, <3>1, <3>4 DEF InventoryInv, Composed
      <4>2. /\ item \in 1..Len(Ordered) /\ Len(Ordered) \in Nat
            /\ layer \in 1..Len(Layers(item)) /\ Len(Layers(item)) \in Nat
        BY <2>4, <4>1
      <4>3. CASE layer < Len(Layers(item))
        <5>1. stage' = "inventory" /\ item' = item /\ layer' = layer + 1
          BY <2>5, <3>4, <4>3 DEF After, Goto
        <5>2. layer + 1 \in DOMAIN Layers(item) /\ layer + 1 # 1 /\ (layer + 1) - 1 = layer
          BY <2>4, <4>1, <4>2, <4>3
        <5> QED BY <2>2, <2>3, <3>1, <4>1, <5>1, <5>2 DEF InventoryInv
      <4>4. CASE ~(layer < Len(Layers(item)))
        <5>1. layer = Len(Layers(item))
          BY <4>2, <4>4
        <5>2. \A k \in 1..item : Len(inventories[k]) = Len(Layers(k))
          BY <4>1, <4>2, <5>1
        <5>3. CASE item < Len(Ordered)
          <6>1. stage' = "inventory" /\ item' = item + 1 /\ layer' = 1
            BY <2>5, <3>4, <4>4, <5>3 DEF After, Goto
          <6>2. item + 1 \in DOMAIN Ordered /\ (item + 1) - 1 = item
            BY <2>4, <4>1, <4>2, <5>3
          <6>3. 1 \in DOMAIN Layers(item + 1)
            BY <2>4, <4>1, <6>2
          <6> QED BY <2>2, <2>3, <3>1, <4>1, <5>2, <6>1, <6>2, <6>3 DEF InventoryInv
        <5>4. CASE ~(item < Len(Ordered))
          <6>1. stage' = "collisions"
            BY <2>5, <3>4, <4>4, <5>4 DEF After, Goto
          <6>2. item = Len(Ordered)
            BY <4>2, <5>4
          <6>3. All
            BY <2>4, <4>1, <5>2, <6>2
          <6> QED BY <2>2, <2>3, <3>1, <6>1, <6>3 DEF InventoryInv
        <5> QED BY <5>3, <5>4
      <4> QED BY <4>3, <4>4
    <3>5. CASE stage = "collisions"
      <4>1. stage' = "finish"
        BY <2>5, <3>5 DEF After, Goto
      <4> QED BY <1>1, <2>2, <2>3, <3>1, <3>5, <4>1 DEF InventoryInv
    <3> QED BY <1>6, <3>1, <3>2, <3>3, <3>4, <3>5 DEF Stages
  <2>6. CASE InventoryLayer
    <3>1. /\ stage = "inventory" /\ phase = "run" /\ Composed
          /\ stage' = stage /\ item' = item /\ layer' = layer /\ phase' = "report"
      BY <2>6 DEF InventoryLayer, Body, Composed
    <3>2. At(item, layer) /\ Before(item, layer) /\ Sound
      BY <1>1, <3>1 DEF InventoryInv
    <3>3. /\ item \in 1..Len(Ordered) /\ Len(Ordered) \in Nat
          /\ layer \in 1..Len(Layers(item)) /\ Len(Layers(item)) \in Nat
      BY <2>4, <3>1, <3>2
    <3>4. PICK files :
            /\ Verified(Layers(item)[layer], Diffs(item)[layer])
            /\ inventories' = IF layer = 1 THEN Append(inventories, <<files>>)
                              ELSE [inventories EXCEPT ![item] = Append(@, files)]
      BY <2>6, TakenIn
    <3>5. /\ Len(inventories') = item /\ DOMAIN inventories' = 1..item
          /\ Len(inventories'[item]) = layer /\ DOMAIN inventories'[item] = 1..layer
          /\ \A k \in 1..(item - 1) : inventories'[k] = inventories[k] /\ k \in DOMAIN inventories
          /\ \A i \in 1..(layer - 1) : item \in DOMAIN inventories /\ i \in DOMAIN inventories[item]
      BY <2>6, <3>4, TakenShape
    <3>6. ASSUME NEW k \in DOMAIN inventories', NEW i \in DOMAIN inventories'[k]
          PROVE  Verified(Layers(k)[i], Diffs(k)[i])
      <4>1. CASE k = item /\ i = layer
        BY <3>4, <4>1
      <4>2. CASE k = item /\ i # layer
        <5>1. i \in 1..(layer - 1)
          BY <3>3, <3>5, <3>6, <4>2
        <5> QED BY <3>2, <3>5, <4>2, <5>1
      <4>3. CASE k # item
        <5>1. k \in 1..(item - 1)
          BY <3>3, <3>5, <3>6, <4>3
        <5> QED BY <3>2, <3>5, <3>6, <5>1
      <4> QED BY <4>1, <4>2, <4>3
    <3>7. \A k \in 1..(item - 1) : Len(inventories'[k]) = Len(Layers(k))
      BY <3>2, <3>5
    <3> QED BY <1>2, <2>2, <3>1, <3>2, <3>5, <3>6, <3>7 DEF InventoryInv
  <2>7. CASE ~InventoryLayer /\ ~(Leave /\ After)
    <3>1. inventories' = inventories
      BY <2>7, InventoryFrame
    <3>2. \/ UNCHANGED <<stage, item, layer>>
             /\ (stage = "inventory" => (phase \in {"enter", "run"} <=> phase' \in {"enter", "run"}))
          \/ stage = "finish" /\ stage' = "returned"
      BY <1>6, <2>7, Moves DEF Begin, Finish
    <3>3. stage = "inventory" => phase \in {"enter", "run", "report", "leave"}
      BY DEF ControlInv, Open
    <3> QED BY <1>1, <2>2, <2>3, <3>1, <3>2, <3>3 DEF InventoryInv
  <2> QED BY <2>5, <2>6, <2>7
<1> QED BY <1>5, <1>6

\* What a layer costs is what it adds to the count.
LEMMA BudgetStep ==
  ASSUME ControlInv, LoadInv, ComposeInv, CacheInv, InventoryInv, BudgetInv, [Next]_vars
  PROVE  BudgetInv'
<1>1. CASE UNCHANGED <<left, inventories>>
  BY <1>1 DEF BudgetInv, Applied, AppliedEntries, AppliedComponents, Files, PathComponents
<1>2. CASE InventoryLayer /\ err' = "none"
  <2> DEFINE b == <<item, layer>>
  <2>1. PICK files :
          /\ IsList(files) /\ \A e \in DOMAIN files : Components(files[e]) \in Nat
          /\ left' = Charge(files) /\ Affordable(Charge(files))
          /\ inventories' = IF layer = 1 THEN Append(inventories, <<files>>)
                            ELSE [inventories EXCEPT ![item] = Append(@, files)]
    BY <1>2, TakenIn
  <2>2. /\ item \in Nat \ {0} /\ layer \in Nat \ {0}
        /\ IsList(inventories') /\ IsList(inventories'[item])
        /\ DOMAIN inventories = IF layer = 1 THEN 1..(item - 1) ELSE 1..item
        /\ layer # 1 => DOMAIN inventories[item] = 1..(layer - 1)
        /\ DOMAIN inventories' = 1..item /\ DOMAIN inventories'[item] = 1..layer
        /\ inventories'[item][layer] = files
        /\ \A k \in 1..(item - 1) : inventories'[k] = inventories[k] /\ k \in DOMAIN inventories
        /\ \A i \in 1..(layer - 1) :
             /\ item \in DOMAIN inventories /\ i \in DOMAIN inventories[item]
             /\ inventories'[item][i] = inventories[item][i]
    BY <1>2, <2>1, TakenShape
  <2>3. /\ \A k \in 1..item : k = item \/ k \in 1..(item - 1)
        /\ \A i \in 1..layer : i = layer \/ i \in 1..(layer - 1)
    BY <2>2
  <2>4. \A k, i : k \in DOMAIN inventories' /\ i \in DOMAIN inventories'[k] =>
          \/ k = item /\ i = layer
          \/ /\ k \in DOMAIN inventories /\ i \in DOMAIN inventories[k]
             /\ inventories'[k][i] = inventories[k][i]
    BY <2>2, <2>3
  <2>5. \A k, i : k \in DOMAIN inventories /\ i \in DOMAIN inventories[k] =>
          /\ k \in DOMAIN inventories' /\ i \in DOMAIN inventories'[k]
          /\ k # item \/ i # layer
    <3>1. SUFFICES ASSUME NEW k, NEW i, k \in DOMAIN inventories, i \in DOMAIN inventories[k]
                   PROVE  /\ k \in DOMAIN inventories' /\ i \in DOMAIN inventories'[k]
                          /\ k # item \/ i # layer
      OBVIOUS
    <3>2. k \in 1..item /\ (k = item => layer # 1)
      BY <2>2, <3>1
    <3>3. CASE k = item
      BY <2>2, <3>1, <3>2, <3>3
    <3>4. CASE k # item
      BY <2>2, <2>3, <3>1, <3>2, <3>4
    <3> QED BY <3>3, <3>4
  <2>6. item \in DOMAIN inventories' /\ layer \in DOMAIN inventories'[item]
    BY <2>2
  <2>7. Applied' = Applied \cup {b} /\ b \notin Applied
    <3>1. \A k, i : <<k, i>> \in Applied' <=> k \in DOMAIN inventories' /\ i \in DOMAIN inventories'[k]
      BY DEF Applied
    <3>2. \A k, i : <<k, i>> \in Applied <=> k \in DOMAIN inventories /\ i \in DOMAIN inventories[k]
      BY DEF Applied
    <3>3. \A a \in Applied' : \E k, i : a = <<k, i>>
      BY DEF Applied
    <3>4. \A a \in Applied : \E k, i : a = <<k, i>>
      BY DEF Applied
    <3> QED BY <2>4, <2>5, <2>6, <3>1, <3>2, <3>3, <3>4
  <2>8. \A a \in Applied : Files(a)' = Files(a)
    <3>1. \A a \in Applied : a[1] \in DOMAIN inventories /\ a[2] \in DOMAIN inventories[a[1]]
      BY DEF Applied
    <3> QED BY <2>4, <2>5, <3>1 DEF Files
  <2>9. \A a : a = b => Files(a)' = files
    BY <2>2 DEF Files
  <2> DEFINE A == Applied
             E == [a \in Applied |-> DOMAIN Files(a)]
             P == [a \in Applied |-> PathComponents(Files(a))]
             F == [a \in Applied \cup {b} |-> IF a = b THEN DOMAIN files ELSE DOMAIN Files(a)]
             Q == [a \in Applied \cup {b} |-> IF a = b THEN PathComponents(files)
                                              ELSE PathComponents(Files(a))]
  <2>10. /\ AppliedEntries = Tagged(A, E) /\ AppliedComponents = Tagged(A, P)
         /\ \A a \in A : F[a] = E[a] /\ Q[a] = P[a]
         /\ F[b] = DOMAIN files /\ Q[b] = PathComponents(files)
    BY <2>7 DEF AppliedEntries, AppliedComponents, Tagged
  <2>11. \A f : PathComponents(f)' = PathComponents(f)
    BY DEF PathComponents, Components
  <2>12. \A a \in A \cup {b} : DOMAIN Files(a)' = F[a] /\ PathComponents(Files(a))' = Q[a]
    BY <2>8, <2>9, <2>11
  <2>13. AppliedEntries' = Tagged(A \cup {b}, F) /\ AppliedComponents' = Tagged(A \cup {b}, Q)
    <3>1. Tagged(A \cup {b}, F) = UNION {{a} \X F[a] : a \in A \cup {b}}
      BY DEF Tagged
    <3>2. Tagged(A \cup {b}, Q) = UNION {{a} \X Q[a] : a \in A \cup {b}}
      BY DEF Tagged
    <3>3. AppliedEntries' = UNION {{a} \X DOMAIN Files(a)' : a \in A \cup {b}}
      BY <2>7 DEF AppliedEntries
    <3>4. AppliedComponents' = UNION {{a} \X PathComponents(Files(a))' : a \in A \cup {b}}
      BY <2>7 DEF AppliedComponents
    <3> HIDE DEF A, F, Q, b
    <3> QED BY <2>12, <3>1, <3>2, <3>3, <3>4
  <2> HIDE DEF A, E, P, F, Q
  <2>14. /\ DOMAIN files = 1..Len(files) /\ Len(files) \in Nat
         /\ IsFiniteSet(DOMAIN files) /\ Cardinality(DOMAIN files) = Len(files)
    <3>1. DOMAIN files = 1..Len(files) /\ Len(files) \in Nat
      BY <2>1, ListFacts
    <3>2. /\ IsFiniteSet(1..Len(files))
          /\ Cardinality(1..Len(files)) = IF 1 > Len(files) THEN 0 ELSE Len(files) - 1 + 1
      BY <3>1, FS_Interval
    <3>3. \A m \in Nat : (IF 1 > m THEN 0 ELSE m - 1 + 1) = m
      OBVIOUS
    <3> QED BY <3>1, <3>2, <3>3
  <2>15. IsFiniteSet(PathComponents(files)) /\ Cardinality(PathComponents(files)) \in Nat
    BY <2>1, ComponentsAreFinite
  <2>16. /\ IsFiniteSet(Applied) /\ IsFiniteSet(AppliedEntries) /\ IsFiniteSet(AppliedComponents)
         /\ Cardinality(Applied) \in Nat /\ Cardinality(AppliedEntries) \in Nat
         /\ Cardinality(AppliedComponents) \in Nat
    BY FS_CardinalityType DEF BudgetInv
  <2>17. IsFiniteSet(Applied') /\ Cardinality(Applied') = Cardinality(Applied) + 1
    BY <2>7, <2>16, FS_AddElement
  <2>18. /\ IsFiniteSet(AppliedEntries')
         /\ Cardinality(AppliedEntries') = Cardinality(AppliedEntries) + Len(files)
    <3>1. b \notin A /\ IsFiniteSet(Tagged(A, E)) /\ IsFiniteSet(F[b])
      BY <2>7, <2>10, <2>14, <2>16 DEF A
    <3>2. \A a \in A : F[a] = E[a]
      BY <2>10
    <3> HIDE DEF b
    <3>3. /\ IsFiniteSet(Tagged(A \cup {b}, F))
          /\ Cardinality(Tagged(A \cup {b}, F)) = Cardinality(Tagged(A, E)) + Cardinality(F[b])
      BY <3>1, <3>2, TaggedGrows
    <3> QED BY <2>10, <2>13, <2>14, <3>3
  <2>19. /\ IsFiniteSet(AppliedComponents')
         /\ Cardinality(AppliedComponents')
              = Cardinality(AppliedComponents) + Cardinality(PathComponents(files))
    <3>1. b \notin A /\ IsFiniteSet(Tagged(A, P)) /\ IsFiniteSet(Q[b])
      BY <2>7, <2>10, <2>15, <2>16 DEF A
    <3>2. \A a \in A : Q[a] = P[a]
      BY <2>10
    <3> HIDE DEF b
    <3>3. /\ IsFiniteSet(Tagged(A \cup {b}, Q))
          /\ Cardinality(Tagged(A \cup {b}, Q)) = Cardinality(Tagged(A, P)) + Cardinality(Q[b])
      BY <3>1, <3>2, TaggedGrows
    <3> QED BY <2>10, <2>13, <2>15, <3>3
  <2>20. /\ left' = [layers |-> left.layers - 1, entries |-> left.entries - Len(files),
                     components |-> left.components - Cardinality(PathComponents(files))]
         /\ left'.layers >= 0 /\ left'.entries >= 0 /\ left'.components >= 0
         /\ left.layers \in Nat /\ left.entries \in Nat /\ left.components \in Nat
    BY <2>1 DEF Charge, Affordable, BudgetInv
  <2>21. /\ left' \in [layers : Nat, entries : Nat, components : Nat]
         /\ left'.layers + Cardinality(Applied') = left.layers + Cardinality(Applied)
         /\ left'.entries + Cardinality(AppliedEntries') = left.entries + Cardinality(AppliedEntries)
         /\ left'.components + Cardinality(AppliedComponents')
              = left.components + Cardinality(AppliedComponents)
    <3>1. \A x, y, c \in Nat : x - c >= 0 => x - c \in Nat /\ (x - c) + (y + c) = x + y
      OBVIOUS
    <3>2. /\ left'.layers = left.layers - 1 /\ left'.entries = left.entries - Len(files)
          /\ left'.components = left.components - Cardinality(PathComponents(files))
      BY <2>20
    <3>3. /\ left'.layers >= 0 /\ left'.entries >= 0 /\ left'.components >= 0
          /\ left.layers \in Nat /\ left.entries \in Nat /\ left.components \in Nat
      BY <2>20
    <3>4. left'.layers \in Nat /\ left'.layers + Cardinality(Applied') = left.layers + Cardinality(Applied)
      <4> DEFINE x == left.layers
                 y == Cardinality(Applied)
                 c == 1
      <4>1. x \in Nat /\ y \in Nat /\ c \in Nat /\ x - c >= 0
        BY <2>16, <2>17, <3>2, <3>3
      <4>2. left'.layers = x - c /\ Cardinality(Applied') = y + c
        BY <2>16, <2>17, <3>2
      <4> HIDE DEF x, y, c
      <4>3. x - c \in Nat /\ (x - c) + (y + c) = x + y
        BY <3>1, <4>1
      <4> QED BY <4>2, <4>3 DEF x, y
    <3>5. left'.entries \in Nat
          /\ left'.entries + Cardinality(AppliedEntries') = left.entries + Cardinality(AppliedEntries)
      <4> DEFINE x == left.entries
                 y == Cardinality(AppliedEntries)
                 c == Len(files)
      <4>1. x \in Nat /\ y \in Nat /\ c \in Nat /\ x - c >= 0
        BY <2>14, <2>16, <2>18, <3>2, <3>3
      <4>2. left'.entries = x - c /\ Cardinality(AppliedEntries') = y + c
        BY <2>14, <2>16, <2>18, <3>2
      <4> HIDE DEF x, y, c
      <4>3. x - c \in Nat /\ (x - c) + (y + c) = x + y
        BY <3>1, <4>1
      <4> QED BY <4>2, <4>3 DEF x, y
    <3>6. left'.components \in Nat
          /\ left'.components + Cardinality(AppliedComponents')
               = left.components + Cardinality(AppliedComponents)
      <4> DEFINE x == left.components
                 y == Cardinality(AppliedComponents)
                 c == Cardinality(PathComponents(files))
      <4>1. x \in Nat /\ y \in Nat /\ c \in Nat /\ x - c >= 0
        BY <2>15, <2>16, <2>19, <3>2, <3>3
      <4>2. left'.components = x - c /\ Cardinality(AppliedComponents') = y + c
        BY <2>15, <2>16, <2>19, <3>2
      <4> HIDE DEF x, y, c
      <4>3. x - c \in Nat /\ (x - c) + (y + c) = x + y
        BY <3>1, <4>1
      <4> QED BY <4>2, <4>3 DEF x, y
    <3> QED BY <2>20, <3>2, <3>4, <3>5, <3>6
  <2>22. \A k \in DOMAIN inventories' : IsList(inventories'[k])
    BY <2>2, <2>3 DEF BudgetInv
  <2>23. \A k \in DOMAIN inventories' : \A i \in DOMAIN inventories'[k] :
           /\ IsList(inventories'[k][i])
           /\ \A e \in DOMAIN inventories'[k][i] : Components(inventories'[k][i][e]) \in Nat
    <3>1. SUFFICES ASSUME NEW k \in DOMAIN inventories', NEW i \in DOMAIN inventories'[k]
                   PROVE  /\ IsList(inventories'[k][i])
                          /\ \A e \in DOMAIN inventories'[k][i] :
                               Components(inventories'[k][i][e]) \in Nat
      OBVIOUS
    <3>2. CASE k = item /\ i = layer
      <4>1. inventories'[k][i] = files
        BY <2>2, <3>2
      <4> QED BY <2>1, <4>1
    <3>3. CASE ~(k = item /\ i = layer)
      <4>1. /\ k \in DOMAIN inventories /\ i \in DOMAIN inventories[k]
            /\ inventories'[k][i] = inventories[k][i]
        BY <2>4, <3>1, <3>3
      <4> QED BY <4>1 DEF BudgetInv
    <3> QED BY <3>2, <3>3
  <2> QED BY <2>2, <2>17, <2>18, <2>19, <2>21, <2>22, <2>23 DEF BudgetInv
<1> QED BY <1>1, <1>2, InventoryFrame, NotTakenIn

-----------------------------------------------------------------------------
(* Progress.                                                               *)

LEMMA RankFacts ==
  /\ Rank["load"] = 1 /\ Rank["compose"] = 2 /\ Rank["resolve"] = 3
  /\ Rank["inventory"] = 4 /\ Rank["collisions"] = 5
  /\ \A s \in Stages : Rank[s] \in Nat
BY DEF Rank, Stages

\* Steps are ordered.
LEMMA PrecedesTransitive ==
  ASSUME NEW a, NEW b, NEW c,
         a.stage \in Stages, b.stage \in Stages, c.stage \in Stages,
         a.item \in Nat, b.item \in Nat, c.item \in Nat,
         a.layer \in Nat, b.layer \in Nat, c.layer \in Nat,
         Precedes(a, b), Precedes(b, c)
  PROVE  Precedes(a, c)
<1>1. Rank[a.stage] \in Nat /\ Rank[b.stage] \in Nat /\ Rank[c.stage] \in Nat
  BY RankFacts
<1> QED BY <1>1 DEF Precedes

\* The step at hand, while there is no error, is one of the story's.
LEMMA HereInStory ==
  ASSUME ControlInv, LoadInv, ComposeInv, InventoryInv, stage \in Stages, err = "none"
  PROVE  /\ InStory(Here) /\ item \in Nat /\ layer \in Nat
         /\ Here.stage = stage /\ Here.item = item /\ Here.layer = layer
<1>1. Here.stage = stage /\ Here.item = item /\ Here.layer = layer
  BY DEF Here, Step
<1>2. CASE stage = "inventory"
  <2>1. Composed /\ item \in DOMAIN Ordered /\ layer \in DOMAIN Layers(item) /\ given.validate
    BY <1>2 DEF Composed, InventoryInv, ControlInv
  <2>2. item \in Nat /\ layer \in Nat
    BY <2>1, KitFacts, OrderedFacts
  <2> QED BY <1>1, <1>2, <2>1, <2>2 DEF InStory
<1>3. CASE stage # "inventory"
  BY <1>1, <1>3 DEF ControlInv, Stages, InStory
<1> QED BY <1>1, <1>2, <1>3

\* Events come from entering a step and from reporting its end; whatever else
\* happens moves inside a step, to the next one, or out.
LEMMA EventsFrame ==
  ASSUME ControlInv, [Next]_vars
  PROVE  \/ /\ events' = events /\ UNCHANGED <<stage, item, layer>>
            /\ phase' = phase \/ (phase \in Open /\ phase' \in Open)
         \/ /\ events' = events /\ stage' = "returned" /\ phase' = "enter"
            /\ phase \in {"enter", "leave"}
         \/ events' = events /\ Begin /\ Goto("load", 1, 0)
         \/ events' = events /\ Leave /\ After /\ err' = "none" /\ err = "none"
         \/ /\ events' = Event("started") /\ Enter /\ stage \in Stages
            /\ phase = "enter" /\ phase' = "run" /\ UNCHANGED <<stage, item, layer, err>>
         \/ /\ Report /\ UNCHANGED <<stage, item, layer>>
<1>1. CASE UNCHANGED vars
  BY <1>1 DEF vars
<1>2. CASE Begin
  BY <1>2 DEF Begin, Return, ControlInv
<1>3. CASE Enter
  BY <1>3 DEF Enter, Return
<1>4. CASE Abandon
  BY <1>4 DEF Abandon, Open
<1>5. CASE Report
  BY <1>5 DEF Report
<1>6. CASE Leave
  BY <1>6, ErrorStays DEF Leave, Return, OrCancelled, After, Goto, Stages
<1>7. CASE Fetch \/ Load \/ Compose \/ Settle \/ CheckFileCollisions \/ InventoryLayer
  BY <1>7 DEF Fetch, Load, Compose, Settle, CheckFileCollisions, InventoryLayer, Body, Open
<1>8. CASE Expand \/ Select \/ Selected
  BY <1>8 DEF Expand, Select, Selected, Open
<1>9. CASE Finish
  BY <1>9 DEF Finish, Return, ControlInv
<1>10. CASE Cancel \/ \E r \in DOMAIN tag : MoveTag(r)
  BY <1>10 DEF Cancel, MoveTag
<1> QED BY <1>1, <1>2, <1>3, <1>4, <1>5, <1>6, <1>7, <1>8, <1>9, <1>10 DEF Next, Assemble

\* An event that opens where all is closed, behind every other, or closes the
\* last one where nothing failed, keeps the story bracketed.
LEMMA EventAppended ==
  ASSUME IsList(events), \A i \in DOMAIN events : Bracketed(i),
         \A i \in DOMAIN events : events[i].state # "failed",
         NEW e, events' = Append(events, e),
         e.stage \in Stages, e.item \in Nat, e.layer \in Nat,
         e.state = "started" <=> Closed,
         e.state # "started" => StepOf(e) = StepOf(events[Len(events)]),
         e.state = "started" => \A j \in DOMAIN events : Precedes(events[j], e),
         e.state = "failed" => err' # "none"
  PROVE  \A i \in DOMAIN events' : Bracketed(i)'
<1> DEFINE n == Len(events)
<1>1. n \in Nat /\ DOMAIN events = 1..n /\ (events # <<>> => n # 0) /\ (n # 0 => events # <<>>)
  BY ListFacts
<1>2. /\ Len(events') = n + 1 /\ DOMAIN events' = 1..(n + 1) /\ events'[n + 1] = e
      /\ \A i \in 1..n : events'[i] = events[i]
  BY AppendList
<1> HIDE DEF n
<1>3. ASSUME NEW i \in 1..n PROVE Bracketed(i)'
  <2>1. Bracketed(i) /\ events[i].state # "failed" /\ events'[i] = events[i]
    BY <1>1, <1>2
  <2>2. \A j \in 1..(i - 1) : events'[j] = events[j]
    BY <1>1, <1>2
  <2>3. i # 1 => events'[i - 1] = events[i - 1]
    BY <1>1, <1>2
  <2>4. Opens(i)' = Opens(i) /\ (i # 1 => Opens(i - 1)' = Opens(i - 1))
    BY <2>1, <2>3 DEF Opens
  <2>5. ~Opens(i) => i # 1
    BY <2>1 DEF Bracketed
  <2> QED BY <2>1, <2>2, <2>3, <2>4, <2>5 DEF Bracketed, StepOf, Precedes
<1>4. ASSUME NEW i, i = n + 1 PROVE Bracketed(i)'
  <2>1. i - 1 = n /\ events'[i] = e /\ i = Len(events') /\ (n # 0 => events'[n] = events[n])
        /\ (i = 1 <=> n = 0)
    BY <1>1, <1>2, <1>4
  <2>2. Closed <=> (n = 0 \/ ~Opens(n))
    BY <1>1 DEF Closed, n
  <2>3. Opens(i)' <=> e.state = "started"
    BY <2>1 DEF Opens
  <2>4. n # 0 => (Opens(i - 1)' <=> Opens(n))
    BY <2>1 DEF Opens
  <2>5. Opens(i)' <=> (i = 1 \/ ~Opens(i - 1)')
    BY <2>1, <2>2, <2>3, <2>4
  <2>6. ~Opens(i)' => StepOf(events'[i]) = StepOf(events'[i - 1])
    <3>1. e.state # "started" => n # 0
      BY <2>2
    <3> QED BY <2>1, <2>3, <3>1 DEF n
  <2>7. Opens(i)' => \A j \in 1..(i - 1) : Precedes(events'[j], events'[i])
    BY <1>1, <1>2, <2>1, <2>3
  <2> QED BY <2>1, <2>5, <2>6, <2>7 DEF Bracketed, Opens, StepOf, Precedes
<1>5. \A i \in 1..(n + 1) : i \in 1..n \/ i = n + 1
  BY <1>1
<1> QED BY <1>2, <1>3, <1>4, <1>5

\* At the end of a step, what was reported is about it or earlier ones.
LEMMA LastIsLatest ==
  ASSUME EventsInv, phase = "leave"
  PROVE  /\ Here.stage \in Stages /\ Here.item \in Nat /\ Here.layer \in Nat
         /\ \A j \in DOMAIN events : StepOf(events[j]) = Here \/ Precedes(events[j], Here)
<1> DEFINE n == Len(events)
<1>1. n \in Nat /\ n # 0 /\ DOMAIN events = 1..n /\ StepOf(events[n]) = Here /\ ~Opens(n)
  BY ListFacts DEF EventsInv, Closed
<1>2. n \in DOMAIN events /\ Bracketed(n)
  BY <1>1 DEF EventsInv
<1>3. n # 1 /\ Opens(n - 1) /\ StepOf(events[n - 1]) = Here
  BY <1>1, <1>2 DEF Bracketed
<1>4. n - 1 \in DOMAIN events /\ Bracketed(n - 1)
  BY <1>1, <1>3 DEF EventsInv
<1> HIDE DEF n
<1>5. \A e : StepOf(e) = Here => Here.stage = e.stage /\ Here.item = e.item /\ Here.layer = e.layer
  BY DEF StepOf, Step
<1>6. \A j \in 1..((n - 1) - 1) : Precedes(events[j], events[n - 1])
  BY <1>3, <1>4 DEF Bracketed
<1>7. \A j \in 1..((n - 1) - 1) : Precedes(events[j], Here)
  BY <1>3, <1>5, <1>6 DEF Precedes
<1>8. \A j \in 1..n : j = n \/ j = n - 1 \/ j \in 1..((n - 1) - 1)
  BY <1>1
<1> QED BY <1>1, <1>2, <1>3, <1>5, <1>7, <1>8 DEF Bracketed

\* The next step comes after the one that ends.
LEMMA AfterIsLater ==
  ASSUME ControlInv, LoadInv, ComposeInv, InventoryInv, err = "none", Leave, After, stage' \in Stages
  PROVE  Precedes(Here, Here') /\ Here'.item \in Nat /\ Here'.layer \in Nat /\ Here'.stage = stage'
<1>1. /\ Here.stage = stage /\ Here.item = item /\ Here.layer = layer
      /\ Here'.stage = stage' /\ Here'.item = item' /\ Here'.layer = layer'
  BY DEF Here, Step
<1>2. stage \in Stages /\ item \in Nat /\ layer \in Nat
  BY HereInStory DEF Leave
<1>3. CASE stage = "load"
  <2>1. \/ stage' = "load" /\ item' = item + 1 /\ layer' = 0
        \/ stage' = "compose" /\ item' = 0 /\ layer' = 0
    BY <1>3 DEF After, Goto
  <2> QED BY <1>1, <1>2, <1>3, <2>1, RankFacts DEF Precedes
<1>4. CASE stage = "compose"
  <2>1. stage' = "resolve" /\ item' = 0 /\ layer' = 0
    BY <1>4 DEF After, Goto
  <2> QED BY <1>1, <1>4, <2>1, RankFacts DEF Precedes
<1>5. CASE stage = "resolve"
  <2>1. stage' = "inventory" /\ item' = 1 /\ layer' = 1
    BY <1>5 DEF After, Goto, Stages
  <2> QED BY <1>1, <1>5, <2>1, RankFacts DEF Precedes
<1>6. CASE stage = "inventory"
  <2>1. \/ stage' = "inventory" /\ item' = item /\ layer' = layer + 1
        \/ stage' = "inventory" /\ item' = item + 1 /\ layer' = 1
        \/ stage' = "collisions" /\ item' = 0 /\ layer' = 0
    BY <1>6 DEF After, Goto
  <2> QED BY <1>1, <1>2, <1>6, <2>1, RankFacts DEF Precedes
<1>7. CASE stage = "collisions"
  BY <1>7 DEF After, Goto, Stages
<1> QED BY <1>2, <1>3, <1>4, <1>5, <1>6, <1>7 DEF Stages

\* Events stay in brackets and in order.
LEMMA EventsStep ==
  ASSUME ControlInv, LoadInv, ComposeInv, InventoryInv, EventsInv, [Next]_vars
  PROVE  EventsInv'
<1> DEFINE n == Len(events)
<1>0. IsList(events) /\ n \in Nat /\ DOMAIN events = 1..n /\ (n # 0 <=> events # <<>>)
  BY ListFacts DEF EventsInv
<1>1. err' = "none" => err = "none"
  BY ErrorStays
<1>2. ASSUME events' = events
      PROVE  /\ IsList(events') /\ \A i \in DOMAIN events' : Bracketed(i)'
             /\ Closed' = Closed
             /\ (events' # <<>> /\ Opens(Len(events))') = (events # <<>> /\ Opens(Len(events)))
  BY <1>1, <1>2 DEF EventsInv, Bracketed, Closed, Opens
<1>3. CASE /\ events' = events /\ UNCHANGED <<stage, item, layer>>
           /\ phase' = phase \/ (phase \in Open /\ phase' \in Open)
  <2>1. Here' = Here
    BY <1>3 DEF Here
  <2>2. \A e : Precedes(e, Here)' = Precedes(e, Here)
    BY <1>3, <2>1 DEF Precedes
  <2> QED BY <1>2, <1>3, <2>1, <2>2 DEF EventsInv, Open, Opens
<1>4. CASE /\ events' = events /\ stage' = "returned" /\ phase' = "enter"
           /\ phase \in {"enter", "leave"}
  BY <1>2, <1>4 DEF EventsInv, Stages, Open
<1>5. CASE events' = events /\ Begin /\ Goto("load", 1, 0)
  <2>1. stage = "begin" /\ phase = "enter" /\ phase' = "enter" /\ stage' = "load" /\ events = <<>>
    BY <1>5 DEF Begin, Goto, ControlInv, EventsInv
  <2>2. DOMAIN events' = {}
    BY <1>5, <2>1
  <2> QED BY <1>2, <1>5, <2>1, <2>2 DEF EventsInv, Open
<1>6. CASE events' = events /\ Leave /\ After /\ err' = "none" /\ err = "none"
  <2>1. phase = "leave" /\ phase' = "enter" /\ stage \in Stages /\ stage' # "begin"
    BY <1>6 DEF Leave, After, Goto, Stages
  <2>2. ASSUME stage' \in Stages, NEW j \in DOMAIN events
        PROVE  Precedes(events[j], Here')
    <3>1. Precedes(Here, Here') /\ Here'.item \in Nat /\ Here'.layer \in Nat /\ Here'.stage \in Stages
      BY <1>6, <2>2, AfterIsLater
    <3>2. /\ Here.stage \in Stages /\ Here.item \in Nat /\ Here.layer \in Nat
          /\ StepOf(events[j]) = Here \/ Precedes(events[j], Here)
      BY <2>1, LastIsLatest
    <3>3. events[j].stage \in Stages /\ events[j].item \in Nat /\ events[j].layer \in Nat
      BY DEF EventsInv, Bracketed
    <3>4. CASE StepOf(events[j]) = Here
      <4>1. Here.stage = events[j].stage /\ Here.item = events[j].item /\ Here.layer = events[j].layer
        BY <3>4 DEF StepOf, Step
      <4> QED BY <3>1, <4>1 DEF Precedes
    <3>5. CASE Precedes(events[j], Here)
      BY <3>1, <3>2, <3>3, <3>5, PrecedesTransitive
    <3> QED BY <3>2, <3>4, <3>5
  <2>3. \A j \in DOMAIN events' : stage' \in Stages => Precedes(events'[j], Here')
    BY <1>6, <2>2
  <2> QED BY <1>2, <1>6, <2>1, <2>3 DEF EventsInv, Open, Precedes
<1>7. ASSUME NEW state, events' = Event(state)
      PROVE  \E e : /\ e.stage = stage /\ e.item = item /\ e.layer = layer /\ e.state = state
                    /\ StepOf(e) = Here
                    /\ events' = Append(events, e) /\ IsList(events') /\ events' # <<>>
                    /\ events'[Len(events')] = e
  <2> DEFINE e == [stage |-> stage, item |-> item, layer |-> layer, state |-> state]
  <2>1. events' = Append(events, e)
    BY <1>7 DEF Event
  <2>2. e.stage = stage /\ e.item = item /\ e.layer = layer /\ e.state = state /\ StepOf(e) = Here
    BY DEF StepOf, Here, Step
  <2> HIDE DEF e
  <2>3. IsList(events') /\ Len(events') = n + 1 /\ events'[n + 1] = e
    BY <1>0, <2>1, AppendList
  <2>4. events' # <<>>
    BY <1>0, <2>3
  <2> QED BY <2>1, <2>2, <2>3, <2>4
<1>8. CASE /\ events' = Event("started") /\ Enter /\ stage \in Stages
           /\ phase = "enter" /\ phase' = "run" /\ UNCHANGED <<stage, item, layer, err>>
  <2>1. PICK e : /\ e.stage = stage /\ e.item = item /\ e.layer = layer /\ e.state = "started"
                 /\ StepOf(e) = Here
                 /\ events' = Append(events, e) /\ IsList(events') /\ events' # <<>>
                 /\ events'[Len(events')] = e
    BY <1>7, <1>8
  <2>2. err = "none" /\ Closed /\ (\A j \in DOMAIN events : Precedes(events[j], Here))
    BY <1>8 DEF ControlInv, EventsInv, Stages
  <2>3. /\ item \in Nat /\ layer \in Nat
        /\ Here.stage = stage /\ Here.item = item /\ Here.layer = layer
    BY <1>8, <2>2, HereInStory
  <2>4. \A j \in DOMAIN events : Precedes(events[j], e)
    BY <2>1, <2>2, <2>3 DEF Precedes
  <2>5. \A i \in DOMAIN events : Bracketed(i) /\ events[i].state # "failed"
    BY <2>2 DEF EventsInv, Bracketed
  <2>6. \A i \in DOMAIN events' : Bracketed(i)'
    BY <1>0, <1>8, <2>1, <2>2, <2>3, <2>4, <2>5, EventAppended
  <2>7. Here' = Here
    BY <1>8 DEF Here
  <2> QED BY <1>8, <2>1, <2>6, <2>7 DEF EventsInv, Open, Opens, Stages
<1>9. CASE Report /\ UNCHANGED <<stage, item, layer>>
  <2> DEFINE state == IF err' = "none" THEN "completed" ELSE "failed"
  <2>0. /\ stage \in Stages /\ phase = "report" /\ phase' = "leave" /\ events' = Event(state)
        /\ state # "started" /\ (state = "failed" => err' # "none")
    BY <1>9 DEF Report
  <2> HIDE DEF state
  <2>1. PICK e : /\ e.stage = stage /\ e.item = item /\ e.layer = layer /\ e.state = state
                 /\ StepOf(e) = Here
                 /\ events' = Append(events, e) /\ IsList(events') /\ events' # <<>>
                 /\ events'[Len(events')] = e
    BY <1>7, <2>0
  <2>2. events # <<>> /\ Opens(n) /\ StepOf(events[n]) = Here /\ n \in DOMAIN events /\ Bracketed(n)
    BY <1>0, <2>0 DEF EventsInv, Open
  <2>3. ~Closed
    BY <2>2 DEF Closed
  <2>4. item \in Nat /\ layer \in Nat
    BY <2>2 DEF Bracketed, StepOf, Step, Here
  <2>5. \A i \in DOMAIN events : Bracketed(i) /\ events[i].state # "failed"
    BY <2>2 DEF EventsInv, Bracketed, Opens
  <2>6. \A i \in DOMAIN events' : Bracketed(i)'
    BY <1>0, <2>0, <2>1, <2>2, <2>3, <2>4, <2>5, EventAppended
  <2>7. Here' = Here
    BY <1>9 DEF Here
  <2>8. Closed'
    BY <2>0, <2>1 DEF Closed, Opens
  <2> QED BY <1>9, <2>0, <2>1, <2>6, <2>7, <2>8 DEF EventsInv, Open, Stages
<1> QED BY <1>3, <1>4, <1>5, <1>6, <1>8, <1>9, EventsFrame

\* Which steps belong to the story depends on the kits only for their layers.
LEMMA StoryStable ==
  ASSUME given' = given
  PROVE  /\ \A s : s.stage # "inventory" => InStory(s)' = InStory(s)
         /\ loaded' = loaded => \A s : InStory(s)' = InStory(s)
<1>1. \A s : s.stage # "inventory" => InStory(s)' = InStory(s)
  BY DEF InStory
<1>2. ASSUME loaded' = loaded PROVE \A s : InStory(s)' = InStory(s)
  <2>1. Ordered' = Ordered /\ \A k : Layers(k)' = Layers(k)
    BY <1>2, Stable
  <2> QED BY <2>1 DEF InStory
<1> QED BY <1>1, <1>2

\* Nothing of the story lies between a step and the one After goes to.
LEMMA NothingBetween ==
  ASSUME ControlInv, LoadInv, ComposeInv, InventoryInv, err = "none", Leave, After,
         NEW s \in AnyStep, InStory(s), stage' \in Stages => Precedes(s, Here')
  PROVE  Precedes(s, Here) \/ s = Here
<1>1. /\ Here.stage = stage /\ Here.item = item /\ Here.layer = layer
      /\ Here'.stage = stage' /\ Here'.item = item' /\ Here'.layer = layer'
  BY DEF Here, Step
<1>2. stage \in Stages /\ item \in Nat /\ layer \in Nat
  BY HereInStory DEF Leave
<1>3. s.stage = stage /\ s.item = item /\ s.layer = layer => s = Here
  BY DEF AnyStep, Here, Step
<1>4. s.stage \in Stages /\ s.item \in Nat /\ s.layer \in Nat /\ Rank[s.stage] \in Nat
  BY RankFacts DEF AnyStep
<1>5. /\ Rank[s.stage] < 2 => s.stage = "load"
      /\ Rank[s.stage] < 3 => s.stage \in {"load", "compose"}
      /\ Rank[s.stage] < 4 => s.stage \in {"load", "compose", "resolve"}
      /\ Rank[s.stage] < 5 => s.stage \in {"load", "compose", "resolve", "inventory"}
      /\ ~(Rank[s.stage] < 1)
  BY <1>4, RankFacts DEF Stages
<1>6. /\ s.stage = "load" => s.item \in 1..Len(given.requests) /\ s.layer = 0
      /\ s.stage \in {"compose", "resolve", "collisions"} => s.item = 0 /\ s.layer = 0
      /\ s.stage \in {"inventory", "collisions"} => given.validate
      /\ s.stage = "inventory" => s.item \in DOMAIN Ordered /\ s.layer \in DOMAIN Layers(s.item)
  BY DEF InStory
<1>7. stage \in {"resolve", "inventory", "collisions"} =>
        /\ Len(Ordered) \in Nat /\ DOMAIN Ordered = 1..Len(Ordered)
        /\ \A k \in DOMAIN Ordered : Len(Layers(k)) \in Nat /\ DOMAIN Layers(k) = 1..Len(Layers(k))
  <2>1. stage \in {"resolve", "inventory", "collisions"} => Composed
    BY DEF Composed
  <2> QED BY <2>1, KitFacts, OrderedFacts
<1>8. CASE stage = "load"
  <2>1. item \in 1..Len(given.requests) /\ layer = 0
    BY <1>8 DEF ControlInv
  <2>2. CASE item < Len(given.requests)
    <3>1. stage' = "load" /\ item' = item + 1 /\ layer' = 0
      BY <1>8, <2>2 DEF After, Goto
    <3>2. Precedes(s, Here')
      BY <3>1 DEF Stages
    <3>3. s.stage = "load" /\ s.item < item + 1
      BY <1>1, <1>4, <1>5, <1>6, <3>1, <3>2, RankFacts DEF Precedes
    <3>4. s.item < item \/ s.item = item
      BY <1>2, <1>4, <3>3
    <3> QED BY <1>1, <1>3, <1>6, <1>8, <2>1, <3>3, <3>4 DEF Precedes
  <2>3. CASE ~(item < Len(given.requests))
    <3>1. stage' = "compose" /\ item' = 0 /\ layer' = 0
      BY <1>8, <2>3 DEF After, Goto
    <3>2. Precedes(s, Here')
      BY <3>1 DEF Stages
    <3>3. s.stage = "load"
      BY <1>1, <1>4, <1>5, <1>6, <3>1, <3>2, RankFacts DEF Precedes
    <3>4. s.item < item \/ s.item = item
      BY <1>2, <1>4, <1>6, <2>1, <2>3, <3>3
    <3> QED BY <1>1, <1>3, <1>6, <1>8, <2>1, <3>3, <3>4 DEF Precedes
  <2> QED BY <2>2, <2>3
<1>9. CASE stage = "compose"
  <2>1. stage' = "resolve" /\ item' = 0 /\ layer' = 0 /\ item = 0 /\ layer = 0
    BY <1>9 DEF After, Goto, ControlInv
  <2>2. Precedes(s, Here')
    BY <2>1 DEF Stages
  <2>3. s.stage \in {"load", "compose"}
    BY <1>1, <1>4, <1>5, <1>6, <2>1, <2>2, RankFacts DEF Precedes
  <2> QED BY <1>1, <1>3, <1>6, <1>9, <2>1, <2>3, RankFacts DEF Precedes
<1>10. CASE stage = "resolve"
  <2>1. item = 0 /\ layer = 0
    BY <1>10 DEF ControlInv
  <2>2. s.stage \in {"load", "compose", "resolve"}
    <3>1. CASE given.validate
      <4>1. stage' = "inventory" /\ item' = 1 /\ layer' = 1
        BY <1>10, <3>1 DEF After, Goto
      <4>2. Precedes(s, Here')
        BY <4>1 DEF Stages
      <4>3. s.stage = "inventory" => s.item >= 1 /\ s.layer >= 1
        BY <1>6, <1>7, <1>10
      <4> QED BY <1>1, <1>4, <1>5, <1>6, <4>1, <4>2, <4>3, RankFacts DEF Precedes
    <3>2. CASE ~given.validate
      BY <1>4, <1>6, <3>2 DEF Stages
    <3> QED BY <3>1, <3>2
  <2> QED BY <1>1, <1>3, <1>6, <1>10, <2>1, <2>2, RankFacts DEF Precedes
<1>11. CASE stage = "inventory"
  <2>1. /\ item \in DOMAIN Ordered /\ layer \in DOMAIN Layers(item)
        /\ Len(Ordered) \in Nat /\ Len(Layers(item)) \in Nat
        /\ item \in 1..Len(Ordered) /\ layer \in 1..Len(Layers(item))
    BY <1>7, <1>11 DEF InventoryInv
  <2>2. s.stage \in {"load", "compose", "resolve"} => Precedes(s, Here)
    BY <1>1, <1>11, RankFacts DEF Precedes
  <2>3. CASE layer < Len(Layers(item))
    <3>1. stage' = "inventory" /\ item' = item /\ layer' = layer + 1
      BY <1>11, <2>3 DEF After, Goto
    <3>2. Precedes(s, Here')
      BY <3>1 DEF Stages
    <3>3. \/ s.stage \in {"load", "compose", "resolve"}
          \/ s.stage = "inventory" /\ s.item < item
          \/ s.stage = "inventory" /\ s.item = item /\ s.layer < layer + 1
      BY <1>1, <1>4, <1>5, <3>1, <3>2, RankFacts DEF Precedes
    <3>4. s.layer < layer + 1 => s.layer < layer \/ s.layer = layer
      BY <1>2, <1>4
    <3> QED BY <1>1, <1>3, <1>11, <2>2, <3>3, <3>4 DEF Precedes
  <2>4. CASE ~(layer < Len(Layers(item)))
    <3>1. layer = Len(Layers(item))
      BY <2>1, <2>4
    <3>2. s.stage = "inventory" /\ s.item = item => s.layer < layer \/ s.layer = layer
      BY <1>6, <1>7, <1>11, <2>1, <3>1
    <3>3. CASE item < Len(Ordered)
      <4>1. stage' = "inventory" /\ item' = item + 1 /\ layer' = 1
        BY <1>11, <2>4, <3>3 DEF After, Goto
      <4>2. Precedes(s, Here')
        BY <4>1 DEF Stages
      <4>3. s.stage = "inventory" => s.layer >= 1
        BY <1>6, <1>7, <1>11
      <4>4. \/ s.stage \in {"load", "compose", "resolve"}
            \/ s.stage = "inventory" /\ s.item < item + 1
        BY <1>1, <1>4, <1>5, <4>1, <4>2, <4>3, RankFacts DEF Precedes
      <4>5. s.item < item + 1 => s.item < item \/ s.item = item
        BY <1>2, <1>4
      <4> QED BY <1>1, <1>3, <1>11, <2>2, <3>2, <4>4, <4>5 DEF Precedes
    <3>4. CASE ~(item < Len(Ordered))
      <4>1. stage' = "collisions" /\ item' = 0 /\ layer' = 0
        BY <1>11, <2>4, <3>4 DEF After, Goto
      <4>2. Precedes(s, Here')
        BY <4>1 DEF Stages
      <4>3. s.stage \in {"load", "compose", "resolve", "inventory"}
        BY <1>1, <1>4, <1>5, <1>6, <4>1, <4>2, RankFacts DEF Precedes
      <4>4. s.stage = "inventory" => s.item < item \/ s.item = item
        BY <1>6, <1>7, <1>11, <2>1, <3>4
      <4> QED BY <1>1, <1>3, <1>11, <2>2, <3>2, <4>3, <4>4 DEF Precedes
    <3> QED BY <3>3, <3>4
  <2> QED BY <2>3, <2>4
<1>12. CASE stage = "collisions"
  <2>1. item = 0 /\ layer = 0
    BY <1>12 DEF ControlInv
  <2> QED BY <1>1, <1>3, <1>4, <1>6, <1>12, <2>1, RankFacts DEF Precedes, Stages
<1> QED BY <1>2, <1>8, <1>9, <1>10, <1>11, <1>12 DEF Stages

\* While there is no error the events tell the story so far, and no other.
LEMMA StoryStep ==
  ASSUME ControlInv, LoadInv, ComposeInv, InventoryInv, EventsInv, StoryInv, [Next]_vars
  PROVE  StoryInv'
<1> DEFINE Told(s) == \E j \in DOMAIN events : StepOf(events[j]) = s
           Proper(e) == InStory(e) /\ (stage = "load" => e.stage = "load")
<1> SUFFICES ASSUME err' = "none"
             PROVE  /\ \A j \in DOMAIN events' : Proper(events[j])'
                    /\ \A s \in AnyStep : InStory(s)' /\ Gone(s)' => Told(s)'
  BY DEF StoryInv
<1>1. err = "none" /\ given' = given
  BY ErrorStays, GivenStep
<1>2. /\ \A j \in DOMAIN events : Proper(events[j])
      /\ \A s \in AnyStep : InStory(s) /\ Gone(s) => Told(s)
  BY <1>1 DEF StoryInv
<1>3. /\ \A s : s.stage # "inventory" => InStory(s)' = InStory(s)
      /\ stage \notin {"begin", "load"} => \A s : InStory(s)' = InStory(s)
  BY <1>1, StoryStable, LoadedForGood
<1>4. ASSUME events' = events PROVE \A s : Told(s)' = Told(s)
  BY <1>4 DEF StepOf
<1>5. ASSUME NEW s, stage \in Stages, stage = "load", Gone(s), s.stage \in Stages
      PROVE  s.stage = "load"
  <2>1. Precedes(s, Here) \/ s = Here
    BY <1>5 DEF Gone, Stages
  <2>2. Here.stage = "load"
    BY <1>5 DEF Here, Step
  <2>3. ~(Rank[s.stage] < 1)
    BY <1>5, RankFacts DEF Stages
  <2> QED BY <2>1, <2>2, <2>3, RankFacts DEF Precedes
<1>6. CASE /\ UNCHANGED <<stage, item, layer>> /\ events' = events
           /\ phase' = phase \/ (phase \in Open /\ phase' \in Open)
  <2>1. \A s : Gone(s)' = Gone(s)
    BY <1>6 DEF Gone, Here, Precedes, Open
  <2>2. \A j \in DOMAIN events' : Proper(events[j])'
    <3>1. stage = "begin" => events = <<>>
      BY DEF EventsInv
    <3>2. DOMAIN <<>> = {}
      OBVIOUS
    <3> QED BY <1>2, <1>3, <1>6, <3>1, <3>2
  <2>3. ASSUME NEW s \in AnyStep, InStory(s)', Gone(s)' PROVE Told(s)'
    <3>1. Gone(s) /\ s.stage \in Stages
      BY <2>1, <2>3 DEF AnyStep
    <3>2. stage # "begin"
      BY <3>1 DEF Gone, Stages
    <3>3. InStory(s)
      BY <1>3, <1>5, <2>3, <3>1, <3>2 DEF Stages
    <3> QED BY <1>2, <1>4, <1>6, <3>1, <3>3
  <2> QED BY <2>2, <2>3
<1>7. CASE events' = events /\ Begin /\ Goto("load", 1, 0)
  <2>1. events = <<>> /\ stage' = "load" /\ item' = 1 /\ layer' = 0 /\ phase' = "enter"
    BY <1>7 DEF Begin, EventsInv, Goto
  <2>2. ASSUME NEW s \in AnyStep, InStory(s)', Gone(s)' PROVE FALSE
    <3>1. Precedes(s, Here') /\ Here'.stage = "load" /\ Here'.item = 1 /\ Here'.layer = 0
      BY <2>1, <2>2 DEF Gone, Here, Step, Stages, Precedes
    <3>2. s.stage \in Stages /\ s.layer \in Nat /\ ~(Rank[s.stage] < 1)
      BY RankFacts DEF AnyStep, Stages
    <3>3. s.stage = "load" /\ s.item < 1
      BY <3>1, <3>2, RankFacts DEF Precedes
    <3>4. s.item \in 1..Len(given.requests)
      BY <1>1, <2>2, <3>3 DEF InStory
    <3> QED BY <3>3, <3>4
  <2>3. DOMAIN events' = {}
    BY <1>7, <2>1
  <2> QED BY <2>2, <2>3
<1>8. CASE events' = events /\ Leave /\ After
  <2>1. stage \in Stages /\ phase = "leave" /\ phase' = "enter" /\ loaded' = loaded
        /\ stage' \in Stages \cup {"finish"} /\ (stage' = "load" => stage = "load")
    BY <1>8 DEF Leave, Gathered, After, Goto, Stages
  <2>2. \A s : InStory(s)' = InStory(s)
    BY <1>1, <2>1, StoryStable
  <2>3. ASSUME NEW s \in AnyStep, InStory(s)', Gone(s)' PROVE Told(s)'
    <3>1. stage' \in Stages => Precedes(s, Here')
      BY <2>1, <2>3 DEF Gone, Stages, Precedes
    <3>2. Precedes(s, Here) \/ s = Here
      BY <1>1, <1>8, <2>2, <2>3, <3>1, NothingBetween
    <3>3. Gone(s)
      BY <2>1, <3>2 DEF Gone, Stages
    <3> QED BY <1>2, <1>4, <1>8, <2>2, <2>3, <3>3
  <2> QED BY <1>2, <1>8, <2>1, <2>2, <2>3
<1>9. CASE events' = events /\ stage' = "returned" /\ stage \in {"finish", "returned"}
  <2>1. \A s : Gone(s) /\ InStory(s)' = InStory(s)
    BY <1>3, <1>9 DEF Gone, Stages
  <2> QED BY <1>2, <1>4, <1>9, <2>1
<1>10. ASSUME NEW state, events' = Event(state), UNCHANGED <<stage, item, layer, loaded>>,
              stage \in Stages, phase' # "enter"
       PROVE  /\ \A j \in DOMAIN events' : Proper(events[j])'
              /\ \A s \in AnyStep : InStory(s)' /\ Gone(s)' => Told(s)'
  <2> DEFINE n == Len(events)
             e == [stage |-> stage, item |-> item, layer |-> layer, state |-> state]
  <2>1. e.stage = stage /\ e.item = item /\ e.layer = layer /\ StepOf(e) = Here /\ Here' = Here
    BY <1>10 DEF StepOf, Here, Step
  <2>2. events' = Append(events, e) /\ IsList(events)
    BY <1>10 DEF Event, EventsInv
  <2> HIDE DEF e
  <2>3. /\ n \in Nat /\ DOMAIN events = 1..n /\ DOMAIN events' = 1..(n + 1)
        /\ events'[n + 1] = e /\ \A j \in 1..n : events'[j] = events[j]
    BY <2>2, AppendList, ListFacts
  <2> HIDE DEF n
  <2>4. \A s : InStory(s)' = InStory(s)
    BY <1>1, <1>10, StoryStable
  <2>5. InStory(e)
    BY <1>1, <1>10, <2>1, HereInStory DEF InStory
  <2>6. \A j \in 1..(n + 1) : j \in 1..n \/ j = n + 1
    BY <2>3
  <2>7. ASSUME NEW j \in DOMAIN events' PROVE Proper(events[j])'
    BY <1>2, <1>10, <2>1, <2>3, <2>4, <2>5, <2>6
  <2>8. ASSUME NEW s \in AnyStep, InStory(s)', Gone(s)' PROVE Told(s)'
    <3>1. Precedes(s, Here) \/ s = Here
      BY <1>10, <2>1, <2>8 DEF Gone, Stages, Precedes
    <3>2. CASE s = Here
      <4>1. n + 1 \in DOMAIN events' /\ StepOf(events'[n + 1]) = s
        BY <2>1, <2>3, <3>2
      <4> QED BY <4>1 DEF StepOf
    <3>3. CASE Precedes(s, Here)
      <4>1. Gone(s) /\ InStory(s)
        BY <1>10, <2>4, <2>8, <3>3 DEF Gone, Stages
      <4>2. PICK j \in DOMAIN events : StepOf(events[j]) = s
        BY <1>2, <4>1
      <4>3. j \in DOMAIN events' /\ StepOf(events'[j]) = s
        BY <2>3, <4>2
      <4> QED BY <4>3 DEF StepOf
    <3> QED BY <3>1, <3>2, <3>3
  <2> QED BY <2>7, <2>8
<1>11. CASE events' = Event("started") /\ Enter /\ stage \in Stages /\ phase' = "run"
            /\ UNCHANGED <<stage, item, layer, err>>
  BY <1>10, <1>11 DEF Enter, Gathered
<1>12. CASE Report /\ UNCHANGED <<stage, item, layer>>
  BY <1>10, <1>12 DEF Report, Gathered
<1>13. stage' = "returned" => stage \in {"finish", "returned"}
  BY Moves DEF Goto, Leave, After, Stages, Finish
<1> QED BY <1>6, <1>7, <1>8, <1>9, <1>11, <1>12, <1>13, EventsFrame

-----------------------------------------------------------------------------
(* The result.                                                             *)

\* Success is returned once, with the environment as it is then and stays.
LEMMA ResultStep ==
  ASSUME ControlInv, ControlInv', ResultInv, [Next]_vars
  PROVE  ResultInv'
<1> SUFFICES ASSUME Succeeded' PROVE result'.env = Environment'
  BY DEF ResultInv
<1>1. stage' = "returned" /\ err' = "none"
  BY DEF Succeeded, ControlInv
<1>2. stage \in {"finish", "returned"}
  BY <1>1, Moves DEF Goto, Leave, After, Stages, Finish
<1>3. Environment' = Environment
  BY <1>2, GivenStep, LoadedForGood, Stable
<1>4. CASE stage = "finish"
  <2>1. Finish
    BY <1>1, <1>4, Moves DEF Goto, Begin, Leave, Stages
  <2>2. OrCancelled("none") = "none"
    BY <1>1, <2>1 DEF Finish, Return
  <2>3. result'.env = Environment
    BY <2>1, <2>2 DEF Finish, Return
  <2> QED BY <1>3, <2>3
<1>5. CASE stage = "returned"
  <2>1. result' = result
    BY <1>5 DEF Next, vars, Assemble, Begin, Enter, Abandon, Report, Leave, Fetch, Load, Compose,
                Expand, Select, Selected, Settle, InventoryLayer, CheckFileCollisions, Finish,
                Cancel, MoveTag, Stages
  <2> QED BY <1>3, <2>1 DEF ResultInv, Succeeded
<1> QED BY <1>2, <1>4, <1>5

-----------------------------------------------------------------------------
(* The invariant.                                                          *)

LEMMA InitAInv == Init => AInv
<1> SUFFICES ASSUME Init PROVE AInv
  OBVIOUS
<1>1. ControlInv
  BY InitControl
<1>2. /\ stage = "begin" /\ phase = "enter" /\ err = "none" /\ events = <<>> /\ chosen = <<>>
      /\ inventories = <<>> /\ result.done = FALSE
  BY DEF Init, Running
<1>3. DOMAIN loaded = {} /\ DOMAIN cache = {}
  BY DEF Init, Empty
<1>4. IsList(<<>>) /\ DOMAIN <<>> = {} /\ Len(<<>>) = 0
  BY DEF IsList
<1>5. LoadInv
  BY <1>2, <1>3 DEF LoadInv, Kits
<1>6. ComposeInv /\ ~Expanded
  BY <1>2 DEF ComposeInv, Composed, Expanded
<1>7. ChosenInv /\ AnswersInv
  BY <1>2, <1>4, <1>6 DEF ChosenInv, AnswersInv
<1>8. CacheInv
  BY <1>3 DEF CacheInv
<1>9. InventoryInv
  BY <1>2, <1>4 DEF InventoryInv
<1>10. BudgetInv
  <2>1. Applied = {}
    BY <1>2, <1>4 DEF Applied
  <2>2. AppliedEntries = {} /\ AppliedComponents = {}
    BY <2>1 DEF AppliedEntries, AppliedComponents
  <2>3. IsFiniteSet({}) /\ Cardinality({}) = 0
    BY FS_EmptySet
  <2>4. /\ left = [layers |-> MaxInventoryLayers, entries |-> MaxInventoryEntries,
                   components |-> MaxInventoryComponents]
        /\ MaxInventoryLayers \in Nat /\ MaxInventoryEntries \in Nat /\ MaxInventoryComponents \in Nat
    BY InventoryIsBounded DEF Init
  <2> QED BY <1>2, <1>4, <2>1, <2>2, <2>3, <2>4 DEF BudgetInv
<1>11. EventsInv
  BY <1>2, <1>4 DEF EventsInv, Closed, Open, Stages
<1>12. StoryInv
  <2>1. \A s : ~Gone(s)
    BY <1>2 DEF Gone, Stages
  <2> QED BY <1>2, <1>4, <2>1 DEF StoryInv
<1>13. ResultInv
  BY <1>2 DEF ResultInv, Succeeded
<1> QED BY <1>1, <1>5, <1>6, <1>7, <1>8, <1>9, <1>10, <1>11, <1>12, <1>13 DEF AInv

LEMMA AInvStep == AInv /\ [Next]_vars => AInv'
<1> SUFFICES ASSUME AInv, [Next]_vars PROVE AInv'
  OBVIOUS
<1>1. /\ ControlInv /\ LoadInv /\ ComposeInv /\ ChosenInv /\ AnswersInv
      /\ CacheInv /\ InventoryInv /\ BudgetInv /\ EventsInv /\ StoryInv /\ ResultInv
  BY DEF AInv
<1>2. ControlInv' /\ LoadInv' /\ ComposeInv'
  BY <1>1, ControlStep, LoadStep, ComposeStep
<1>3. ChosenInv' /\ AnswersInv'
  BY <1>1, ChosenStep, AnswersStep
<1>4. CacheInv' /\ InventoryInv' /\ BudgetInv'
  BY <1>1, CacheStep, InventoryStep, BudgetStep
<1>5. EventsInv' /\ StoryInv'
  BY <1>1, EventsStep, StoryStep
<1>6. ResultInv'
  BY <1>1, <1>2, ResultStep
<1> QED BY <1>2, <1>3, <1>4, <1>5, <1>6 DEF AInv

\* Every state a call can reach satisfies the inductive invariant.
THEOREM AssemblyInvariant == Spec => []AInv
BY InitAInv, AInvStep, PTL DEF Spec

-----------------------------------------------------------------------------
(* One order.                                                              *)

\* A set of kits has one order at most.
OneOrder == \A s, t \in Orders : s = t

\* Where two orders first differ, each has the smallest reference that the kits
\* before it, which are the same, leave ready: so nowhere. The kits alone decide
\* in which order they are composed, not the order of the requests (order).
THEOREM OrderIsUnique == Spec => []OneOrder
<1>1. AInv => OneOrder
  <2> SUFFICES ASSUME AInv, NEW s \in Orders, NEW t \in Orders, s # t PROVE FALSE
    BY DEF OneOrder
  <2> DEFINE n == Len(given.requests)
             D == {i \in 1..n : s[i] # t[i]}
  <2>1. n \in Nat /\ DOMAIN given.tags \subseteq Nat
    BY CallsAreListed, ListFacts DEF AInv, ControlInv
  <2>2. \A r \in Kits : r \in Nat
    BY <2>1 DEF AInv, LoadInv, Pinned
  <2>3. s \in [1..n -> Kits] /\ t \in [1..n -> Kits]
    BY DEF Orders
  <2>4. \A i \in 1..n : /\ s[i] \in Ready(s, i) /\ \A r \in Ready(s, i) : s[i] <= r
                        /\ t[i] \in Ready(t, i) /\ \A r \in Ready(t, i) : t[i] <= r
    BY <2>3 DEF Orders
  <2> HIDE DEF n
  <2>5. D # {} /\ D \in SUBSET Nat
    BY <2>1, <2>3
  <2>6. PICK i \in D : \A j \in D : i <= j
    <3>1. PICK x \in D : \A y \in D : <<y, x>> \notin OpToRel(<, Nat)
      BY <2>5, NatLessThanWellFounded, WFMin, Zenon
    <3>2. \A y \in D : ~(y < x)
      BY <2>5, <3>1, Zenon DEF OpToRel
    <3> QED BY <2>5, <3>2
  <2>7. i \in 1..n /\ s[i] # t[i] /\ \A j \in 1..(i - 1) : s[j] = t[j]
    BY <2>1, <2>6
  <2>8. Placed(s, i) = Placed(t, i)
    BY <2>7 DEF Placed
  <2>9. Ready(s, i) = Ready(t, i)
    BY <2>8 DEF Ready
  <2>10. s[i] <= t[i] /\ t[i] <= s[i] /\ s[i] \in Nat /\ t[i] \in Nat
    BY <2>2, <2>3, <2>4, <2>7, <2>9
  <2> QED BY <2>7, <2>10
<1> QED BY <1>1, AssemblyInvariant, PTL

-----------------------------------------------------------------------------
(* What the runs check, for every call.                                    *)

\* Success leaves nothing open: every kit is in, decided on and inventoried.
LEMMA SuccessFacts ==
  ASSUME AInv, Succeeded
  PROVE  /\ stage = "returned" /\ err = "none" /\ Composed /\ Expanded
         /\ Coherent /\ ImagesMerge /\ AllAgree(Exports)
         /\ \A r \in Kits : Pinned(r) /\ Complete(r)
<1>1. stage = "returned" /\ err = "none" /\ phase = "enter"
  BY DEF AInv, ControlInv, Succeeded
<1>2. Composed /\ Expanded
  BY <1>1 DEF Composed, Expanded
<1>3. Coherent /\ ImagesMerge /\ AllAgree(Exports)
  BY <1>1, <1>2 DEF AInv, ComposeInv
<1> QED BY <1>1, <1>2, <1>3 DEF AInv, LoadInv

\* However the registry's tags move and whichever kits share blobs, a call that
\* succeeds put each kit together from one root, out of the blobs its manifest
\* and config name.
THEOREM WhatIsPinnedIsAssembled == Spec => []VerifiedAsListed
<1>1. AInv => VerifiedAsListed
  <2> SUFFICES ASSUME AInv, Succeeded, NEW r \in Kits
               PROVE  /\ loaded[r].ann = ReadDescriptor(given.store, loaded[r].root).ann
                      /\ Under(given.store, loaded[r].root, loaded[r].node)
                      /\ given.validate =>
                           \A i \in DOMAIN Image(r).layers :
                             LET desc == Image(r).layers[i]
                                 blob == given.blobs[desc.digest]
                             IN <<blob.is, blob.size, blob.diff>>
                                  = <<desc.digest, desc.size, Image(r).diffs[i]>>
    BY DEF VerifiedAsListed
  <2>1. stage = "returned" /\ err = "none" /\ Composed /\ Coherent /\ Pinned(r) /\ Complete(r)
    BY SuccessFacts
  <2>2. ControlInv /\ LoadInv /\ ComposeInv /\ InventoryInv /\ BudgetInv
    BY DEF AInv
  <2>3. loaded[r].ann = ReadDescriptor(given.store, loaded[r].root).ann
    BY <2>1 DEF Pinned
  <2>4. Under(given.store, loaded[r].root, loaded[r].node)
    BY <2>1, <2>2, CompleteFacts
  <2>5. ASSUME given.validate, NEW i \in DOMAIN Image(r).layers
        PROVE  Verified(Image(r).layers[i], Image(r).diffs[i])
    <3>1. PICK k \in DOMAIN Ordered : Ordered[k] = r
      BY <2>1, <2>2, OrderedFacts
    <3>2. Layers(k) = Image(r).layers /\ Diffs(k) = Image(r).diffs
      BY <3>1 DEF Layers, Diffs
    <3>3. Len(inventories) = Len(Ordered) /\ Len(inventories[k]) = Len(Layers(k))
      BY <2>1, <2>2, <2>5 DEF InventoryInv
    <3>4. DOMAIN inventories = 1..Len(inventories) /\ DOMAIN Ordered = 1..Len(Ordered)
      BY <2>1, <2>2, OrderedFacts, ListFacts DEF BudgetInv
    <3>5. k \in DOMAIN inventories
      BY <3>1, <3>3, <3>4
    <3>6. DOMAIN inventories[k] = 1..Len(inventories[k]) /\ DOMAIN Layers(k) = 1..Len(Layers(k))
      BY <2>1, <2>2, <3>5, KitFacts, ListFacts DEF BudgetInv
    <3>7. i \in DOMAIN inventories[k]
      BY <3>2, <3>3, <3>6
    <3>8. Verified(Layers(k)[i], Diffs(k)[i])
      BY <2>1, <2>2, <3>5, <3>7 DEF InventoryInv
    <3> QED BY <3>2, <3>8
  <2> QED BY <2>3, <2>4, <2>5 DEF Verified
<1> QED BY <1>1, AssemblyInvariant, PTL

\* Whatever a call's kits hold, and however often they share a layer, the layers,
\* entries and components applied stay within the inventory's limits.
THEOREM InventoryStaysInBudget == Spec => []WorkBounded
<1>1. AInv => WorkBounded
  <2> SUFFICES ASSUME AInv PROVE WorkBounded
    OBVIOUS
  <2>1. /\ left.layers \in Nat /\ left.entries \in Nat /\ left.components \in Nat
        /\ left.layers + Cardinality(Applied) = MaxInventoryLayers
        /\ left.entries + Cardinality(AppliedEntries) = MaxInventoryEntries
        /\ left.components + Cardinality(AppliedComponents) = MaxInventoryComponents
        /\ Cardinality(Applied) \in Nat /\ Cardinality(AppliedEntries) \in Nat
        /\ Cardinality(AppliedComponents) \in Nat
    BY FS_CardinalityType DEF AInv, BudgetInv
  <2>2. \A x, y, z \in Nat : x + y = z => y <= z
    OBVIOUS
  <2> QED BY <2>1, <2>2, InventoryIsBounded DEF WorkBounded
<1> QED BY <1>1, AssemblyInvariant, PTL

\* A context cancelled at any point is never taken for the selector's decision.
THEOREM CancellationIsNoDecision == Spec => []CancellationDecidesNothing
<1>1. AInv => CancellationDecidesNothing
  <2> SUFFICES ASSUME AInv PROVE CancellationDecidesNothing
    OBVIOUS
  <2>1. ASSUME result.done, result.err = "capability" PROVE Lacking
    <3>1. stage = "returned" /\ err = "capability"
      BY <2>1 DEF AInv, ControlInv
    <3> QED BY <3>1 DEF AInv, AnswersInv, Asking
  <2>2. ASSUME Succeeded
        PROVE  /\ Len(chosen) = Len(Topological)
               /\ \A k \in DOMAIN chosen :
                    /\ Len(chosen[k]) = Len(Asks(k))
                    /\ \A i \in DOMAIN chosen[k] : chosen[k][i].accepted <=> Supported(Asks(k)[i])
    <3>1. stage = "returned" /\ err = "none" /\ Expanded /\ phase # "select"
      BY <2>2, SuccessFacts DEF AInv, ControlInv
    <3>2. ~Asking
      BY <3>1 DEF Asking
    <3>3. \A k \in DOMAIN chosen : \A i \in DOMAIN chosen[k] :
            chosen[k][i].accepted <=> Supported(Asks(k)[i])
      BY <3>1, <3>2 DEF AInv, AnswersInv
    <3>4. /\ Len(chosen) = Len(Topological) /\ Len(chosen[Len(chosen)]) = Len(Asks(Len(chosen)))
          /\ \A k \in 1..(Len(chosen) - 1) : Len(chosen[k]) = Len(Asks(k))
          /\ IsList(chosen)
      BY <3>1 DEF AInv, ChosenInv
    <3>5. Len(chosen) \in Nat /\ DOMAIN chosen = 1..Len(chosen)
      BY <3>4, ListFacts
    <3>6. \A k \in 1..Len(chosen) : k = Len(chosen) \/ k \in 1..(Len(chosen) - 1)
      <4>1. \A n \in Nat : \A k \in 1..n : k = n \/ k \in 1..(n - 1)
        OBVIOUS
      <4> QED BY <3>5, <4>1
    <3> QED BY <3>3, <3>4, <3>5, <3>6
  <2> QED BY <2>1, <2>2 DEF CancellationDecidesNothing, Lacking
<1> QED BY <1>1, AssemblyInvariant, PTL

\* Progress is a sequence of closed brackets in the order of the work, whatever
\* cancels or fails, and success has told the whole story.
THEOREM ProgressTellsTheStory == Spec => []ProgressBracketed
<1>1. AInv => ProgressBracketed
  <2> SUFFICES ASSUME AInv PROVE ProgressBracketed
    OBVIOUS
  <2>0. ControlInv /\ LoadInv /\ ComposeInv /\ InventoryInv /\ EventsInv /\ StoryInv
    BY DEF AInv
  <2>1. \A i \in DOMAIN events :
          /\ Opens(i) <=> (i = 1 \/ ~Opens(i - 1))
          /\ ~Opens(i) => StepOf(events[i]) = StepOf(events[i - 1])
          /\ Opens(i) => \A j \in 1..(i - 1) : Precedes(events[j], events[i])
          /\ events[i].state = "failed" => i = Len(events)
    BY <2>0 DEF EventsInv, Bracketed
  <2>2. result.done /\ events # <<>> => ~Opens(Len(events))
    BY <2>0 DEF ControlInv, EventsInv, Closed
  <2>3. ASSUME Succeeded
        PROVE  {StepOf(events[i]) : i \in DOMAIN events} = WholeStory
    <3>1. stage = "returned" /\ err = "none" /\ Composed
      BY <2>3, SuccessFacts
    <3>2. /\ \A j \in DOMAIN events : InStory(events[j])
          /\ \A s \in AnyStep : InStory(s) => \E j \in DOMAIN events : StepOf(events[j]) = s
      BY <2>0, <3>1 DEF StoryInv, Gone, Stages
    <3>3. ASSUME NEW e, InStory(e) PROVE StepOf(e) \in WholeStory
      BY <3>3 DEF InStory, StepOf, Step, WholeStory
    <3>4. /\ Len(Ordered) \in Nat /\ DOMAIN Ordered = 1..Len(Ordered)
          /\ \A k \in DOMAIN Ordered : Len(Layers(k)) \in Nat /\ DOMAIN Layers(k) = 1..Len(Layers(k))
      BY <2>0, <3>1, KitFacts, OrderedFacts
    <3>5. Len(given.requests) \in Nat
      BY <2>0, CallsAreListed DEF ControlInv, IsList
    <3>6. ASSUME NEW s \in WholeStory PROVE s \in AnyStep /\ InStory(s)
      <4>1. \/ \E i \in 1..Len(given.requests) : s = Step("load", i, 0)
            \/ s \in {Step("compose", 0, 0), Step("resolve", 0, 0)}
            \/ given.validate /\ s = Step("collisions", 0, 0)
            \/ given.validate /\ \E k \in DOMAIN Ordered : \E i \in DOMAIN Layers(k) :
                                   s = Step("inventory", k, i)
        BY <3>6 DEF WholeStory
      <4> QED BY <3>4, <3>5, <4>1 DEF AnyStep, InStory, Step, Stages
    <3> QED BY <3>2, <3>3, <3>6
  <2> QED BY <2>1, <2>2, <2>3 DEF ProgressBracketed
<1> QED BY <1>1, AssemblyInvariant, PTL

\* Functions that agree are all found in their union.
LEMMA UnionFacts ==
  ASSUME NEW envs, AllAgree(envs)
  PROVE  /\ \A n : n \in DOMAIN Union(envs) <=> \E i \in DOMAIN envs : n \in DOMAIN envs[i]
         /\ \A i \in DOMAIN envs : \A n \in DOMAIN envs[i] : Union(envs)[n] = envs[i][n]
<1>1. \A n : n \in DOMAIN Union(envs) <=> \E i \in DOMAIN envs : n \in DOMAIN envs[i]
  BY DEF Union
<1>2. ASSUME NEW i \in DOMAIN envs, NEW n \in DOMAIN envs[i]
      PROVE  Union(envs)[n] = envs[i][n]
  <2> DEFINE j == CHOOSE j \in DOMAIN envs : n \in DOMAIN envs[j]
  <2>1. j \in DOMAIN envs /\ n \in DOMAIN envs[j]
    OBVIOUS
  <2>2. Union(envs)[n] = envs[j][n]
    BY DEF Union
  <2> HIDE DEF j
  <2> QED BY <2>1, <2>2 DEF AllAgree
<1> QED BY <1>1, <1>2

\* Whatever the kits state and the caller overrides, the environment returned is
\* the one the capabilities were expanded with, and keeps every promise.
THEOREM EnvironmentIsTheSnapshot == Spec => []SnapshotIsTheEnvironment
<1>1. AInv => SnapshotIsTheEnvironment
  <2> SUFFICES ASSUME AInv, Succeeded
               PROVE  /\ \A k \in DOMAIN chosen : \A i \in DOMAIN chosen[k] :
                           Asks(k)[i].uses # Absent =>
                             result.env[Asks(k)[i].uses] = chosen[k][i].value
                      /\ \A n \in DOMAIN given.overrides : result.env[n] = given.overrides[n]
                      /\ \A r \in Kits :
                           /\ \A n \in DOMAIN Descriptor(r).exports \ DOMAIN given.overrides :
                                result.env[n] = Descriptor(r).exports[n]
                           /\ \A n \in DOMAIN Image(r).env \ DOMAIN given.overrides :
                                \/ result.env[n] = Image(r).env[n]
                                \/ \E q \in Kits : n \in DOMAIN Descriptor(q).exports
    BY DEF SnapshotIsTheEnvironment
  <2> DEFINE I == ImageDefaults
             X == Union(Exports)
             o == given.overrides
  <2>1. /\ err = "none" /\ Expanded /\ Coherent /\ AllAgree(ImageEnvs) /\ AllAgree(Exports)
        /\ ControlInv
    BY SuccessFacts DEF ImagesMerge, AInv
  <2>2. result.env = Snapshot /\ Snapshot = Over(Over(I, X), o)
    BY DEF AInv, ResultInv, Environment, Snapshot
  <2>3. /\ DOMAIN Ordered = 1..Len(Ordered)
        /\ \A i \in DOMAIN Ordered : Ordered[i] \in Kits
        /\ \A r \in Kits : \E i \in DOMAIN Ordered : Ordered[i] = r
    BY <2>1, OrderedFacts
  <2>4. /\ DOMAIN ImageEnvs = DOMAIN Ordered /\ DOMAIN Exports = DOMAIN Ordered
        /\ \A i \in DOMAIN Ordered : /\ ImageEnvs[i] = Image(Ordered[i]).env
                                     /\ Exports[i] = Descriptor(Ordered[i]).exports
    BY DEF ImageEnvs, Exports
  <2>5. \A r \in Kits : \A n \in DOMAIN Descriptor(r).exports :
          n \in DOMAIN X /\ X[n] = Descriptor(r).exports[n]
    BY <2>1, <2>3, <2>4, UnionFacts
  <2>6. \A r \in Kits : \A n \in DOMAIN Image(r).env :
          n \in DOMAIN I /\ I[n] = Image(r).env[n]
    <3>1. \A r \in Kits : \A n \in DOMAIN Image(r).env :
            n \in DOMAIN Union(ImageEnvs) /\ Union(ImageEnvs)[n] = Image(r).env[n]
      BY <2>1, <2>3, <2>4, UnionFacts
    <3>2. \A r \in Kits : "PATH" \notin DOMAIN Image(r).env
      BY <2>1, SuccessFacts, CompleteFacts
    <3>3. \A n \in DOMAIN Union(ImageEnvs) :
            n # "PATH" => n \in DOMAIN I /\ I[n] = Union(ImageEnvs)[n]
      BY DEF ImageDefaults, Over
    <3> QED BY <3>1, <3>2, <3>3
  <2>7. \A n \in DOMAIN X : \E q \in Kits : n \in DOMAIN Descriptor(q).exports
    BY <2>1, <2>3, <2>4, UnionFacts
  <2> HIDE DEF I, X, o
  <2>8. /\ \A n \in DOMAIN o : Over(Over(I, X), o)[n] = o[n]
        /\ \A n \in DOMAIN X : n \notin DOMAIN o => Over(Over(I, X), o)[n] = X[n]
        /\ \A n \in DOMAIN I : n \notin DOMAIN o /\ n \notin DOMAIN X =>
             Over(Over(I, X), o)[n] = I[n]
    BY DEF Over
  <2>9. \A k \in DOMAIN chosen : \A i \in DOMAIN chosen[k] :
          Asks(k)[i].uses # Absent => Snapshot[Asks(k)[i].uses] = chosen[k][i].value
    BY <2>1 DEF AInv, ChosenInv
  <2>10. \A n \in DOMAIN given.overrides : result.env[n] = given.overrides[n]
    BY <2>2, <2>8 DEF o
  <2>11. \A r \in Kits : \A n \in DOMAIN Descriptor(r).exports \ DOMAIN given.overrides :
           result.env[n] = Descriptor(r).exports[n]
    BY <2>2, <2>5, <2>8 DEF o
  <2>12. \A r \in Kits : \A n \in DOMAIN Image(r).env \ DOMAIN given.overrides :
           \/ result.env[n] = Image(r).env[n]
           \/ \E q \in Kits : n \in DOMAIN Descriptor(q).exports
    BY <2>2, <2>6, <2>7, <2>8 DEF o
  <2> QED BY <2>2, <2>9, <2>10, <2>11, <2>12
<1> QED BY <1>1, AssemblyInvariant, PTL
=============================================================================

# Verification of the Sandbox Kit Spec reference code

TLA+ models of the Go code of this repository (Docker Sandbox Kit Spec v3),
checked with TLC on small instances and, where it matters most, proved with
TLAPS for every value of the constants.

Run `tlc -config X.cfg M` for a run of the tables below, `tlapm M.tla` for a
proof module. Source paths are relative to the repository.

## The system

A *kit* is an OCI artifact with a descriptor: what it provides, requires,
integrates with and conflicts with, and the capabilities it asks the host for.
A set of kits is resolved, its capabilities are selected and merged, its layers
are assembled into one image, and a runtime grants what the merged descriptor
asks. The repository holds the reference implementation of all that, a BuildKit
frontend that builds kits and sets, and a conformance suite (TCK) that drives a
runtime through an adapter.

| Component | State it keeps | Operations | Interacts with | Hard behaviour | What makes it correct |
|---|---|---|---|---|---|
| `resolve/resolve.go` | locals of one call: problems, indegrees, ready list | `Resolve`, `ResolvePartial`, `Dependencies` | called by `fetch`, `assemble`, frontend; feeds `Lock` | eight checks feed one verdict; ties, cycles | accepts exactly the coherent sets; one order per set |
| `resolve/lock.go` | the lock file | `LockFrom`, `Gate`, `VerifyRecreate` | surface of each kit; the consumer's loop (not in the repository) | registry moves between judgement and use; kits come and go | nothing widens without approval; what runs is locked |
| `spec/surface.go`, `spec/ssh_agent.go` | none | `SurfaceOf`, `DiffWidenings` | `Gate` | lists of strings stand for sets of requests | an empty diff admits nothing new; a diff shows every excess |
| `spec/merge.go`, `spec/groups.go` | accumulators of one merge | `Merge`, `Compose`, `SelectCapabilities` | `fetch`, frontend | order and repetition of contributions; atomic groups | the merge means what its parts mean |
| `spec/version.go` | none | `Satisfies`, `CompareVersions`, `CanonicalRequire` | resolver, merge | an order over mixed segments | simplification keeps meaning |
| `spec/validate.go`, `expand.go`, `environment.go`, ... | none | validation of one document | everyone | cross-entry rules | what validates can be merged |
| `fetch/fetch.go`, `registry.go`, `load_kit.go` | budget of one walk | read descriptor and image, walk indexes, expand arguments | registry | moving tags, nested and unreadable indexes, limits | the closest platform; one root for descriptor and image; walks end |
| `fetch/assemble*.go`, `assemble/*.go` | progress, inventory cache and budget, path trie | `Assemble`, image merge, collision check | `resolve`, `spec`, registry | cancellation inside a callback, budgets over cache hits, a whiteout of one kit over files of another | no half-reported step; a cancellation decides nothing; no kit loses a file |
| `internal/overlayfs/fs.go` | a merged tree | apply layers, look up, walk | assembly, image inspection | whiteouts, opaque directories, links and their limits | a path means what it means after real extraction |
| `cmd/frontend` | one build | plan and build sets | BuildKit | per-platform agreement, ordering, cycles | plans agree across platforms |
| `tck/sandbox/ssh_agent_backing.go` | listener, connection map, WaitGroup, logs | `serve`, `Close` | relay in the sandbox | goroutines racing `Close` | `Close` returns and leaves nothing |
| `tck/sandbox/testdata/ssh-relay` | per connection: binding, upstream | `serve`, `handle` | client in the sandbox, backing agent | bindings, failing upstream | only bounded signatures pass; every message is answered |
| `tck/sandbox`, `tck/adapter`, `tck/report` | sandboxes of a suite, records kept by a check, findings, roster | 72 checks through adapter verbs | adapters | late workloads, records of an earlier boot, deadlines, failing clean-up, breakages that mask each other | conforming runtimes pass, broken ones are noticed, nothing leaks unreported |
| `tck/adapters/sbx` | state files per sandbox | create, exec, recreate, rm, ... | the `sbx` CLI | a verb failing halfway | host state released once |
| `tck/kit`, `cmd/kit-tck` | none | artifact checks, presentation | registry | none beyond parsing | - |

`PROJECT.json` lists the same components with their status, and the hazards at
their source lines.

## Modules

    Versions - VersionsProofs, MCVersions

    KitSet - Composition (abstract)   NetworkPolicy            BackingAgent
       \            ^                     |                        |
        Resolver ---' (implements)     Surface                  SshRelay
           |                              |                        |
    ResolverProofs, MCResolver         LockGate          SshRelayProofs (and
                                          |              BackingAgentProofs),
                             LockGateProofs, MCLockGate  MCSshRelay, MCBackingAgent

    Strict - Assembly - AssemblyProofs    Runtime
       |        |                            |
    Registry, Overlay                     SuiteChecks
       |        |                            |
    RegistryAssembly - MCAssembly          Suite - SuiteProofs, MCSuite

**KitSet** - the vocabulary of resolution: descriptors with parsed entries,
which provide satisfies which require, the dependency edges. A constraint is the
set of versions it admits; an entry that does not parse has the name
`Malformed`.

**Composition** - what SPEC-v3 section 5.3 promises, with no algorithm: a
coherent set composes one kit at a time, each after its providers, smallest
reference first; anything else is refused.

**Versions** - comparison of versions and the reading of a requires entry: the
two loops of `checkConstraintsSatisfiable`, its verdict, and the scan of
`simplifyConstraints`, one constraint per step. A segment is what the code reads
of it: its value if it is a number, its place in byte order, its spelling
without leading zeros. What an entry means is the set of versions of `Probe`
that `Satisfies` admits; the ends of every range that is written are among them.
Tokenizing the entry is left out. KitSet starts from that meaning.

**Resolver** - `resolve()` and `order()`, one action per check or loop turn
(`Enter`, `CheckOneWorkload`, ..., `Judge`, `BuildGraph`, `Pop`, `Finish`). The
ready list is a set because the code sorts it before every pop. Problems are
collected as the code collects them; only `Judge` looks at them. `Topological`,
`Mixins` and `Layers` are what a finished resolution returns.

**NetworkPolicy** - entries, `appendRules`, `normalizeRules`, and (external, from
the capability pages) what a policy admits. Which names a pattern stands for
belongs to the runtime and is a constant; so are ports, methods and paths.

**Surface** - `SurfaceOf` and `DiffWidenings` with every comparison function. A
surface string is the record it encodes. Categories that are compared by
equality alone are one set of items.

**LockGate** - `LockFrom`, `Gate` and `VerifyRecreate` inside the loop that
SPEC-v3 section 7.4 describes: publications move tags at any time, the user edits
the set, approves or declines, stops and recreates. The loop is the consumer's
and is external; the repository's part is what it calls. A digest identifies
content, so the digest of a kit is its content. A lock may be of the time before
the HTTP lists (`LegacyLock`), for kits that only had bare entries.

**BackingAgent** - the suite's SSH agent: accept loop, one goroutine per
connection with its deferred calls in order, `Close` statement by statement, and
the peers. `connsMu` is a lock that `Close` holds over several steps.

**SshRelay** - the relay of the fake runtime, composed with `BackingAgent`: client
connection c forwards over agent connection c. A message is what the relay's
parsers make of it; `asked` is a history of what each client sent. The relay's
`-broken` switches are off.

**Registry** - `metadata` and `chooseManifest`: the walk of nested indexes with
its depth and its budget of manifests, the platform match at each level, the
comparison of what the branches offer, and the rules about unreadable branches.
A manifest store maps a node to its media type, whether it is served, its
annotation, its children and its image.

**Overlay** - `internal/overlayfs` as operators on a tree, a function from paths
to nodes: `Extract` for every tar entry type with `RootPath`, `CrossesSymlink`,
`MkParent` and `InheritDirInfo`, the two symlink limits, stacking of a layer with
whiteouts and opaque directories, dangling links, and the collision rules of
`assemble_collisions.go` on top of it.

**Assembly** - `fetch.Assemble`, one action per stage of the pipeline inside
`progressStep` (`Enter`, the stage's work, `Report`): each kit loaded by
reading the descriptor and then the image under the root it pinned, images
merged, arguments and environment expanded, the selector asked one request at a
time, layers inventoried through cache and budget, collisions checked, result
returned. `item` and `layer` are the positions of the code's nested loops. The
caller may cancel and a publisher may move a tag between any two steps, the
progress callback included. Resolution is used as the order that Resolver
establishes: each next kit is the smallest whose providers are all placed. What
the two reads of a kit find and the verdict on the files are parameters
(`ReadDescriptor`, `ReadImage`, `JudgeFiles`). Of the reads it is assumed that a
descriptor lists its requests and that an image lies under the root it was read
from (`LoaderReadsKits`); of the verdict nothing.

**RegistryAssembly** - Assembly with the walks of Registry for the reads and the
collision rules over Overlay's trees (`FileCollisions`) for the verdict, and the
properties that are about those. It is what the run checks, and the run evaluates
the assumptions on them.

**Runtime** - the fake runtime of the suite's tests (`testdata/fake-adapter`), a
state machine per sandbox: what `create` refuses, which hooks, files, mounts,
agents and records a boot leaves, what `stop`, `start`, `recreate` and
`wait-idle` keep, and what a command in the sandbox observes. `broken` is the
set of its `KIT_TCK_FAKE_BROKEN` modes that are on: with none it is the
conforming runtime. Part of it are the relay in front of the agent, the
workload image's entrypoint, which makes its requests to the agent one at a time,
and the log of that agent (`log`: the last signature, how many, how many
requests, whether one was out of bounds). Hooks, workload and the commands of
`exec` all write to the one log.

**SuiteChecks** - every check of `tck/sandbox` as a script: legs of adapter calls,
observations with what passes, records kept and waited for, clean-ups. A script
has the order and the early returns of its function. A probe of the agent and
the reads of the agent's log around it are steps of their own, as in
`expectSigned` and `expectRefused`.

**Suite** - `runChecks` playing the scripts through the adapter: claims and gating,
findings, roster, deferred clean-ups under a context of their own, leaked
sandboxes, the deadline that may expire between two calls or kill a create, and
workloads whose steps come some time after their boot, between any two steps of
the check. The sandboxes of a check are
numbered as they are created; `open` is the set of those still to be removed,
the last one first.

**Strict** - evaluation helpers without a model of their own.

Definitions marked `Mutant` change one definition the way a bug would; each is
used to show that a property can fail.

## Runs

| Run | Instance | States | Checks |
|---|---|---|---|
| `resolver` | 3 units whose descriptors break each rule in some combination; 4 units with every graph among every subset | 509,656 | `TypeOK`; `ImplementsContract`: the algorithm refines Composition, so it accepts exactly the coherent sets in exactly the promised order; `ProvidersFirst`, `SmallestReferenceFirst`, `CycleIsReal`, `LayersStack`; `Resolves`: every call returns |
| `agent_close` | 2 connections, 2 requests, Accept may fail | 167,838 | `ATypeOK`, `WgCountsGoroutines`, `NoneMissed`, `NothingOutlivesClose`, `RegisteredWhileServed`, `AddsBeforeWait`, `CloseReturns` |
| `relay` | 1 connection and up to 3 of 16 messages, or 2 connections with up to 2 each; the agent closes at any time | 248,730 | `SignaturesAreBounded`, on one connection and across two; `OnlyListAndSignReach`; `EveryMessageAnswered` |
| `gate` | 1 kit moving among some 40 policies, or 2 kits whose policies meet in a growing set | 344,378 | `LTypeOK`, `EmptyGateStaysWithin`, `RunsWhatIsLocked`, `NothingWidensSilently` |
| `gate_removal` | 2 kits, kits may leave | | `EmptyGateStaysWithin` - violated, see below |
| `gate_report` | 1 kit, port-qualified and bounded entries | | `EveryExcessIsShown` - violated, see below |
| `versions_rules` | a list of up to 2 constraints on 8 versions or of 3 on `0` and `0.-`, then a second of up to 1 on 4 | 181,299 | `RefusedIsUnsatisfiable`, `AcceptedIsSatisfiable`, `CanonicalKeepsMeaning`, `CanonicalIsUniqueAboveAFloor` |
| `versions_floor` | 2 entries on `0`, `1` | | `CanonicalIsUnique` - violated, see below |
| `versions_mixed` | 1 entry on `0.2`, `0.10`, `0.1a` | | `RefusedIsUnsatisfiable` - violated, see below |
| `assembly` | index shapes of depth 2 and width 3; sets of up to 3 kits with requests, exports and overrides; layers under cache and budget; pairs of layer stacks; cancellation and moving tags | 111,771 | `ClosestPlatform`, `ReadsBounded`, `VerifiedAsListed`, `WorkBounded`, `ProgressBracketed`, `CancellationDecidesNothing`, `SnapshotIsTheEnvironment`, `PathsAreSearched`, `CollisionsAreLosses`, `AssembleReturns` |
| `suite` | every check against conforming runtimes with each set of claims, each breakage of the test table, each pair of breakages of one check, late workloads, deadlines, runtimes that cannot remove or never start | 72,013 | `FaithfulPasses`, `BreakageIsNoticed`, `RemovedOrReported`, `EveryCheckAccounted`, `RunReturns` |
| `suite_races` | the six checks of `Hasty` in one run, a conforming runtime with late workloads | | `LateWorkloadsPass` - violated, see below |

What the newer properties say:

- `ClosestPlatform`: among the manifests a reference offers at any depth, the
  one read is as close to the platform as any, and a walk fails only where
  something under the root is unreadable or beyond the bounds.
- `VerifiedAsListed`: descriptor and image lie under one root although the tag
  moved between the two reads, and every inventoried layer's blob is the one
  its own kit's manifest and config name although another kit filled the cache.
- `ReadsBounded`: one reference causes no more reads than the manifest budget.
- `WorkBounded`: layers, entries and path components applied in a call, replayed
  ones included, stay within their limits.
- `ProgressBracketed`: every started event is closed once, in order, before
  anything else happens, under cancellation too; nothing follows a failure, and
  a success has reported every load, layer and stage of the set and nothing else.
- `CancellationDecidesNothing`: no set is refused, and none accepted without an
  optional capability, because a cancelled selector answered no.
- `SnapshotIsTheEnvironment`: capability configs see the environment that the
  container gets, with overrides over exports over image variables.
- `PathsAreSearched`: unless the caller or an exporting argument sets PATH whole,
  which replaces the merged value, the PATH of the returned environment has
  exactly the elements the images state, the workload's own value at its head,
  and each element that a mixin adds once.
- `CollisionsAreLosses`: an accepted set loses no contributed file and redirects
  no link when its layers are really laid over each other; a refused one has a
  path that changed hands.
- `FaithfulPasses`, `BreakageIsNoticed`: a run that returns nil fails no conforming
  runtime, and fails every runtime of the table, also when two breakages of a
  requirement come together. For conforming runtimes with late workloads
  `FaithfulPasses` excepts the six checks of `Hasty`, which judge a sandbox before
  its workload is through with the agent.
- `LateWorkloadsPass`: the same without the exception. It is what comments of the
  checks call for and the code does not keep.
- `RemovedOrReported`: every sandbox whose id is known is gone or reported.
- `EveryCheckAccounted`: every selected check is judged or skipped once, in order.

Bounds. Three units are what the pairwise rules and a constraint between a
consumer and two owners need; four are what the sort needs to have a cycle with
a unit behind it and a tie beside it. Two connections are what a race between a
registration and the sweep needs, with one already registered. Three messages
are a binding, a second binding and a login, so a third message is sent only
after two bindings. Two kits are what a deny of one against an allow of the
other needs; the policies of `gate` contain a bare and a qualified host, the
universal pattern, a pattern only the runtime can match, both forms of paths, a
single method and `ANY`. Probes are one segment longer than the versions of the
constraints, which is what a successor and a version between two bounds need; no
two different ranges of those instances agree on them.

`assembly` sets the code's limits to sizes that its instances reach from both
sides: `MaxIndexDepth` 2 (an index in an index, and one level too many),
`MaxManifestFetches` 4, `MaxLookupSymlinks` 2 and `MaxExtractSymlinks` 3 (40
and 255 in the code, in the same order), and
5 layers, 7 entries and 12 components of inventory (`AtLimits`: a set with 5
layers and one with 6, one with 12 components and one with 14; the other
scenarios meet the limit of entries). Layer stacks are pairs over
a two-level name space: what one kit can do to another needs one path, its
parent and a link to it. `suite` needs no bound beyond the scripts: a check
creates at most eight sandboxes.

Deadlock checking is off where the system may stop: a resolution, a parse, an
assembly or a suite has returned, a closed agent with no peers left, a relay
whose clients have gone.

Fairness. The resolver and `Assemble` are sequential code that waits for nothing
but the registry: weak fairness of their steps. Go schedules every runnable
goroutine, and a blocked one becomes runnable when what it waits for happens:
weak fairness of the accept loop, of each connection's goroutine, of `Close`
once it was called, and of each relay goroutine. The suite's runner is
sequential and adapter calls return: weak fairness of `Run`; a late workload
goes on in the end (`WorkloadRuns`), except in a runtime broken that way, where
the checks' own limits end the wait. Peers, clients, publishers, the caller's
cancellation and the deadline have no fairness: they may never act. `relay`
assumes that `Accept` fails only on a closed listener (`AcceptMayFail = FALSE`);
with other failures the accept loop ends, the listener stays open, and clients
wait until `Close` (a hazard in the list).

A wait of a check gives up only when the record can no longer come: a late
workload is assumed to be through within the limit of the check that waits for
it (five seconds in the code), and the properties speak of workloads that are
late by less. A runtime whose workload never starts (`Stuck` in MCSuite) shows
that waits do give up.

## Disagreements found

*Removing a kit (`gate_removal`).* `Gate` looks at the kits of the new
resolution. Kit r2 denies `GET api`, kit r1 allows `api`; taking r2 out gives an
empty result although the composed policy now admits `GET api`. The comment of
`Gate` (`resolve/lock.go:74`) says an empty result stays within what was granted.

*A fresh port hides a bounded entry (`gate_report`).* `suppressed`
(`spec/surface.go:353`) assumes that an entry on a host without a port reaches
only the allowed ports; the capability page and `hostCovers` read it as every
port. A candidate that adds `api:8443` and `GET` on `api` shows `api:8443` only.

*The unwritten floor (`versions_floor`).* Every version is at least 0, which the
check at parse counts as a bound and the simplification does not: `<= 0` and
`= 0` mean the same and render differently, against the comment of
`CanonicalRequire` (`spec/version.go:208`).

*An order that is not one (`versions_mixed`).* Numbers compare by value and anything
else by bytes, so 0.2 < 0.10 < 0.1a < 0.2, and `> 0.2, < 0.1a` is refused though
0.10 meets it (`spec/version.go:386`). With segments whose two orders agree (the
other version runs) the check is exact.

*A record read before it is written (`suite_races`).* `sshAgentPhaseScoped`
reads the workload's `kit-tck-workload-ssh-sock` right after `create`
(`tck/sandbox/ssh_agent.go:548`) and fails the runtime when it is not there;
`agentUnreachable`, called later in the same check, waits first, because
"create may return before the workload starts" (`ssh_agent.go:151`). A conforming
runtime with a late workload fails the check.

*A log with two writers (`suite_races`).* `expectSigned` runs a probe and then
compares the last entry of the backing agent's log (`ssh_agent.go:104`);
`expectRefused` compares the log's length before and after
(`ssh_agent.go:114-123`). The workload's entrypoint signs through the same agent
(`workload.dockerfile:166`). agent-reachable, every-boot, logins-bounded,
binding-verified and destination-keys-outside-sandbox do not wait for it, so a
signature of a late workload between a probe and the read of the log fails a
conforming runtime. The checks that wait first (restricted,
signatures-bounded and the install checks) do not have this race. A shortest
counterexample of `suite_races` (`-workers 1`) fails all six checks.

Seen on the way, and kept in the models:

- `git-identity@1/pinned-selection` clears the workload's record before `stop`
  without having waited for the first boot's workload (`git_identity.go:252`). If
  that one writes late, the check takes its record for the restart's, and a
  runtime that seeds the identity too late on start alone can pass. `suite`
  leaves this one combination out of its late runtimes.
- A create killed by the deadline may leave a sandbox whose id was never printed
  (`KilledCreate`). Nobody can remove it; `RemovedOrReported` speaks of sandboxes
  with a known id.
- The collision check extracts each kit's layers by themselves. A symlink loop
  in an early layer of one kit, hidden by an opaque directory of a later one, can
  still stop the extraction of another kit's parents on a store that unpacks
  layer by layer; `CollisionsAreLosses` compares the stacked trees and does not
  speak of that.

## Proofs

| Theorem | States |
|---|---|
| `ResolverProofs!TypeCorrect`, `ProvidersComeFirst`, `CyclesAreReal`, `OrderIsDetermined` | `TypeOK`, `ProvidersFirst`, `CycleIsReal`, `SmallestReferenceFirst` for any finite set of units with distinct references |
| `ResolverProofs!ResolverImplementsContract` | `ImplementsContract`: the safety part of Composition, step by step |
| `ResolverProofs!ProblemsMeanRules`, `LayersAlwaysStack` | the invariant of the eight checks; `LayersStack` |
| `BackingAgentProofs!AgentTypes`, `WaitGroupCounts`, `MapHoldsTheServed`, `SweepMissesNone`, `CloseEndsEverything`, `WaitGroupIsUsedRight` | `ATypeOK`, `WgCountsGoroutines`, `RegisteredWhileServed`, `NoneMissed`, `NothingOutlivesClose`, `AddsBeforeWait` for any finite set of connections |
| `SshRelayProofs!RelayBoundsSignatures`, `OnlyAskedReachTheAgent`, `RelayedCloseEndsEverything` | `SignaturesAreBounded`, `OnlyListAndSignReach`, and the agent's guarantee inside the composition |
| `LockGateProofs!LoopTypes`, `WhatRunsIsLocked` | `LTypeOK`, `RunsWhatIsLocked` |
| `LockGateProofs!EmptyGateIsSound`, `OnlyApprovalWidens` | `EmptyGateStaysWithin`, `NothingWidensSilently`, as long as no kit leaves the set |
| `SuiteProofs!RunnerInvariant`, `RunnerTypes`, `NothingLeaksSilently`, `RosterIsComplete` | `SuiteInv`, `SuiteTypeOK`, `RemovedOrReported`, `EveryCheckAccounted` for any selection of checks |
| `AssemblyProofs!AssemblyInvariant`, `OrderIsUnique` | `AInv`; a set of kits has one composition order at most |
| `AssemblyProofs!WhatIsPinnedIsAssembled`, `InventoryStaysInBudget`, `CancellationIsNoDecision`, `ProgressTellsTheStory`, `EnvironmentIsTheSnapshot` | `VerifiedAsListed`, `WorkBounded`, `CancellationDecidesNothing`, `ProgressBracketed`, `SnapshotIsTheEnvironment` for any calls, kits, layers and limits, and any loader and file check |
| `VersionsProofs!ReadingTypes` | `VTypeOK`, a part of `VInv` |
| `VersionsProofs!ScansKeepMeaning`, `RefusesOnlyTheUnsatisfiable`, `AcceptsOnlyTheSatisfiable`, `RenderingKeepsMeaning`, `OneFormPerMeaning` | `VInv`, `RefusedIsUnsatisfiable`, `AcceptedIsSatisfiable`, `CanonicalKeepsMeaning`, `CanonicalIsUniqueAboveAFloor` for entries of any length, where the two orders of segments have no cycle (`OrderIsTransitive`) |

Each inductive invariant named below is a definition of its component's module,
or of the proof module where it is long, and was checked with TLC before it was
proved.

*Resolver.* `ProvidersFirst` is not inductive: it says nothing of the counters.
`LoopInv` says what they mean (a unit's indegree is the number of its providers
not yet ordered, the ready list is exactly what could come next, each ordered
unit was the smallest that could); with `TypeOK` and `CycleIsReal` it is
inductive. For the refinement the code's problems have to mean the contract's
rules: `RulesInv` says that while the checks run `problems` is empty exactly when
the rules checked so far hold, so `Judge` goes on exactly with the sets that
Composition calls coherent; then a `Pop` is a placing, because the smallest ready
unit is the smallest whose providers are all placed, and `Finish` is the verdict,
because an empty ready list with units left is a set that no order exhausts.
`LayersStack` follows from both: the order is a list of the set without
repetition, and taking the workload out of it shifts the rest by one. Assumptions:
units are finite, references are distinct and ranked by naturals, catalogues hold
descriptors, no unit is the absent one.

*BackingAgent.* `AInv` adds to the properties where a connection is seen from
its socket and from its goroutine (`SocketsMatchWorkers`) and how far `Close` has
got (`CloseProgress`: after the sweep every registered connection is closed).
The count of goroutines is the cardinality of a finite set.

*SshRelay.* `RInv` follows a decision from the client's message to the agent's
log: the binding held was sent and is genuine, the message handled is the last
one asked, what travels to the agent is justified. `Justified` only grows with
the history, so it stays true. That the agent counts no request nobody made needs
another account: `CountInv` says that the requests counted, those on their way
from the relay and those at the agent together are at most the lists and
signatures asked, one per connection at a time.

*LockGate.* The gate compares grants, the property is about requests. The proof
goes from a request to the entry that matches it, to the atomic grant that entry
projects to (`EntryToSurface`), to a granted grant that covers it
(`HttpCoverMatches`), back to an entry of the locked kit (`SurfaceToEntry`);
with no widening no host is fresh, so nothing was suppressed. `NormalizeAdmits`
shows that normalisation changes no verdict, `MergedAdmits` reads a merged
policy kit by kit, and `GateIsSound` lifts the per-kit result to the set, which
needs that every locked kit is still there: the reason the theorems assume
`~MayRemove`. The invariant of the loop (`LInv`) is that the verdict is still
about the present lock and the gated resolution. Assumptions: the universal
pattern matches what any pattern matches, `NoPort` is no port, `ANY` is a
method, contents are kits. The runtime's matcher is otherwise arbitrary.

*Suite.* `RemovedOrReported` and `EveryCheckAccounted` speak of the end of a run;
`SuiteInv` says what is true on the way. A sandbox whose id is known and that
lives is either among those the running check still has to remove or was
recorded as leaked, and never both (`HeldOrLeaked`); between two checks nothing is
held; the roster is the part of the selection gone through so far
(`RosterSoFar`). Nothing in the proof looks into a script, and of the runtime it
uses only whether its `rm` fails. Assumption: the selection is a list.

*Assembly.* The properties speak of the end of a call; `AInv` says what each stage
has established on the way. The thread is the error in hand: `ErrorStays` shows
that an error is never taken back, so nearly all of `AInv` is about states
without one. There a kit is pinned to a root from `Fetch` on and complete from
`Load` on (`LoadInv`), after `Compose` the set is coherent and its images agree,
after `Expand` its exports do (`ComposeInv`, with `NoWayRound`: a stage is entered
only through the one before), and what is loaded no longer changes
(`LoadedForGood`), so all that is derived from it stays (`Stable`).

- `ChosenInv` and `AnswersInv` follow the selector. An answer given under a live
  context is the selector's; one given under a cancelled context may be wrong,
  but only while the resolve step is asking, and `Settle` puts the cancellation
  in the place of whatever came of it.
- `CacheInv` says that a cached inventory was verified against its key, so a hit
  verifies the layer at hand too (`TakenIn`); `InventoryInv` counts kits and
  layers through the two loops, so at the end there is none that was not taken
  in.
- `BudgetInv` says that what is left and the cardinality of what was applied add
  up to the limits: one more layer adds as many entries and components to disjoint
  unions as it is charged for (`TaggedGrows`).
- `EventsInv` keeps the brackets: whether the last event opens or closes depends
  on the phase alone, and what was reported precedes the step at hand. `StoryInv`
  says that without an error the events are the steps of the story up to here,
  which needs that no step lies between one and the next (`NothingBetween`).

From there the theorems are what `AInv` says at the end; the environment needs in
addition that functions that agree are all found in their union (`UnionFacts`).
`OrderIsUnique` looks at the first position where two orders differ. Assumptions:
calls and blobs are lists, references are numbered, limits are naturals, and the
loader's contract above.

*Versions.* Numbers compare by value and other segments by bytes. Where these
orders disagree among the segments in use the comparison has cycles and the
verdict is wrong (`versions_mixed`), so the theorems assume that they do not:
`OrderIsTransitive` says it of three segments, which can be looked up for any
given alphabet, and it holds in `versions_rules`. From it `CompareTransitive`
shows that whole versions, of whatever lengths, are a total preorder (by the
first position at which two of them differ), `ZeroIsLeast` that `0` is the floor,
and `AboveIsFromNext` that appending `-` gives the next version: being above v is
being at least `v.-`. `TighterLo`, `TighterHi`, `NormalizeMeans` and
`RenderedMeans` say what the code's helpers do to meanings, and `VInv` says that
the pin or the bounds in hand admit what the constraints read so far admit. When
a list is accepted the lower end of its range is a version that meets it.

That one meaning has one form needs what the forms are (`FormInv`): each renders a
range whose lower end is a probe and whose upper end is just below one, a pin
being the range from v up to v, which is below `v.-` (`UpToIsBelowNext`). The
lower end of a range that admits something is admitted, and the probe above its
upper end is not; so ranges that admit the same probes start and end at versions
that compare equal (`SameRangeOneWay`, used both ways), these are spelt alike
(`EqualSpellAlike`), end in `-` together and so are both cut or both kept
(`EqualEndsNormalizeAlike`). Without a lower end on either side the argument is the
same; with one on one side only it fails, which is what `versions_floor` shows.

Other assumptions: what the three functions on segments are (byte order is strict and
`-` is its least segment), and that the ends of written ranges are among the
probes; any larger set of probes may be taken, so the theorems hold of every
version.

Only model-checked:

- every liveness property (`Resolves`, `CloseReturns`, `EveryMessageAnswered`,
  `RunReturns`, `AssembleReturns`), which the prover cannot treat;
- `FaithfulPasses` and `BreakageIsNoticed`: they are about what each of the 72
  scripts does to each runtime, a case analysis that TLC does outright;
- `ClosestPlatform`, `ReadsBounded` and `CollisionsAreLosses`: they are about what
  the recursive walks of Registry and the folds of Overlay compute, which needs
  induction over data; `PathsAreSearched` likewise, about the fold of `mergePath`.
  That Registry's walks keep the loader's contract is checked in the run.

## Not modelled, and the plan

- *BuildKit frontend* (`cmd/frontend`): one pass over a recipe that builds LLB
  through BuildKit's client; what happens then is the solver's. The rules it
  applies to a set are Resolver's.
- *sbx adapter*: a shell translation of adapter verbs to a product whose
  behaviour nothing in the repository defines.
- *Kit checks and CLI* (`tck/kit`, `cmd/kit-tck`): stateless checks of one artifact
  over tar and registry readers, and their presentation.
- *Descriptor validation* (`spec/validate.go` and the per-capability files): pure
  functions of one document's strings. Assembly has valid and invalid
  descriptors, and arguments that resolve or do not.
- *Parts of modelled components*: merging of relations, contexts and group
  declarations (one document folded into another); frames split over reads in the
  agent's request counter; ports, volumes, labels and history of a merged image;
  the path-byte budget of the inventory, charged where components are charged;
  the SSH server's and the relay's wire formats; reference parsing and
  credentials.
- *For good*: YAML and JSON decoding, report rendering, diagnostics' positions and
  wording, registry transport.

# Verification of Paralegal

Paralegal checks privacy policies on Rust programs. A compiler plugin
(`paralegal-flow`, on top of `flowistry_pdg_construction`) turns each entry
point of a program, a *controller*, into a semantic program dependence graph
(SPDG, `paralegal-spdg`) whose nodes carry the markers developers put on
functions, arguments and types. A policy is a Rust program that queries these
graphs through `paralegal-policy` and reports what it finds as diagnostics. A
policy that passes is a claim about the program, so what matters most is that
no flow, no marker and no error is lost on the way from the source to the exit
code of the policy.

This directory holds TLA+ models of the parts where that can go wrong,
configurations that model-check them with TLC, and proofs checked by TLAPS.
All paths below are relative to `src/crates/`.

## The system

| component | code | state | operations |
|---|---|---|---|
| Forward-flow index | `paralegal-policy/src/algo/flows_to.rs` | a bit matrix per controller | `CtrlFlowsTo::build` |
| always_happens_before | `paralegal-policy/src/algo/ahb.rs` | per search: discovered nodes, predecessor tree, traces | `always_happens_before`, `holds`, `is_vacuous`, `report` |
| Marker database | `paralegal-flow/src/ann/db.rs` | local and external annotations, two memo caches | `get_reachable_markers`, `deep_type_markers`, stubs, loading |
| Inlining judge | `paralegal-flow/src/ana/inline_judge.rs` | included crates, options | `should_inline`, `SafetyChecker` |
| Graph converter | `paralegal-flow/src/ana/graph_converter.rs` | the SPDG being built, marker and type assignments | `make_spdg`, registration of markers and types |
| SPDG data model and traversals | `paralegal-spdg/src` | the graph, read-only once built | `EdgeSelection`, `generic_flows_to`, `always_depends` |
| Policy context and queries | `paralegal-policy/src/context.rs` | the program description, marker index, flow index | `flows_to`, `influencers`, `roots`, `shortest_path`, ... |
| Diagnostics and runner | `paralegal-policy/src/diagnostics.rs`, `lib.rs` | recorded diagnostics, stack of contexts | record, emit, abort |
| PDG construction | `flowistry_pdg_construction/src` | per-body dataflow state, memo table of partial graphs | transfer function, call handling, inlining |
| Calling conventions, async support | same | - | translation of places between caller and callee, recognition of generators and of the futures polled |
| Call strings, nodes of graphs | `flowistry_pdg/src/pdg.rs`, `flowistry_pdg_construction/src/graph.rs` | - | `push_front`, `caller`, `resolve` |
| Body cache and encoder | `flowistry_pdg_construction/src/{body_cache,encoder}.rs` | MIR bodies on disk and in memory | store, load |
| Annotations | `paralegal-flow/src/ann/{mod,parse}.rs`, `paralegal/src` | - | parsing |
| Driver and discovery | `paralegal-flow/src/{lib,args,discover,stats}.rs`, `ana/mod.rs` | the command line, collected controllers, artifacts and result on disk | rustc callbacks, `hash_config` |
| Explore shell | `paralegal-explore/src` | the loaded graph, a selection of nodes | interactive commands |

Data moves one way. The driver finds the controllers and asks PDG construction
for the graph of each. Construction runs a dataflow analysis over a body and,
at every call, asks the inlining judge (through a callback) whether to go into
the callee; the judge asks the marker database, whose caches all calls share.
Graphs of callees come from a memo table and are spliced in. The graph
converter turns the result into an SPDG, asking the database for the markers of
each node and of its type. The SPDG is serialized; a policy loads it into a
Context, which builds its marker index and, if configured, the flow index.
Queries read the graph and the indices; always_happens_before runs a search of
its own and reports through the diagnostics, which the runner emits when the
policy's closure returns.

One analysis is single-threaded, but cargo runs the compilers of several crates
side by side, over and over as files change. What is hard is

* *re-entrance*: caches whose computations ask the same cache (markers, types,
  partial graphs), and what they answer while a computation is under way;
* *order*: hash maps, work queues, and graphs built in some order decide what a
  search sees first, and no test runs more than one order;
* *state shared by searches*: discovered sets and predecessor trees that several
  starting points or recursive calls use;
* *work done twice*: the dataflow pass and the graph pass both work out what an
  instruction mutates; a future is judged when it is created and when it is
  polled;
* *aliasing*: `flows_to.rs` reads a row of a bit matrix through a transmuted
  reference while it writes to it;
* *names that change on the way*: a place is called something else in a callee,
  a closure, a generator; a call string is resolved again after the graph is built;
* *failing in between*: a writer that fails on one message, a policy that
  returns an error after it has recorded diagnostics, a run that is killed while
  it fills the result file;
* *stale files*: what cargo skips is neither analysed nor dumped again.

### What makes each component correct

| component | has to hold | where |
|---|---|---|
| Forward-flow index | `build` ends, with exactly the transitive closure of the data edges | `FlowsToIndex` |
| always_happens_before | the answer is that of the quantification over paths; every stop is counted once; a trace shown is a violation | `HappensBefore`, `AlwaysHappensBefore` |
| Marker database | an answer is never too large; complete off recursion; final once given | `RecursiveCache`, `TypeMarkers` |
| Inlining judge | no call is approximated behind which a marker sits, or else it is reported; creator and poll of a future agree | `MarkerReachability` |
| Graph converter | a node has exactly the markers of what it is, of its function and of its types; call strings resolve; an error is never followed by a description | `SpdgGeneration`, `TypeMarkers` |
| Traversals, queries | the answer is that of the relation the documentation writes, for each order of traversal, index or not; it ends; combinators put every pair and pass over none they promise | `GraphQueries`, `AlwaysDepends`, `PolicyQueries`, `ContextQueries` |
| Policy context | a lookup by marker finds what is marked directly or by type | `PolicyContext` |
| Diagnostics, runner | each message is shown once with its scopes; the verdict counts each error | `PolicyVerdict`, `PolicyRun` |
| PDG construction | the dataflow state is the meet over all paths; no explicit or implicit flow is missing; no edge from an overwritten value; tentative where, and only where, inputs overlap | `LocalAnalysis`, `LocalFlows`, `PlacesDistinct` |
| Memo of partial graphs | the graph of a function is built once, with every call inlined but those on a recursion; the same call is handled the same way whenever it is asked about | `PdgConstruction` |
| Calling conventions, async support | what enters and leaves a callee is what its caller passes and gets, for functions, closures, shims, futures and stubs | `CallingConvention`, `AsyncSupport`, `PdgFlows` |
| Call strings | those of a graph are paths of calls from its root | `CallStrings`, `SpdgGeneration` |
| Driver, body cache, annotations on disk | a successful run leaves a current description; an analysis reads the artifacts of the build it is compiled against | `Builds` |
| Bit sets | pure; they agree with sets up to 16 | not modelled |

## Modules

Small modules hold what several components share: `Reachability` (paths of a
relation, defined as membership in every closed set so that it can be proved
about without recursion), `Spdg` (graphs by edge kind and `EdgeSelection`),
`PathQuery` (flow and blocked flow over several controllers). `MC*` modules
hold only families of inputs for TLC. In every module an input (a graph, a
program, a query, a body) is a variable that Init chooses and no step changes;
one run thus covers a whole family.

### FlowsToIndex (`algo/flows_to.rs`)

`seeded` is the matrix before `iterate`: data edges and the diagonal. A pass
goes over the rows (`NextRow`); `Visit(i)` is one turn of the loop over
`iter_ones`: row `i` is or-ed into the row under the iterator. The iterator
reads through a transmuted `&` while the row is written, which is undefined
behaviour: whether it sees bits set ahead of it is chosen freely (`seen`).
`EndPass` starts another pass or returns.

### HappensBefore, AlwaysHappensBefore (`algo/ahb.rs`)

`HappensBefore` says what a caller is promised: one answer, right as a
statement about paths, and a report that fails the policy exactly if it is
violated. `AlwaysHappensBefore` is the search: `NextController` (a new search,
a new `Tracer`), `NextStart`, `NextNeighbor` and the end of a node are the
events of petgraph's `depth_first_search`; `discover` is the visitor (a
checkpoint or terminal prunes), `edge` and `terminal` are the methods of the
tracer at its three levels. `Implements` is the refinement: the answer appears
in one step, when the loop over the controllers ends.

### RecursiveCache, MarkerReachability, TypeMarkers (`ann/db.rs`, `inline_judge.rs`, `graph_converter.rs`)

`RecursiveCache` is the pattern of `get_maybe_recursive`: `Query` and `Hit` are
requests from outside, `Ask` the request of a computation for a dependency,
`Return` its end. `None` in the map is a computation under way, which the
database reads as the empty set. `MarkerReachability` instantiates it with the
functions of a program and puts `should_inline` (`Judge`) and the safety
checker (`CheckMethod`, `EndCheck`) on top; the order in which the constructor
comes to calls, and so the order of requests, is free. `TypeMarkers`
instantiates it with types and puts the registration of node types on top.

### GraphQueries, AlwaysDepends, PolicyQueries, ContextQueries (`context.rs`, `traverse.rs`)

One query from its call to its answer. `Discover` is a step of a depth-first
search (any order), `Yield` one of petgraph's `Bfs` (a queue; the neighbours of
a node in any order), `Ordered` one of `Topo`. With `use_index` a data query
reads the relation that `FlowsToIndex` shows `build` to compute.
`AlwaysDepends` keeps the recursive calls of `dfs_helper` as a stack of frames
with their cloned discovered sets. `PolicyQueries` composes the two: a
question is one query, or `any_flows` and `any_dependence`, which `Pick` one
pair after the other, let the query of the pair run (`Search`) and stop at the
first that is answered with yes (`Answered`).

`ContextQueries` puts `FlowsToIndex` before it, as `Context::new` does: if the
configuration asks for the index, it is built first, of a graph the question is
about (`build_flows_to` builds one for each controller, independently).

Where code and documentation disagree about a query, the properties leave the
disputed answers open on purpose, and this file lists them:

* `FlowsRight` does not say what becomes of a node and itself: a node that is in
  both clusters of `flows_to`, the arguments among the results of `influencers`
  and `influencees`, a target of `has_ctrl_influence` that is its own influencer;
* `RootsRight` asks that every source that nothing flows to is yielded, and
  nothing that another source or a cycle flows to. It does not say what becomes
  of nodes that are no source, nor of sources that only other nodes flow to;
* `FirstExample` tells the pairs that are promised (`Promised`) from those that
  have a path (`Related`). A promised pair is not passed over and what is
  returned has a path; that what is returned was promised is not asked for. For
  `any_dependence` this is `AlwaysRight`, which the run `always_depends`
  shows to be violated.

### PolicyVerdict, PolicyRun (`diagnostics.rs`, `lib.rs`)

`PolicyVerdict` is the promise: an error fails the emission after it and no
other. `PolicyRun` has a closure that may make any calls (`Open` a scope, `Say`
by one of the shortcuts, `Struct`, `With`, `Emit` or `Forget` a builder, ask
for an emission, return `Ok` or `Err`), the queue that drops repetitions, and
the emission, message by message, with a writer that may fail.

### LocalAnalysis, PlacesDistinct, LocalFlows (`local_analysis.rs`, `construct.rs`)

`LocalAnalysis` is the construction of the graph of one body. In phase
`iterate` the engine takes blocks from its queue (`Begin`), applies their
instructions (`Apply`) and joins the result into the successors (`Propagate`);
in phase `visit` the `ResultsVisitor` registers the mutations of each
instruction (`Visit`); in phase `returns` what callers see is connected to the
end (`ConnectEnd`). `registered` has all kinds of instructions: statements,
branches, inlined calls (the callee's graph is the flows it stands for),
approximated and not inlined ones. `PlacesDistinct` is `places_distinct`.
`LocalFlows` says what the graph must mean, by following values along
executions without the analysis.

### CallStrings, Mutations, CallingConvention, AsyncSupport, PdgConstruction (`flowistry_pdg_construction`, `flowistry_pdg`)

The construction over the call graph. Four modules without state hold call
strings and nodes, what an instruction mutates, the translation of places
between caller and callee, and the recognition of generators. `PdgConstruction`
is the memo: `ConstructRoot` and `ConstructCallee` enter a function into
`pdg_cache` as `None` and push a `LocalAnalysis`; `Iterate` applies an
instruction to the dataflow state, `Fixpoint` turns to the second pass, `Visit`
adds the nodes and edges of an instruction, inlined graphs included, and
`Finish` connects the returns, checks the invariants and makes the entry
`Some`. A call that needs the graph of a function not yet in the map first
waits for it (`asks`); one whose graph is being built is a recursion and is
approximated. How a call is handled is asked in both passes, as in the code, so
that the answers could differ. Bodies have no branches here and one reference at
a time: branches, loops and aliases are `LocalAnalysis`.

### SpdgGeneration, TypeMarkers, PdgFlows (`discover.rs`, `ana/mod.rs`, `graph_converter.rs`)

`SpdgGeneration` composes `PdgConstruction` and `TypeMarkers` into a run of the
driver over a crate: `StartTarget` takes an entry point from the queue,
`ConstructStep` is a step of its construction, `Convert` makes the SPDG with
the markers of each node, `TypeStep` one of the requests for the types of
nodes, `FinishTarget` goes on to the next target and `Describe` assembles the
description or aborts. The partial graphs and the marker caches stay from one
target to the next. `PdgFlows` runs the same programs on values, without any
graph, and says what then must flow.

### PolicyContext (`context.rs`)

The marker index and the lookups of a policy over what `SpdgGeneration` has
written: a policy must find what is marked directly and what is of a marked type.

### Builds (`paralegal-flow/src/{lib,args}.rs`, `body_cache.rs`, `ann/mod.rs`, `ser.rs`, `paralegal-policy/src/lib.rs`)

What is on disk over several runs of the command. `Start` is
`SPDGGenCommand::run` up to cargo's decision what to compile, `RunCompiler`
the start of the driver on a crate (`handling` is `how_to_handle_this_crate`),
`DumpBodies`, `DumpMarkers`, `Analyze`, `canonical_write` and `EmitMetadata`
its steps in their order, each file emptied before it is filled; `Return` is
`ensure!(status.success())` and `build_context` what a policy then reads.
`Edit`, `Fail` and `Kill` happen at any time. Cargo is external: what it
recorded of a crate is dropped when the crate is to be compiled and made when
that succeeded, and a compiler starts when the metadata of the crates below is
there, which may be before their compilers have ended. A version number stands
for the contents of a file, which also stands for the time of its last change.

What rustc and Flowistry tell about places is a constant in `LocalAnalysis`. The values used for
it follow from how `src/` uses it: a dereference resolves "to the direct places
it could point to" (`local_analysis.rs`), so its aliases do not contain itself.

## Runs

Each run is a cfg of the same name in camel case. Deadlock is not
checked where the program ends. That it ends where it should is then a liveness
property of the run, except in `builds`, where the user need do nothing, and in
`recursive_cache`.

| run | shows | bounds |
|---|---|---|
| `context_queries` | `build` ends with exactly the reachability of the data graph, whatever the aliased iterators see; seven queries mean what they say, with the index and without; `any_flows` and `any_dependence` pass over no pair they promise; the recursion of `always_depends` enters no node twice; everything is answered | the index: all graphs of 4 nodes without self edges, the fewest with which one pass may leave a row incomplete; queries: graphs of 3 nodes, for paths and control 4 (two shortest paths and a longer one), empty clusters, two controllers, tentative, definite and control edges |
| `always_happens_before` | right and single answers, real traces, every stop met once; refines `HappensBefore` | all graphs of 3 nodes at every tracing level, and two controllers with 2; three nodes give two starting points that share a stop, two stops behind each other, and cycles |
| `recursive_cache` | sound always; exact off cycles and for the first request; final | all dependency graphs of 3 keys with self loops, every sequence of requests. Three keys are a cycle and a key before or behind it |
| `marker_reachability` | inlining goes towards markers and only there, off recursion; hidden markers are reported; creator and poll agree; each call is judged | programs of 3 functions in five families: every call graph; a function that is virtual, excluded or replaced; an async function, its generator marked like it or not, with and without a stub; types with two methods in every mode; methods that are definitions |
| `policy_run` | each message once with its scopes; refines `PolicyVerdict`; an emission ends | `MaxCalls`, `MaxDepth` in the cfg: enough for a scope, a message, its repetition and a second emission |
| `local_analysis` | the fixed point, explicit and implicit flows, no stale edges, tentativeness | bodies of 4 blocks: a diamond, a loop, an unwinding call, with aliases, fields, every kind of call |
| `spdg_generation` | from entry points to the description and the lookups in it: graphs are built once and inlined except on recursion, calls are handled the same in both passes, call strings resolve, values flow across every calling convention, markers and types of nodes are right, the description is complete, the analysis ends | three functions that call each other in every way, as targets in two orders; one program for each way of calling; three types that contain each other. Two calls in a body are the fewest with which a memoised graph is met both while it is being built and after |
| `builds` | a successful run leaves a readable, current description; analyses read matching artifacts | a dependency, a library and a binary, both of these analysed; three runs, two edits of any files. Three runs are one that dumps, one that does not or is cut short, and one that relies on what is there |
| `maybe_written` (violated) | a callee that writes on some paths only cuts off the value from before the call | one body |
| `fields_certain` (violated) | sibling fields are not told apart | one body |
| `entry_arguments` (violated) | arguments of an async entry point get the markers of its first | one program |
| `always_depends` (violated) | one of two tentative sources is enough for "always" | one graph |

The violations are the findings of `PROJECT.json`:

1. `local_analysis.rs:797`. `handle_call` applies a strong update for every place the
   callee connects to its end, also if only some paths write it.
2. `construct.rs:841`. The loop of `places_distinct` compares the projections of
   `p1` with themselves, so it never finds a difference between fields.
3. `graph_converter.rs:165`. The arguments of an async entry point are fields of
   local 1 of its generator, so each is taken for argument 0.
4. `traverse.rs:199`. With tentative edges, `dfs_helper` answers yes if any source
   is connected to the target, where its comment (`:186`) wants both of two.
   `AlwaysRight` reads the comment and "always depends" (`context.rs:527-530`) as:
   a node depends on what a definite edge comes from, or on what all its
   tentative edges come from (`Leads`), and so on.

Every property of a passing run has a mutant: a plausible bug in a mapped
definition with which TLC finds the property violated.

### Fairness

Liveness is asked only of code that runs by itself once called: `build`, the
queries, the analysis of a body (weak fairness of `Next`), the search of
always_happens_before (of `Search`, which is all but the report a policy may
or may not ask for), a judgement with its cache requests (of `Step`, not of
the next call), an emission (of `Emission`, not of the policy's closure), and the
driver (weak fairness of `Next` of `SpdgGeneration`, written out as: the process
has ended, or steps go on). A sequential program that is not preempted forever
takes its next step; nothing more is assumed, and no order among steps. Modules
with safety properties only state none.

## Proofs

TLAPS checks these for every value of the constants; the assumptions are the
`ASSUME`s of the modules, which say what the constants are and no more, and the
premises that are named below.

Paths are defined without recursion, as membership in every closed set. That
`Reaches` is reflexive and transitive, holds along an edge, and that a closed
set which holds the start holds what is reached, are lemmas of their own
wherever they are needed, and the proofs argue from these.

**`PolicyQueriesProofs`**, the index and the queries of a policy, for every
finite graph.

* `BuildTyping`, `Soundness` (`IndexSound`) and `Completeness`
  (`IndexComplete`). `IndexSound` is inductive with the fact that the iterator
  yields bits of its row (`BitsInRow`). Completeness is not visible in the
  matrix before the end; the invariant needs `QuietPass`: as long as the pass
  has set no bit, the rows it has passed are closed under the bits it visited. A
  bit the iterator missed was set in this pass, so then `changed` holds and
  another pass follows; that is why the aliased reads do no harm. At the end
  every row is closed (`DoneClosed`) and holds its seed (`SeedKept`), hence
  holds what is reachable.
* `PolicyInvariance`: `PolicyInv` holds however many questions are asked. From
  it follow
  * `FlowsFollowed` (`FlowsRight`): all that a search knows is reached, and the
    neighbours of what it visited are known (`SearchInv`), so that one which runs
    out has a closed set without the target. A collection has each node once, in
    its output or its queue (`CollectInv`). The invariant has what the code
    answers exactly (`FlowsExact`, `RootsExact`), from which the properties follow;
  * `RootsFound` (`RootsRight`): what flows to a node that was ordered was
    ordered before it, on no cycle, and the node was classified by the sources
    among these (`TopoInv`). What a `Topo` never gets to has a cycle before it,
    because a finite graph in which every node has a predecessor has one
    (`CycleExists`);
  * `PathsShortest` (`ShortestPathRight`): the queue holds two depths at most, in
    order, and all that is less deep was discovered; an ancestor is one less
    deep (`PathInv`). The depth of a node is the least length of a path to
    it. `up` then climbs a shortest path (`WayUp`);
  * `RecursionBounded` (`NoNodeTwice`): a call has discovered the nodes of its
    callers (`Frames`). What `always_depends` answers is proved as well
    (`DependsInv`), since `any_dependence` needs it: while the target can be
    reached, some call under way has an edge left from which a path leads on
    outside what this call has discovered (`SomeGood`);
  * `FirstExampleFound` (`FirstExample`): no pair before was related, and the query
    under way is that of the pair (`AskedInv`). The pairs are numbered by
    division, and their numbers are in the order of the arguments (`PairsFacts`).
    A promised pair is related: the nodes that are reached are one of the sets in
    the definition of `Always` (`AlwaysReaches`).
* `ContextInvariance`: both invariants in a Context, and nothing is asked before
  the index is there (`BuiltFirst`). `IndexAnswers`: its rows are what the queries
  read. `ContextRight`: all these properties at once.

**`RecursiveCacheProofs`**: typing, `Soundness`, `Completeness`, `FirstRequest`,
`NoKeyTwice`, `Exactness` (`AnswersExact`), `Finality`. The invariant says that the keys under way are those
on the stack, each once (`NoneOnStack`, `NoReentry`), that each was asked for by
the one below (`Chain`), what is still to be asked (`TodoRight`), and that a
key holds its own elements and those of all dependencies it is through with
(`OwnHeld`, `Collected`). A dependency read while it is under way is below on
the stack, so the reader depends on a cycle: off cycles nothing is missed.
For the first request `FirstInv` adds that whatever any opened key contributes
is held somewhere on the stack (`Gathered`); when the stack is empty, that is
by the first key itself.

**`LocalAnalysisProofs`**, for every body and all aliases:

* `MeetOverAllPaths` (`FixpointRight`). `FlowInv` says that a block in no queue
  has passed on all that leaves it (`PassedOn`), that nothing is in a state
  which no execution takes there (`EntrySound`), and that the state within a
  block is what its instructions make of its entry (`StateRight`). With the
  queue empty the blocks at which a mutation has arrived are closed under the
  edges it survives, so they hold all it reaches.
* `Registration` (`MutationsRegistered`). `NodeInv` adds that each location the
  second pass is through with has its nodes (`AllShown`) and that edges leave
  from what the instruction at their source registers (`EdgesRegistered`). The
  premise is `DirectBranches`: each branch is on a place that is among its
  aliases. The node of a branch is made from the place itself where it controls
  (`find_control_inputs_with_tentativeness`), but from its aliases where it is
  registered.
* What the graph means (`LocalFlows`) rests on `LinkInv`. `Links` is what a
  location registers, a function of the fixed point alone. Each edge is of
  such a link, of a callee, or to the end (`EdgesExplained`); each link of a
  location that was visited has all its edges (`AllLinked`), and what leaves a
  returning block has an edge to the end (`AllConnected`).
  * `RecentMutations` (`LastMutations`) and `TentativenessFound`
    (`TentativeRight`) follow from the links an edge is of. A mutation in the
    state at a point is kept on the path by which it came (`MutationKept`).
  * `DecisionsFound` (`ControlFound`): the blocks that decide over a node and from
    whose branches it is downstream are closed under the control dependences.
    The premise `ReachableControl` says that no unreachable block decides over a
    reachable one, since the passes give it no node.
  * `FlowsComplete` (`FlowsFound`): at each point to which an execution takes a
    value, the state has a mutation of its place that is downstream of the
    value's source, or it is what an argument came with (`Known`). The premise
    `StrongUpdates` says that what is mutated has one name and that an inlined
    callee makes its writes on all its paths: without it the finding
    of `maybe_written` is a counterexample.

The runs' bodies satisfy all premises. `PlaceInfoAssumption` is what Flowistry
promises of places, `FiniteAssumption` that a body is finite: what is downstream
is computed by adding nodes until there are no more, which a finite set bounds
(`ReachedIs`).

**`AlwaysHappensBeforeProofs`**: typing, `Traces` (`TracesReal`), `StopsMet`
(`MeetsEveryStop`) and `Refinement`, which is the safety of `HappensBefore`
under the mapping of `Implements`. `NeighborsLeft` says that an edge from a
discovered node that is no stop leads to a discovered node, or is one the loop
of a node on the stack has yet to yield. With the stack empty and no starting
point left, the discovered nodes of the controller are closed, hence just what
is reached. A node is discovered once, so the counters are the numbers of
checkpoints and terminals met. An entry in the predecessor tree is written when
its node is discovered or never, and leads to an earlier one (`Rooted`), so that
climbing ends at a start of this search although the tree is shared by all.
`path_up` climbs by iteration; that its result is a path is shown by induction on
its length. Finitely many nodes (`FiniteAssumption`) make the counters numbers.

**`BuildsProofs`**: typing, `Artifacts` (`ArtifactsMatch`) and `Fresh`
(`ContextCurrent`), for any crates, any runs, edits, failures and kills.
`Recorded` says that what cargo has a record of was compiled to its end: its
metadata are of that build, and its artifacts too if the record's Paralegal.toml
included the crate. `Linked` says that a compiler at work was started on settled
crates, and that what is settled stays so until the run ends. `RecordCurrent`
relates the records to the files a run found. What a killed run leaves
behind is emptied before it is filled (`GraphUnreadable`), and its crate has no
record by then, so no run succeeds before it is written again. Of crates it is
assumed that one is not below itself and that being below is transitive
(`BelowAssumption`), and that some crate is asked for (`PrimaryAssumption`).

**`PolicyRunProofs`**: typing, `ShownOnce` (`EachShownOnce`) and `Refinement`,
which is `PolicyVerdict`, for any scopes, any nesting and any number of calls.
`PendingRight` says that what was written, followed by the queue as it would be
written, is what was asked for since the last emission, each message once and
in order. A message is queued with its scopes innermost first and written with
them reversed, so two messages look the same just if they are. `Emitting`
relates the answer so far to what was written, for the refinement.

**`MarkerReachabilityProofs`**: typing, `UsesCache` (every step is one of
`RecursiveCache`), `Inlining` (`InlineTowardsMarkers`), `Reporting`
(`HiddenMarkersReported`) and `AsyncViews` (`UnstubbedAsyncViewsAgree`). The
theorems of `RecursiveCacheProofs` are used through an instance. `Standing` says
that a judgement is at all times the one the judge would give now, since the
answer it rests on is cached and a cached answer is final; `Checked` says the
same of the safety checker. `BodyAssumption` is needed for the two views of a
future: what has no body makes no calls and is no async function, and a
generator has the markers of its async function, because `defid_rewrite` looks
them up there (`ann/db.rs:114`), or, under `#[async_trait]`, none.

**`SpdgGenerationProofs`**, for every program and every order of targets:

* `Handling` (`HandlingStable`), `Inlining` (`InlinedUnlessRecursive`) and
  `Once` (`ConstructedOnce`). The functions under construction are those on
  the stack, each once (`OnceOnStack`), and each leads to the ones above it
  (`Chain`). What was determined of a call rests on a graph in the cache,
  which stays, or on a function below on the stack, which stays as long as the
  frame (`Handled`). In the second case the call is recursive; in the first the
  graph is inlined (`CallsInlined`).
* `Strings` (`CallStringsReal`) and `Resolving` (`CallStringsResolve`): each
  location of a graph is of a call string from the root of the graph along
  inlined calls (`Graphs`), which splicing into a caller preserves; SPDGs
  have those of their target (`Spdgs`). `Resolving` has the premise
  `NamesCallee`: the resolver looks a stub up under the function that the call
  names (`graph_converter.rs:698`), the judge under the one it resolves to.
  With a stub on just one of a trait's method and its implementation the two differ.
* `NodeTypes` (`NodeTypesRight`): the cache of types is a `RecursiveCache`, over
  all targets. The premise `PlacesDeclared` says that a body mentions declared
  places, and that a call passes as much as the callee takes; without it a
  node may have no type to ask for.
* `Describing` (`DescriptionComplete`): what cannot be analyzed is reported by
  the pass that gets to it, before its graph is in the cache (`Reports`); a
  marker is on a node because it was looked up for a function that is recorded
  (`Looked`); the targets are those converted and those queued (`Targets`). The
  premise `Discovered` says that the queue holds what is to be analyzed:
  that `SelectSeq` selects is a fact about a library operator that takes an
  operator, for which the provers have no rule.
* `Markers` (`MarkersRight`): the converter reads a node's markers off the edges
  at it, so the edges have to say of a node what the program does. That is
  `NodeTold`, for every graph under construction, in the cache and in an SPDG
  (`MInv`): a node at a call counts as a return value just if its local is the
  destination, and it has an argument edge with number i just if it is the i-th
  argument. Visiting the next instruction adds edges to nodes of its own only
  (`NewGraph`, `OldTold`, `AddedTold`), splicing a graph into a caller moves a
  node without changing what is told of it (`PushedTold`), and what the node of
  an inlined call is told by comes out of the callee: that an edge arrives there
  is the only sign that it is a return value, so a callee has to return something
  (`returning`). Two premises are about the calls of a program, and each stands
  for a place where the converter's reading is only an approximation.
  `CallsApart`: arguments are plain places that were written before,
  overlapping places are not arguments of different calls, and the destination is
  not borrowed: a node without edges into it counts as a return value
  (`graph_converter.rs:218`), and overlapping places get each other's edges.
  `CallsMarked`: what an inlined call may write is not passed to a later call if
  the callee has markers on arguments: `node_annotations` (`:232`) takes all
  argument edges that leave a node for those of the call at its own location; and
  the calls that async functions are desugared to have no markers.
* `Lookups` (`LookupsRight`), under the premises of `Markers`: the types of all
  nodes of a finished target have been asked for (`TypesHandled`), what they are
  is exact (`TypesOfNode`, from `NodeTypes`), and a call string starts in the
  target whose SPDG it is in (`RootOfString`), so what the policy side finds by
  node, by marker and by call site is what the program says.

The premises are predicates of the program, which no step changes. They hold
of every program of the run, and so do all conjuncts of the inductive
invariants in every state of the runs.

Only model-checked: all liveness (and so that the loops end); that values flow
across calls (`PdgFlows`), whose reference semantics is recursive; the findings.
Type invariants are theorems only.

## Where the code and its documents differ

Seen while modelling. The models follow the code. The findings above are
shown by a run; these are not:

Markers and inlining

* `ann/db.rs:201`: while a function is being computed it reads as having no
  markers, and the function that asked caches its answer for good. Whether a
  later call into the recursion is inlined depends on what was asked for first;
  `args.rs:531` says "Inline so long as markers are reachable".
  `InlineTowardsMarkers` leaves out what gets to a recursion.
* `inline_judge.rs:280`: the safety checker is silent on a method that is marked
  itself (it asks for markers reachable from it), `:152-154` speak of hidden markers.
* `inline_judge.rs:86` and `local_analysis.rs:649-651`: the creator of a stubbed
  async function is replaced by its stub while the poll is skipped; the comment wants one view.
* `ann/db.rs:378`, `graph_converter.rs:451`: markers in types that contain each
  other are missed, as for recursive functions.
* `graph_converter.rs:268`: `determine_place_type` splits the local of a
  generator off and then wants one more element to be left. What an async entry
  captured gets the type of the generator, and local 1 of the functions it calls none.
  `LookupsRight` leaves these out (`marked_amiss`).
* Entry points in an `#[async_trait]` are not rewritten to their function
  (`ann/db.rs:114`), so markers on them are never looked up.
* `graph_converter.rs:218`: a value written into a future at its creation also gets
  the markers of that argument as if it were passed to the call (`into_future_of`).
* `graph_converter.rs:637`: "return.def_id() == cs.leaf().function" does not hold
  through the shim of a closure, nor for a method that is replaced by a stub.
* `graph_converter.rs:169`, `:237` unwrap the test of an argument's number: a
  function of more than 16 arguments panics. A marker on such an argument is
  dropped (`tiny_bitset.rs`).
* A stub on a virtual method is ignored; a stub on `Future::poll` never applies.
* A call of a function pointer is reported, and the unwrap behind it then panics.

Queries

* `context.rs:227`: `find_by_path` finds no named item.
* `context.rs:573`, `:560`, `controller_argument`: nodes that return a mutated argument
  count as return values, and the index of an argument is that of its node.
* `context.rs:756`: `always_depends` of a cluster looks at its first node only.

Builds

* `args.rs:378`: `hash_config` leaves out what the command line includes,
  which functions it selects (`--analyze`) and the depth of inlining. A second
  run with others is skipped and its result is that of the first. A
  crate that was compiled before it was included has no markers on disk, so that
  the analysis panics (`ann/db.rs:637`), or those of an earlier build. In
  `Builds` crates included by Paralegal.toml are exempt from this, and `Promised`
  leaves out the others: without it TLC finds `ContextCurrent` violated.
* Two crates asked for that do not depend on each other write the same file, at
  the same time or one after the other; so do two targets, one after the other,
  the first of which is then skipped when it is asked for again. `Builds` has
  crates that depend on each other.
* `paralegal-policy/src/lib.rs:199`: the file is looked for in the directory of
  the command whatever `--result-path` says. If it was deleted, a run that
  has nothing to compile does not write it again.
* `paralegal-policy/src/lib.rs:162-163`: `abort_after_analysis` does not set "the expectation
  for the compilation to succeed to `false`"; `run` still ensures success.
* `paralegal-flow/src/lib.rs:280`: names with a dash in `include` never match a crate, those of `target` do.

Diagnostics, queries, construction

* `diagnostics.rs:1030`, `context.rs:261`: if the writer fails, the messages
  still queued are dropped.
* `paralegal-policy/src/lib.rs:246` and `:38-40`: if the closure returns `Err`,
  the diagnostics it recorded are not emitted.
* `lib.rs:248` and `:232-233`: `with_context` returns the verdict; it does not abort.
* `diagnostics.rs:682`: `node_help` emits a note.
* `context.rs:792`: `has_ctrl_influence` of an empty cluster panics when its
  data influencees are asked for.
* `context.rs:728`: a node flows to itself without an edge, `:705` and `:331` say
  "Nodes do not flow to themselves"; `context.rs:810`: `influencers` and
  `influencees` contain their argument, `:388`, `:399`, `:798` and `:823` say they do
  not. So `has_ctrl_influence` (`:788`) answers yes for a node that is its own only
  influencer, and for a target with just a data flow to it. `FlowsRight` leaves
  these answers open.
* `context.rs:475`, `:454`: the documentation of `roots` has it yield "all nodes
  that do not have any influencers of the given edge_type". The code omits such
  nodes when they are neither calls nor starts, and yields a call or start that
  has influencers, if none of them is a call, a start or on a cycle. `RootsRight`
  leaves both open.
* `context.rs:283`, `:276`: `roots_where` looks at direct predecessors only.
* `local_analysis.rs:506`: a strong update is made on all of several aliases,
  of which only one is written. `LastMutations` and `FlowsFound` treat such a
  write as one that may leave the value.
* `local_analysis.rs:445`: an argument keeps its edge from the start after it
  was mutated (`:443`).
* `local_analysis.rs:192` and `construct.rs:226-241`: a branch on a dereference
  controls from a node for which nothing is registered.
* `construct.rs:582`: which pair of inputs is compared for overlap depends on
  the order of a hash map; `construct.rs:816`: the order of its arms hides
  a reference to a reference.
* `construct.rs:432`, `approximation.rs:21`: an approximated call is also
  registered as one that is not inlined.
* `construct.rs:779`: a body without any mutation has an empty graph, whose
  first node is unwrapped.

## Not modelled

* Parsing of attributes and of the command line, path resolution in rustc's crate
  graph (`utils/resolve.rs`), the encoding of bodies and descriptions, output
  formats: no state of their own, or only rustc's.
* Spans, generics and trait predicates that the safety checker rejects by form. Of
  the generic arguments of a call that cannot be resolved `PdgConstruction` knows
  whether some are dynamic (`local_analysis.rs:560`): then there is only a warning
  (`:582`), and a description is written all the same.
* `PdgConstruction` has no branches: with them a call would be asked about
  in an order that is the queue's, which `LocalAnalysis` has.
* `paralegal-explore`: excluded from the workspace; it imports modules of
  `paralegal-flow` that are gone (`ir`, `ana::inline`, `serializers`).
* `TinyBitSet`: its 16 bits are sets in `SpdgGeneration`, whose functions have
  fewer arguments; what happens beyond is listed above.
* `abort_after_analysis`, which ends a compiler without metadata, and build scripts.

## Plan

Done: the policy side, the markers, one body, the memo over the call graph with
its calling conventions, the graph converter with discovery, and the builds.

What is left is to prove what `PdgFlows` says of values across calls, and to
prove `Markers` under weaker premises.

Runs are shared where a new module asks a question of the same kind, so that
the whole is still checked in minutes.

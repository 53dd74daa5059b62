# StateLab: specifications, model checks and proofs

StateLab runs *deterministic systems* (the Collatz map, its 5n+1 variant) from
an initial state to a stopping condition, serves the trajectories to a research
page, streams datasets of them, and studies pseudo-random generators. This
directory holds TLA+ specifications of the parts that keep state, TLC
configurations that check them on small instances, and theorems that TLAPS
checks for every value of the constants.

Run the tools here: `tlc -config MCLruHistory.cfg MCLruHistory` checks a model,
`tlapm LruHistoryProofs.tla` checks the proofs of a module. `PROJECT.json` lists
the runs, the code lines behind every definition, the hazards and the theorems.

## 1. The system

| Part | State it keeps | Operations | Talks to |
|---|---|---|---|
| State Evolution Engine (`statelab-engine`: `engine.rs`, `cycle_detection.rs`, `system.rs`, `trajectory.rs`) | during one run: the history, the buckets of the cycle tracker | `run`: validate, then next state / convergence / cycle / limit in a frozen order | a `DeterministicSystem` |
| Memoization cache (`cache.rs`) | a map, a recency list, a capacity | `get`, `put`, `contains`; `get_or_compute` over them | engine |
| Systems registry (`systems.rs`) | none | `run_by_id`, `run_by_id_cached` | engine, cache |
| Hosts (`statelab-app/src/main.rs`, `src-tauri/src/commands/mod.rs`) | one cache in one Mutex, possibly poisoned | a thread per HTTP connection, a command per Tauri call | registry; the page |
| Dataset streaming (`statelab-dataset`, `statelab-app/src/dataset.rs`) | none across streams | generate, run, summarize, send one row per item up to a cap | engine; the page through a socket or a channel |
| Stream client and Dataset Explorer (`invoke.ts`, `DatasetExplorer.tsx`, `aggregate.ts`) | line buffer, abort flag, refs, rendered copies, CSV lines | start, export, stop, a callback per row | both hosts |
| Research session (`App.tsx`, `ResearchController.ts`, `CoralPanel.tsx`) | picker, controller, trajectory on display, overlay, busy and error flags | run, bulk range, reset | both hosts |
| Comparison Lab (`ComparisonLab.tsx`, `features.ts`, `OverlayChart.tsx`) | a list of trajectories de-duplicated by initial state, busy and error flags | add, remove; feature vectors, similarity, overlay | hosts |
| Export Center, Feature Analysis, visualizations | none of their own | format or draw one immutable trajectory; stamp metadata into PNG files | the page |
| Schema migration (`migration.rs`) | a registry of version edges | register, migrate a document to the current version | the page's files |
| Collatz and 5n+1 (`systems/`, `bigint_metrics.rs`) | none | transition, validation, metrics | engine |
| Generators and lifecycle (`statelab-crypto`: `generator.rs`, `lifecycle.rs`) | key, buffer, position, wipe marker, handed entropy | fill, snapshot, fork, on_fork | the kernel's entropy |
| Designs (`quarter_round.rs`, `topology.rs`, `arx_structure.rs`, `arx64.rs`, `systems.rs`, `counter_based.rs`) | none | permutations, wirings, counter-based generators | batteries |
| Streams (`stream.rs`, `correlation.rs`, `seeding.rs`, `bin/statelab_stream.rs`) | a block counter | set up, weave, write up to a limit, screen, audit seeds | designs, standard output |
| Statistical batteries (`avalanche.rs` … `bench.rs`, `render.rs`) | none between calls | measure a design | designs |
| Search and report programs (`examples/`) | the state of a climb | gate, screen, confirm, conclude | batteries |

What is hard in them, and the property that each part owes:

- **Engine.** Three stopping conditions can meet on one step; which one wins is
  in the order of the code only. The cycle tracker keeps, in hash buckets, a
  second copy of the history, and nothing compares the two. The trajectory must
  be the orbit cut at the *first* stopping condition, and the verdict must name it.
- **Cache.** A map and a list that agree only because three functions keep them
  so; eviction at a capacity that may be zero. A hit must be invisible.
- **Hosts.** Handlers run concurrently around one Mutex, and a panic poisons it.
  Replies must be those of a fresh run of *that* request, whoever computed them.
- **Dataset.** A response without a length, cut anywhere; a stop, a refusal or
  the end of the server at any point; two transports that cancel differently;
  a flush every so many rows. Rows must arrive once, in order, and a stream
  that ended must be a whole one.
- **Session.** Single runs, a bulk range and Reset overlap while each awaits the
  host. Nothing that completed may be lost or doubled; controls must come back.
- **Generators.** Forks, snapshots, deliveries of entropy and draws in any order.
  What was drawn must not follow from what is kept, and two instances may only
  collide where the code says they may.
- **Comparison Lab.** The check that a trajectory is not listed yet and the run
  it guards are an await apart, with removals in between.
- **Pure functions.** Two programs write the same specification, the same
  ciphers and the same PNG chunks in two places; metrics, batteries and verdicts
  are named for what they are said to measure. Each must agree with its twin or
  with a definition of that meaning.

## 2. Modules

```
state machines
  TrajectoryContract  <-- implemented by -- StateEvolutionEngine  <-- StateEvolutionEngineProofs
  LruCache (operators) <-- LruHistory       <-- LruHistoryProofs
  TrajectoryService   <-- implemented by -- TrajectoryHost (over LruCache)
                                              <-- TrajectoryHostProofs
  DatasetStream                             <-- DatasetStreamProofs
  ResearchSession                           <-- ResearchSessionProofs
  RngLifecycle                              <-- CryptoProofs
  SchemaMigration                           <-- SchemaMigrationProofs
  ComparisonLab                             <-- PresentationProofs

pure functions
  DatasetRequests                                          <-- DatasetStreamProofs
  NumberSystems <-- Presentation                           <-- PresentationProofs
  DatasetRequests, Words, NumberSystems <-- DatasetSpecs   <-- PresentationProofs
  Words <-- PngFiles                                       <-- PresentationProofs
  DatasetSpecs ; Presentation ; PngFiles                   <-- Formats
  Words <-- ArxDesigns <-- Batteries <-- Streams                   <-- Instruments
                           Batteries <-- SearchDesigns <-- SearchPrograms   <-- Searches
                                              SearchPrograms <-- DesignCalls <-- CryptoProofs
                           Streams   <-- ReportPrograms            <-- Reports
  Formats, DesignCalls, Instruments, Searches, Reports             <-- MCComputations
  CallState (the one variable)  <-- DatasetRequests, DesignCalls, Instruments, Searches, Reports
```

Each state machine has an `MC` module (constants too long for a configuration,
and what the bounds are meant to reach). The definitions marked `Mutation of`
are not part of any specification: each is a plausible bug, put in the place of
the definition it names to see that a property notices.

### State machines

**TrajectoryContract** is the abstract specification of one run: one step that
publishes a trajectory obeying `ValidTrajectory`: the orbit of the input, no
stopping condition before its last state, and a verdict (convergence before
cycle before limit) about that state. No loop, no tracker, no hash.

**StateEvolutionEngine** is `run`, one action per numbered step of the
generation order, with the tracker as the code has it (`buckets`, one sequence of
entries per hash). The system under study is chosen in `Init`, so that one run
of TLC covers every transition function, terminal set and hash function, and the
proofs quantify over all. A rejected input is `RejectInput`. Metrics, wording and
timing are left out: no control depends on them. Note that the first transition
is unconditional: `max_iterations = 0` yields one transition, though the field is
described as an upper bound (`TransitionsBounded` says max(1, limit)).

**LruCache** is the struct of `cache.rs` as operators on records
(`capacity`, `map`, `order`); **LruHistory** calls them in every order and keeps
history variables (`clock`, `lastUse`, `latest`) the properties speak of.

**TrajectoryService** is what a host promises its clients, with no cache, lock or
program counter: a question is answered at one instant with the trajectory of a
fresh run; it is called a hit only when a question with the same key was answered
before; a client is turned away for an unknown system, or after a handler died.

**TrajectoryHost** is either host: `Receive`, `Lock`, then `RejectUnknown`,
`RunInvalid`, `Hit`, or `Miss` and `Store` in two steps, since the engine computes
while the guard is held; `Panic` unwinds from within the section. The engine is
the function `Run` of what it depends on, which the engine's own module justifies.
Validation is `Canonical`, any map from raw inputs to states or a refusal, so that
two spellings of a state share a key. Both hosts size their cache once, from the
default configuration; a request's `cache_max_entries` only becomes part of its
key, which the model keeps. `main.rs:214` calls the cache of a poisoned mutex
"fallback: an uncached run"; the code passes the cache on and uses it, which the
model does too. `ImplementsService` maps it to TrajectoryService.

**DatasetStream** is a stream end to end: `Accept`, `Refuse`, `Send` (compute a
row and send it, or a piece of it), `End`, `SendFails`, `Crash` on the host; `Call`,
`ReadChunk`, `ReadEnd`, `ReadError`, `Deliver`, `Resolve`, `Stop` and `Start` in the
page, for both transports. On the HTTP wire a row is three pieces (two of JSON and
the newline), and `ReadChunk` takes any number of them, so that a chunk may end in
the middle of a line or hold several. Under Tauri `Call` follows an awaited import,
during which a Stop has no listener; and a cancel never reaches the channel
(`commands/mod.rs:112` expects sends to fail), so all rows are computed and a stopped
export downloads the rows it has. `view` tells the refs from what is rendered,
including that, until the first flush, React holds the very object `accumulate`
mutates (`live`). What an aggregate adds up is abstracted to the rows folded in.

**ResearchSession** is the page: any number of overlapping single runs
(`pending`; the Enter key is not disabled), one bulk range, `Reset`, replies in any
order, failures. The yield of a range to the event loop is a step of its own.
`Increment` is `n++` on a JavaScript number, which stops at `LargestExact` (2^53).
Two overlapping runs may answer out of order, and the page then shows the older
one (`App.tsx:38` speaks of the most recent run); the order of replies is free in
the model.

**RngLifecycle** has the three constructions (naive rekeying, fast key erasure,
wipe on fork), any number of instances that boot, are copied (`Snapshot`, `Fork`),
are handed entropy (`OnFork`) and draw; `Fill` and the iterations of its loop
(`Take`) are separate steps. Bytes come in units of 32, symbolic: a unit is the
seed of its key, the number of ratchets since, and its index in the keystream.

**SchemaMigration** is the registry and the walk of `migration.rs`: `Register` in any
order, then `Migrate` and its loop, which returns at `Reached`, `MissingVersion`,
`NoMigration`, in `Apply` (an error, an output without a version, one that did not
advance) or at `Exhausted`. A document is its version, the only field the walk reads;
a migration always makes the same version of the one it is registered from, as the
contract of the trait asks. Nothing in the code uses `to_version`.

**ComparisonLab** is `add` with its await (`AddRun`, then `Reply` or `Fail`, in
any order) and `RemoveEntry`. A trajectory is its initial state as the host canonicalises
it; a colour is drawn from the length of the list.

### Pure functions

A state of the four *caller* modules is one call with its result; each action calls
one function on one input of a small set, and the properties compare the result
with an independent definition of what it means. All four run together in
**MCComputations**.

- **Words**: unsigned integers of any width as sets of bit positions.
- **NumberSystems**: transitions, `RunSystem` turn by turn, the validation cases and all
  metrics of `bigint_metrics.rs`, on exact thousandths, and a specification of its own
  (`RunsSpec`) that makes one run.
- **DatasetRequests**: how each host reads a request, with its narrowings (a count to 32
  bits, a bound to a JavaScript number), and CSV splitting.
- **DatasetSpecs**: the seven generators, primality, and the rows a dataset comes to;
  `StreamsSpec` streams one dataset.
- **PngFiles**: stored DEFLATE, both CRC-32s, Adler-32, the chunk walk, embedding and
  reading of a text chunk; `PngSpec` takes one checksum with both programs, or writes one
  image and stamps it.
- **Presentation**: feature vectors, similarity, the metric table, CSV and metadata,
  chart points, the coral path; `PicturesSpec` draws, compares or exports once. A refused
  input is a trajectory (`SystemError`) without metrics that echoes the text as its only
  state; the texts modelled (`Refused`) are 0 and one that is no number. Others that
  JavaScript reads as a number (-5, 1e3) would be drawn as that number.
- **Formats** calls those five, all but DatasetRequests through their own actions.
- **ArxDesigns**: quarter rounds and their search moves, wirings, ChaCha, BLAKE2b,
  ARX structures, Philox, Threefry and the other systems, at any word size.
- **Batteries**: avalanche, independence, structural, saturation, rank and residual,
  branch numbers, and the rotation of timings, on counts.
- **Streams**: stream setup, weaving, the program's loop with its byte limit and a
  closed pipe, correlation offsets, collision windows, the seeding audit.
- **Instruments** calls those three, at a word size of two bits (all states), four
  (streams) and the real one (published vectors).
- **SearchDesigns**, **SearchPrograms**: the permutations that the searches propose,
  their gates, screens, verdicts and confirmations, which **Searches** calls.
- **DesignCalls**: the functions that are written more than once, side by side, and the
  lanes a flip reaches over a wiring, at two bits of a word and at 64; and the two hill
  climbs, turn by turn until their budget is spent.
- **ReportPrograms**: what the report programs conclude, under which control, which
  **Reports** calls on measurements in every order, or with a cause known beforehand.

### Modelled from outside

Four things are modelled from how the code uses them: a handler thread's program
counter and a panic with std's Mutex (unwinding drops the guard and poisons it; a
free mutex goes to any waiter); a socket (what is written after the reader left
goes nowhere until a write fails; the end of a process shows as end of stream or
as a reset that loses what was unread); a Tauri channel (first in, first out,
and a command resolves after its rows); ChaCha20 in RngLifecycle (a function
without collisions; ArxDesigns computes it). Tauri may run its synchronous commands
on one thread only; the model lets them interleave at the lock, so it has more
behaviours than that, never fewer.

## 3. Runs

| Run | Instance | What it asks |
|---|---|---|
| `engine` | every system over 3 states and 2 hash values, limits 0 to 4, every input | tracker equals history; a cycle verdict is final; the driver implements the contract |
| `lru` | 4 keys, 2 values, capacities 0 to 3, 7 uses | map and list agree; eviction by recency, only when full; no stale hit |
| `host` | 3 requests out of 8 queries, cache of 1 entry, either host, panics anywhere | invisible cache, no computation twice, a poisoned Tauri host stays silent, the service is implemented, every request finishes |
| `dataset` | 2 runs of 5 items cut at 4, table of 3 rows, a flush every 2 | rows are a prefix; what ended and what was filed has no gap and is complete; display follows; runs end |
| `session` | 2 systems, 4 inputs, ranges of up to 3 with a yield after 2, 3 starts | nothing lost or doubled; ranges are blocks; busy has a run behind it; the page comes back |
| `rng` | 3 instances, 3 seeds, buffers of 4 and 2 units, 4 units drawn each | forward secrecy, no repetition, keys stay inside, only known collisions |
| `migration` | every registry of up to 3 migrations between 4 versions, errors included | the target is found exactly when it can be; giving up means a loop |
| `lab` | 3 overlapping runs, two spellings of a state, refused input | the list is what came back and was not removed; the button comes back |
| `computations` | some thousand calls, and climbs of 6 scored wirings | twelve promises of the pure functions, below |

`computations` checks that runs hang together with their validation cases and
metrics (`RunsHangTogether`), that both hosts read the same specification
(`HostsReadTheSameSpec`) and that streams meet it (`StreamsMeetTheirSpec`), that an image
decodes to its pixels and a text comes back (`PngRoundTrip`), that pictures stay true
(`PicturesStayTrue`: points in their frame and in the order of their values, a curve unmoved
by others that have nothing to show, a refused input similar to nothing and absent from the
scale of every column, exports that lose no state); that designs permute and gates tell (`DesignsPermute`), that the
designs written more than once agree (`DesignsAgree`), that diffusion is bounded by the
wiring (`DiffusionIsBounded`), that batteries report what they measure and branch numbers
are bounds (`BatteriesMeasure`), that program and library weave the same stream and
generators and checksums meet their published vectors (`StreamsWeave`), that conclusions follow from measurements (`SearchesAreSound`) and
that climbs stay legal (`ClimbsStayLegal`).

Why these bounds are enough to be interesting: two hash values over three
states force collisions between states on and off the cycle, and three states
give every shape of tail and cycle up to that size while limit 4 exceeds the
longest orbit without a repetition; seven uses of four keys let a key be evicted
and return under every capacity; a cache of one entry evicts at every store, and
the third request asks again for what the second evicted; rows of three
pieces give all cuts of a line (before, inside, after, several at once), a stop
after one or three rows leaves rows that only the final flush shows, the table
fills between two flushes, and a second run overlaps the host thread of a stopped
first one; a range of three with a yield after two passes both the yield and the
end, with two single runs beside it; three instances give parent, child and
grandchild, siblings, and a child with a snapshot, and a request of two units
against buffers of four and two ends at, before and across a refill. Three
migrations between four versions make the longest chain use every iteration, beside
loops of two and three versions, competing migrations and dead ends. Three runs in
the Lab give two that race for one initial state and one that brings back what was
removed. Two bits of a word visit all states of a quarter round; tables of two bits are
all maps of two bits, affine ones and others. Versions are symmetric, and so are keys
and values of the cache: no definition tells them apart.

`EndedIsComplete` asks that whatever resolved, and every file, begins with the first row and
has no gap, and that it is the whole dataset up to the cap unless it was cut (`Cut`): over
HTTP the server died, whose response carries no end marker, and under Tauri a stop was heeded.
A stop that was not heeded cuts nothing. The re-checked hits of a search are the first
`MostChecked`, ten in the code and two in the run, where four candidates can all be hits.

Where two hosts or two replies may differ and no document says which is meant, no property is
stated: numbers above 2^53 and emptied fields of a dataset request, a count of 2^32 or more
(`Plain` leaves them out), and which of two overlapping runs the charts show. PROJECT.json
notes each at its hazard.

Three runs are *expected* to fail: each states what the code says of itself and
shows a behaviour that contradicts it.

| Run | Says | Behaviour found |
|---|---|---|
| `dataset_stop` | `invoke.ts:144`, abort through the signal | a Stop during the import of the API is lost |
| `bulk_range` | `CoralPanel.tsx:34`, a bulk add is bounded | From = To = 2^53 never ends |
| `distinct_streams` | `seeding.rs:335`, the number of distinct streams | three identical streams make three pairs, hence none distinct |

### What else was found while modelling

No run of its own, and no effect on the properties above, but the models show it:

- The group and step searches take their verdict "monotone" over the designs that
  saturate; a design that never does is skipped, not counted against it.
- The control of `scalar_rotation_cost.rs` can pass on a machine that speeds up
  steadily, and equal readings of the drift can defeat its first prediction
  (`RotationsAreSound` speaks of a steady or a slowing machine).
- `topology_climb.rs` may score one wiring over its budget, that of a restart
  (`ClimbsStayLegal`); `topology_climb2.rs` does not.
- `qr_search.rs` labels its free draws with 16 instructions; a draw of a free arm costs
  12 to 20.
- `arx_step_cycles.rs` accepts a canary of 7.4 to 8.3 cycles and speaks of 8 to 10.
- `seeding.rs:17` and `:246` speak of 32,767 keys of the Debian failure; its path, 15 bits,
  has 32,768.
- `seeding.rs:266` speaks of 304 bits where the path adds up to 271.
- The verdict of `task3_stream_independence.rs` judges one lag for eight streams.

### Fairness

Safety runs assume none. `host`: weak fairness of each handler's own steps: threads are
scheduled, a run terminates because `max_iterations` bounds it
(`TransitionsBounded`), and every handler takes the lock once, so that a mutex
which is merely granted to *some* waiter suffices. `dataset`: weak fairness of each
host thread and of the page's event loop; nobody need press Stop, and no crash or
refusal is forced. `session` and `lab`: every request is answered or fails (what `host`
shows), and a timer fires. Panic, Crash, Refuse, Start, Stop, Boot and Fork are never
forced. No property is proved from fairness of a user.

Deadlock is checked wherever the system has no end: where it comes to rest a stuttering
action with a guard (`Returned`, `AllServed`, `Quiet`, `Spent`) says when it may. The Lab
ends when its runs are spent and a computation when its call has returned; there deadlock
is not an error.

## 4. Proofs

The proofs about a state machine begin with a theorem `Invariance`, `Spec => []IInv`, with
one step per action, and derive the stated properties from it. All hold for every value
of the constants under the named assumptions of the module that declares them.

- **StateEvolutionEngineProofs.** For every set of states (infinite ones
  included), hash function, limit and input. `IInv` adds to the type invariant that the
  history is the orbit of the input with no stopping condition among its settled
  states (`LoopInv`, `LimitInv`), that the tracker mirrors the history
  (`TrackerMirrorsHistory`), and that what was returned obeys the contract
  (`ResultInv`). The tracker part is what makes the cycle check complete: a miss in
  the bucket is a miss in the history only since every settled state is in the
  bucket of its hash. From it follow `TypeCorrect`, `TrackerCorrect`,
  `WorkBounded`, `CycleIsFinal` (a closed sequence maps into itself, so no later
  state is new or terminal) and `Implementation`, the refinement of
  `TrajectoryContract`: initial states map to initial states, returns to `Publish`, all
  other steps to stuttering. Assumed: `Limits` are naturals, `BadInput` is no
  state, `NoTrajectory` is no trajectory.
- **LruHistoryProofs.** For all keys, values and capacities, and no bound on the uses' order.
  Lemmas say what `Touch`, `Put` and eviction do to a well-formed cache; `IInv` ties the
  recency list to the times of last use: `WellFormedness`, `EvictionByRecency`,
  `NoStaleValue`. A second invariant, `Filled`, counts: the keys ever used are finite
  in number, and either all are cached or the cache is full (`EvictionIsLazy`).
- **TrajectoryHostProofs.** For any number of requests and queries, any systems
  and any canonical forms. `IInv` adds what each stage of a handler has settled (`StageOK`) and
  mutual exclusion; with the lock held through the computation, the miss a handler
  saw still stands when it stores (`WorkIsDoneOnce`), and the key of an entry
  determines its trajectory (`CacheHonest`), hence `Transparency`, `Honesty`,
  `Exclusion`, and the action property `PoisonIsFinal`. Then the refinement: what a step of the service needs to know
  about the past is kept by two more invariants: every entry was served to somebody
  (`EntriesWereServed`), and a poisoned mutex has a victim (`PoisonHasVictim`). Under
  them a reply is `Serve`, `Reject`, `Die` or `TurnAway`, and every other step stutters
  (`Implementation`).
- **CryptoProofs, the generators.** For any buffers, requests and numbers of instances. The
  invariant says what a buffer holds (`BufferHolds`: consecutive units of one key),
  that every unit drawn lies behind the generator that drew it and behind its
  copies (`IsBehind`), and that two families share a seed only when one was forked
  without entropy (`SeedsApart`). `ForwardSecrecy`, `NoRepetition`, `KeysSecrecy`,
  `KnownCollisions` follow.
- **CryptoProofs, the designs.** For every word size, number of rounds, wiring and state.
  The loops of `ArxDesigns` run through `InTurn`, a recursive function, which `ChainExists`
  and `FoldsAreChains` show to exist and to take one step at a time. Words are sets of bit
  positions, so that addition is a carry chain: it is commutative and cancels, as do xor
  and rotation (`AddCancels`, `XorCancels`, `RotlCancels`), hence each of the three
  instructions of a quarter round is injective (`StepPermutes`), a program of them too
  (`LegalQuarterRoundsPermute`), a round over a partition and any number of rounds
  (`WiringsPermute`, `ChaChaPermutes`, `StructuresPermute`). What the crate writes twice is
  shown equal as functions (`RoundsAgree`, `BlocksAgree`), BLAKE2b's mixing by turning its
  right rotations into left ones (`MixingAgrees`); a fourth writing cannot drift from the
  others on any state: `DesignsCoincide`. By induction on the rounds, two states that
  differ in one lane agree outside of its ball (`FlipsTravelOneHop`); balls that have grown
  whole stay whole, so that what the screen prunes had no chance (`PruningIsSound`).
  `DiffusionBound` states it of every wiring that can come up: those drawn are balanced
  since a shuffle keeps an order of the sixteen lanes (`RandomWiringsBalance`). Assumed
  (`DesignAssumption`): words of one bit or more, and draws within their range.
- **CryptoProofs, the climbs.** `ClimbIInv`: where a climb is, it is on a balanced, connected
  wiring with its own score, no worse than where it began, within its budget, and below
  its patience. A mutation exchanges two lanes and so keeps the balance
  (`MutateBalances`); the wirings the climbs begin from are shown connected through one
  lane that reaches all groups. `ClimbsAreLegal`, for any score that is a number, any
  patience, and a budget that covers the two wirings scored at the start (`ClimbBounds`).
- **PresentationProofs, the runs.** For every initial state and limit. What a recursive
  function of the model computes is taken from `ChainExists` and `SameChain`: a start and a
  table of steps make one chain. The invariant along a run is `Trail`: each state is the
  transition of the one before, and until the last nothing repeats, reaches 1 or uses up the
  limit. `TurnKeepsTrail` keeps it; by counting turns `RunCompletes` says how a run ended.
  Two trails of one state that are both over are equal (`SameRun`), so that a hand-verified
  case that is one (`KnownTrails`) comes out under every limit that lets it. For the metrics,
  `StepsChangeLength` (3n + 1 and 5n + 1 lengthen a number, halving shortens it by one bit),
  `PeakIsFirst`, `StopsBelow`, `RunsUnroll` (the runs of any bit sequence, unrolled, are that
  sequence) and `Means`: `RunsHang`. Assumed (`RunAssumption`): initial states are positive.
- **PresentationProofs, the pictures.** For any series, canvas larger than its margins, list
  compared, angles and parity. A chart holds one point per finite value, in place (`Traces`,
  by induction along the series); rounding down keeps the order of values (`Shares`), and so do
  a logarithmic scale (`ScaledAlike`) and the stretching of a series to one scale
  (`NormalizedSeries`), hence frame and order (`DrawsStay`, `OverlaysStay`). Two curves share their bounds,
  which a curve with nothing but absent or zero values does not move (`UndrawnShown`,
  `BoundsUnmoved`), so that the other is where it would be alone (`OverlaysApart`). Columns spread
  because their least and greatest value do (`ColumnsSpread`), and similarity is symmetric, and
  zero for a vector of absent features (`DotOfZeros`).
  Pens keep what they drew and add one segment a bit, all of one length (`Stays`,
  `CoralSegments`); the aesthetic path of a suffix begins the path of the whole (`Trunk`). Cells
  and metadata: `ExportsTruly`. Together `PicturesAreTrue`. Assumed (`PictureAssumption`):
  the types of the inputs, no empty comparison, and a canvas of more than its margins, 48
  pixels, each way: the pages lay out larger ones, and the code does not look.
- **PresentationProofs, the PNG files.** For any images, texts, byte strings and size of a
  stored block. `Stands` says that a part lies in a file at an offset; parts in a row stand
  where their concatenation does (`PartsStand`), so that each field of a chunk is read where
  it was written (`ChunkReads`), and wherever a chunk stands it is whole and the walk passes
  over it (`WalkOver`). The walk and the decoder are recursive functions that jump ahead in a
  file; by induction on what is left of it they exist and go from chunk to chunk
  (`ReadersExist`, `WalkGoes`), and the decoder gives back the blocks that were stored, the
  last of them short, full or alone (`BlocksInflate`, `ZlibComesBack`). Shifting a word acts
  on its low bits alone (`LowBitsAct`), so that a step of the CRC by table is the eight shifts
  of a step bit by bit (`TableStep`, `CrcsAgree`). Rows of one length stand at its multiples
  (`EqualPieces`), hence what is decoded is the other format (`RowsComeBack`). Together
  `PngComesBack`. Assumed (`PngAssumption`): a matrix counts no more flips than samples, and
  a side and the length of a chunk fit the 32 bits to which both programs cut them;
  (`MaxStoredAssumption`) a stored block has 1 to 65535 bytes, the code's 65535 among them.
- **PresentationProofs, the datasets.** For every specification a host can hand over, any
  item cap, width of the generator's state and iteration limit. A range is listed by rank
  (`AscendingLists`), and its even and odd numbers make it up. The recursion that looks for
  the next prime ends since Euclid's number has a divisor beyond every prime up to a bound
  (`PrimesBeyond`), and stops at the first one (`NextPrimeIsNext`); odd trial divisors up to
  the square root decide primality (`TrialDivision`, by the least divisor). So the list holds
  all primes up to its last and no other number passes its sieve (`PrimesInOrder`,
  `PrimesSieve`). The value of a word is injective (`WordsHaveValues`); xor with a shift
  leaves the least or the greatest bit of a nonzero state in place, so no seed reaches the
  zero state (`StatesStayNonzero`), and numbers drawn under a bound no smaller than the
  largest state differ (`StatesDiffer`, `RandomStates`): `StreamsMeet`. Assumed
  (`SpecAssumption`): the types of the inputs; (`PeriodAssumption`) the shifts bring no
  nonzero state back within the item cap. The code's shifts 13, 7, 17 are those of Marsaglia's
  xorshift64, of period 2^64 - 1 (the order of the map as a matrix over two elements), far
  beyond the cap; TLC evaluates the assumption on the shifts and width of the instance.
- **PresentationProofs, the Comparison Lab.** For any runs, starts and colours. The list is
  shown to be free of repetitions through each reply and removal (`Without`, by induction along
  the list it filters): `ListIsTrue`; `TypeCorrect`.
- **SchemaMigrationProofs.** For any versions and registry. The walk has either not
  yet stood twice on a version, and then as many migrations are registered as steps
  were made, or it has been through a loop (`Progressing`). The pigeonhole principle
  makes the bound of one more than the registry long enough: `LoopsOnly`. A version with
  no migration onwards ends every path (`Stuck`), hence `TargetFound`.
- **ResearchSessionProofs.** For any number of overlapping runs and ranges. `IInv`: what
  completed is once in the overlay, the batch or what Reset dropped (`Whole`), results of
  one range are neighbours (`Blocks`), whoever may still load a result has a number no
  result bears (`Numbered`), and a batch holds the runs of its range so far (`RangeOK`).
  `NoLoss` and `RangesStayTogether` assume that nobody types 2^53, since the run
  `bulk_range` refutes what they need there; `BusyHasARun` needs no such assumption.
- **DatasetStreamProofs.** For datasets, caps, tables, flush intervals and numbers of
  runs of any size. `IInv` says that what was handed on, what the buffer holds, what is on the wire
  and what the host has yet to send follow one another without a gap (`PiecesInOrder` for
  the three pieces of a row over HTTP, `RowsInOrder` for Tauri), that the view, its
  table and their rendered copies belong together (`DisplayOK`), and how a run that is
  over ended (`Over`: without a gap, and whole unless it was cut). The reader's loop, a recursive function, is shown to exist and to
  take exactly the whole rows of any text that begins at a row (`ParsedIs`), by the
  least number of turns for which it would not. From it follow `RowsInPlace`,
  `EndIsComplete`, `DisplayIsTrue`. Assumed: the sizes are naturals, and `FlushEvery > 0`.
  `HostsAgree`, about requests: for any limit of a double, and any width of a number above
  that of the default count, the two readings of a plain request are one specification.

TLC evaluates `DesignAssumption` and `ClimbBounds` on the instances it checks
(`InstancesFit`), and every named ASSUME.

Only model-checked:

- All liveness (`EveryRequestFinishes`, `EveryRunEnds`, `PageComesBack`,
  `ButtonComesBack`): it needs ENABLED.
- `DesignsPermute` beyond the quarter rounds, wirings, ChaCha and structures above (Ascon's
  substitution, the multiplications of Philox and Klimov-Shamir's word, and cycle
  lengths), `BatteriesMeasure`, `StreamsWeave`, `SearchesAreSound`: counts, ranks and
  quantiles over finite sets, by folds over many small definitions.

## 5. Not modelled, and why

- Canvas calls, colours, animation, wording and number formatting: no state, and no
  property is about them.
- Floating-point significance of the batteries (noise floors are logarithms) and
  the sampling itself: counts and exact ratios stand for them. A computation that a
  rounding would decide is outside of what TLC can say.
- Wall-clock timing: what a timer reads is an input of `Searches` and `Reports`.
- The examples that only print tables of the library's measurements.
- Exit codes of `statelab_stream` after a write error other than a closed pipe.
- Inputs no caller passes: rounds of 16 and more for Ascon's constant, a matrix of
  more rows than columns for the probability of full rank, and a profile's rounds, which
  are reported from the configuration.
- Text forms of big integers (an initial state is a number), static pages,
  `/api/systems`, percent-decoding: stateless.
- Packaging and the window of the desktop application.
- Which system a long bulk range uses when a single run changes the controller
  meanwhile: kept in the model (`range.system`), but the code states no intention.

## 6. Plan

Every component with control of its own is modelled; every safety invariant of a
state machine is proved, and so is every promise of the functions that `Formats` calls. What is left, in the order of its worth: the verdicts of
`SearchesAreSound`, which are set comprehensions over measurements and may be proved
program by program; the remaining invertible designs (xoshiro and Threefry from the laws of
words, Ascon from its five-bit substitution); larger wirings for the climbs.

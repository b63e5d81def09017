# gooir in TLA+

A model of gooir's core: how facts become authoritative (the admission ledger),
how a goal is planned and diagnosed (semantic planning, the doctor), how a request
is answered (the derivation facade over untrusted hosts, and the bootstrap registry
before it), how hosts run artifacts (child processes under a deadline, guests under
a watchdog thread), how capabilities and artifacts are installed (the package
registry), how packages become a deployable image (the toolchain), and how an
admitted artifact reaches a directory and is read back (the local publisher and the
source tree reader).  The modules are translated from the Rust sources under
`src/crates/`; where a document and the code disagree the modules follow the code
and the disagreement is listed under *Findings*.

## The system

gooir derives typed values from typed values.  *Capabilities* declare input and
output kinds, *offers* are artifacts that implement them, *attesters* check what
offers produce, and a *policy* says whose word counts.  A value may be used only
through a reference to an *authority record* of the ledger.

| part | state it keeps | operations | what makes it correct |
| --- | --- | --- | --- |
| **admission ledger** `gooir-capability/src/authority.rs`, `protocol.rs` | facts, decisions and authority records by digest, an index of records by fact | `admit_observation`, `admit_candidate`, `admit_provider_candidate`, `export`, `rebuild`, `resolve` | authority is only ever earned; links keep resolving to their fact, under colliding digests too; decisions are stored whole; every export can be rebuilt |
| **semantic planner** `gooir-planning/src/lib.rs` | one inventory of specifications and offers | `plan`, `validate`, route alternatives with available offers, route validation, blocked analysis | exactly the routes the declarations give, up to two; plans of another inventory are refused; a blocked answer names enough |
| **membrane** `gooir-derive/src/lib.rs` | none; stages of one invocation | preflight, invoke, assess, admit | no reply of a host enters the ledger unless it answers this invocation |
| **facade, driver** `gooir-derive/src/facade.rs`, `driver.rs` | a ledger, an inventory, a policy, attesters | `admit_sources`, `answer` (prepare unique or explicit, execute step by step) | refusals have no effect; answers are grounded in the request; nothing that was admitted is hidden; every request is answered |
| **local stdio host** `gooir-derive/src/local_stdio.rs` | one child process and its pipes | run an artifact with a request | whole answers, no child left, every call ends |
| **plugin host** `gooir-plugin-process/src/lib.rs` | one child process, a waiting thread | `invoke` | the same, with a timeout that starts late |
| **local publisher** `gooir-artifact-sdk/src/local.rs`, `local/platform.rs` | a managed directory and its parent, a lock | `check`, `diff`, `snapshot`, `publish` | a directory that changes in one step, survives crashes and power losses whole, and loses nothing of others |
| **source tree reader** `gooir-artifact-sdk/src/source.rs`, `lib.rs` | the open directories and files of one read | read a tree, plain or with a marker, that others may edit | the tree of one moment, refused only for what it is; a marker that is told is there |
| **package loader, registry** `gooir-package/src/lib.rs`, `loader.rs`, `registry.rs` | installed packages, the owners of what they export, resources and offers; loaded packages callers hold | `load_local_package`, `install`, clone | an install is all or nothing and never replaces; each identity has one owner; dependencies are exact, references direct, bytes the declared ones |
| **toolchain** `gooir-toolchain/src/lib.rs` | published images, each a directory tree with a lock | `publish_create` (assemble, write, check, lock, reload, rename), `load` | an image is published whole, once, and only if it is deployable; what is loaded is what the lock names |
| **command runtime** `gooir-wasip1-command-runtime/src/lib.rs` | one guest, a watchdog thread and what it shares with the caller | prepare, execute, drop | the receipt says how the guest ended; the thread does not outlive the call; the deadline ends it |
| **bootstrap registry** `gooir-capability/src/lib.rs`, `manifest.rs` | capabilities, Rust providers | register (also whole packs), answer, bind a request or a candidate, `verify_and_admit` | answers are the true ones for what is registered; every fact has a whole chain behind it |
| **authoring kit** `gooir-provider/src/neutral.rs`, `attester.rs` | the registrations of an executable | answer one document | its results are those the membrane accepts |
| **doctor** `gooir-doctor/src/lib.rs` | none | report on an inventory | what it says can and cannot be made is so |
| CLI, lifters, SDKs | none | | sequential, no state of their own |

How they interact: the driver owns the ledger and lends it to the facade for one
request.  The facade calls the planner (pure), then the membrane for each step,
and the membrane calls a `DerivationHost`, whose replies are data from a program
nobody trusts, written perhaps with the authoring kit.  The hosts, the publisher and
the reader are where operating system processes, threads, other programs and power
losses come in.  The bootstrap registry is the older door of the same crate: Rust
providers in the process, and a handoff of its own for providers outside it.  Packages give the inventory and the
artifacts, once, before any request.

What is hard here: documents that are each legal but do not belong together;
stale plans, stale inspections and stale snapshots; a failure between two steps
whose effects stay; digests that collide; a search that is capped at every level
and must still count exactly; processes that hold pipes open, exit early, or do
nothing; programs that ignore the publisher's lock; a crash between any two
system calls.  `PROJECT.json` lists these hazards with the lines where they bite
and the properties that watch them.

## Modules

    Authority ── AdmissionLedger ── MCAdmissionLedger
        │              └─ AdmissionLedger_proofs
        │
    Planning ── RouteSearch ── Routes, Diagnosis ── Planner ── MCPlanner
        │                        │
     Membrane ── Selection, ProviderKit ── Derivation ── MCDerivation
                                               └─ Derivation_proofs (with Planner, DataTheorems)

    CapabilityRegistry ── LegacyAdmission ── LegacyDoor ── MCLegacyDoor

    ChildProcess ── LocalStdio, PluginProcess, CommandRuntime ── ProcessHosts ── MCProcessHosts
                                                             └─ ProcessHosts_proofs
    ManagedDirectory  <=  LocalPublisher ── MCLocalPublisher
                              └─ LocalPublisher_proofs
    ContentSet ── SourceTreeRead ── MCSourceTreeRead
                       └─ SourceTreeRead_proofs (with DataTheorems)

    PackageManifest ── Packages ── PackageRegistry ── MCPackageRegistry
                           │             └─ PackageRegistry_proofs
                           │             │
                       Toolchain    DataTheorems
                           │             │
                       ToolchainImage ── ToolchainImage_proofs
                           └─ MCToolchainImage

**Authority** is the state-free part of `authority.rs`: the documents, what makes
each valid, the verdicts, and each ledger operation as a function from a ledger
to an outcome.  Digests are constant operators, so that a run may let them
collide.  **AdmissionLedger** is one host's ledger over time: callers that present
any document they can put together, exports, and restarts from whatever storage
gives back.  `links` and `exported` are history: the links reported so far.

**Planning** has plans as slices of an inventory, `Relevant`, `ExactPlan` and the
blocked analysis; **RouteSearch** is the search of `derive_value` and its
companions, with its cap of two at every level, and the validation of a selected
route.  **Routes** says what a route is without a search and corresponds to no
code.  **Diagnosis** is the doctor's report.  **Planner** is a caller over time:
inventories are replaced, plans kept, selections made, reports asked for.  Its
specification is `PlannerSpec` and its variables have names of their own, because
`Derivation_proofs` speaks of it and of `Derivation`.

**Membrane** has the stages of one invocation (`invoke_candidate`,
`run_linked_invocation`, `finish_admission`); **Selection** the preparation of a
request (`prepare_unique`, `prepare_explicit`, eligibility of offers and
attesters); **Derivation** the driver and the execution of a request, one action
per stage, with a host that may return any result or assessment at any step.
**ProviderKit** is what an executable of the authoring kit answers (registration,
dispatch, outputs named in any order, the checks of an attester): in `Derivation`
its replies are among the host's, and are the good ones.

**CapabilityRegistry** is the bootstrap registry as a value: registration one by one
and by packs, the planner that improves the best route of every kind until nothing
changes, the executor and the answers of its door.  **LegacyAdmission** has the
requests and candidates that are bound to each other and `verify_and_admit`, the
only way a candidate's outputs become facts.  **LegacyDoor** is a caller over time:
it declares packs, installs providers, asks, assigns a need of a blocked answer to a
provider outside, and verifies what comes back; requests and candidates may be
altered on their way.

**ChildProcess** is the operating system and the artifact: pipes of a few units, a
child, one descendant that inherits its pipe ends, a clock.  It is external to
the repository.  **LocalStdio** has one action for each operation of the
collection loop, **PluginProcess** one for each step of the caller and of its
waiting thread.  **CommandRuntime** is a caller's thread, a guest and the watchdog's
thread: its two loops look at what the caller shares with it, sleep, are woken, or
wake for no reason, between any two steps of the others.  **ProcessHosts** takes one
host of the three and has the promises to callers.

**ManagedDirectory** is the abstract specification of publishing: one tree, one
step per publication, one moment per read, and a power loss that leaves a tree
that was published (the last one if its receipt says it was synced).
**LocalPublisher** is the code: the parent directory as names of trees, the lock,
inspection, stage, recheck, rename or exchange, sync, cleanup, with a failure
possible at every system call, process crashes, power losses and programs that do
not take the lock.  `Directory!Spec` with `current <- Shown(entries)` is its
refinement: a call commits at the rename or exchange and a read at its inspection.

**ContentSet** is which paths may stand beside each other in a set of files that
every file system can hold.  **SourceTreeRead** is one read, one action per look at
the file system: inspect an entry, open it, read it, look again, enumerate once
more, look at every directory and file once more.  Between any two looks other
programs write, create, replace, unlink or move.  A file system is a set of inodes
whose directories lie in levels, one below that they are an entry of (`FileSystem`);
its tree is read off level by level (`TreeOf`).  `moments` is history: the trees the
root has held since it was opened.

**PackageManifest** is what a package declares and when its manifest is valid by
itself (`validate_structure`, `read_manifest`): sorted sets, dialects that own
their value kinds, offers of own resources, the content digest.
**Packages** has loaded packages and registries as values: limits, exact
dependencies, external ownership, derived offers, the second validation, the
owner check and the insertion.
**PackageRegistry** is a program with several registries.  `ReadManifest` is the
load up to its first resource (limits, exact dependencies, external ownership),
`CopyResource` one resource read and hashed, `FinishLoad` the derivation of offers
and the validation of the whole, `Install` `install` with the second validation
against *its* registry, the reinstallation, the collisions and the copy that
replaces the registry.  Several maps of the code are one set of entries,
`exports`, and an insertion replaces the entries of its key, so that an owner check
that is missing shows.  Nobody constrains the writer of the directory: each read
returns any document or bytes.  There is one load at a time, since loads share
nothing, and the catalog of a load is not installed into, since the load borrows
it.  A call that is refused changes nothing and is no step.

**Toolchain** has recipes, budgets, the lock, the tree of an image, the bounded load
of a package and of the packages of a lock, and `Writes`: the file system calls of
`write_package`, in order.  **ToolchainImage** runs them.  A publisher makes one
call: `Begin` looks at the destination, `Assemble` reads the inputs of the next
package (a file may hold anything), `Write` is one file system call, `CheckWritten`
the load and installation of what was written, then the lock, the reload of the
whole staging tree, its synchronization, the create-only rename and the
synchronization of the parent, which decides only which durability is answered.
Every system call may fail, a process may crash, and a power loss takes any entries
whose directory was not synchronized, with all below them.  Other programs create
the destination or exchange files in it, and a reader loads it one package at a
time.  The load of one package is a step here, since what may happen inside one is
the subject of `PackageRegistry`.

Every definition that stands for code has its lines in `PROJECT.json`.

## Runs

| run | asks | instance | states |
| --- | --- | --- | --- |
| `ledger_restores` | do links, exports and authority survive colliding digests and storage that loses or alters documents? | colliding digest operators, malformed facts, 3 policies, 2 offers, 2 attesters, 3 records | 3 721 |
| `planner_requests` | is the capped search exact, do plans survive a change of inventory, do needs unblock, are reports true? | every graph of 3 capabilities of 15 shapes, cycles included, and inventories that replace one another, with every set of available offers | 10 982 |
| `derivation_requests` | does a driver keep its promises with any host? | 4 installations, sources good and bad, unique and explicit requests, 3 records | 3 118 |
| `derivation_echo` | does `UniqueOnly` mean the only route? (no: see *Findings*) | a capability that returns the kind it takes | |
| `legacy_answers` | are the answers of the bootstrap door true, and its facts grounded? | 3 packs, 5 providers, 3 behaviours, 3 attesters, 3 facts held | 270 364 |
| `publisher_losses` | is a directory atomic and durable? | 2 processes, 3 calls of 7 kinds, 1 crash or power loss | 364 795 |
| `publisher_edits` | is what others leave there kept? | 2 processes, 2 calls, 2 foreign changes of 5 trees | 274 973 |
| `tree_reads` | is what was read a tree of one moment, and refused for what it is? | 6 inodes, paths of up to 3 names, 2 edits; 33 trees unedited, 3 calls with different limits | 1 540 382 |
| `registry_installs` | are the indexes those of whole packages, whatever was loaded where? | 2 registries, 10 packages, 3 loaded at a time, 3 contents of a resource | 15 395 |
| `toolchain_publish` | are images published whole, once, durably, and loaded as locked? | 2 publishers, 4 images, 3 contents of a file, 1 crash or power loss, 1 change by others | 158 986 |
| `host_calls` | are answers whole, receipts true, children and threads waited for and calls ended? | pipes of 1 unit, requests of 1 to 3, outputs of 2, limits of 2 and 1; a guest with fuel, one watchdog | 468 068 |
| `plugin_hangs` | is a plugin that hangs killed, without hanging the host? (no: see *Findings*) | requests of 1 and 2 units | |

Bounds and why they are enough:

- `MaxRecords = 3`: no admission starts once three records are stored, which lets
  an admission of two outputs follow one that another record depends on, and a
  storage loss hit either.  Two contents per identity are enough for a collision.
- Three capabilities with up to two inputs and outputs: the smallest graphs with
  shared steps, diamonds, cycles and one capability wired twice.  The cap of the
  search is two, and these graphs have routes well beyond it.
- `MaxInputs = 2`: a request with two values of one kind already is ambiguous.
- `MaxCalls`, `MaxLosses`, `MaxEdits`: two publications and a reader interleave
  fully; one loss strikes between any two steps; one foreign change before and one
  after staging.  Stages are numbered and never collide (the code draws 128 random
  bits, and retries).
- `Capacity = 1` and `MaxOutput = 2`: a request longer than a pipe, output longer
  than a pipe and than its limit, and output of exactly the limit.
- Command requests: good ones, each limit at its bound, beyond it and zero, and
  modules with a start section, a foreign import or of another kind.  The clock has
  three values (not running, running, expired), so the time is up between any two
  steps of the three threads.
- Two edits and a read of up to two files in two directories: one edit to be seen
  and one to hide it, on either side of any look.  Trees are two levels deep, the
  depth at which a directory is finished while another is open.  The unedited trees
  have every kind of object under every name, at and beyond each limit.
- `MaxHeld = 3` facts, of which at most two are passed at a time: two inputs of one
  kind, two routes to one kind, one of them shorter and one with a provider.
- Ten manifests: a base with a dialect, a suite, a capability and an offer; its next
  release; a user of it with a second offer; packages that reach it directly and
  through another package only; one that claims its capability, one that claims a
  value kind of its dialect; two names for one artifact; one that names two
  releases of a dependency; one too large; and a manifest with another content's
  digest.  `MaxLoaded = 3`: the two releases and a package that needs one of them
  can be held while they are installed in either registry in any order.

- Four images: one with a provider and an attester, whose file may be what was
  declared, another build, the provider's own artifact or too long; one that spends
  the whole budget of resources on its first package, three directories deep, and
  nothing on its second; one in an order that does not resolve; and one with a
  resource where another's directory has to be.  The limits are those sums exactly.

Deadlock is checked for the ledger, the planner, the driver, the bootstrap door and
the registry.  It is not for the publisher, the reader, the hosts and the toolchain,
where calls are bounded or one is made and the system then rests.

### What the properties say

*Ledger.* `TypeOK`; `LinksHonoured`: every link that was reported and not given up
by a rebuild resolves to exactly its fact; `SnapshotRoundTrip`: whatever led here,
what is exported rebuilds into itself; `AuthorityEarned`: every record has an
authority its own policy names, for exactly this fact; `AdmissionsAreWhole`: a
decision that enters by admission enters with a record for each output, whatever
collides; only storage that lost records can bring one back without them.

*Planner and doctor.* `RoutesExact`: a selection gives exactly the routes of
`AllRoutes`, up to two, for the inventory installed now; `PlanAcceptsItself`;
`NeedsUnblock`; `DiagnosisExact`: what a report calls unreachable has no route with
any offers, a terminal is called offered exactly when the installed offers lead to
it, and offers for what it lists as lacking would.

*Driver.* `FailuresAreTheHosts`: no failure of linking or admission is left for after
an effect, and an executable of the authoring kit never causes one;
`GroundedInTheRequest`, `AdmittedIsReported` (nothing admitted is hidden by a failure
or a refusal), `AssessedAsSelected`, `NonExecutionExplained` (unreachable, blocked
and refused each mean what they say), `UniqueMeansUnique` (the search by eligible
offers and the validation of explicit selections agree), `SourcesAllOrNothing`,
`EveryRequestAnswered`.

*Bootstrap door.* `LegacyAnswersExact`: unreachable, blocked and failed answers mean
what they say of the declarations and providers there are, in whatever order these
came; providers for the needs of a blocked answer would unblock it.
`FactsAreGrounded`: every fact goes back to those the caller started from, each step
by a registered provider or by a candidate whose unaltered request and content an
independent, admitted attester passed.

*Hosts.* `AnswerIsComplete`, `NoChildLeft` (a call that returns leaves no child that
was not waited for, and no watchdog), `FailuresExplained`, `ReceiptsAreTrue` (a
receipt passes its own validation and says why the guest ended, however the
watchdog is scheduled), `TimedCallsReturn`.

*Publisher.* `ImplementsManagedDirectory`, `NothingTorn` (whatever reaches the disk,
the destination is a whole tree or nothing), `ForeignDataKept`,
`StagesAccountedFor`, `EveryCallReturns`.

*Reader.* `OneMoment`: a read that succeeds returns what the root held at one moment
of the call; a failure that tells a marker tells the one that is there.
`ReadableIsRead`: an unedited tree is read if and only if it is of files and
directories under portable names that do not collide, within every limit.

*Registry.* `LookupsFollowPackages`: every index is the union of what the installed
packages declare, each identity with one owner, so that no refused or replaced
entry is in it; `ReferencesAreDirect`:
in the registry where a package is installed, not the one it was loaded with, its
handles are of installed, exact contents, and each identity it uses is its own or
one of theirs; `BytesAsDeclared`; `ReinstallAccepted`.  Proved without a run of their
own: `LookupsStable` (an answer given once stays), `NoOrphanedOffer` (what the
planner refuses an inventory for) and `DialectsOwnTheirKinds`.

*Toolchain.* `PublishedIffDeployable`: an image that is packed, written, loaded and
installed package by package, under budgets that shrink, is published only if it is
deployable as a whole (dependencies resolve in order, owners are unique, sums are
within the limits, attesters are apart from every offer), and refused only if it is
not; `CreateOnly`: no publication changes what is at a destination, whoever put it
there after the publisher had looked; `ErrorsPublishNothing`: an error is an answer
only while nothing is published; `LossesAreBuried`: what was answered as
synchronized survives a power loss, up to what lies two directories deep in a
package (see *Limits*); `LoadedAsLocked`: however the tree changes during a load,
what it returns has the locked contents, within the limits, and independent
attesters.

### Fairness

- `Derivation`: `WF(Execute)`.  A call in progress is a loop in one thread; the host
  answers, if only with an error.  For `LocalStdioHost` that is what
  `TimedCallsReturn` shows; for a plugin host it holds only once its request is
  written (see *Findings*).
- `LocalPublisher`: `WF(Step(p))` for each process: the scheduler runs it.  Lock
  acquisition needs no more, because calls are bounded: `flock` alone may starve a
  publisher under readers that never cease, and this is not excluded.
- `ProcessHosts`: weak fairness of the host's threads, the watchdog's included, and of
  the clock; none of the artifact or guest, which may stop or loop for ever.  The
  engine stops a guest whose epoch has passed its deadline (`Interrupt`), which is
  fair because compiled code checks the epoch at every loop and call.
- `SourceTreeRead`: `WF(Step \/ LookFails)`, the thread of the caller; no property of
  it is temporal.

## Proofs

`AdmissionLedger_proofs` proves for every set of documents, every digest operators
and every number of records:

| theorem | assumption |
| --- | --- |
| `AlwaysRoundTrips`: `Spec => []SnapshotRoundTrip` | none |
| `AuthorityIsAlwaysEarned`: `Spec => []AuthorityEarned` | none |
| `TypeCorrect`: `Spec => []TypeOK` | none |
| `LinksAreAlwaysHonoured`: `Spec => []LinksHonoured` | `StorageOnlyLoses`: storage invents nothing |
| `DecisionsAreAlwaysComplete`: `Spec => []DecisionsComplete` | `StorageKeepsRecords`: a decision that comes back comes back with its records |
| `AdmissionsAreWholeTheorem`: `Spec => AdmissionsAreWhole` | none |

The argument.  `RoundTrips(ledger)` is inductive by itself: it says identities are
unique in each map and every record's decision, fact and inputs are there, which
is what `CanCommit` tests before anything is stored (`CommitRoundTrips`) and what
`rebuild` tests before it replaces a ledger (`RebuildRoundTrips`).  Each of the
three admissions ends in `commit_admission` or changes nothing
(`DecideRoundTrips` and the lemma per operation).  A ledger that round trips
contains only valid records, and a valid record is earned
(`ValidRecordIsEarned`), which gives `AuthorityIsAlwaysEarned` without any
assumption on storage.  `LinksHonoured` is not inductive: a restart reads a
snapshot that has nothing to do with the present links.  `LinksBacked`
strengthens it: every link is backed by a record of the ledger and every exported
link by one of the saved snapshot.  `WholeDecisions` does the same for
`DecisionsComplete`.  `AdmissionsAreWhole` says of a step what that can say of a state
only under an assumption on storage: what `commit_admission` adds is a decision with
its records, and every other step adds no decision or is a restart.

`PackageRegistry_proofs` proves of every number of registries, every set of
documents and contents, and every limits and bound:

| theorem | |
| --- | --- |
| `InvariantHolds`: `Spec => []IInv` | the inductive invariant |
| `LookupsFollowTheorem`: `Spec => []LookupsFollowPackages` | |
| `LookupsStableTheorem`: `Spec => LookupsStable` | an action property |
| `ReferencesDirectTheorem`: `Spec => []ReferencesAreDirect` | |
| `ReinstallTheorem`: `Spec => []ReinstallAccepted` | |
| `NoOrphanTheorem`: `Spec => []NoOrphanedOffer` | |
| `DialectsTheorem`: `Spec => []DialectsOwnTheirKinds` | |
| `BytesTheorem`: `Spec => []BytesAsDeclared` | from `BytesInvariant` |

They rest on the assumptions of `PackageRegistry`: a parsed manifest has lists
of the declared shape and sizes that are numbers (`DocumentsParse`), a limit is a
number (`LimitsAreNumbers`), and two contents have two digests
(`DigestsDiffer`; unlike the ledger, the registry keeps nothing to compare contents
by).  The argument.  A set that is strictly sorted names each identity once
(`SortedIsInjective`), so what one manifest exports is unique (`ExportsAreUnique`);
this and the owner check make an insertion replace nothing (`NothingReplaced`), so
the indexes stay the unions of the packages (`PublishingIndexes`).  Exact
dependencies with equal digests are equal manifests (`SameDigestSameManifest`), so
a reference that an installed owner answers is answered by a captured handle
(`ValidMeansDirect`); and since packages are never removed that stays true
(`DirectIsMonotone`).  `IInv` adds to the properties what a package carries from its
load to its installation (`PackageOK`): manifest, captured handles, offers and
resources agree.  `ReinstallTheorem` needs it, because the second validation reads
the loaded copy and the registry in turn.  `BytesInvariant` adds the load in progress:
what was copied so far is the declared bytes of the first declarations, and the
manifest was within the limits when it was read.  The limit is a sum over the
list of declarations, the property a sum over the set of resources; they agree
because strict sorting makes the declarations distinct.

`DataTheorems` has what these proofs and those of the toolchain need to know of the
folds of the community modules.  A fold is a function that calls itself, chosen by
`CHOOSE`: that there is one is proved by the cardinality of a set of units, `w[x]` of
them for each `x` (`SumIsUnits`), so sums inherit what the library proves of
cardinalities (`ReachedWeighsNoMore`: a smaller set weighs no more).  Where an induction is
needed it is by a least counterexample (`LeastNumber`, `LeastSubset`), for the
library's induction theorems take an operator.  The same module has sorting by
`CHOOSE`, flattening, and the first and last parts of a sequence.

`ToolchainImage_proofs` proves of every number of publishers and every set of
images, limits and bounds, assuming that the name of other programs is no
publisher's (`OthersDoNotPublish`), that recipes are lists of packages whose parts
are what the Rust types make them, with paths that are not empty and file names that have an
order (`RecipesAreOfParts`), and that a limit is a number (`LimitsAreNumbers`):

| theorem | |
| --- | --- |
| `Invariant`: `Spec => []IInv` | the inductive invariant |
| `ErrorsPublishNothingTheorem`: `Spec => []ErrorsPublishNothing` | |
| `CreateOnlyTheorem`: `Spec => CreateOnly` | an action property |
| `LoadedAsLockedTheorem`: `Spec => []LoadedAsLocked` | from `LoadInv` |
| `LossesTheorem`: `Spec => []LossesAreBuried` | from `LossInv` |

`ErrorsPublishNothing` speaks of calls that have ended; `IInv` says of every
publisher whose image is at the destination that its call is past the rename and, if
ended, was answered with a durability or crashed (`PublishersKnow`).  Every step
before the rename is private (`StagingIsPrivate`): the publisher is not past it, so
nothing at the destination is its own, and the destination stays
(`PrivateOK`).  `CreateOnly` needs the counters (`StepCounts`) to tell the steps of
others apart.

`LoadInv` follows a load entry by entry, over a tree that others may change between
any two: the packages so far are those of the first entries of the lock, their bytes are
the declared ones, and what they spent is the sum over the set of packages, which
are distinct because the lock's are.  An attester's bytes are then found by name in
the registry, and no offer has them.

`LossInv` says of a call that is staging that every node it has created is durable, or
will be by one of the calls it has still to make, or is inside a directory that is
inside a directory of its package (`Staged`); that a call which has answered
`synchronized` is the one at the destination (`Reported`); and that what is gone from a
published tree, or could go, is buried (`Keeps`).  The remaining calls are
described by `Settles`: whatever a call of the rest creates, the rest
also synchronizes, or it is buried.  It holds of the calls of one resource
(`ResourceSettles`), of a flattened list of them, and of a whole package
(`WritesSettle`).

`ProcessHosts_proofs` proves of every capacity, limit, request and length of output,
assuming only that the profile bounds both outputs by numbers (`ProfileBounds`):

| theorem | |
| --- | --- |
| `Invariant`: `Spec => []IInv` | the inductive invariant |
| `NoChildLeftTheorem`: `Spec => []NoChildLeft` | |
| `ReceiptsAreTrueTheorem`: `Spec => []ReceiptsAreTrue` | |

Both properties speak of calls that have returned.  `IInv` says where in a call they
become true.  For a child (`Child`, `Stdio`): every way from the spawn to the return
goes through `wait` or through `kill` and `reap`, and only a child that has ended is
waited for.  For a guest (`Watched`, `Timed`, `Called`): a call is classified only when
its watchdog has ended, so `timed_out` no longer changes (`Receipted`); the flag is set
and the epoch moves only when the time is up, so an interrupted guest was out
of time; and a guest that ends late is seen to, for the clock is looked at
after the call has returned.  Dropping that look breaks `Called` and the property.
`Turns` keeps the hosts apart, so a step of one leaves the parts of the others
(`CommandUntouched`, `OthersUntouched`).

The second half of the module goes on to the contents of pipes, assuming besides that
requests and limits are numbers (`Lengths`, `PluginLengths`):

| theorem | |
| --- | --- |
| `Accounts`: `Spec => []PipeInv` | the inductive invariant |
| `AnswersAreComplete`: `Spec => []AnswerIsComplete` | |
| `FailuresAreExplained`: `Spec => []FailuresExplained` | |

`PipeInv` is an account (`Accounted`): what a host has read of an output and what is
left in its pipe is what was written to it.  When the host has seen the end of an
output nobody holds it for writing and its pipe is empty, and both stay so, since a
descendant only inherits ends that its parent holds (`AtEnd`); so at the answer,
which waits for both ends, the whole request and the status, the account
says that everything was read.  The same account explains the
failures: more read than the limit is more written than the limit.

`LocalPublisher_proofs` proves of every set of processes, requests and foreign trees,
and every number of calls, losses and edits, without an assumption:

| theorem | |
| --- | --- |
| `Invariance`: `Spec => []Inv` | the inductive invariant |
| `DestinationIsWhole`: `Spec => []NothingTorn` | |
| `OthersAreSafe`: `Spec => []ForeignDataKept` | |
| `NoStageIsForgotten`: `Spec => []StagesAccountedFor` | |

`Inv` follows a publication through the lock.  Whoever publishes is alone (`Exclusive`),
so what it knows stays true between two of its steps: its stage is at the name it
was given and at no destination of the disk (`StageOK`), and once filled it is the
complete tree, synced (`Filled`).  A publication that is about to exchange has looked
a last time, and if what is there then is foreign it is a clean tree (`LastLook`).
Three more parts hold as long as nobody ignores the lock: every
destination the disk may have is whole and synced (`WholeOnDisk`), what a call saw is
still there when it commits (`SeenStands`), and a retired tree is taken apart only when
every directory the disk may have has the new one (`RetiredIsGone`).  Without the last
one `NothingTorn` is not inductive: a loss during the removal would bring
back half a tree.

The end of the module proves that the publishers implement `ManagedDirectory`:

| theorem | assumption |
| --- | --- |
| `PublishersImplementTheDirectory`: `Spec /\ [](spent.edits = 0) => ImplementsManagedDirectory` | none |
| `Refinement`: `Spec => ImplementsManagedDirectory` | `MaxEdits = 0` |

Initial states map to initial states, and each step from a state of `Inv` to a step
of `ManagedDirectory` or to none (`NothingSeen`).  The mapping shows a tree by its
marker and a call by how far its answer is settled.  A publication takes effect at
`CommitCreate` or `CommitExchange`, where the directory shows another tree; a check,
diff or snapshot at the inspection it answers from; a power loss chooses
one of the directories the disk may have, and `WholeOnDisk` says that each shows a
tree that was published.  Both halves concern programs that keep the lock:
with edits by others a call may answer with a conflict that no atomic call gives.

`SourceTreeRead_proofs` proves of all names, every bound on the length of paths, all file
systems of that depth, every request and every number of edits, assuming that the root is
an inode (`RootIsAnInode`), the bound a number (`DepthIsNumber`), and what a call may find
a file system (`StartsAreFileSystems`); the second theorem needs besides that names are
listed in order (`NamesAreListed`), sizes are numbers (`SizesAreNumbers`) and limits are
positive (`LimitsArePositive`), which the code tests:

| theorem | |
| --- | --- |
| `ReadsOneMoment`: `Spec => []OneMoment` | from `Inv` |
| `ReadsTheReadable`: `Spec => []ReadableIsRead` | from `Inv /\ ExactInv` |

The reader never has the tree before it at once; it has stamps.  `Inv` therefore
says what it knows as a conditional: if an object has the stamp it was seen with, it is
what was read (`HoldsFile`), it is the entry under whose name it was reached
(`EntryOf`), and every name of a directory that was passed was recorded as
a file, a directory or the marker (`Walked`).  An edit gives what it touches a new
stamp, so no edit makes such a conditional false (`EditedKnows`); that each edit leaves a
file system is proved of `Write`, `Unlink`, `Put` and `Move` in turn.  The moment
that is returned is that of `ValidateMarker`: `WasHeld` keeps the file system of then as
a constant, and since stamps only grow, an object found with its stamp later had
it then (`StoodThen`).  When nothing is left to look at, all conditions hold of that one
file system (`AllWasSeen`), and an induction over its levels, by a least
counterexample, says that what was read is its tree (`WhatStandsIsHeld`).

`ReadableIsRead` has to say why a call failed, of counts and sums too.  `ExactInv` says
nothing of a call that was edited (`EditExactly`).  Of any other, all that was seen stands
(`Undisturbed`), and what was counted is within the limits (`Within`) and counted once
(`Apart`: no two files of the list, and no two directories, have the same path;
`Listed`: what was listed is under a name that was taken).  Each path is one
place of the tree (`Places`), so what was read is part of the tree, and by the
cardinalities and sums of finite sets no count exceeds the tree's.  Hence whoever refuses
one more entry, file, directory or byte refuses a tree that has as many (`OneFileMore`,
`OneDirectoryMore`), and refuses a name or a kind that is in the tree (`Blames`); and the
call that returns has read a tree whose every path was counted (`Answers`).

`Derivation_proofs` proves of all packages, requests, policies, attesters and
hosts, whatever the hosts answer:

| theorem | assumption |
| --- | --- |
| `SourcesAllOrNothingTheorem`: `Spec => []SourcesAllOrNothing` | none |
| `AdmittedIsReportedTheorem`: `Spec => []AdmittedIsReported` | none |
| `AssessedAsSelectedTheorem`: `Spec => []AssessedAsSelected` | none |
| `GroundedInTheRequestTheorem`: `Spec => []GroundedInTheRequest` | none |
| `FailuresAreTheHostsTheorem`: `Spec => []FailuresAreTheHosts` | `DigestsTellApart` |

All rest on the assumptions of `Derivation` about packages: an inventory has finitely
many capabilities, each with an output, and an offer names the capability it is
for (`FacadesAssumption`); a host has finitely many sources (`SourcesAssumption`).
Nothing is used of the search but that every route it hands out passes
`validate_route`: the theorems would survive another search.

`DerivationInv` follows a request.  What it was given, and the selection it was prepared
with, stay as they were found (`Selecting`): the route is valid, the policy accepts the
offer and the attester of each step, and the inputs are in the ledger.  All it has added
is in its report, and each step it has taken has a record for every output of its
capability, made by the selected offer and assessed by the selected attester or, where
the policy accepts the offer, by none (`Producing`).  The invocation that is with the host
is the one of the present step, with inputs of the request or of those steps (`LinkedTo`).
A valid route has a capability once, so what an earlier step recorded is not of the
present one, and a link that finds a record of an earlier step need not look elsewhere:
what is produced is grounded.  No refusal of a policy is left for the time
when there are records, so whatever fails then reports them.  `SourcesAllOrNothing`
follows the fold over the list of observations on a copy of the ledger (`Stages`).

`FailureInv` is needed besides to show that what the driver itself does never fails.
Every document of the ledger has the identity that its content derives (`Sound`), the
policy is valid, what preflight found stays true while the host is asked
(`Preflighted`), and the candidate under assessment is one for the invocation that was
made.  Then every input that linking looks for is found, and a decision that is
committed collides with nothing.  That is where no two contents may share an identity
(`DigestsTellApart`, what the code relies on SHA-256 for); the ledger by itself is
checked and proved with identities that collide.

The second half of the module is about `Planner`, for all inventories of finitely many
capabilities and goals that are a kind or an output (`InventoriesAssumption`):

| theorem | |
| --- | --- |
| `PlanAcceptsItselfTheorem`: `PlannerSpec => []PlanAcceptsItself` | |
| `NeedsUnblockTheorem`: `PlannerSpec => []NeedsUnblock` | |
| `DiagnosisExactTheorem`: `PlannerSpec => []DiagnosisExact` | |

The state is simple (`PlannerInv`: the plan that is kept was made by this planner over
some inventory); what has to be shown is about graphs.  The code's loops go on until nothing
changes.  As many rounds as there are capabilities are enough, and then a loop has found
the least set that is closed under its step (`IterationSaturates`, by the cardinality of what
it has found).  So forward reachability is the least set closed under enabling
(`ForwardIsLeast`), the slice the least one that supplies itself (`RelevantIsLeast`),
and each claim is a comparison of least sets:

- a slice reaches itself: the set of those that are reached by the whole graph and, if
  relevant, by the slice, is closed under enabling (`SliceReachesItself`); so every plan that
  is made passes its own validation (`PlansAreMade`);
- the blocked nodes have the producers of all they take and cannot have
  (`BlockedNodesAreClosed`), so once each has an offer, what reached the slice reaches them
  (`OffersUnblock`);
- there is a route to a kind exactly when it can be reached (`RoutesReachTheKind`).
  `AllRoutes` asks for a well founded wiring of steps.  A largest set of capabilities
  that can be so wired is all that can be reached, since one more enabled capability
  could be wired on top (`WiringExtends`, `ReachableIsWired`), and a route is cut out of
  it by taking away what its target does not need (`RouteFromWiring`).  Conversely a
  capability of a route that could not be reached would be in a set without a first one
  (`WiredIsReached`).  The doctor's passes end in the same set (`DoctorFindsTheOffered`).

This compares the planner with `AllRoutes`, and says nothing of the search, which is left
to `RoutesExact`.

Only model-checked:

- `RoutesExact`, `NonExecutionExplained` and `UniqueMeansUnique`, which
  compare the search of `derive_value`, capped at two at every level, with the set of all
  routes: an induction over the depth of the search, and over the routes below each level;
- `LegacyAnswersExact` and `FactsAreGrounded`: `CapabilityRegistry` has recursive
  operators, over which the prover has no SMT backend;
- `PublishedIffDeployable`, whose second half says that a load of what was just
  written succeeds whenever the definition of a deployable image holds: a fold over
  sessions on both sides;
- `EveryCallReturns`, `TimedCallsReturn`, `EveryRequestAnswered`: liveness under fairness.

Reasoning about the models has changed a few of them.  A package's file is created
only under a directory, and a call that would put it under a file is refused
(`Write`); a manifest and a lock are what a parser accepts, with sizes that are numbers
(`IsManifest`, `ValidLock`), where before any record would do.  The directories a read may
find are created at any level that has room, where before only the root took new ones,
and the names left of a directory are a set of which the first is taken;
its sums are those of the library, and its limits are numbers, with names that are
listed.  The search for
routes is a function of what may be sought, selected and visited, where it was a recursive operator; a
route is valid only if it names exactly the inputs of each step, where before their
number sufficed; and the specifications of an inventory declare an output each.
`(UNION S) \ T` and `(SUBSET S) \ T` are written with parentheses, for the prover reads
the prefix operators as weaker than the model checker does.

## Findings

1. **`UniqueOnly` with a capability that returns what it takes** (`derivation_echo`).
   `derive_value` (`gooir-planning/src/lib.rs:1635`) returns an initial kind as the
   only source of that kind, while the validation of an explicit route accepts a
   derived one.  Decision 0034 says `UniqueOnly` proceeds if and only if exactly
   one eligible selection exists; here it proceeds though two do.
2. **A plugin that does not read hangs the host** (`plugin_hangs`).  The request is
   written with a blocking `write_all` (`gooir-plugin-process/src/lib.rs:226`)
   before the timeout starts; comment and decision 0019 say a hung plugin must not
   hang the host.  It takes a request longer than a pipe.
3. **A plugin that takes too long is not killed** (`plugin_hangs`, the same property):
   the code abandons it, decision 0019 and the comment on `DEFAULT_TIMEOUT` say
   killed.

Noticed, and not made a run: `ContentSetError::DuplicatePath` is never returned,
because equal paths are refused by the test of the order first; and the bootstrap
door answers `Failed` also for a partial input, where the documentation of the variant
(`gooir-capability/src/lib.rs:976`) speaks of a provider that failed.

## Limits of the models

- JSON, canonical bytes, identity syntax, extension maps, limits in bytes, wording
  of errors and file modes are abstracted: a document is a record, an identity is
  what a digest operator makes of its content.
- In `LocalPublisher` an inspection of the destination is the tree of one moment.
  `source.rs` takes the state of every directory and file again after it has read
  them all; that this suffices is what `SourceTreeRead` shows, for edits that leave a
  trace in size, links or times.
- In `SourceTreeRead` every edit stamps what it touches anew: times as coarse as two
  edits of equal size would hide one.  Directories are created wherever a path stays
  within `Depth`, replaced and removed, but not moved.
- In `CommandRuntime` memory, instances, tables and the digests in a receipt are left
  out; output is counted in units, and a guest that is refused output may go on.
- The bootstrap registry's traces, JSON Schemas and pack files are left out, and its
  digests are the contents they are of.
- A foreign change after a publisher's last look and before its exchange is
  swapped out unseen.  `ForeignDataKept` says so (`Committing`); the artifact SDK's
  documentation excludes such programs too.
- A crash leaves its stage behind, and no code removes it later;
  `StagesAccountedFor` counts it as known.
- Paths, media types and extension maps of packages are left out:
  offers that differ only in their extensions are one offer here.  Opening a file
  without following links is one read that may return anything or fail.
- `write_package` synchronizes the directory a resource is in and the root of its
  package, not those between: the entry of a directory inside another one is never
  synchronized, and a power loss after an answer that says synchronized may take it
  with the resources in it (a load then refuses the image).  The documentation of
  `PublicationDurability` claims no more than the file system gives, so this is no
  finding; `LossesAreBuried` says exactly how far it goes.
- A toolchain lock that is not canonical or has another digest than its own is no
  lock; its limit in bytes is left out.  A file's bytes are synchronized when it is
  created, so only its entry can be lost.
- `kill` and `wait` on an own child are taken to succeed, and the artifact of an
  offer is found in the registry the host copied when it was made.
- A timeout may be reported for an artifact that had answered in time: the host
  looks at the clock first.  No property says otherwise.

Not modelled: the components marked so in `PROJECT.json`, each with its reason.

- `gooir-identity` and `strict_json.rs`: lexical rules and a parser, sequential and
  without state; every module takes identities and documents as values.
- The rest of `gooir-cli`: arguments, files and printing around modelled calls.
- Typed decoding and encoding in `gooir-provider`, artifact contracts and media
  types in `gooir-artifact-sdk`, manifests of plugins: data.
- The lifters, the sample lifter and the Python kit: transformations outside the core.

## Plan

Done, in this order: the ledger and its proofs; planning against the reference
definition; the derivation facade over the ledger and the planner; the publisher
and its abstract specification; the process hosts; the package registry and its
proofs; the toolchain and its first proofs; the command runtime and the
proofs about the process hosts; the source tree reader; the authoring kit; the doctor;
the bootstrap registry.

Then the proofs about the publisher, with its refinement; about what the hosts read
and write; about what a registry and a toolchain hold and lose; about the reader, and
what it refuses; about
requests and their failures; and about plans, blocked answers and diagnoses.

Next, models: a publisher whose inspection is the reader's steps, for one process; a
read of a managed tree while a publisher exchanges it.

Next, proofs:

1. `PublishedIffDeployable`: the load of a staged tree, one fold step at a time.
2. `RoutesExact`, by the depth of the search; `UniqueMeansUnique` follows from it.

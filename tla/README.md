# A verification project for jails

jails generates and regenerates Spring/Micronaut projects from a model,
`.jails/model.jdl`, over files the reader keeps editing. Three parts of it keep
state that several actors share, and they are what this directory models in
TLA+, checks with TLC on small instances, and proves properties of with TLAPS
for instances of any size:

* **what happens to the project's files**: a plan is made from a reading of the
  project, possibly reviewed, and applied later, file by file, by a program that
  has no rollback and may be stopped anywhere, beside other jails processes and
  beside an editor;
* **the warm test engine**: jails processes that start, share and stop a daemon
  over two files nothing locks and a socket;
* **the concurrent programs jails generates**: the durable job, the
  transactional outbox and the HTTP workflow, whose workers lease rows of
  PostgreSQL tables in every process of an application. Their templates are
  part of jails, and what they promise is said in jails' own documents.

    tlc -workers 2 -config MCRefinement.cfg MCRefinement     # a run
    tlapm ExecutorProofs.tla                                 # the proofs of a module

`PROJECT.json` lists the components, the runs, the lines each definition
translates, the hazards and the theorems.

## 1. The system

### The pipeline of one command

    edit .jails/model.jdl in memory
      -> capture        read the project: files, directories, migrations, lock     (no lock held)
      -> compile        model + snapshot -> rendered texts, schema steps           (pure)
      -> materialize    reconcile every artifact, order the operations: a PlanBundle
      -> execute        under .jails/apply.lock: sweep, recheck, probe, publish, verify
      -> remember       keep the applied bundle for `jails undo`                   (lock released)
      -> follow-ups     format and advance the merge base, start compose, ...      (no lock held)

A bundle is self-contained: preconditions (`base`, directory observations),
operations with before- and after-images, and the blobs. `--plan-out` writes it
to a file and `--plan-in` / `model apply` executes it, at any time and as often
as one likes.

### One test through the warm engine

    metadata fits? -> hello -> snapshot of the outputs -> run -> report
      else: stop what is there -> remove socket and metadata -> start a JVM
            -> write metadata -> knock until it answers, or the start times out

### One command through the generated queue and outbox

    enqueue -> worker leases the row -> recovery check -> the command's transaction:
               row and staged event commit together -> acknowledge
    relay leases a batch of events -> sink by sink: deliver, record -> succeed, or retry

### Inventory

| Component | State | Operations | Interacts through |
|---|---|---|---|
| **Executor** `jails-workspace/execute.rs` | the project tree; staged files; `apply.lock`; its place in the plan | lock, `sweep_staged`, `verify_preconditions`, `preflight_writable`, the five operation kinds, `verify_after`; failpoints | the tree, shared with other executors, with the editor, with capture |
| **Formatting follow-up** `execute.rs:793`, `main.rs` `fmt` | the merge base and the lock file | reformat, write the base of each file that changed, write the lock | writes the tree *without* the lock, from an older capture |
| **Reconciliation** `reconcile.rs`, `merge.rs` | none (a function of BASE, OURS, THEIRS) | `trees`, `reconcile_artifact`, `three_way` | called by materialize |
| **Materializer** `materialize.rs`, `materialize/` | none | operations and their order, migration numbers, sealing, restoring, strays, next lock | reads the snapshot, writes the bundle |
| **Capture** `jails-project/capture.rs`, `capture/lock.rs` | none | observe files and directories, read the accepted state, check the merge base | reads the tree while anybody may write it |
| **Generation commands** `model_generate.rs`, `model_command.rs` | the model file as the command found it | generate, `sync`, `entity repair`, `model apply` | capture, compile, materialize, execute |
| **Undo** `invert.rs`, `undo.rs` | `.jails/run/last-plan.json` | remember, invert, execute, forget | the executor |
| **Warm test daemon** `templates/testd`, `jails-drive/testd` | the socket's path, the metadata file, each JVM's active run, a generation count | hello, run, cancel, stop; recycle, idle exit; client start, stop, restart, timeouts | the two files and sockets, between any number of clients and daemons |
| **Generated durable job** `templates/spring/durable_*`, `sql/durable_job.sql` | the queue table; what each worker holds | enqueue, claim, recovery check, execute, succeed, fail; leases | the table; the command's transaction; the outbox |
| **Generated outbox** `templates/spring/outbox_*`, `sql/outbox.sql` | the staged table; what each relay has leased and where in its batch it is | stage, claim a batch, deliver, record, succeed, fail; leases | the command's transaction; the sinks; one scheduler with the job's worker |
| **Generated HTTP workflow** `http_workflow_java.java`, `sql/http_workflow.sql` | the run's row, the frontier, the page ledger | start, cancel, claim, fetch, complete, fail, finish; leases | the tables, between workers of all processes and callers |
| **Reader documents** `reader_facet.rs` | marked slices of build files and properties | merge a slice, patch the document | one more reconciliation, by slice |
| **Relocate** `relocate.rs` | the managed tree's directory | move a tree, lock first and base after | the executor |
| **Generated idempotency guard, presence, SSE hub, Kafka listener** | a receipt, an expiring key, a list of emitters | claim and complete; touch; register and send | a store or a library |
| **Affected tests** `jails-drive/affected*` | epochs of source and class digests | record, compare | read by the test command |
| **Compiler, emitters** | none | model + snapshot to text | pure |
| **JDL parser, linker, edits** | none | text to model | pure |
| **`jails new`**, **LSP/MCP/completion**, **run/build/compose/codemod**, **reports** | little of their own | creation of a fresh directory; request and answer; child processes; wording | - |

### What is hard here

* **Crash.** Publishing is a sequence of renames with no undo log. The design's
  claim is convergence instead of rollback: the interrupted plan is still
  applicable, and the lock, published last, marks acceptance. Whether the
  preconditions really accept every half-finished tree depends on five kinds of
  operation, on directories that a plan itself fills and on leftovers of dead
  runs.
* **Interleaving.** Only `execute` holds the lock. Everything that decides
  *what* will be written happened before, from a reading anybody may have made
  stale; two plans made from one reading may both be waiting for the lock. An
  editor never takes it.
* **Sequences.** A hand edit has to survive every later merge, rename, ejection
  and drop. That rests on BASE being what was *rendered*, never what was merged:
  one wrong image and an edit becomes generated text one command later.
* **Two files that must agree.** The merge base and the lock that holds its
  digests are published one after the other; so are the daemon's socket and the
  metadata that names it, by processes that do not wait for each other.
* **Migrations** are appended, never rewritten; their number is chosen while
  planning, from a listing of a directory. Two kinds of them share the numbers:
  what jails derived is sealed, what the reader asked for must not be.
* **Leases run out under workers that are still alive.** What such a worker
  acknowledges, fails or completes afterwards is checked against the row's
  state, not against who holds it.
* **The effect and the report of it are two commits.** A process may die, or the
  command may raise, after the first; the retry must find that out, also when
  there is no attempt left.
* **A daemon others rely on may leave at any moment**: recycled, idle, stopped,
  crashed, or stranded by a client that removed its socket.

What should hold of each modelled component is stated as the properties of its
module (section 4); `PROJECT.json` lists every hazard at its line with the
properties that watch it, and, where there is none yet, why.

## 2. The modules

| Module | Models | How it corresponds to the code |
|---|---|---|
| `PlanBundle` | what a bundle is and when a tree admits it | `verify_preconditions`, `directory_is_plan_prefix`, `desired_files`, `removed_files`, `verify_after` |
| `Executor` | `execute`, by several processes beside an editor | one action per step between two file operations; `pc` is the place in `execute` |
| `AtomicApply` | what the executor promises | the abstract specification: whole plans, one at a time |
| `ExecutorRefinement` | that the first implements the second | a history variable `seen` and `INSTANCE AtomicApply WITH ...` |
| `Invert` | `invert`: the bundle `jails undo` executes | operations reversed and swapped |
| `Reconcile` | `reconcile_artifact` and `three_way` | the match table as five operators |
| `ManagedFile` | one file through one generation | publish the verdict, then accept THEIRS as BASE |
| `Planner` | capture and materialize: which bundle a command makes of a tree | `Observed`, `Materialized`; one operator per operation the plan may have |
| `Pipeline` | commands: `Plan` without the lock, `Apply` = the executor's steps, and a reader who types and deletes | composes `Executor` and `Planner` |
| `Format` | `jails fmt` and the format follow-up | composes with `Pipeline`; the base file by file, then the lock, no `apply.lock` |
| `Undo` | `jails undo`: `remember`, the inverse, `forget`, and the formatting a command ends with | composes `Format` and `Invert`; `tail` is what a process has yet to do after `execute` |
| `Claims` | that the same command converges, which it does not | the run `wedge` refutes it |
| `TestDaemon` | clients and daemons of the warm test engine | one action per step between two file or socket operations; `pc` is the client's place in `client.rs`, `life` the daemon's in `main` |
| `WarmTests` | what the engine promises a client | the abstract specification: a report is of a run begun on the client's own snapshot |
| `DurableJob` | the generated queue and its workers | one action per transaction or statement of the store |
| `Outbox` | the generated outbox and its relays | the same; a relay's batch is a sequence, `hop` its place in the sink chain |
| `Delivery` | a durable job whose command delivers through an outbox | composes the two: one transaction executes the command and stages its event; worker and relay of a process share its scheduler |
| `Promises` | what both together promise | the abstract specification: done once, told, reported, announced |
| `Workflow` | one run of the generated HTTP workflow | one action per transaction; `cancel`, which is two, takes two |
| `Traversal` | what a workflow promises of a run | the abstract specification: pages scheduled, visited, counted; how a run ends |
| `ExecutorProofs`, `PipelineProofs`, `ManagedFileProofs`, `TestDaemonProofs`, `DurableJobProofs`, `OutboxProofs`, `DeliveryProofs`, `WorkflowProofs` | the theorems | section 5 |
| `MCExecutor`, `MCRefinement`, `MCManagedFile`, `MCPipeline`, `MCUndo`, `MCTestDaemon`, `MCDelivery`, `MCWorkflow` | the instances TLC explores | section 4 |

    PlanBundle <- Executor <- ExecutorRefinement -> AtomicApply
               <- Invert        ^
    Reconcile  <- Planner <- Pipeline (Executor + Planner) <- Claims
               <- ManagedFile            ^
                                       Format <- Undo (Format + Invert)

    TestDaemon -> WarmTests
    DurableJob, Outbox <- Delivery -> Promises
    Workflow -> Traversal

(`<-` is "used by", `->` "implements".)

**State of the executor.** `disk` maps every project path to an image or `Absent`; an image is
content together with mode. `made` holds the directories that exist and `debris`
those in which a dead run left a staged file. `holder` is `apply.lock`; it is an
open file of its process, so every way of leaving `execute`, a dead process
included, gives it back (`Leave`). Each process has `pc`, its bundle `job`, the
operation it is `at`, what is `left` of it, and the directory `temp` of a live
staged file that is to become `aim`. `foreign` is history: which paths somebody
else has changed since this process found its plan admitted. It is what lets a
property say "unless someone else moved it" without saying "never".

**Actions of the executor**, in the order of the code: `Begin` / `Rerun` (the
same bundle again, which is what `model apply` on a plan file does), `Acquire`,
`Sweep`, `Admit` or `Refuse`, `Probe` and `DropProbe` for every directory,
`StartOperations`, and for each path of an operation `SkipWrite`, or `Stage` and
`Persist`, or `RemoveRetired`; `NextOperation`, `FinishOperations`, `Verify`.
`Fail` is an error anywhere under the lock: it unwinds, so the staged file is
dropped. `Abort` is a death: the staged file stays. They are the two ways the
repository's own failpoints (`fault.rs`) stop a run, but here a run may stop
between any two steps and not at the named points only. `Edit` is the editor.

**Texts.** A managed file is what it holds in each of its regions, a region being
the lines `git merge-file` settles as one hunk; a merge conflicts when both
sides changed one region, and not to the same text.

**Migrations.** A migration is the schema it starts from and the one it leaves,
so a property can say that the published ones form a chain. `Slot` gives its
path for every number, as the file name does in the code: two migrations with
one number have different names and do not collide on disk. Those in `Authored`
are not derived: `jails g migration` (`model_migration.rs`) declares nothing and
adds one to its plan, after the derived ones (`Drafted`), with a comment for the
reader to fill in. It takes a number like any other, but no lock seals it
(`materialize.rs:452`), so only `Sealable` ones are ever in `SealedAfter`.

**The warm test engine.** `sock` is the daemon whose socket is at the path, dead
or alive; `meta` the daemon and classpath the metadata names; `outputs` the
compiled classes. A daemon has its `life` (`starting`, `binding`, `warming`,
`serving`, `leaving`, `gone`), its active `run` and the requests it has not read
yet of clients that `left`. A client has its `pc`, its `goal`, the classpath it
`asked` for, the cookie (`key`) it sends, its `snap` of the outputs and its
`line`, the one connection it has open and what came of it. `Ensure`, `Quit`,
`ClearSocket`, `ClearMeta`, `Spawn`, `WriteMeta`, `Knock`, `Ask`, `Send` and
`Report` are the steps of `client.rs`, each a place where another client may
come in between; `Unbind` and `Bind` the two steps by which a daemon takes the
path over; `AcceptRun`, `Verified`, `RefuseStale` and `RefuseOutdated`, `Finish*`
a run's life; `IdleExit` removes whatever socket is at the path, and so does
`BindFailed`: a daemon that finds the path taken throws out of `bind`, and the
`finally` around it deletes the socket of the daemon that has it. `Kill`, `Crash`, `RunTooLong`,
`TimedOut` and `AnswerTooLate` are what goes wrong, `Recompile` another compiler.

**The generated queues.** `job` and `staged` map an id to its row or `None`; a row
has its state, attempts and whether it is `waiting`, for its next attempt or for
its lease to run out. `at`/`step` is where a worker is between two statements,
`claim`/`batch` what it has leased, with the attempt that is. `effects` counts
the rows the command has written, `sent` the attempts that brought an event to a
sink: they are what an observer outside sees, and no action's guard reads them
but the recovery check and the key constraint. Whatever goes wrong is counted in
`mishaps`, by kind where a property tells the kinds apart. In `Workflow`,
`status`, `rules`, `pages` and `visited` are the run's row and ledger,
`frontier` its rows by URL, robots.txt's among them, and `canceller` the caller
between the two statements of `cancel`.

### Abstractions

Of the project writer:

* The preconditions are checked in one step. They are a sequence of reads in the
  code, under the lock; an edit between two of them is, to the plan, an edit
  before or after all of them.
* A capture is one atomic reading and `Plan` is capture, compile and materialize
  together. What may change after the capture and before the application is all
  there; what may change during the capture is not.
* Directories are flat: every path has one parent, and `remove_empty_ancestors`
  takes one level. An absent and an empty directory are one observation.
* The order of the paths within one tree, and among the migrations restored in
  one go, is left open; the code has one (path order). Restored migrations and
  stray merge-base files are several operations in the code and one here.
* The lock file is one image holding the model, the accepted projection and the
  sealed migrations. Digests are the texts themselves. One compiler version.
* A staged file in a merge-base directory is not captured as a stray.
* `.jails/.gitignore`, which `execute` writes after verification, is in no plan.
* `jails fmt` reformats in one external step (`Tidy`), and writes each file
  whole; `std::fs::write` could tear one.
* The reader's filling-in of a migration of `g migration` is no step of the model:
  nothing that a plan decides reads what the file says. A plan that was made
  before and is applied after it is stale, as after any other edit in a guarded
  directory (`project`).
* Left out of `Planner`: document intents and reader facets, adoption of reader
  files at import, lock schemas before v5, migration names that the
  materializer refuses.

Of the warm test engine:

* A daemon's name stands for its JVM and for the cookie it was started with; a
  name nobody refers to any more is free for the next JVM. So the commands are
  unbounded, and `Daemon` bounds the JVMs alive at once.
* Frames are exchanged whole. Every request a client sends has an id of its own,
  so the daemon's cache of completed answers is never hit and is left out.
* The sources are not in the model. `verifyOutputs` refuses a run also when the
  snapshot is unchanged, because it holds no class or a source is newer than all
  of its classes; that may be so at any moment and stay so (`RefuseOutdated`). The
  check of the same kind that the launcher makes before it contacts a daemon
  (`staleness`, `launcher.rs:101`) is a command that does not begin.
* The test run itself is `Verified` and one of the `Finish` actions; which tests
  it selects and what they say is not in the model. `last` stands for the
  recycling after fifty runs or too much memory.
* `testd status` changes nothing and is left out.

Of the generated programs:

* A statement, or a `@Transactional` method, is one step: the store's claims lock
  the rows they take (`for update skip locked`), and `complete` locks the run's
  row first. `cancel` is two statements without a transaction, and two steps.
* The clock is three actions: a wait ends (`FallDue`), a lease nobody works under
  ends (`Lapse`), a lease ends under its worker (`Overrun`, a mishap). Back-off
  is only that a retry waits; the oldest row first is any runnable row.
* An application process has one worker per component and is started again as
  soon as it dies. `Pool` is the number of threads its scheduler runs them on.
* `Minted` is the set of items whose command makes its own key, so that the
  recovery check, which looks the job's id up, cannot find its row.
* A sink takes an event or refuses it, or takes it and raises (`DeliverLate`).
* One workflow run. What a page links to and what the robots policy allows is
  chosen anew for each fetch; the fetcher, the link extractor and the robots
  parser are that choice. Two exceptions the code can meet only through a lock
  conflict in the database are `CompleteRaises` and `FailRaises`.

## 3. Plan

In this order, most important first. Done:

1. `PlanBundle`, `Executor`, with its runs and the proofs of exclusion, safe
   staging and `OldOrNew`.
2. `AtomicApply` and the refinement.
3. `Reconcile`, `ManagedFile` and their proofs.
4. `Planner`, `Pipeline`, `Claims`: commands end to end.
5. `Format`.
6. `Undo`: the kept bundle on disk, composed with everything above.
7. `TestDaemon` with `WarmTests`, its liveness, and `TestDaemonProofs`.
8. `DurableJob`, `Outbox`, their composition `Delivery`, `Promises`, and the
   proofs of each and of the composition, the refinement included.
9. `Workflow` with `Traversal`, and `WorkflowProofs`, the refinement included.
10. `PipelineProofs`: what commands keep of plans, numbers and migrations, of
    what the reader typed, and, with `undo` and the formatter, of the merge base.

To come:

11. `ReaderFacet`: slices of reader documents, over `Reconcile`; a slice never
    changes what is outside its markers.
12. `Relocate`: the one plan that publishes the lock before the merge base.
13. `Affected`: epochs, composed with the daemon.

## 4. What is checked

| Run | Module | Checks |
|---|---|---|
| `project` | `MCRefinement` | `TypeOK`, `OneWriter`, `StagedIsLive`, `OldOrNew`, `RerunAdmitted`, `SweptClean`, `MarkerLast`, `AppliesAtomically` |
| `live` | `MCExecutor` | `LockReleased`, `Converges` |
| `managed_file` | `MCManagedFile` | `TypeOK`, `Converged`, `EditsSurvive` |
| `race` | `MCPipeline` | `PlansWellFormed`, `RerunAdmitted`, `NumbersUnique`, `SchemaChain` |
| `edit` | `MCUndo` | `HandEditKept`, `UndoIsExact`, `SyncHasNothingToDo` |
| `format` | `MCUndo` | `BaseAgrees`, `PublishedIsSealed` |
| `testd` | `MCTestDaemon` | `TypeOK`, `OpenLineIsRun`, `Implements` (of `WarmTests`) |
| `testd_live` | `MCTestDaemon` | `EveryCommandEnds`, `OrphansDie`, `SelfHeals` |
| `delivery` | `MCDelivery` | `TypeOK`, `CrashKeepsDone`, `RetryBounded`, `NoResend`, `DuplicatesAccounted`, `Implements` (of `Promises`), `EverythingEnds` |
| `workflow` | `MCWorkflow` | `TypeOK`, `Bounded`, `CancelSettles`, `Implements` (of `Traversal`), `RunEnds` |
| `wedge` | `MCPipeline` | refutes `SameCommandConverges` |
| `minted` | `MCDelivery` | refutes `EffectOnce` |

**`project`.** A project with a managed class that changes, one that is dropped
and whose package goes with it, the merge base, the model, the lock, and a
guarded migration directory. Two processes hold any two of three bundles: a
generation that uses every kind of operation, a rival planned on the same
project, and the generation's inverse. One run may fail or be aborted anywhere
and anything may be rerun without bound; the editor saves or deletes a managed
class, the plan's future migration or the lock. Two processes are all the lock
can be contended by at once, and a third would only wait. Three of the
properties ask what a unit test does not: `RerunAdmitted` that a half-finished tree is
accepted wherever it was left, `OldOrNew` that nothing of a third party's is
overwritten, `AppliesAtomically` that all this is what a caller would see if
plans were applied whole. Processes are interchangeable, so the run uses their
symmetry.

**`live`.** The same project without the editor, the generation and its rival,
*two* faults. The lock is always given back, and a plan that was admitted and is
run again after each failure is applied in the end, unless the rival has moved
the project under it: no way of stopping it leaves a tree it cannot finish.

**`managed_file`.** Every combination of BASE, OURS and THEIRS over two regions
and three words, every restore mode, ejected or not. Three words are what a
three-way merge can tell apart; two regions are what makes disjoint and
overlapping edits differ.

**`race`.** Two processes plan and apply `add a tag`, `add an index` and `g
migration`, before the index and after it, three plans in all, one fault. The
commands are chosen to collide: each appends a migration, so both take number 2
when they are planned on one history, and `g migration` has one of its own to
append besides the one it may have to derive first. `NumbersUnique` says that one
of two such plans is refused. `SchemaChain` says what the migrations come to: those
the lock seals lead step by step from the empty schema to the accepted one, none
of them twice; no number is left out, the reader's migrations among them; and when
no run was cut short, none that jails derived is published that is not sealed. The
third part is conditional because a run that stops before its lock leaves a
migration nothing seals (`wedge`, below, shows what comes of it), and it is about
derived ones because `g migration` publishes one that no lock ever seals.

**`edit`.** One process, three commands out of generation, drop, rename,
ejection, `g migration`, `sync` and `undo`; the reader types or deletes twice; one fault, which
may also fall between `execute` and what a command does after it, so that an undo
already applied can be met a second time. `HandEditKept`
speaks of what was typed while no plan was being applied: an editor's save in
the middle of publishing can be overwritten, since the preconditions were
checked before (a hazard listed as such, not a property). `jails fmt` is not
among the commands: it takes a hand edit into the merge base (see the end of
this section). `UndoIsExact` says what an applied undo leaves: every
path the plan touched as it was captured. Its second disjunct has two cases. The
run found the first: a file that lies at its path with the content the plan is to
create there, a dead run's or the reader's own, is in no before-image, so undo
removes it. The proof found the other: the before-image of a merge base is what
the accepted projection says it holds, so a leftover base file that no projection
named yet is overwritten and, undone, gone (`Leftover`).

**`format`.** In a project that declares the `format` capability, generations
with the formatting that follows each of them, `undo` and `jails fmt`, one after
the other (`OnItsOwn` in `Undo`): what the formatter does beside a command is
left out here, and is told at the end of this section. When nothing was cut short,
base and lock agree afterwards, every migration on disk that jails derived is
sealed with the content it has, and none that the reader asked for is.

**`testd`.** Two clients, one that asks for tests (with `--timeout`) and one that
stops the daemon, again and again without bound; two JVMs at once, two
classpaths, two states of the outputs, which another compiler may change at any
moment; one fault, which is a JVM that crashes, a client that is killed, or an
answer that comes too late to be read. Two JVMs and two clients are what it
takes to start two daemons, to strand one, and to send a cancel to a run that is
another's. `OpenLineIsRun` is the pairing on which every answer rests; the
refinement says that a report is of one run that began on the very outputs the
client had taken its snapshot of, also when the request it carries was delayed
past a recompilation or reached a daemon another client started. JVMs,
classpaths and outputs are interchangeable.

**`testd_live`.** One client that tests and one that restarts; no crash, but every
time-out, idle exit and race is there, and JUnit may hang for ever.
`EveryCommandEnds`: no exchange waits for ever and no loop of starting and
stopping does. `OrphansDie`: a JVM whose socket was replaced goes by itself.
`SelfHeals`: whatever is left at the two paths, a client that keeps asking is
served again, or one of the things named in `Disturbed` keeps happening: another
command, a recompilation, a time-out of its own, an idle exit under a socket, a
run that ends without a result, or a refusal because a source is newer than the
classes. The last one needs nobody else: a client on its own whose reader has
edited a source and compiles nothing is refused as long as it asks.

**`delivery`.** Two items, two processes, two sinks, batches of two; one attempt for
the job, two for the relay; three enqueues and mishaps together, where a mishap
is a death, an exception after the commit, an error of the database, or a lease
that runs out under its worker. Two items are a batch in which the second waits
for the first; two processes are a lease that is taken over; a single attempt
is the case in which the recovery check is all that is left. `Pool` is 1, which
is what Spring runs with unless it is told otherwise; with 2 the same instance
does not finish in reasonable time, and the proofs hold for any. `EverythingEnds`
does not say how an item ends.

**`workflow`.** A seed whose answer may link to two pages and to robots.txt, or to
one; a page that links back; policies that allow everything or leave one page
out; two workers, limits of two pages, one level and two attempts; two mishaps.
The page limit is below the number of pages, and the depth limit is met by a
page that still has links. `Implements` says nothing scheduled is lost, nothing
is counted twice, and success means all of it was visited.

CHECK_DEADLOCK is FALSE in `managed_file` (a file whose verdict is a refusal
stays as it is), `edit` and `format` (when the commands are used up nothing is
left to do), `delivery`, `minted` and `workflow` (when everything enqueued has
ended, the schedules tick and find nothing, which is no step).

### Bounds

`MaxFaults` (failed or aborted runs; crashes of JVMs and clients), `MaxEdits`
(the editor's changes), `MaxPlans` (plans made), `MaxFormats` (runs of the
formatter), `MaxMishaps` and `Budget` (what goes wrong with a workflow; items
enqueued and mishaps of a delivery together), `Daemon` (JVMs alive at once).
Reruns of a plan, commands of the test engine and what is not a mishap are not
bounded. Each bound is at least what its properties need: a crash and its retry,
an edit in between, two concurrent plans and one after them, a lease that runs
out and the worker that comes back. The properties proved in section 5 hold
without any of them.

### Fairness

*The executor.* `FairSpec` assumes weak fairness of `Work(p)`, the steps a run takes by itself
once it has the lock: it executes straight-line code without waiting for
anybody, so it takes its next step unless it is stopped, which `Fail` and
`Abort` model. Nothing is assumed of `Acquire`, of the editor, or of faults:
`LockReleased` needs `Work` alone. `Converges` is about a user who does not give
up, and says so: `Retried` assumes that a run that ended otherwise than applied
is started again, and that a process that keeps asking for a lock that keeps
becoming free gets it.

*The test engine.* A client that can go on does, and its timers go off; a JVM's
main thread and those of its connections are scheduled. Nothing is assumed of
`Work`, the run itself: JUnit may run for ever. Two fairness conditions are
strong. The timer of a start (`StartTimeout`) runs while the client knocks, and
between knocks it is not looked at. `Spawn` waits for nothing in the code; here
it waits for a free name, which is the bound on JVMs. `SelfHeals` assumes in
addition, as its antecedent, that runs end.

*The generated programs.* `@Scheduled` methods are called again and again, a
fetch is bounded by the fetcher's time-outs, a transaction ends, and time passes:
weak fairness of each worker, each relay and `Time`. No mishap is ever required.

### Where the code does not do what is said of it

The first two are runs; the others were met while modelling, each is in the
model as the code has it, and the properties are stated so as to hold beside it.

Generation:

* **A generation interrupted between the merge base and the lock cannot be
  generated again** (`wedge`). The comment at `materialize.rs:336` says the same
  command converges. It does not: the new base files are not what the old lock
  accepts, and every capture refuses with `workspace-merge-base-edited`.
  Rerunning the *same bundle* does converge (`RerunAdmitted`, `Converges`), so a
  plan kept in a file gets out of it, but a command plans anew. Two other stops
  have the same effect for other reasons, and `SameCommandConverges` fails for
  them too: a rename that stops after its new file is published
  (`workspace-rename-destination-exists`; `Commands <- OnlyRename`), and a first
  generation that stops after its migration
  (`compile-migrations-without-accepted-lock`; `MCFreshSpec`). A fourth is not
  refused: a step that changes the schema and no rendered text, such as an index,
  has no base to disagree, is planned again, and publishes the same step once
  more under the next number (`Commands <- OnlyAddIndex`).
* A plan that restores a sealed migration is stale after its own application:
  only appended migrations are excused by the directory precondition.
* A captured file the plan does not touch may be deleted before it is applied:
  `actual_matches_desired` takes two absences for a match.
* `jails fmt` turns hand edits into generated text, which the next generation
  takes out; and beside a generation it leaves a base and a lock that disagree,
  though nothing was cut short.
* The last command that wrote something may not be undoable. `finish_generation`
  keeps the bundle of every command that returns from `execute`, also of one that
  wrote nothing; a second `jails add` of the same capability takes the place of
  the first, and undo then reverses an empty plan. The command's own formatting
  follow-up makes the kept plan stale, and of two processes that run the same
  command the one that found nothing left to do keeps its plan last.
* The sweep looks beside published paths only, while `preflight_writable` stages
  a probe beside removed ones too, so a run aborted at that moment leaves a file
  no later run of the plan looks for. It bites only where that directory is the
  guarded one.

The warm test engine:

* The run request carries the classpath, and the daemon does not compare it. That
  tests run on the one `pom.xml` asks for (`README.md:1082`) rests on the client,
  which compares the metadata before it asks, and on the cookie, without which
  the daemon at the socket refuses the run.
* An idle exit removes the socket at the path, whoever's it is: a stranded daemon
  strands its successor. So does a daemon that loses the race for the path: its
  `bind` throws, and the `finally` (`JailsTestDaemon.java:72`) deletes the socket of
  the one that won. `OrphansDie` is what limits both.
* The idle deadline counts from the last connection: a run longer than
  `IDLE_SECONDS` is killed. That is 600 seconds in `client.rs:25`; the README
  says 30 minutes.
* `stop` is obeyed whatever cookie it carries, but not when its client has left:
  the answer is written first, and throws on the closed connection before the
  daemon is told to stop. Nor is the run of a client that has left counted
  towards the fifty.
* The daemon's cache of completed answers cannot be hit: request ids are fresh.

The generated programs:

* **A command that mints its key is executed again when its process dies between
  commit and acknowledgement** (`minted`). `README.md:512-516` says the replay
  observes the entity's identity before repeating the effect; that needs the
  command to take its key from the payload, which nothing checks.
  `EffectIsOnce` proves the promise for the commands that do.
* The comment at `job.rs:8-13` says the scheduling configuration is generated to
  size the pool. The generated class does not; only a project with SSE sets the
  property. So the worker and the relay of a process wait for each other, which
  is why `Pool` is 1 in the runs.
* A worker whose lease ran out can fail a whole workflow run although the page has
  been recorded by then: `fail` decides on the claim's own attempt.
* A workflow run that has ended may still gain pages and rows: `complete` asks
  whether it was cancelled, not whether it has failed. What is added stays
  PENDING for ever; `Bounded` holds all the same.
* `cancel` is two statements without a transaction. A process that dies between
  them leaves rows unsettled, and calling `cancel` again changes nothing.
* A claim does not look at `max_attempts`: a row whose workers keep dying is
  claimed past it, once for every death (`RetryBounded`).
* `complete` locks the run before the row, `fail` the row before the run.
  PostgreSQL may have to abort one of them (`CompleteRaises`, `FailRaises`).
* A run whose seed the robots policy forbids succeeds with no pages.

## 5. What is proved

With TLAPS, for constants of any size and without the runs' bounds. The
assumptions are the named ones in the modules that declare the constants: what a
path, bundle or claim is (`PlansAssumption` and its neighbours in `PlanBundle`
and `Executor`, `ClientAssumption`, `BoundAssumption`, `JobAssumption`,
`OutboxAssumption`, `DeliveryAssumption`, `UrlAssumption`, `LimitAssumption`),
and that `None` and `Absent` are none of the rest; those of whole commands are
listed with `PipelineProofs`. Every one is evaluated by TLC in a run that
passes. Each invariant was checked by TLC before it was proved, the strengthened
ones included, in so far as TLC can evaluate them.

`ExecutorProofs`, for any processes, paths, directories, images and bundles:

* `TypeCorrect`: `Spec => []TypeOK`.
* `WriterExclusion`: `Spec => []OneWriter`.
* `StagedFilesAreSafe`: `Spec => []StagedIsLive`. A sweep takes every staged
  file beside the plan's paths and cannot tell a live one from a dead one. That
  it never takes a live one is not visible in any single step: it needs that a
  process has a staged file only under the lock, and that the sweeper holds it.
  The inductive invariant `IInv` therefore joins the type and exclusion with
  `Staging`: outside the lock, and before publishing, no process has anything
  staged to become a file, and what it is to become belongs to its current
  operation.
* `NoThirdImage`: `Spec => []OldOrNew`. By itself this is not inductive either:
  a step of the publisher must write an image the plan admits, which needs that
  the path it writes is one of its current operation's, that operations do not
  disagree about a path (`WellFormed`), and that every other process that may
  rely on that path sees it as foreign. For a step of anybody else `foreign`
  grows by exactly what changed; that each action keeps this account is the
  lemma `AccountStep`: what a process has not seen change is as it was, or holds
  the image its own plan leaves there, and a directory it has not seen littered
  is as clean as it was. Every invariant below that speaks of what one process
  may conclude rests on that lemma and on nothing else about the others.
* `NoDebrisIsPublished`: `Spec => []SweptClean`. A run stages only beside
  paths its plan touches (`Nearby`), and has the swept directories to itself
  between its sweep and its admission (`Cleared`): only an abort under the
  lock leaves debris.
* `RetryIsAdmitted`: `Spec => []RerunAdmitted`, for plans that only add to the
  directories they guard (`GuardsAppends`). It needs that the tree was admitted
  when the run began and that each path is since then as captured or as desired
  (`Admissible`, `Guarded`); the directory precondition then holds by its second
  clause, the plan's own prefix. The hypothesis is that of every generation; a
  plan that puts a sealed migration back does not satisfy it, and is stale after
  its own application (section 4).
* `MarkerIsLast`: `Spec => []MarkerLast`, for plans with a commit marker
  (`Marked`): the last operation shares no path with another and takes nothing
  away. It needs `InOrder`: each operation before the current one has all its
  paths published, unless somebody else has changed them.
* `ExecutorIsAtomic`: `Spec => AppliesAtomically`, the refinement of
  `AtomicApply`. `RInv` adds to `IInv` what the refinement remembers
  (`Remembered`): the abstract tree is the disk while no run is under way, and
  during a run a path differs from it only where the plan has put its image. The
  admission of a run, its end and an editor's save are the abstract steps;
  everything between them stutters.

The lemmas about single steps are over `OpenNext`: any caller that hands the
executor bundles that are `Fit`, and an editor anywhere. The hypotheses on plans
are evaluated (`PlansShape`, of the bundles of `project`), and for the plans of
commands they are theorems:

`PipelineProofs`, for any models, schemas, migrations, commands and processes:

* `PlansAreWellFormed`: `PSpec => []PlansWellFormed`. All operations of a plan
  lead to one tree (`Target`, `Follows`): whatever writes a path writes what that
  tree holds there, whatever removes one removes what it does not hold. So two
  operations cannot disagree. That the last one is a marker is a case analysis:
  a plan that replaces the lock ends with it, and one that does not has at most
  restored files to publish (`LockStands`, `MarkedWithoutLock`). Plans are made
  on whatever is on disk, so the invariant `PInv` adds to `IInv` that what is on
  disk can be read (`Legible`: managed files are texts, the lock is one jails
  wrote) and that each plan under way was materialized from such a tree.
* `CommandsAreSafe`: what `ExecutorProofs` says of bundles holds of commands.
* `NumbersAreUnique`: `PSpec => []NumbersUnique`, and `SealedMigrationsStay`, what
  the lock seals is in the project. Neither is inductive. `QInv` adds that the
  migrations are `Intact`, on disk and in the tree each plan was made from, and
  that a run between its admission and its end has seen nobody else change one:
  whoever else applies a plan waits for the lock (`ForeignStays`). Then, while a
  run is admitted, each migration is one it captured or one of its own, and its
  own come after the newest it captured. For the second theorem the lock must
  come last, which is the marker again.
* `CommandsAreReadmitted`: `PSpec => []RerunAdmitted`. No plan made on a project
  with its migrations in place restores one, so every plan satisfies
  `GuardsAppends`.
* `MigrationsAreAChain`: `PSpec /\ SchemaChain => []SchemaChain`. `SInv` adds that
  the lock was `Chained` when each plan was made, that an admitted run has seen
  nobody change the lock, and `Pending`: as long as no run was cut short, a
  derived migration that is not sealed is one the run at work appends. A plan
  that leaves the lock alone may append the reader's migration still, and no other
  (`LockStands`, `FreshDerived`). A lock that
  changes was, just before, the one its plan was made over (`LockMoves`), so the
  chain goes on where it ended (`ChainGrows`); migrations of one plan are
  published in the order of their numbers (`AppendsInOrder`), so none is left out;
  and a run at its end has written the lock (`SealedWhenFinished`).
* `SyncIsSettled`: `PSpec /\ BaseSettled(disk) => []SyncHasNothingToDo`. Half of it
  is about one tree (`SteadyIsPlanned`, `SteadyIsEmpty`): where the whole merge
  base is what the lock names and nothing else (`BaseSettled`), a plan for the
  accepted model that asks for no migration is not refused and none of its
  operations is left. The other half
  is that the merge base is settled whenever the property speaks. `BInv` adds to
  `QInv` that, as long as no run was cut short, each base file holds at a run's
  admission and during it what its plan was made over or leads to
  (`BaseOldOrNew`), and that it is settled again when the run is at its end
  (`BaseWhenFinished`). A run may be admitted over a project on which its own plan,
  or an equal one, was applied before, so the lock it finds is the one it captured
  or the one it leaves (`LockOldOrNew`), but never none where it captured one
  (`LockLasts`): the check of one captured file would let that pass.

* `TypedTextStays`: `PSpec => []HandEditKept`. For one plan, what becomes of a
  region the reader typed into is a chain of cases: `VerdictBears` (a merge keeps
  it, and a leftover with it is refused), `TypedIsCarried` (a file the plan touches
  that has it is that of an artifact the plan carries over: a foreign file is
  refused, an ejected one is not touched, no artifact moves onto a file) and, over
  a tree that has moved since, `CarriedWhenAdmitted`. A rename is why this is not
  enough: the file at the old path loses it. `Held` says of the run at work that
  it will leave the text where it is, or that the artifact's new path is among the
  first files it publishes and still to come; these are written before the first
  file is removed (`ManagedFirst`, `AwaitStep`).

* `UndoPutsBack`: `USpec => []UndoIsExact`, of `jails undo` among commands, with
  the formatter at work and the reader at the keyboard. Of the plan: its inverse is
  a bundle the executor may be handed (`InverseIsFit`; that no operation writes what
  another one found is what makes it so), and puts back what was captured
  (`UndoneAsCaptured`, from what each of the six kinds of operation found,
  `MovesCreate`). Of the steps: what is kept was made by a command that restores
  nothing (`Undoing`), whatever was made or turned round since puts texts and locks
  where plans will look for them (`Lawful`), and a plan that was applied is there
  but for what others changed (`Finished`). The formatter writes past the
  executor; `MeddlingKeeps` says that the executor's invariant bears that, since
  everybody is told. It rewords the lock it will write file by file, so what
  `Plannable` asks of a project is `Readable`: a lock with any texts.

* `BaseStaysAgreed` and `PublishedStaysSealed`: `AloneSpec /\ BaseAgrees /\
  PublishedIsSealed /\ NoSources(disk) => []BaseAgrees`, and `[]PublishedIsSealed`,
  of commands, `undo`, bundles run again, deaths and the formatter. Neither is inductive, nor
  are the two together: both speak of moments at which nobody is at work, and what a run
  leaves depends on what it was admitted to. `Calm` says the rest, as long as
  nothing was cut short: a run at work was admitted to a project that was
  orderly, and each file of jails' own is as it was there or as the plan leaves it
  (`Partway`); a formatter at work holds a lock that says what the merge base is
  (`InStep`), and which is the one on disk until a file is advanced. At the end of a
  run everything turns on one statement about trees, `Settles`: a plan applied
  over *any* orderly tree that admits it leaves an orderly one. It holds of every
  plan a command makes (`PlansSettle`) and of each of them read backwards
  (`InversesSettle`), which is where the order of operations, and the captured
  lock that pins the tree, are needed. An admitted tree is not the captured one: it may be what
  the plan, or its inverse, leaves, and then what it seals is more, or less, than was
  captured. That none of the reader's migrations is sealed is the easy half: no
  lock that jails writes names one (`AuthoredUnsealed`), which also is why an inverse
  may take such a migration away whatever has become of the lock. Two things hold
  with faults as well: what the lock seals is there with
  the content it is sealed with (`Pristine`; an inverse takes the lock back first and the
  migration after it, `InverseStarts`), and whatever is applied or kept was made
  over such a project or is the inverse of such a plan (`Provenance`). That the
  formatter and a run do not overlap is `Solitary`, `OnItsOwn` made an invariant.

`NumbersAreUnique`, `SealedMigrationsStay` and the three after them assume that the
reader edits no migration (`EditorPaths \cap
MigrationPaths = {}`), the chain that the lock is not edited either, and the
settled `sync` that neither is the merge base. `TypedTextStays` lets the reader edit
anything, but assumes of the models that a managed path is one artifact's
(`OnePlaceEach`: where two artifacts take turns at one path, what was typed into
the file of one is not looked for in the other's), that no model renders what the
reader types (`NeverRendered`: otherwise a later model may take it back), and that
no command is run with the consent that lets an edited leftover go (`NoConsent`).
All of it holds in the runs; in a
project whose migrations are edited by hand numbers are unique only as far as
hands make them so. `UndoPutsBack` assumes that a lock with any texts is a file's content and no text
(`LocksAreImages`); nothing of the reader. `BaseStaysAgreed` and
`PublishedStaysSealed` assume that too, that the reader leaves the lock, the
merge base and the migrations alone (`EditorPaths \cap Own = {}`), that no two
managed files share a base path (`OneBaseEach`: it is the path below `.jails/base`,
`materialize/lock.rs:79`) and no two artifacts of a model a path (`OnePathEach`: the lock's
files are a map by path, `materialize/lock.rs:86`), that a migration is no Java
source for Spotless to rewrite (`MigrationsAreNoText` of what jails writes,
`NoSources` of the project one starts from), that `None` is not what the
formatter holds (`NoneIsNoRecord`), and of the specification that formatting runs
on its own (`OnItsOwn`). The last one is needed: a command that is applied between
the formatter's capture and its last write loses its lock to the one the formatter
holds. The other theorems up to `TypedTextStays` are about generations and `sync`;
that a `sync` has nothing to do after `jails undo` either is checked in `edit` only. What is assumed of the constants is what
makes them a project: `PathsAssumption` (managed files, bases, migrations, the
model and the lock are different files, and migrations have their own directory),
`SlotAssumption` (a file name tells number and migration), `RendersAssumption`,
`DerivesAssumption` and `SchemaAssumption` (what the compiler returns: texts at
managed paths, none for what is ejected; nothing for a model already accepted,
which it can always be asked about; migrations, none of them `Authored`, that lead
from the accepted schema to the next one), `ImagesAssumption`, `MineAssumption`.
`Named` bounds the migrations to those the constants have a name for. Projects
start `Sound`: legible and intact.

`ManagedFileProofs`, for any regions and words:

* `TypeCorrect`: `Spec => []TypeOK`.
* `PublishedIsSettled`: `Spec => []Converged`. The
  invariant follows a file through its stages: once published, the live text is
  the verdict; the lemmas say that a verdict over its own output is itself
  (`MergeIsSettled`, `VerdictIsSettled`), and still is when THEIRS has become
  BASE (`AcceptedIsSettled`).
* `EditsAreKept`: `Spec => EditsSurvive`, an action property, from the same
  invariant and `MergedText`.

`TestDaemonProofs`, for any clients, daemons, classpaths, outputs and faults:

* `TypeSafe`: `Spec => []TypeOK`, and `OneRunOneClient`: `Spec => []OpenLineIsRun`.
  The two are inductive only together: that an answer may be given at all
  follows from the pairing of open lines with active runs, and the pairing from
  what a client holds at each position (`Placed`). An action that ends a JVM, or
  in which a client leaves, must change both sides of the pairing at once.
* `EngineKeepsPromise`: `Spec => Implements`, the refinement of `WarmTests`. All
  actions but asking, the daemon's verified answer and the client's report only
  end requests or change nothing the promise is about; but that an answer may
  count for the request needs that it is for the tree the request was made on,
  so `PInv` adds to the invariant what was sent with each request
  (`SnapshotIsSent`) and which run a waiting client waits for (`AwaitsRun`).

`DurableJobProofs`, for any items, processes and attempts:

* `JobTypeSafe`; its invariant adds `Held`: what a worker has leased is a row.
* `SuccessIsHonest`: a row that says SUCCEEDED has had its effect, from
  `AckedIsDone`, what a worker is about to acknowledge has.
* `RetryIsBounded`: attempts exceed `MaxAttempts` at most by what went wrong. A
  row is claimed again only when it is PENDING, which `fail` leaves below the
  limit, or RUNNING with a lease that ran out, and `RetryInv` says that then a
  mishap has been counted that no attempt has used up yet.
* `DeathsKeepDone`, with `Minted = {}`: while only deaths have happened
  (`CleanInv`) a claim is its row's current one, no two workers share an item,
  and whoever is about to execute or to reject works on an item without effect.

`OutboxProofs`, for any events, relays, sink chain and batch size:

* `OutboxTypeSafe`, `SuccessIsTaken`, `NothingSentTwice`. The invariant `Known`
  says what a claim knows of its row and the row of what was sent: a claim skips
  only sinks whose acceptance is recorded, an acceptance recorded after the claim
  carries its attempt or a later one, no attempt sent to a sink is later than the
  recorded one, and a relay past a sink has it recorded. Rows and what was sent
  only grow (`Grows`), so a step of one relay keeps what the others know.
* `RelayRetryIsBounded`, as for the job, for every event of a batch.
* `DuplicatesAreAccounted`: `OutboxSpec => []DuplicatesAccounted`: a sink that
  keeps every promise is sent an event again only for a mishap. No invariant
  about what *was* sent is inductive, as a claim with a stale list of accepted
  sinks may still send. So `Budgeted` counts both: the attempts sent to a sink
  (`Tries`) with the live claims that may yet send there (`Live`) never outnumber
  the mishaps by more than one. While no acceptance is recorded there is room left for the next claim if the
  row may be claimed as it is (`Claimable`), and for one more if a sink has taken
  the event from a claim that is about to be given up (`Lost`). Two claims of one
  event never carry one attempt (`Apart`), and what a claim has sent without its
  being recorded it is about to record or to give up (`Fresh`).

`DeliveryProofs`, for the composition:

* `DeliveryIsJob`, and the lemma `DeliveryIsOutbox`: every step of the
  composition is a step of each component or leaves its variables alone. So the
  components' theorems, instantiated, hold of it: `TypeSafe`,
  `RetriesAreBounded`, `NothingIsResent`, `DeathsKeepWork`.
* `EffectIsOnce`: with `Minted = {}` the effect happens at most once, whatever
  leases run out and whoever dies. `minted` shows that the hypothesis is needed.
* `DeliveryKeepsPromises`: with `Minted = {}`, `Spec => Implements`. The refinement
  maps each step to a step of `Promises` or to none; it needs that what is staged
  had its effect (`StagedIsDone`), so that a sink is told of nothing that did not
  happen, and that both statuses are honest, which are the components' theorems.
* `DuplicatesArePaidFor`: with `Minted = {}`, `Spec => []DuplicatesAccounted`.

`Minted = {}` is assumed of every theorem about the outbox in the composition
because with it an item stages one event; `delivery` runs with it too.

`WorkflowProofs`, for any site, policies, limits and processes:

* `TypeSafe`, with `Held`.
* `CancellationSettles`: `Spec => []CancelSettles`.
* `RunBounded`: `Spec => []Bounded`. That the seed's row, which no limit guards,
  is never one page too many needs `SeedFirst`: nothing is scheduled before it.
* `WorkflowImplements`: `Spec => Implements`. Success must mean that all that was
  scheduled has been visited; so while the run is open, a page whose row is
  settled is in the ledger (`SettledIsRecorded`), before the start there are no
  rows (`NoRowsYet`), and a caller between the two statements of `cancel` has
  already closed the run (`CancelClosed`).

Model-checked only: liveness (`LockReleased`, `Converges`, `EveryCommandEnds`,
`OrphansDie`, `SelfHeals`, `EverythingEnds`, `RunEnds`), which the proof system
does not reach. Every safety property a run checks is stated by a theorem.

## 6. What is not modelled, and why

The compiler, the emitters and the JDL front end are functions from text to
text: `Renders`, `Ejects` and `Derives` stand for what they return, and the one
refusal that depends on the disk is part of `PlanRefused`. They are most of the
repository's lines; a state machine of them would have one step, and what they
emit is modelled where it has state, by the templates of section 1.

Reader documents, relocate and affected tests are next (section 3). The
generated idempotency guard, presence store, SSE hub and Kafka listener are
short adapters over a store or a library: a claim and a completion (an exception
or a death between the two leaves the key in progress, a hazard listed), an
expiring key, a list of emitters, a handler. `jails new` writes into a directory
nobody else has; the editor services answer requests from the compiler without
state of their own; run, build, compose and codemod start child processes or
rewrite a text once; reports are wording.

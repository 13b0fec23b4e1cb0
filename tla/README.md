# Verification of PMQA

PMQA runs AI-assisted QA workflows: a supervisor routes agents over a shared
state, an application service runs workflows through runners, a Product Pack
bridge runs product code in another process, and usage records of AI calls are
kept in a local store.  This directory models the parts of it in which the order
of events matters, checks them with TLC on small instances, and proves their
main properties with TLAPS for every instance.

Paths below are relative to `src/`.

## 1. The system

| part | state it keeps | operations | works with |
|---|---|---|---|
| workflow core (`pmqa/supervisor`, `pmqa/orchestration`, `pmqa/runtime`, `pmqa/workflow`) | `WorkflowState`: status, routing, iteration, artifacts, step history, errors; the graph's node and selected agent | `run_pmqa_workflow`: supervisor decision, execution of the selected agent, patch reduction | agents injected by the caller; LangGraph drives the loop |
| product agents (`products/demo/*_agent.py`), mapping and validation (`knowledge_mapping.py`, `validation.py`) | none: they read the documents in the workflow state | `invoke` → patch with one document, or a failure | runtime, exploration tool |
| usage repository (`pmqa/usage/repository.py`) | a directory of immutable JSON files | `save`, `get`, three queries | other processes on the same directory, the file system |
| usage collector (`pmqa/usage/collector.py`) | table of active invocations under a lock | `start_invocation`, `complete_`, `fail_`, `cancel_invocation` | threads of the caller; its records go to the repository |
| bridge runner (`pmqa/product_pack/bridge_runner.py`) | one child process, its group, three helper threads, two bounded buffers, the first failure | `run_product_pack_bridge` | the child and what it spawns, signals, pipes, clock |
| application service (`pmqa/application`) | none; registries of snapshots fixed at construction | `execute` | adapters and runners (caller's code), clock |
| runner boundary, mock runner (`pmqa/runners`) | a cancellation token | `execute`, `cancel`, response validation | application service |
| run contracts (`pmqa/run/models.py`) | none | validation of requests, invocation and run records | all of the above |
| demo composition, handoff and command (`products/demo/workflow.py`, `application.py`, `artifact_handoff.py`, `generator.py`, `pmqa/cli.py`), JSON storage (`pmqa/storage`) | two files, written in place | create, run, extract verified knowledge, store, generate | workflow core, product agents, other commands on the same files |
| Product Pack scaffold (`pmqa/product_pack/scaffold.py`) | a directory tree, two descriptors per call | publish a new pack without replacing, validate its source | other programs on the same directory |
| Product Pack manifest, loader, protocol, exploration tool (`pmqa/product_pack`) | none | load, one bridge call per tool call, correlation of the response | bridge runner, Explorer |
| reasoning and traces (`pmqa/reasoning`, `pmqa/trace`) | prepared manual exchanges, SQLite table | execute, prepare, complete | providers |
| usage contracts, summary and pricing (`pmqa/usage/contracts.py`, `summary.py`, `pricing.py`) | none | validation of records, pure aggregation | repository queries |
| rest of the command line, text processing, data types | none | – | all |

What is hard in it, and what correctness means there:

* **Workflow core.** Routing depends on the whole history of verdicts and
  recovery cycles, which agents append to. The supervisor must never complete on
  a history that does not justify it, never refuse a history its own routing
  produced, count cycles exactly, and end.
* **Usage repository.** Processes race for one file name; a crash may come
  between any two system calls and a loss of power takes back what was not
  synchronized. Success must mean durable; a refusal must mean nothing stored;
  readers must see only whole records and all acknowledged ones.
* **Usage collector.** Threads race to terminalize one handle, which is
  inspected and consumed in two critical sections. One record at most, and no
  invocation unaccounted for.
* **Bridge runner.** Main thread, two readers, a writer, a deadline, output
  limits and processes that ignore signals or keep pipes open. It must return,
  reap its child, leave nobody behind without cause, and report what happened.
* **Scaffold.** Calls, other programs and validations share one directory name.
  A scaffold must appear whole, at once and only where nothing was; a call must
  report what it did and let go of its descriptors wherever it is cut short.
* **Demo command.** Three agents append documents over many invocations, from a
  browser or from another program; the handoff reads them all at the end and
  gives out one. Agents must turn every failure into a patch; what is given out
  must be what was captured last and validated; a good run must not be refused.
  The two files are written in place, one after the other, beside other commands
  that may do the same, and each may be killed.
* **Usage summary.** The same numbers are added up twice: records into totals,
  and groups into totals again, with bounds, exact decimals and money that loses
  its trailing zeros in between. Both must agree whenever the first succeeds.
* **Application service.** Concurrent calls, adapters and runners that change
  what they say of themselves, a shared cancellation token, and runners that
  return anything. What the caller gets must be about its own call.

## 2. Modules

Each component has one module with its state and actions, an MC module that
gives the constants for TLC, and a module of proofs. `QACycle`,
`AppendOnlyStore` and `AtomicPublication` are abstract specifications that
components implement; `DemoCommand` composes the workflow of one command with the
files of many and is itself an implementation of `ArtifactFiles`.

    QACycle <---refines--- Workflow <- MCWorkflow, WorkflowProofs
    AppendOnlyStore <--refines-- UsageRepository <- MCUsageRepository, UsageRepositoryProofs
    AtomicPublication <--refines-- Scaffold <- MCScaffold, ScaffoldProofs
    UsageCollector     <- MCUsageCollector, UsageCollectorProofs
    BridgeRunner       <- MCBridgeRunner, BridgeRunnerProofs
    ApplicationService <- MCApplicationService, ApplicationServiceProofs
    UsageContracts <- UsageSummary <- MCUsageSummary, UsageSummaryProofs
    Workflow, DemoArtifacts <- DemoWorkflow \
                                             DemoCommand <- MCDemoCommand, DemoCommandProofs
                              ArtifactFiles /

Operators with a comment "Seeded fault" are wrong versions of the operator after
them, used by nothing in the specification: they record which plausible bug each
property notices (`mutants` in PROJECT.json).

### Workflow

`status`, `iteration`, `step_history`, `validation_results` and so on are the
fields of `WorkflowState`. Evidence, knowledge candidates and errors are counts,
because the policy asks only whether there are any (and how many candidates the
checks compare); verdicts are kept in order because it reads their order. `node`
is what LangGraph runs next, `steps` its count against the recursion limit.
The `Supervise...` actions are the branches of `decide_next_action` in the order
of the code; `StartAgent` is `execute_selected_agent` up to the call, with the
iteration and the invocation id it makes (`issued`); `FinishAgent`, `RejectPatch` and
`AgentRaises` are the ends of that call (role check, contract check, reducer).
`Return`, `Raise`, `RecursionLimit` end a run, `Rerun` is another call on the
state returned. Agents are a constant: for each role the patches it may return.
`HonestPatches` is what the three product agents return; `CarelessPatches` adds
patches that claim fields of others, append to the history out of turn, add
several artifacts or none, or move `updated_at` back. `iteration_of` is a history
variable: the iteration in which each entry of `step_history` was appended.

`CompletionEarned` sets what agents have written against what the graph has
done: a completed workflow has had, for every verdict it holds, an iteration of
its own in which all three agents were invoked. Its premise `OwnEntries`, that an
agent appends entries about itself only, is one the code does not enforce: the
runtime checks which fields an agent may patch, not the role named in an entry
(a Validator could append the whole recovery cycle and a verdict). Within the
premise agents may return any results, failures and counts.

`QACycle` says the same as a seven-line state machine: explore, learn, validate,
again while the limit allows one. `CyclePhase` maps a workflow to a phase of it
and `Abstract` is the instance; `CycleSpec` (with its fairness) is the refinement.

### UsageRepository

`inodes` are the files ever created in the directory, with how much of each is
written and synchronized; `target` maps a record name to its file and `flushed`
says which names survive a loss of power; `temps` are the temporary names. A
saver goes through `Save`, `Prepare`, `Create`, `Secure`, `Write`, `Written`,
`Sync`, `Publish` (the `link`), `Flush` (directory `fsync`), `Release` and
`Forget`, one system call at a time; each has the failure the code handles, and
`Interrupt` is the exception that may arrive between any two. `Kill` stops a
saver where it is; its temporary file stays. `PowerLoss` drops an arbitrary part
of the names that were not flushed and tears files that were not synchronized.
`Damage` is another program. `Get` and `Query` read in the steps the code reads
in: the directory first, then one file after the other. `AppendOnlyStore` is the
abstract store: names lead to records, are added once, never changed, and lost
only by a loss of power before they were kept.

### UsageCollector

`active` is the collector's table, `pc`, `handle` and `wall` the state of each
thread in `_terminalize`: inspection under the lock (`Inspect`, `InspectAltered`),
evidence outside it, consumption under it (`Consume`, `LoseRace`), clocks and
record outside it again. `Alter` is a holder that writes into the private fields
of its handle. Clocks return anything in `Times`; `Milliseconds` is the rounding
of the code. `HandleInOnePlace` does not deny that an invocation may be lost, when
its handle was altered or a clock or its record fails after the consumption: it
says that nothing is lost otherwise, and that what is lost was never recorded too.
An interrupt while the lock is entered (`collector.py:401`) is not modelled.

### BridgeRunner

The main thread's program counter follows `_execute_bounded_process`: launch,
the preparation between `Popen` and the `try`, the start of the three threads, the
polling loop, `_terminate_and_wait`, `_terminate_descendants`, the joins and the
collection. `Interrupt` is an exception in the main thread (`KeyboardInterrupt`, a
thread that cannot be started) at any of these places, any number of times. In
the `try` it is `Handled`: the child is terminated and waited for, `Slay` kills its
group, the exception goes on. Anywhere else it is an `Escape` straight to the caller,
and `interrupted` records where. Readers and writer are threads of their own
that take a chunk at a time (`Remaining` is what still fits under the limit).
Processes (the child and `Helpers`) may ignore SIGTERM (`stubborn`), hold the
pipes (`holding`), leave the group, start others also after the child has gone
(`late` are those started after the group's SIGTERM), exit, and have a signal
pending (`doomed`). Bytes are numbers.

`ReapedAtEnd` and `SurvivorsExplained` are about calls whose own clean-up no
exception has hit (`Undisturbed`); for the others see the observations.

### ApplicationService

Any number of calls of `execute` side by side. `pc` walks through its checks in
the order of the code: workflow registry, input schema, live definition, the
adapter's validator, runner registry, capabilities, live metadata, approval,
identifiers and control, clock; then the runner, the validation of its response,
the adapter's result validator, the assembled record. `Change` lets an adapter
or runner describe itself differently from then on; `Cancel` is another thread
with the token. The mock runner samples the token in a step of its own.
`Responses` is what any other runner may return, contracts bypassed included.
`RunRecord` is `_assemble_result` and `RunRecordAccepted` the contract pydantic
would enforce on it, `RunResultAccepted` that of the result around it. What one
contract lets through another may refuse for its size: each holds at most
`MaxItems` JSON values on `MaxDepth` levels, itself and all it contains counted
(`RunRequestItems`, `ResponseItems`, `RunResultItems` and so on). Payloads are
known by these two numbers; identifiers are left out (a response names its
invocation or not: `matches`), and so are the identical snapshots made by
rebuilding objects through `to_dict`/`from_dict`. `OnlySizeRefuses` says that a
contract error after the runner has worked has no other cause than size.

### Scaffold

`trees` are the directories made so far, with their files; `target` is the one
that has the wanted name, `temps` those under temporary names. A generated file
is known by the manifest it was rendered from and by what was done to it since;
related files are one (`WriteOrder`), and `README.md` and `.gitignore`, of which
only the presence is checked, are left out. A call goes through
`ValidateTarget`, `MakeDirectory` (`mkdtemp`), `Capture` (two descriptors),
`WriteFile`, `Recheck`, `Publish` (the rename that replaces nothing), `Close`
for each descriptor and `Finish`; at each of them it may fail as the code maps
the error, or be interrupted by an exception that passes through, and `Kill`
ends its process anywhere. A failed capture has a place of its own, `undo`,
where what was opened is closed one after the other (`UndoClose`) and a close
that raises skips the rest (`UndoFails`). `Abandon` is an interrupt between the
statements that let go of descriptors, or between a call and the assignment of
what it returned; `cut` records it. `ForeignCreate`,
`ForeignRemove` and `ForeignEdit` are other programs and the people who work on
the scaffold; nobody else writes into temporary directories. A validation reads
the target file by file, each by its path (`CheckRoot`, `ReadBase`,
`CheckManifest`, `ReadPackage`, `CheckSource`), and answers with the code's
result. `AtomicPublication` is what others see: nothing, then a whole scaffold.

### UsageContracts, UsageSummary

`UsageContracts` holds the rules of one record: which token fields may be
missing, which parts of a cost come together, what a retry declares, and the
decimals. A decimal is a coefficient and a scale, so that `10.00` and `10` are
different decimals of the same value: `DecimalAccepted` is the length check of
`_canonical_decimal`, `Written` the loss of trailing zeros in a round trip
through text, `SumOf` a sum under a context of so many digits (`Tens` are the
powers of ten). An absent field is `None`, which is no number and no decimal
(`NoneAssumption`).

`UsageSummary` is one call of `summarize`. Records are named by their position in
the request, so the whole selection and each group are sets of positions; what
the code collects in dictionaries are functions, of the key of a group
(`GroupKey`) or of what tells two costs apart (`CostIdentity`, all but the
amount). `Summarize` makes its checks in the order of the code; `Overflows` is
every bounded addition on the way, of the whole and of every group: for integers
the sums of a beginning of the positions, for money `RunningTotals`, each sum
taken in a decimal context. The contexts of 256 and 512 digits are assumed to
hold at least twice the longest accepted decimal (`SummaryAssumption`). `Metrics`
builds the counts, tokens and cost buckets of a set of positions; `Build` constructs
the summary, whose contract (`MetricsAccepted`, `RollsUp`) is evaluated as the
validators evaluate it, on snapshots. An error of that contract is the outcome
`contract_error`, which no code declares. Text, timestamps and the sort order of
buckets and groups in the result are left out.

### DemoArtifacts, DemoWorkflow

`DemoArtifacts` has the documents and the pure functions on them: the contract
of exploration evidence, the mapping to knowledge with what it refuses, the
verdict with the verified snapshot, the checks on a stored verdict, the contract
and correlation of a pack's response, and what the generator needs to find. Ids
that are digests of other ids are tuples of them. `endings` of a page are the
suffixes of its URL that are asked for; a capture, a response and the verified
snapshot of a verdict are sets with at most one member.

`DemoWorkflow` extends `Workflow`: the same supervisor, graph and reducer, but
the agents are those of the product and the documents they append are kept in
`evidence_docs`, `candidate_docs`, `result_docs`. `Explore` is the Explorer with
its tool, the product's own or a pack's (`Answers`); `Learn` the Knowledge agent
on the one unprocessed piece of evidence; `Validate` the Validator on the one
unvalidated candidate, after it has repeated every earlier validation, and
`ValidatorRaises` the error it does not catch. The handoff is also offered to
runs with other agents, so any role may be foreign: its document may be about
any content, evidence, candidate, verdict and time of `ForeignTimes`, the time of
the snapshot independent of the verdict's; its ids are those the code would
accept, because the others are refused. What a pack returns is about the request
it was sent or about the one before (`RequestId`), in the response and in the
evidence. `Extracted` is the handoff, with the checks of `artifact_handoff.py`.

### ArtifactFiles, DemoCommand

`ArtifactFiles` has the two files and any number of commands. A file holds the
whole text of one command, or is missing or `Torn`. Opening truncates, closing
leaves the text, or perhaps a mixture if another writer had the file open; writes
fail and commands are killed in between, and then the file is torn, has the whole
text after all, or still what another writer put there (`CutShort`). What a
command has to store is free in this module. `DemoCommand` lets the workflow
decide it for the command `Own`: `Work` is a step of the workflow, `EndOfRun` the
handoff and the exceptions that become the failure code or pass through,
`Generate` the generator; the other commands stay free.

## 3. Runs

| run | instance | what it shows |
|---|---|---|
| `workflow_honest` | 7 cycles, 43 node executions (what 7 cycles need), 1 rerun, every verdict and failure | refinement of `QACycle`, limit exact, no refusal, termination |
| `workflow_careless` | 2 cycles, 13 node executions, 1 rerun, careless and raising agents that write about themselves | no completion without an iteration of real invocations for every verdict, Explorer ids unique, terminal states absorbing |
| `workflow_default_limit` | 11 cycles, the default limit of 64 | **violated**: see findings |
| `repository_savers` | 2 savers, rival records of one id, 2 files, 1 loss of power, all failures | refinement of `AppendOnlyStore`, durability of success, meaning of refusals, every save ends |
| `repository_readers` | 1 saver, 1 reader, 2 ids, 3 files, 1 loss of power, damage | reads are whole and complete |
| `collector_races` | 3 threads, 1 handle, clocks that cross half a millisecond | one record, nothing lost, times right, handle leaves the table |
| `bridge_call` | 4 threads, the child and one helper process, limits of one byte, at most two bytes a stream, chunks of two, exceptions anywhere | the five safety properties and return |
| `bridge_cleanup` | same | **violated**: see findings |
| `application_calls` | 2 calls, a shared control, mock and two other runners, 10 requests, 23 responses, 2 clock values; sizes one below, at and above the limits | the boundary, sizes, cancellation, changed snapshots |
| `scaffold_race` | 2 calls, 2 manifests, 1 validation, 1 act of another program, all failures, interrupts and kills | refinement of `AtomicPublication`, true results, descriptors, no half scaffold seen |
| `usage_summary` | all selections of up to 3 of 10 records, one of 4, pairs with 11 unsound records, decimals of 4 characters | a summary that is built satisfies its contract, totals are exact, order does not matter |
| `demo_command` | 2 cycles, 13 node executions, 2 product tools and a pack, 7 captures, 12 responses, 6 sets of foreign roles, foreign verdicts of 2 times; 2 commands on the files | core convention kept, handoff sound and complete, files explained, the command ends |

Why these bounds are enough for the cases that matter: seven cycles are six
recoveries, more than the two after which the history check begins to count cycles
between results, and one rerun reaches every state of a finished workflow; two
savers and two files are two racing saves, or one save and another after a kill or
a failure (a third temporary file meets nothing new: only a saver that owns one
touches it); one loss of power is one cut through a history, and a second one
meets only states the first one could have left; three threads are an inspecting,
a consuming and a late one on one handle, and handles do not interact; one helper
can be inside or outside the group, stubborn or not, holding pipes or not, which
are all the ways the main thread can tell processes apart (a process that starts
another after the group's signal takes two of them: `late` stays empty in the run,
the theorems cover it); one byte is the limit and a chunk of two passes it, ends
on it in a short last read, or stays below; two calls are the one that cancels or
changes and the one that is surprised, each of the responses misses one clause of
the boundary or has a size next to a limit of one of the contracts; two
scaffolding calls are a winner and a loser of the race for the name, two manifests
tell their files apart, and one act of another program is enough to put something
in the way, take the scaffold away, or spoil a file under a validation. Three
records are a sum, a prefix of it that may pass the bound and an order; four are
one too many (`MaxRecords`). Every capture but the first breaks one rule of one
reader (contract, mapping, generator). A pack's responses are good, report a
failure, carry a capture of the second or third kind, or miss one clause of the
protocol: a failure with evidence, a success without, completion before the
request, another pack, another workflow, an answer to the request before, evidence
captured for that one, or captured too early. Two cycles give a handoff one
verdict that failed before the one that passed. In `demo_command` a state
constraint (`OthersWait`, defined in `MCDemoCommand`) lets the other command begin
when the workflow of the first has ended: before that neither reads or writes
anything the other sees, and no step of another command takes a step away from the
first. And it follows the files further only for runs of the product agents with
the product's tool, because the files see of a run only whether it extracted
something, which those runs show in all its forms. Symmetry is used for writers,
calls and manifests, in runs that check safety properties alone.

Deadlock is not checked: a workflow, a bridge call, a service call, a demo
command, a summary and a scaffolding call end, and collectors and savers may have
nothing more to do.

### Fairness

Safety properties need none. `workflow_honest` assumes that a step of the graph
that can be taken is taken (one thread, weak fairness; not that a caller runs
again). The repository assumes it of the calls of every living saver (no failure
has to happen), the collector of every thread. The demo command assumes it of its
own steps (`OwnStep`: one thread; nobody has to kill it and no other command has
to move). The bridge assumes weak fairness of the main thread's program as a
whole, and strong fairness of `CheckDeadline`: the loop evaluates it again and
again, and time passes, so it cannot find the deadline in the future for ever. A
signal that was sent takes effect (`Die`). Nothing is assumed of the child, its
helpers or the reader threads: `CallReturns` holds although they may never do
anything.

### Findings

1. `workflow_default_limit`: `docs/architecture.md:90-92` (and `README.md:63-65`)
   say that the final allowed cycle may finish. `run_pmqa_workflow` has a default
   recursion limit of 64 node executions (`pmqa/orchestration/langgraph.py:39`);
   eleven cycles need 67, the command line accepts any `--max-iterations`, and
   the eleventh cycle is cut off by `GraphRecursionError`, its state lost.
2. `bridge_cleanup`: `docs/architecture/product-pack-adoption.md:203-204` says
   that timeouts and stream-limit failures clean up the process group. The group
   gets SIGTERM; SIGKILL follows only if a helper thread is still alive after the
   join (`bridge_runner.py:407-416`). A descendant that ignores SIGTERM and has
   closed its copies of the pipes survives. What does hold is
   `SurvivorsExplained`.

### Observations

Things the models show that contradict no line of the repository, and that a
caller may want to know:

* An exception in the main thread of a bridge call between `Popen` and the `try`
  (`bridge_runner.py:302-390`), or a second one while the handler of the first
  runs (408-412), leaves the child running and nobody to wait for it. One in the
  joins leaves the child reaped but may leave its descendants without SIGKILL.
* A response the runner boundary accepts may be too large for the result, which
  holds its payload twice beside the request: some 300 artifacts are enough. The
  call then ends with a bare `ValidationError` at `application/service.py:390`,
  after the runner has done its work. In the same way a run request near the limit
  is accepted, but no `RunnerRequest` can be made of it (line 166).
* `docs/architecture/product-pack-adoption.md:264-265` says that PMQA closes each
  ownership descriptor exactly once. Two paths leave one open: an error from closing the
  directory after a failed capture skips the parent (`scaffold.py:689`), and an
  interrupt between the two closes. And when `mkdtemp` finds no free name its
  `FileExistsError` is reported as `TARGET_EXISTS`, although no target exists.
* The handoff takes the time of verification from the verdict: one of a foreign
  Validator may state any time, also one before the capture, and is given out so
  (`artifact_handoff.py:293`).
* A sum of amounts is refused as an overflow when its exact form, with the zeros
  it carries, is longer than 128 characters, although the same value without
  them would fit (in the instance: 9.99 + 0.01 is 10.00, not 10).
* The Validator does not catch errors of the mapping it repeats
  (`validator_agent.py:62`, `validation.py:177`); `docs/architecture.md:332-334`
  speaks of a failed invocation. With the product's Knowledge agent, which maps
  the same evidence first, no such error can arise: `ConventionKept`, proved.
  With a foreign Knowledge agent it ends the run with an exception.
* With product agents a verdict is always "passed": the candidate was built from
  the evidence it is compared with. Recovery cycles need a foreign agent.
* Two commands on one directory that overlap may leave the knowledge of one and
  the tests of the other although both succeeded; a command whose generator
  refuses leaves new knowledge beside older tests (`FilesExplained` says exactly
  when).

## 4. Proofs

Every proof is of the specification of its component, from the `ASSUME` of its module
(types of the constants; TLC evaluates it in the runs), with an inductive
invariant `IInv` that was first checked by TLC (for the summary, whose only step
is one call, the invariant `Answered`: the outcome is the answer to the request).

* **WorkflowProofs**: `TypeOK`, `ExplorerIdsUnique`,
  `TerminalAbsorbing`, for any limits and any patches. The iteration counts only
  Explorer starts, so an Explorer id is new if all earlier ones are at most the
  iteration (`IssuedInv`) and Explorer runs only after the supervisor found the
  limit not reached (`RoutingInv`); nothing writes to a finished state
  (`LifecycleInv`). `CompletionEarned` holds for any patches with `OwnEntries`.
  A history entry then was appended in an iteration in which its role was invoked
  (`EntryInv`), whoever is invoked found the agents before it invoked in the same
  iteration (`InvocationInv`), and no iteration begins while a recovery is
  under way (`RecoveryInv`). So the whole cycles that the policy finds between
  completed Validator entries lie in different iterations, and each of these had
  all three agents. With `Patches = HonestPatches`, also `ConventionAccepted`,
  `LimitEndsWholeCycles` and that every step is a step of `QACycle` or leaves the
  phase alone (`LoopImplementsCycle`). As long as no error was reported, the
  history is a prefix of Explorer, Knowledge, Validator, Explorer, ... and the
  counts of artifacts, verdicts and iterations are the ones that prefix implies
  (`CycleInv`); so two successive completed Validator entries are exactly three
  apart, and what the policy demands of a history is true of this one.
  Every history entry costs two node executions; so with `EnoughSupersteps` (six
  for every allowed cycle and one) the recursion limit is never in the way of the
  iteration limit (`SuperstepInv`): `EnoughSuperstepsSuffice` proves the very
  property that the run `workflow_default_limit` violates, and
  `RunsEndWithADecision` that such a call, unless an agent raises, ends only by
  returning a terminal state. `CallsEnd`, for any agents: `WorkLeft` is a natural
  number and every step of a call makes it smaller.
* **UsageRepositoryProofs**: `TypeOK`, `AcknowledgedDurable`,
  `RefusedPublishesNothing`, and that every step is a step of `AppendOnlyStore`.
  A name leads only to a whole, synchronized file (`PublishedInv`); that holds
  at the link because a file has one owner until then and the owner has written
  and synchronized it (`OwnFileInv`); success is reported only after the flush
  (`ReleaseInv`), and a flushed name is beyond a loss of power.
  For the readers `NoFalseCorruption` and `NothingAcknowledgedMissed`, from
  `ReadersInv`: the names a reader still has to read are published (`TodoInv`),
  what it has read is in the store (`FoundInv`), and what was acknowledged before
  it began is either read already or still to be read (`OwedInv`); published names
  never change, so none of this goes stale between the listing and the reads. That
  the limit leaves out only records that come later is a fact about the order of
  `_query`: `Place` counts the records that come before one, and `Selected` are
  those whose place is within the limit (the model checker evaluates, as an
  assumption of `MCUsageRepository`, that this is sorting and cutting).
  `SavesEnd`: every system call of a save makes `SaveLeft` smaller, the write loop
  included, and nothing others do makes it larger; the release alone may be
  interrupted, once, which the measure counts.
* **UsageCollectorProofs**: `HandleInOnePlace`, `OneRecordPerHandle`,
  `RecordTimesRight`. The first is inductive with the types, and the second
  follows step by step from it: whoever builds a record owns the handle, and
  nobody else does. `RecordOfItsStart` says that a record was computed from the
  readings taken when its own handle was started, not from what `Alter` has left
  in the handle. `SettlesForGood` says why the races end: a thread gets past the
  second look at the table only when the handle is out of it, and a handle never
  comes back.
* **BridgeRunnerProofs**: `TypeOK`, `ReapedAtEnd`, `SurvivorsExplained`,
  `VerdictHonest`, `FirstFailureStands`, for any limits and any number of
  processes. A buffer holds what was taken from its stream unless somebody was
  told (`StreamInv`, `FailureInv`); the group left after the first signal is
  stubborn or was started later, and after the second doomed (`GroupInv`); an
  exception in the `try` leads to a call that ends reaped with its group doomed,
  unless another one hits the handler (`ExceptionInv`). `StoppedCallsEnd`: once the
  stop event is set it stays set, and every step of the main thread, an interrupt
  included, makes `CallLeft` smaller; before that only the deadline bounds the loop.
* **ApplicationServiceProofs**: `TypeOK`, `ResultsFitTheCall`,
  `CancellationHonoured`, `OnlySizeRefuses`, `ChangedNeverCalled`, for any
  number of calls and any responses. `CallInv` carries what the passed checks
  established, `ResponseInv` what the boundary did; the clauses of the record about
  times, status and identifiers then follow, its own size follows from the sizes
  of the response and of the runner request, and only that of the result is left.
* **ScaffoldProofs**: `TypeOK`, `ResultsTrue`, `DescriptorsClosedOnce`,
  `NoHalfScaffoldSeen`, and that scaffolding implements `AtomicPublication`, for
  any number of calls, validations and manifests. A call fills a directory no
  other call has and that is not the target (`OwnTreeInv`), so what is renamed
  is whole; what is open, closed and published determines what the release may
  report (`ReleaseInv`), and in the undo of a capture what is left to close
  (lemma `UndoSteps`); and a target nobody else has touched is a whole
  scaffold, the one a validation has begun to read (`UntouchedInv`).
* **DemoCommandProofs**, first part, about `ArtifactFiles`: `FilesTypeOK`,
  `FilesExplained`, `RefusedTouchesNothing`, for any number of commands. Who has a
  file open is read off the stages (`WritersInv`), what was opened too
  (`OpenedInv`); as long as no command has begun to store before the last one
  left, the latest is alone inside and what it wrote is what is there
  (`AloneInv`). Then, about `DemoWorkflow` and `DemoCommand`: `ConventionKept`,
  `HandoffSound`, and that every step of a command is a step of `ArtifactFiles`
  (`CommandsKeepToFiles`), from which `FilesExplained` and `RefusedTouchesNothing`
  follow for the composition. For any tools, captures, responses, foreign roles
  and foreign documents, from `DocumentsAssumption` (documents have the fields and
  sequences the code gives them). `ConventionKept` assumes in addition `Patches =
  HonestPatches`, which is what it is about: the product agents are agents of the
  core with these patches. The invariant `DemoInv` says that the verdicts the
  supervisor reads are those of the results (`VerdictsInv`), that all but the last
  of a completed run failed (`SettledInv`), that what the product's Explorer
  recorded was captured for an invocation of this run after the request
  (`CapturedInv`), and that every candidate of the product's Knowledge agent was
  mapped from evidence of the run (`MappedInv`), which is why the Validator's
  repetition of the mapping cannot fail. A command with product agents only is
  thereby a run of the core, and inherits what is proved of convention-following
  agents (`ProductCommandsAccepted`). `HandoffAccepts` (`CompletedIsHandedOver`)
  holds even with a foreign Explorer and Knowledge agent: `CycleInv` says that
  when a verdict is due there is one piece of evidence and one candidate more than
  there are results, so the candidate the Validator selects is the last one
  (`SelectedIsLast`), its result stands in the same place (`OrderInv`), and what
  the handoff reads again is what the Validator has read before it passed the last
  candidate (`PassedInv`). Four theorems are about the composition itself.
  `StageInv` ties the stage of a command to what its run had decided; with
  `OpenedInv` of the files it gives `FilesOfAcceptedRun`: what a file holds of a
  command was extracted from a completed run the handoff accepted.
  `CompletedIsNeverRefused` is the converse for the product's Validator.
  `ProductCommandsDecide` combines `SuperstepInv` with `NoErrorEscapes`: a command
  of product agents with enough supersteps never ends in an exception of its
  workflow. `CommandsEnd` adds the stages to `WorkLeft`, and shows that no
  neighbour and no kill adds to the sum.
* **UsageSummaryProofs**: `TotalsExact`, `OrderIrrelevant`, `SummaryAccepted`, for
  any number of records, groups and costs, amounts of any length and any bounds
  with `UsageAssumption`, `NoneAssumption`, `SummaryAssumption` and
  `RequestAssumption` (a request is a sequence of objects of the record class,
  sound or not). All is arithmetic on recursive functions, so the module
  begins with what that needs. The library states induction over predicates,
  which the provers here cannot instantiate; `Induction`, `SetInduction` and
  `PrimitiveRecursion` state it over sets, `{n \in Nat : ...}`, and give sums over
  finite sets that do not depend on an order (`SumUnique`), add up over parts
  (`SumGrouped`) and survive a renaming of what is summed (`SumRenamed`).
  `TotalsExact` rests on two facts about decimals: a sum of two accepted decimals
  has no digit too many for the context, so it is exact (`SumOfExact`), and a
  decimal with no larger scale and no larger coefficient than an accepted one is
  accepted (`AcceptedSmaller`). Hence running totals are exact until one is
  refused (`RunningExact`), and one is refused on the way exactly when the exact
  sum of all is too long (`RunningOverflow`): later amounts never make it shorter.
  A part of a selection without overflow has none (`OverflowExact`), so checking
  the groups refuses nothing more.
  `OrderIrrelevant` then needs no sorting argument: a permutation renames the
  positions, and exact sums, counts and sets of identities do not notice
  (`ReorderedMetrics`, `ReorderedAnswer`).
  `SummaryAccepted` has two halves. The numbers of every part fit each other
  (`PartAccepted`), before and after the loss of trailing zeros; and the groups
  partition the selection, so counts, durations and tokens add up (`SplitSum`),
  and so does money (`MoneyRolledUp`): amounts of the groups after their round
  trip, in any order, are compared with the whole in units of the finest scale
  in use, where neither zeros nor the order matter (`SameUnits`, `ListedMoney`).

The invariants and measures the theorems above name and no run lists
(`SuperstepInv`, `RunEndsDecided`, `CallsRunDown`, `ReadersInv`, `SavesRunDown`,
`RecordOfItsStart`, `SettlesForGood`, `StoppedCallsRunDown`, `StageInv`,
`FilesOfAcceptedRun`, `CompletedIsNeverRefused`, `CommandRunsDown`) were checked
by TLC on the instance of their component before they were proved. The measures
prove the half of the liveness properties that is about safety, that nothing can
make a call, save or command go on for ever or undo what it has done; the other
half, that a step is possible and is taken, is about `ENABLED` and fairness.

Only model-checked: all liveness (`RunReturns`, `SaveReturns`,
`TerminalizationSettles`, `CallReturns`, `CommandReturns`, and the fairness in
`CycleSpec`; the prover has no `ENABLED`), of which the measures above prove a
part. Every safety invariant and every action property that a passing run lists
is also a theorem for all values of the constants. The type
invariants of `Workflow`, `UsageRepository`, `ApplicationService`, `Scaffold` and
`ArtifactFiles` are proved and no run repeats them.

## 5. Not modelled

The construction of the registries, request-size and JSON decoding details of
the bridge, Windows, the parent directory of the usage store, reuse of process
ids (`bridge_runner.py:449` signals the group of a child already reaped), prompt
text and scrubbing, browser capture, loading of packs, pricing, the text of
generated tests, argument parsing, requests refused for their form, and the
plain validation of single fields. Reasoning and traces are not modelled: the
service keeps no state between calls, no workflow calls it yet, and its traces
are single inserts with a fresh id; that `complete_manual` may be called twice
for one prepared exchange, leaving two traces, is a hazard without a property.
`timeout_ms` of a runner request is enforced by no code of this commit. The list
of components in PROJECT.json gives the reason for each part.

## 6. Plan

1. **Proofs**: done for what is modelled; the properties of the parts below when
   they are.
2. **Usage pipeline**: collector composed with repository, two handles of one
   invocation id give one stored record; pricing in front of it, and the summary
   over what a query returns.
3. **Reasoning and traces**: prepare/complete, append-only traces, duplicates.

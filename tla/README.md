# A TLA+ model of Unchained

Unchained (`src/unchained`) runs a forensic investigation that a language model
leads and deterministic code controls: the model chooses typed read-only tools
and proposes findings; the code owns the evidence, the caps, the audit log, the
judge's limits, the report and the proof bundle, and verifies the bundle offline
at the end.  This directory models the deterministic part in TLA+, checks it with
TLC on small instances and proves what it can for all of them with TLAPS.

## The system

| Component | State it keeps | Operations | Status |
|---|---|---|---|
| Hard caps, `caps.py` | counters of calls, tokens, cost; start time; the cap that fired; one lock | `check`, `reserve_tool_calls`, `prepare_model_request`, `record_model_usage`, `remaining_wall_seconds`, `snapshot` | modelled |
| Audit log, `audit.py` | `audit.jsonl` (hash-chained lines), sequence and previous hash in memory, one lock, `tool-outputs/` | `append`, `tool_started`, `tool_completed`, `model_request`, `model_response`, `close`, `verify`, opening an existing log | modelled |
| Tool registry and pool, `tools.py` | claimed call ids; a thread pool per batch | `validate`, `execute`, `execute_batch` | partly |
| Isolated worker, `tools.py`, `_tool_worker.py` | one process group per call, two pipes, a deadline | `_run_isolated_worker` and the child's main | partly |
| Model client, `model.py` | none of its own | `AuditedModel.create` with retries and backoff | partly |
| Controller, `agent.py` | notes, findings, verdicts, retained tool results | `run`: opening, investigate, finalize, judge, report | partly |
| Run lifecycle, `cli.py` | terminal status, exit code, artifacts | `run_cli` | modelled |
| Evidence, `evidence.py` | snapshots, mount, worker process, `_verified`, `_closed` | inventory, mount, `verify_custody`, `close` | partly |
| Artifacts, `artifacts.py` | files of the bundle | atomic replace, manifest pair | partly |
| Offline verifier, `verify.py` | the list of errors | `verify_run` | partly |
| Reporting, viewer, onboarding, console, installers | none that a run depends on | rendering, prompts, I/O | left out, but for what the viewer binds |

How they interact: `run_cli` creates one `AuditLog` and one `RunBudget` and hands
both to `AuditedModel`, `ToolRegistry` and `UnchainedAgent`.  All calls are
synchronous.  The only concurrency inside the process is the thread pool of
`execute_batch`, whose threads share the budget and the log with the controller;
beside it there are the worker processes of the tools and of the mount.  A cap is
an exception, `CapExceeded`, that any call of the budget may raise in any thread;
the controller turns it into a PARTIAL run.  The log is the record: the controller
reads it back (`tool_receipts`, `_record_cap`), and the verifier rebuilds the run
from it.

What is hard here, and which properties make each part correct:

* caps: many threads read, compare and store counters and a clock.  Grants never
  exceed the cap, an admitted request leaves room for its response, a fired cap is
  final, the methods are atomic.
* audit: concurrent appenders, short and failed writes, crashes between write and
  sync, shared outputs.  The chain stays extendable, what was acknowledged survives,
  a completion has its output.
* tools: all-or-none reservations, a pool smaller than the batch, exceptions that
  overtake results, caps that fire while calls are queued.  One receipt per call, the
  budget agrees with the receipts, nothing runs after the batch, and of what was queued
  when a cap fired almost nothing starts.
* model client: retries against a deadline.  One charge per response, no dispatch
  after a cap, a log the verifier accepts, every call ends.
* controller: what the model answers is arbitrary.  A COMPLETE run passes the
  verifier's strict rules, verdicts are never stronger than findings, a cap is
  recorded once, every run ends.
* citations: the agent resolves quotes to byte spans, the verifier resolves them again
  from the files.  What one accepts the other accepts.
* lifecycle and artifacts: any step of `run_cli` may fail, be interrupted or be the last
  one.  What is sealed verifies, the exit code is earned by the evidence as it then is,
  and no bundle that was left unfinished or changed verifies.
* mounts and workers: two processes on each side of a pipe, signals that arrive during
  the cleanup, commands that outlive their owners.  A release that is reported is real,
  a mount is left only for a reason, and everything ends but a wait on a pipe that a stray
  descendant keeps open.

`PROJECT.json` lists each hazard at its line with the properties that watch it.

## The modules

| Module | Models | State and actions against the code |
|---|---|---|
| `Budget` | the arithmetic of `caps.py` | one operator per method, from the budget found to the budget left; the method raises exactly when the result has a fired cap |
| `AtomicBudget` | the promise of `RunBudget` | each method in one step at a clock reading that is not before the last one |
| `RunBudget` | `RunBudget` with its lock | `Invoke`, `Enter` (lock taken, counters and clock read), then `Check`, `Reserve`, `Prepare` or `Record` (stored, lock released); any thread in between |
| `BudgetProofs`, `RunBudgetProofs` | lemmas about `Budget`, theorems about `RunBudget` | see below |
| `AuditLog` | `AuditLog`, file and disk | an append is `Enter`, `WriteSome`, `WriteRest`, `Sync`, or `Abort` at any of them; `tool_completed` goes through `Install`, `SyncDirectory`, or `InstallFails`; `Close`, `Crash`, `Reopen` |
| `AuditLogProofs` | theorems about `AuditLog` | see below |
| `ToolRegistry` | `ToolRegistry`, its pool | the controller's `Submit`, `Reserve`, `Refuse`, `Collect`, `Return`; a pool thread's `Take`, `Start`, `Grant` (the time left), `Launch` (the process), `Finish` or `Raise`, `Complete`; `AuditFails`; `Hold`, a descendant that keeps the pipe |
| `ToolRegistryProofs` | theorems about `ToolRegistry` | see below |
| `ModelCall` | what `create` promises the agent | send, charge, accept, or end capped or failed |
| `ModelTransaction` | `AuditedModel.create` | `Preflight`, `AuditRequest`, `Dispatch`, `Respond` or `FailAttempt`, `Backoff`, `Wake`, `GiveUp`, `Charge`, `Accept`; implements `ModelCall` |
| `ModelTransactionProofs` | theorems about `ModelTransaction` | see below |
| `Investigation` | `UnchainedAgent.run` | `Ask` and `Await` (one `ModelCall`, instantiated), then the phase's own action: `Open`, `Act`, `Done`, `Finalize`, `Judge`, `Report`; `Observe` for a batch; the handlers `StopCapped`, `StopBroken`; `CheckLast`, `Complete` |
| `InvestigationProofs` | theorems about `Investigation` | see below |
| `Citations` | spans, quotes and citations in `agent.py` and in `verify.py` | operators of both sides over texts as byte sequences: `FindingAccepted`, `VerdictAccepted` against `CitationsVerified` |
| `ProofBundle` | summary, viewer binding, manifest, checksum, and `verify_run` | what a file was made from stands for its bytes; `Verified` is the conjunction of the verifier's parts |
| `RunLifecycle` | `run_cli` and `main` | the place in `run_cli` (`pc`), the bundle on disk, the case (session, evidence, baseline, release), the result; one action per record, store or call; `Raise`, `Interrupt`, `Kill`, `Disturb`, `Damage` around them |
| `RunLifecycleProofs` | theorems about `Citations` and `RunLifecycle` | see below |
| `HostResources` | layers of a mount, the wall deadline, what strays hold open | `TakeDown` is the commands that release the layers, `OwnedReleased` the code's verdict on them |
| `MountWorker` | `_ReadOnlyMount`, `_ReferenceMountWorker`, the worker's main | parent (`at`), process (`child`), the lines between them, the commands of either; interrupts, kills, commands without an owner |
| `ForensicWorker` | `_run_isolated_worker`, `_tool_worker.py` | caller, reader thread, worker and its descendants |
| `EvidenceHost` | the two together as `run_cli` uses them | mount, then calls, then close; the specification with its fairness |
| `EvidenceHostProofs` | theorems about `EvidenceHost` | see below |
| `MC...` | instances for TLC | usages, batches, thread sets, outputs and texts |

The pieces fit together through what they share.  `Budget` is the arithmetic of all
of them.  `RunBudgetProofs` shows that the locked methods are atomic, so
`ToolRegistry` and `ModelTransaction` use one step per method.  `ModelTransaction`
implements `ModelCall`, so `Investigation` uses `ModelCall`; `ToolRegistry` shows that
a batch returns with its receipts and nothing running, so `Investigation` starts a
batch and sees it end; a batch that a held pipe keeps in its pool for ever (`Hold`) is
not in `Investigation`.  Audit appends are atomic outside `AuditLog`, which is where
their failures are studied; `ToolRegistry` also lets them fail, because what an
exception does to a pool is a question of its own.

`RunLifecycle` takes the agent as what it records and how it ends: the order of its
events is `Investigation`'s, and what may be in a finding or a verdict is `Citations`',
which `ProofBundle` checks on the bundle.  It takes the mount as `released` or not,
which is what `EvidenceHost` decides.  `EvidenceHost` composes `MountWorker` and
`ForensicWorker` over `HostResources`: a stray descendant of a tool keeps the mount
busy.  That the mount is closed only when no call runs is `NothingOutlivesBatch`.

Abstractions common to all: a record, a message, an output or a finding is an
element of a small set or a record of the few fields that a property reads.  Hashes
are fresh numbers.  Money is counted in whole units.  Prompts, texts, formatting and
JSON are left out.  What the model or a provider answers is a free choice, and so is
what a tool returns.

## What the runs check

| Run | Instance | Shows |
|---|---|---|
| `budget` | two threads; caps of 3 calls, 6 tokens, 2 s, and a cost cap that two ordinary responses reach | grants, open-run caps, preflights, finality, and refinement of `AtomicBudget` under all interleavings |
| `budget_price` | the same | violation: the uncached price is not "the safe preflight price" when a response writes to the cache |
| `audit` | two threads, one output and a note, three appends, one crash | the chain, acknowledged records and outputs survive; every append ends |
| `audit_power` | the same | violation: an output shared by two calls may be completed on record before it is durable |
| `audit_fault` | the same | violation: an append after a failed one is acknowledged on a broken chain |
| `tools` | batches of 3, 2 and 1 calls, pool of 2, cap of 4 calls, then the deadline; bad, repeated and reused ids | receipts, all-or-none, budget agreement, order, few late starts, no survivors, termination unless a descendant holds a pipe for ever |
| `model` | two calls with up to two retries, deadline of 8 backoff units (a third backoff would fit, a late one does not) | the log window that the verifier accepts, one charge, no late dispatch, termination, refinement of `ModelCall` |
| `investigation` | three call ids, cap of 2 calls, 15 tokens, a deadline; one finding with three statuses and any citations | strict completion, verdicts, caps on record once, bounded requests, termination |
| `investigation_deadline` | the same | violation: a COMPLETE run may carry an elapsed time at or past its deadline |
| `lifecycle` | two calls with two possible outputs, findings of up to two quotes, one fault anywhere, damage included | what a run seals verifies, exit codes are earned, only whole and unchanged bundles verify |
| `lifecycle_spans` | the same without faults | violation: a COMPLETE run with two spans of one id fails its own verification |
| `host` | the three pinned methods or the direct mount, one call, three faults | releases are real, mounts and processes are left only for a reason, everything ends |

The bounds are named in the modules (`Horizon`, `MaxAppends`, `MaxCrashes`,
`MaxCalls`) or are the caps themselves.  They are small and still reach every case
the code distinguishes: three appends are a torn or failed one, one after it and one
beside it; a batch of three on a pool of two leaves a call queued while others end;
two model calls let the second meet what the first has spent; a cap of two calls gives
an opening of two, or one and a turn, and then the cap; usages include a malformed one,
one longer than estimated, a cache read and a cache write.  Two outputs of three bytes hold
a text at one place, at two places and at none, and may be equal; one fault is enough for
a failure at each step of `run_cli`, and three in `host` for a worker that is killed, its
command that goes on and a release that fails.  Two threads suffice for the
races because all critical sections are pairwise; the proofs have no such bound.
Every property of a passing run has a mutant, a plausible bug that makes it fail under
the same configuration; the mutants stand beside the definitions they change.

### Disagreements found

1. `caps.py:273` calls the uncached price safe; a cache write costs more
   (`UncachedPriceIsSafe`).
2. `audit.py:194`: nothing marks a log whose append failed; `run.failed` is then
   appended to it and acknowledged (`AckedChainVerifies`).
3. `audit.py:436`: the second owner of an output does not wait for its directory
   entry to be durable (`PersistedBeforeCompletion`).
4. `agent.py:233` and `agent.py:240` read the clock twice around the deadline
   (`CompleteBeforeDeadline`).
5. `agent.py:979`: the id of a span does not depend on its call, so a finding that
   quotes the same text from two calls with equal outputs makes a COMPLETE run fail its
   own verification (`HonestRunVerifies`).

Read in the code and reproduced by the models, without a run of their own:

* a `ValueError` out of `agent.run` (text of the model that UTF-8 does not have) is
  handled as a failed preflight: an investigation ran, and the status is INVALID, exit 2;
* a cap that fires before the agent is in the log, but the summary takes the cap from the
  investigation (`cli.py:1798`), which there is none of; `README.md:372` calls the status
  "Audit-derived";
* when the name of a changed evidence file is not UTF-8 the record of the mismatch cannot
  be encoded, the exception leaves `run_cli`, and the exit code is 2, not the 1 of
  `README.md:617` (`Unencodable`, the first disjunct of `ExitIsEarned`);
* `_terminate_process_group` returns when the leader is gone (`evidence.py:1059`), and an
  interrupt leaves the command of a direct mount running (`evidence.py:371`): either may
  complete a mount after its release was reported (`late` in `ReleasedIsReal`), although
  `docs/ARCHITECTURE.md:77` has the final custody check "only after forensic work and
  mount access have stopped";
* an interrupt between a direct mount and `_direct_mount = True` (`evidence.py:1492`)
  leaves a mount that `close` does not unmount; the release is then reported as failed;
* a descendant of a tool that left the process group and keeps the pipe open blocks the
  caller in `close` of stdout (`tools.py:752`) without bound, and with it the batch that
  waits for its pool (exempt in `Settles` and in `BatchEnds`).

## Fairness

* `AuditLog`: weak fairness of each thread inside a call: the lock is a mutex of the
  standard library and its holder always goes on.  Calls, closes, crashes and reopening
  are never obliged to happen.
* `ToolRegistry`: weak fairness of the controller, of the pool taking calls, and of
  each call taken.  That a tool ends is the wall deadline of its isolated process, unless a
  descendant outside its group keeps its pipe open (`Hold`): such a call need never go on,
  and `BatchEnds` is about behaviours in which none is held for ever.  No fairness of
  `Hold`, of `Submit` or of the clock.
* `ModelTransaction`: weak fairness of the client's own steps, of the provider (an
  attempt carries a timeout) and of the clock (a backoff sleeps).
* `Investigation`: weak fairness of the one control thread only; the deadline need
  not come for the run to end.
* `EvidenceHost`: weak fairness of the parent, the process of the mount, commands without
  an owner (the kernel finishes them), the tool worker with its reader, and the clock.
  Each is a process or a thread that the system schedules.  No fairness of faults, and a
  descendant of a tool need never end.
* `RunBudget`, `RunLifecycle`: safety only; the steps of `run_cli` follow one another.

Runs with `CHECK_DEADLOCK FALSE` may stop by themselves: a run ends, or a bound on
calls is used up.

## What is proved

`RunBudgetProofs` proves, for every set of threads, all caps, prices, usages and
requests that satisfy `CapConfigAssumption`, `PriceAssumption`, `ThreadAssumption` and
`CallAssumption`:

* `TypeCorrect`, `NoOvergrant`, `OpenIsWithinCaps`, `PreflightIsEnough`: the invariants
  `TypeOK`, `GrantsWithinCap`, `OpenWithinCaps`, `PreflightHoldsTokens`;
* `PreflightPays`: the invariant `PreflightHoldsCost`;
* `FiredStays`: the action property `FiredIsFinal`;
* `LockMakesAtomic`: `RunBudget` implements `AtomicBudget`.

None of the invariants is inductive alone.  A method computes from what it saw when it
took the lock, so the induction needs `IInv`: at most one thread holds the lock, a
holder is inside a method, and what a holder has seen of the counters still is the
counters, with a clock reading between the last one acted upon and now.  To these come
the invariants themselves and the preflight that the client has out: its estimate and
its allowance still fit under the token cap, because only the client spends tokens.
Lemmas about the arithmetic (in `BudgetProofs`: `Checked`, `Reserved`, `Charged`,
`Prepared` keep the type of the budget, keep a fired cap, raise no counter past its cap while none has fired)
carry the steps, one per action.  For the refinement, `Enter` and `Invoke` stutter and
the step that leaves the method is the abstract step at the reading the thread took.

For the dollars the induction carries `RequestPaid`: while a preflight is out, what is spent
and what the request may cost at most (`RequestCost`: all input at the uncached rate, all
the output allowed) fit under the cap.  `_prepare` divides by the output rate, so that
the allowance times the rate is within what is left (`PreparedPays`); what is charged is no more, because
long-context rates only grow with the input and a cached token costs no more than
another (`ChargedCost`).  The last is `CachedAssumption`, true of the code's own price table
(`caps.py:31`); a response that writes to the cache is exempt, which `budget_price` shows to be
necessary.

Prices need `OutputPrice % 2 = 0` so that the long-context factor 1.5 stays whole; the
code's floats are not modelled.

`ToolRegistryProofs` proves, for every finite set of ids, all batches, every pool size
and all caps that satisfy `RegistryAssumption`, every safety property that the run
`tools` checks: `TypeCorrect`, `ReceiptsAreUnique`, `BatchesAreWhole`,
`BudgetIsAccountedFor`, `NothingIsLeftRunning`, `ResultsKeepOrder`, `LateStartsAreFew`.
Its `IInv` says what each call's stage implies for its log, status, exception and
admission (`CallsFit`), that unclaimed and unreserved ids left no trace (`NewFits`),
that claimed batches are disjoint and each admitted whole or not at all (`BatchesFit`),
that only calls of the running batch are queued or busy (`OnlyOwn`), what the queue
holds (`WaitingFits`), what was collected (`ResultsFit`), and that the budget's count is
the number of admitted calls (`CountFits`).  Each is needed: a receipt is unique
because its id was new when claimed, the count is right because a batch has as many ids
as calls, and a result is collected only of a call that is done because one that failed
in the pool holds an exception.  The steps of pool threads share one lemma (`CallStep`):
they touch nothing but their own call and the fired cap.

`LateStartsAreFew` is about the gap between the question how much time is left
(`tools.py:634`) and `Popen` (`tools.py:675`): a process may start after the deadline or
after another thread fired the cap.  Its invariant (`LateFits`) counts the late starts
together with the grants that are out.  Before the cap nothing is late, and the calls with a
grant are among the busy threads, which are at most `PoolSize`; from the cap on no grant is
given, so a late start only moves a call within the count.  The look after the process
(`tools.py:636`) then finds the cap, which stays fired.

`ModelTransactionProofs` proves, for all caps, prices, usages and any number of retries,
the four invariants and the action property that the run `model` checks (`TypeCorrect`,
`ChargedOnce`, `FailureRecorded`, `AcceptedVerifies`, `DispatchedInTime`) and that the
client implements `ModelCall` (`ImplementsCall`).  `IInv` adds to the invariants what the
log holds at each place of the client (`Recorded`: the request, for each earlier attempt
an error and a scheduled retry, and what the place itself has written), that an attempt
which is retried is not the last one (`Retries`), and that a cap fires only where the call
ends by it (`Open`).  For the refinement, attempts, backoffs and readings of the clock
that find no cap stutter; a reading that finds one is `ModelCall`'s own reading of it.

`AuditLogProofs` proves, for any set of threads and any number of appends and crashes,
the four invariants that the run `audit` checks: `TypeCorrect`, `ChainStaysIntact`,
`AckedIsKept`, `ArtifactFirst`.  `IInv` says that a hash is given out once and stands in
one place at a time (`HashesInFile`, `HashesInFlight`), that a thread inside an append has
stored its output (`Stored`), that the last line is the writer's once it has written
(`OwnLine`), and that without a fault the chain in memory is that of the lines before it
(`ChainSoFar`).  What was acknowledged is among the durable lines in the order of the
returns, or a durable line is garbage and `verify` refuses the log for good (`AckedKept`):
a failed append may leave half a line that the next one completes.

`InvestigationProofs` proves, for all caps, prices, sets of call ids and findings, and
whatever the model and the tools answer, the five invariants that the run
`investigation` checks: `TypeCorrect`, `CompletionAccepted`, `VerdictsKeep`,
`CapRecordedOnce`, `RequestsAreBounded`.  `IInv` relates the place of the controller
to its log: what a fired cap leaves to do (`Capped`), what is judged by when (`Judged`),
how many responses there are against reserved calls and phases (`Bounded`; `Owing` is the
response whose turn is still under way), and, while nothing has gone wrong (`Smooth`), that
the log so far is a prefix of one that the strict completion accepts (`OnCourse`: receipts,
the required events in order, a response within each phase, and each turn of the loop
followed by its tool and its action).  The assumptions say that estimates and output
limits are positive.

`RunLifecycleProofs` begins with the citations, which `RunLifecycle` brings in through
`ProofBundle`.  It proves, for outputs, quotes and texts of any length over any bytes and
any limits on quotes: the spans that the agent resolves pass the verifier
(`SpansVerify`), the quotes of an accepted verdict do (`QuotesVerify`), and so do the
citations of an accepted finding and verdict (`AcceptedVerifies`).  The one assumption is
that no two spans of the finding share an id, which `HonestRunVerifies` shows the agent
does not ensure.  The lemmas say that the first occurrence is a place of the text, that
the bytes of a span are its quote, and that a text within a text within an output is
within the output.

About `run_cli` it proves `TypeCorrect`, `ExitEarned`, `OnlySealed` and `SealedVerify`, the
four invariants of the run `lifecycle`, for any finite set of calls, any outputs and texts,
any number of faults at any place, and any damage afterwards.  `IInv` ties the place in `run_cli` (`pc`)
to what is on disk and on record by then:

* `InOrder`, `OnDisk`: what is written is a beginning of what is to be written, the
  directory holds that and nothing else, and a temporary is left only for the file whose
  turn it is.
* `Whole`: the detached checksum is there only when everything else is, and then the
  manifest lists files, outputs, log and status as they are; what was damaged does not
  verify.
* `OutputsFit`: an output is kept under its own content, and the outputs are those of the
  receipts as soon as every call has one.
* `Rested`: what a status rests on, among it the released mount and the one record of the
  final custody check with the baseline.

The exit code is known only at the end, so `ExitIsEarned` needs all of them at `verify`.
`VerifiesOnlySealed` needs one step that runs of TLC show only for their outputs
(`DamageShows`): every change of one file, output or record that `Damage` makes to a
complete bundle fails a check of the verifier, because the manifest says what was there.
The lemmas about the agent say what a whole batch leaves in the log and among the outputs
(`BatchRecords`, `RetainedFits`) and what the beginning of one does (`OneCall`).  Three
assumptions serve the proofs: the calls are finitely many, outputs and texts are sequences of
bytes, and an output is never empty, since it is JSON and `Damage` makes it empty.

`SealedVerify` is `SealedVerifies`: whatever a run that is not FATAL has sealed passes every
check of the verifier.  `IInv` says what is on disk and that the manifest lists it; it does
not say of what.  That is a second invariant, `KInv`, inductive together with `IInv` (TLC had
checked it for one call with two faults and for two calls with one):

* `OnCourse`: in the try body the place says what is on record, and the records are in the
  order of `Rank`, which only the records of one batch share.
* `Recorded`: while a run that is not FATAL goes on, its log is some records `s` followed
  by the receipts of the artifacts as far as they are on record (`Follows`); `s` is in order and
  holds all that the verifier asks of it (`Based`: each call started and completed once,
  the profile on record as it was taken, citations that resolve, and for COMPLETE every
  event of the agent and no failure); the artifacts were made from `s` and not from a later
  log (`ContentOver`).

The order by rank carries most of it: what comes once, what comes before what, and that the
last record before the artifacts is the final custody check of a COMPLETE run.  An exception
that is not a cap or a preflight error makes the run FATAL, of which `KInv` claims nothing;
what an exception can leave behind and still go on is the beginning of a batch in which
each started call has its receipt (`AgentRaisesOn`).  At `verify` the log then has a fixed
form (`Closed`), and one lemma for each check of the verifier (`SealedTools`,
`SealedCitations`, `SealedCustody`, `SealedProfile`, `SealedLifecycle`, `SealedViewer`)
reads the check off it.  The citations rest on `AcceptedVerifies`; as there, no two spans
of the finding may share an id.

`EvidenceHostProofs` proves `ReleasedIsReal` for any number of faults.  `close` reports
what it has last seen, so the induction needs to know what else may still act: `IInv`
says which process may exist at each place of the parent (`Ownership`: after the
termination of a worker nothing but commands without an owner makes layers), that only
dmpad, the last method, has layers below its mount (`LayersOfMethod`: the code looks for
loop devices for dmpad alone), and what is known to be gone once a worker has been let go
(`LetGo`).  The lemmas are one per action.  `LeftIsExplained` proves `LeftForAReason` from
that invariant and two more: where the parent is after a method has been given up, and
when the process has exited, what is still active has its reason (`Reasons`), and the
worker of a tool lives only inside a call (`CallOwns`).

Every safety invariant of a passing run is stated by one of these theorems.  Checked by TLC
only: all liveness, which TLAPS cannot prove (no fairness and no `ENABLED`).  No module
declares a recursive operator.

## What is not modelled

* Rendered text: report, viewer HTML, prompts, notes; the reply parsing of the provider
  client; encodings and JSON, but for the exception that text without UTF-8 raises.
* Evidence: classification and routing of files (`evidence.py`), path checks against
  symbolic links, hashing by blocks.  A baseline is a number that changes with the
  evidence.
* Verifier: the shapes of payloads field by field, prices and digests (most of
  `verify.py`), which are comparisons of a document with itself.
* Failures of the file system other than a write or a sync that raises, and disks that
  lie about a sync.  In `Investigation` an audit append does not fail: such an exception
  leaves `run`, and is `AgentRaises` of `RunLifecycle`.
* Host: the release commands are one step; a device-mapper name never exists beforehand;
  one call after the other, so one stands for all; a run killed during a call, a second
  interrupt inside `close`, and a second SIGTERM to a process that is cancelling; the wait
  without bound for a fixed command that outlives its SIGKILL (`evidence.py:374`).
* How the child of a tool confines paths and resources: it is one step to an answer.
* Onboarding, console, installers: I/O that no run depends on.

## Plan

Order of the work, most important first; done parts are in the tables above.

1. `EvidenceRouting`: classification, profile and routing of evidence as operators,
   checked against a reference definition on bounded inputs.
2. `ForensicWorker` shown to implement the one step of `ToolRegistry`, with the cap that
   an exception skips.
3. The verifier's rules on model calls, prices and retries over a whole log, which
   `ModelTransaction` and `Investigation` then share.
4. Abstract specifications worth stating: an append-only ledger that `AuditLog`
   implements; a run as status and record that `RunLifecycle` implements.

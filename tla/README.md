# A verification project for RateMyAgent

RateMyAgent scores how a tool server, or an agent that uses one, behaves when
calls fail. It puts a fault-injecting layer between a caller and an MCP server,
drives operations through it, and compares what the caller believes with what
the server's state says. The numbers it reports (recovery, duplicates, lost
effects, the client's own read timeout) are only worth something if the layer
and its record tell the truth, which is specified and proved about first; and if
what is concluded from them, down to the exit code, does not lose it again.

The specifications are translated from the Python in `src/ratemyagent/`; the
documentation and the tests were read for what the code is expected to do.
Everything here is checked: TLC explores the small instances of the `.cfg`
files, TLAPS checks the proofs of the `*Proofs` modules and of `DataTheorems`.

    tlc -config ProxyRecord.cfg MCProxyRecord.tla
    tlapm ProxyRecordProofs.tla

`PROJECT.json` lists, in a form a script can read, the components, the runs and
their properties, the source lines each definition stands for (`map`), one way
each property can be broken by a plausible bug (`mutants`; a definition marked
"mutant" in a module is such a bug and belongs to no specification), the
hazards, the findings and the theorems.

## 1. The system

Two ways of scanning share most of the code.

*In process.* `scanner.run_scan` opens a target (an MCP server, an LLM
endpoint, a mock) and runs probes against it phase by phase. `FaultInjector`
wraps the target in a `FaultProxy`, sends operations through it and retries the
failures itself.

*Out of process* (`scan --agent`). The target is somebody's agent. The scan
starts the agent's process with a configuration that names
`ratemyagent proxy ...` as its MCP server. The agent launches that proxy, the
proxy launches the real server, and every call passes through the proxy's
`FaultProxy`. The scan never talks to the proxy: it writes a schedule file
before the task and reads a record file after it.

    scan --start, kill--> agent --stdio--> proxy --stdio--> upstream server
      |                                      |                    |
      |--schedule file---------------------->|                    |
      |<--record file (JSON lines)-----------|                    |
      |--state reads (verify tool, or command)------------------->|

### Inventory

| Component | State it keeps | Operations | What makes it correct |
|---|---|---|---|
| Fault layer, `targets/fault_proxy.py` | draw counter, ordinal per tool, trajectories | `invoke`: draw or look up a fault, reject / forward / corrupt / lose | the fault that took effect, and whether the call ran, are recorded as facts; a seed or table always gives the same faults |
| Record, `proxy.RecordWriter`, `read_record`, `replay` | an append-only file; row count, ordinals, "listed" flag read back from it | `write`, `note`, `listed`, reconnect | a reconnected session continues the schedule; no answer without its row; a kill loses a bounded amount |
| Proxy session, `proxy.ProxyServer`, `serve` | line queue, held replies, close deadline, hold | take a line, serve it, release what is due, close | holding never blocks reading; the close comes on time and once; stamps are not late |
| Agent target, `targets/agent.py` | pass name, agent process, pipes, work directory | `start_pass`, `write_schedule`, `invoke`, snapshots | a window holds its own task's effects; a record its own calls; the scan ends |
| Baseline, repeats, `agent_baseline.py`, `repeats.py` | clean counts, results per run | clean pass and refusals, held task, chaos runs | refuses what it could not measure; one record per run |
| Client-timeout probe, `agent_deadline.py` | none | `measure` one record | what is reported is the agent's patience, not the proxy's or the scan's |
| Recovery pass, `probes/fault.py` | operation ids, trajectories, backoff budget, two state reads | send, retry, wait, read, count | effects are attributed to the right operation; the budget is kept; every attempt is made |
| Behaviour, agent metrics, `behavior.py`, `agent_metrics.py`, `models.Trajectory` | none (pure) | join rows, claims, effects | derived values mean what the sentences say |
| Scan pipeline, `scanner.py`, `probes/base.py` | context, phase results, wall clock | refusals, phases, timeout, teardown | an interrupt, a timeout and a target's fault are told apart; the scan ends |
| MCP target, `targets/mcp.py` | session, server process, id salt | open, preflight, invoke, verify, close | each request bounded; close ends |
| Latency, concurrency, `latency.py`, `concurrency.py` | samples | warmup, ramp | levels and percentiles select what they say |
| Policy, `policy.py` | none (pure) | score, cap, coverage, blockers, verdict | a worse or a withheld metric never improves a verdict |
| Contract, `contract.py`, `mutability.py` | tools listed, cases, controls | choose tools and cases, send each with its control, count | a tool is blamed for what it did and not for a session that ended; writes only with leave |
| Cost, `cost.py` | samples | tokens, prices | a price that was not measured is not scored |
| Command line, guide, verdict lines, `cli.py`, `outputs/` | files written | refuse usage, scan, evaluate, render, exit | exit code, line, record and guide tell one story, and none speaks of a number that was withheld |
| Mock, LLM, tools | - | - | see "Not modelled" |

### What is hard

* *Processes that end at the wrong moment.* The agent kills its proxy, the scan
  kills the agent, a closing fault ends a session; the next session has only a
  file to go by.
* *One file, several writers in turn, many readers.* What a reader concludes
  depends on the order of two writes (the row, the reply) in another process.
* *Time measured from the other side.* The client's patience is inferred from
  arrival stamps taken by a loop that is itself waiting for deadlines.
* *Effects that land late.* A timeout stops the waiting and not the work: calls
  of an earlier phase, task or attempt are applied inside a later window.
* *Retries and ids.* The same operation is sent again by the scan or by the
  agent; whether that is a duplicate depends on facts about earlier sends, in
  an earlier pass or an earlier scan too.
* *One exception for four causes.* The user's interrupt, the scan's deadline, the
  SDK's own cancel scope and a session that dies all arrive as a cancellation at
  whatever await is current.
* *Measurements that are not there.* A metric is withheld for many reasons, each
  probe decides for itself, and the score, the caps, the verdict, the caveats, the
  guide and the exit code each read the gap in their own way.

The hazards list in `PROJECT.json` gives each at its line, with the properties
that cover it.

## 2. Modules

| Module | Stands for | Extends |
|---|---|---|
| `FaultKinds` | what one fault does to one call: `FaultProxy.invoke`'s branches, `executed`, `realized_fault`, `response_to_wire` | |
| `ProxyRecord` | one task's record and the proxy sessions that write it, with kills between and inside steps | `FaultKinds` |
| `ForcedSchedule` | *abstract*: a schedule is consulted at 1, 2, 3, ... per tool, whatever the sessions | `FaultKinds` |
| `ProxyRecordProofs` | theorems about `ProxyRecord` and about the record read back | `ReplayedRecord`, `DataTheorems` |
| `DeadlineProbeProofs` | theorems about `ServeLoop`, then about `DeadlineProbe` | `DeadlineProbe`, `TLAPS` |
| `RecoveryPassProofs`, `TaskWindowProofs`, `AgentRunProofs`, `ScanSessionProofs`, `VerdictProofs` | theorems about the module named | that module, `TLAPS` |
| `DataTheorems` | facts about sequences, ranks in a finite set and sums over one, for the modules that sort and count | `FiniteSetsExt`, `TLAPS` |
| `ReplayedRecord` | the record read back as trajectories (`proxy.replay`) | `ProxyRecord`, `Trajectory` |
| `Trajectory` | the derived values of `models.Trajectory` | |
| `ServeLoop` | `proxy.serve` as a timed loop with an unconstrained client | |
| `DeadlineProbe` | the held task: an agent with a read timeout, `ServeLoop`, the task deadline, `measure()` | `ServeLoop` |
| `RecoveryPass` | the in-process recovery pass and its effect oracle | `FaultKinds`, `Trajectory` |
| `TaskWindow` | passes, tasks, agent process, proxies, windows and records | `FaultKinds` |
| `AgentEffects` | one run of an agent's task set: per-entry and net counts, backoff, keys (`agent_metrics.py`) | `Policy` |
| `BehaviorProbe` | the behaviour probe: repeats, the run that is described, the service path (`behavior.py`, `repeats.py`) | `AgentEffects` |
| `AgentRun` | an agent scan from the clean pass to the verdict | `BehaviorProbe`, `FaultKinds` |
| `ToolSurface` | tools, their classes, the payloads made up for them, the contract's cases (`mutability.py`, `mcp.py`, `contract.py`) | |
| `BaselineProbes` | latency, cost, concurrency, contract: from calls to readings | `Policy`, `ToolSurface` |
| `Policy` | checks, curves, weights, caps, coverage, blockers (`policy.py`) | |
| `Caveats`, `AgentsGuide` | what is said of a reading that is thin or withheld; the guide's sections | `BaselineProbes`, `BehaviorProbe`; `Caveats` |
| `Verdict` | from the command line to the exit code | `AgentsGuide` |
| `ScanSession` | scans of one server over MCP sessions that may fail, hang and be cancelled anywhere | `ToolSurface` |
| `MC*` | small instances | the module of that name |

### FaultKinds

A fault is one of seven kinds or none, and what the wrapped target's own
`invoke` came to is one of four: answered, failed with an answer, silent, or
failed with a *connection* error. The last is what `classify_exception` makes of
a refused connect and of a connection that died after the call was sent alike,
which is why it matters. `ResponseTo`, `Executed`, `RealizedFault` and `OnWire`
are the branches of `invoke`, `_reject`, `_corrupt`, `_lose` and
`response_to_wire`. Texts, latencies and retry hints are left out.

### ProxyRecord

The durable state is the schedule and the file (`file`, a sequence of lines, and
`unterminated`, whether the last has lost its newline to a kill). The volatile
state is the proxy's: `rows`, `ordinals`, `listed`, `armed` (`hold_s`),
`closing`, `pending`, `current` and the program counter `pc`. The rest only
observes: what was forwarded (`reached`), what the upstream has acted on (`ran`),
what the agent was sent (`wire`).

| Action | Code |
|---|---|
| `Connect` | `RecordWriter.__init__`, `ProxyServer.__init__`: everything is read back from the file |
| `Note`, `List` | `RecordWriter.note`, `.listed` |
| `Call` | `ProxyServer._call` to `FaultProxy.invoke`: the ordinal is advanced and the table consulted; a rejecting fault is not forwarded |
| `UpstreamRuns` | the upstream acts on a call: during the wait, after it, or after the proxy is gone |
| `UpstreamReturns` | `MCPTarget.invoke` returns or gives up |
| `Record`, `Reply` | the two last steps of `_call`, in that order: the row is flushed, then the reply is written, held or dropped |
| `Release`, `Exit` | `serve`: a held reply is due; the session ends |
| `Kill`, `KillInsideWrite` | the process is killed between two steps, or inside a write: the text is cut, or only the newline is missing |

A session handles one message at a time, so these steps with `Kill` between any
two of them are all the interleavings there are within it. A line a reader cannot
parse is `Junk`; a row appended to an unterminated line makes that line junk, as
in `_append` and `read_record`. Sessions on one record run one after the other;
two at a time are left to `ProxyOverlap` (section 8).

### ReplayedRecord, Trajectory

`Replayed(t)` is what `replay` makes of a tool's rows, for an agent that always
uses the same arguments (rows are grouped by task and fingerprint, so that is the
case in which grouping matters). `Trajectory` holds the derived values as
operators on sequences of invocations, used here and in `RecoveryPass`: an
agent's trajectory can go on after a success, the scan's own cannot.

### ServeLoop

`now` is a discrete clock. `Tick` is enabled only when the loop has nothing to do
(an asyncio task that is ready runs before time passes on this scale), and a call
upstream lasts at most `UpstreamTimeout` (every request is bounded by
`MCPTarget.invoke`'s timeout). `Send` and `CloseInput` are an arbitrary client;
`inbox` is the queue the reader thread fills. `TakeNote`, `TakeRequest`,
`TakeCall`, `TakeEof` are `wait_for(queue.get())` returning and the handling of
what it returned; `Finish` is the rest of `_call` with `release_due` and the
close deadline after it; `Wake` is the wait timing out. `MayTake` is the point
most easily got wrong: a deadline that is already past makes the wait's timeout
zero, and then no line is taken even when one is queued.

### DeadlineProbe

`ServeLoop` composed with an external agent: it makes a call, waits for the
reply as long as its own `patience`, gives up by calling again, cancelling or
returning, or takes the late reply and goes on. `KillAgent` is
`AgentTarget._run_task` at the task deadline. `Measure` is `measure()`: the
release is reckoned from the arrival of the held call, a kill is decided on
before the moves are looked at, the first move before the release is the
agent's timeout. One tick is longer than `RELEASE_TOLERANCE_S`.

### RecoveryPass

The scan's steps are sequential (`phase`): `Setup` with the refusal of stale
state, `EarlierPhases`, `ReadBefore`, then for each operation `Reject1` or
`Forward` and `Return`, and `Settle`, the bottom of the retry loop (`wait_for`,
then again, next, or done), then `ReadAfter`. Beside it the target applies calls
it was sent (`Land`), possibly long after the caller gave up, calls of earlier
phases included, and another client writes (`OtherWriter`). Ids are pairs of a
namespace and an operation; `Salt` is the namespace the recovery pass gives its
own. `mine` observes which effects really are the pass's own. A read of the state
can fail, and the oracle may be missing, anonymous or per operation.

### TaskWindow

The scan starts an agent inside two reads of the state (`OpenWindow`,
`CloseWindow`), waits for three things (the process and its two pipes: `TaskEnds`)
or the deadline (`Deadline`), reads the record (`ReadRecord`) and goes on or
refuses (`NextTask`, `EndPass`). The agent calls, gives up and finishes as it
likes; its proxies may hold its stderr open (`shares`), outlive it, be killed in
the middle of a call, or time out on the upstream. A deadline may expire at any
time. `made` and `applied` are the truth the readings are compared with. A record
file is named by its task and by the name its pass was started with (`PassName`,
`RecordKey`), and a proxy appends to the file that is there.

### AgentEffects, BehaviorProbe, AgentRun

`AgentRun` composes what the scan does with an agent: a clean pass, then
`--repeats` passes under a forced schedule, each task between two reads of the
state, and at the end the behaviour probe and the policy. The agent makes any
calls of its task in any order, with or without a key, waits as it likes and
claims what it likes; the proxy faults any call with any kind of the shape; the
upstream stores an entry per forwarded call unless it honours a key it has. An
entry may match no declared token (`Stray`, a rewritten retry) or two (`Joint`),
a read may fail, the oracle may list entries, give a count, or be absent.

| Action | Code |
|---|---|
| `Call` | `ProxyServer._call` and the upstream, as one step: its interleavings are `ProxyRecord`'s |
| `TaskEnds` | `_one_chaos_run` after a task: the second read, `entry_diff`, the outcome `AgentTarget._run_task` reports |
| `NoCallsOrAbandoned`, `RefuseUnseen` | the refusals of `_one_chaos_run` and `AgentBaseline.run` |
| `CleanPassEnds` | `AgentBaseline.run`: what it hands to the later phases |
| `RunEnds` | the bottom of a run, and after the last one `BehaviorAnalyzer.run` and `evaluate` |

`AgentEffects` is `agent_metrics.py` as operators on a run's tasks, and
`BehaviorProbe` is `behavior.py` and `repeats.py` on runs: runs that met the same
faults form a group, a group's worst value is scored, one run is described.
`truth` observes what the store and the agent know.

### ToolSurface, BaselineProbes, Policy, Caveats, AgentsGuide, Verdict

`RefuseUsage` is what the command line refuses, `Start` the rest of it;
`TargetRefuses`, `RefuseUnusableBaseline` and `Escapes` are the ways a scan ends
before or instead of a result, `SetUp` the other way on; each `ProbeReports` runs
one probe (or finds it crashed, `Contained`) and appends its reading; `Score` is
`evaluate`; `CiExits` and `ScanExits` are what the two commands write and exit with.
A server is described by what it would do: which malformed calls it lets through
(`lax`) or dies of (`fragile`), at which call its session ends (`dies`), whether it
takes the payload the scan made up (`rejects`), what its oracle is worth. The
probes see only replies. `ContractRecord` is the sequence of malformed calls and
controls that `_probe_edges` sends; what is blamed on the tool follows from it.
Metrics are naturals (rates in percent, times and prices in small units) and
`Missing` is `None`. `Caveats` computes each probe's caveats from the same readings
as `_caveats` does, and `AgentsGuide` selects the sections and what each opens with.

### ScanSession

Scans one after another of a server that keeps its state. `at` is the await the
scan is in. Each await is answered, or fails, or is given up at its timeout, or is
cancelled: by the user, by the scan's deadline, or by a scope of the MCP SDK
(`ConnectCancelled`). `SetupReads` is the state read and the staleness refusal,
`Preflight` the one write of setup, `WindowOpens`, `Operate` and `WindowCloses` the
recovery pass (its retries are `RecoveryPass`'s), `Closed` and `GivenUp` the
session's close with its bound. The server applies a call now, after its caller is
gone, or never (`Land`).

## 3. What the runs check

| Run | Shows | Distinct states |
|---|---|---|
| `proxy_record` | kills between any two steps, a reconnect, held replies: place in the schedule kept, answers recorded, unrecorded work bounded, `executed` a fact, lost replies stay lost, one hold per record; read back as trajectories, a duplicate is work done again; `ProxyRecord` refines `ForcedSchedule` | 326 k |
| `proxy_record_torn` | kills that also cut a row short: a kill costs the row it cut and the one appended to it, no more, and leaves one recovery in the report that the agent did not see, no more | 2.70 M |
| `serve_loop` | stamps are not late although a reply is being held; the close in time, and the session usable until then; a held reply goes out | 791 k |
| `deadline_probe` | `acted` is the agent's own timeout to within two calls upstream, `waited_out` a lower bound | 2.08 M |
| `recovery_pass` | effects of an operation are its own; every entry of a window is accounted for; nothing applied is reported lost, whatever state the target starts in; the pass ends | 702 k |
| `task_window` | whatever agents and proxies leave running: with a shared stderr windows are exact; a run's record never holds a call of an earlier run, and with a shared stderr and no proxy killed it holds all of its own; the scan ends | 1.80 M |
| `agent_run` | no fully read run that applied a write twice passes; no duplicate overstated; a plain PASS delivered what was claimed; every retry in a bucket; the backoff is the agent's; writes absorbed by the clean pass's keys are spoken for | 381 k |
| `verdict` | a worse or unread measurement never helps; exit code, headline and record agree; an honest tool is not blamed for its session; a server that took nothing does not pass; the guide never rests on a withheld one without saying so | 234 k |
| `scan_session` | a stale refusal cost no call; a rerun's old entries are never counted as this scan's; an interrupt stays one; a scan that has connected ends | 553 k |

Three runs expect a violation: `proxy_record_refused`, `agent_run_unread` and
`scan_session_unbounded`. Each checks one sentence of the documentation or a
comment that the code does not keep, and TLC shows how (section 6).

### Bounds, and why they are enough

* `proxy_record`: two sessions, three calls, two tools, schedules two deep; the
  two schedules of `MCProxyRecord` hold every kind, and no two positions of a
  tool agree, so a session off by one meets a wrong fault. Three calls are one
  before the reconnect, one after it, and one more past the end of the table or
  on the other tool; they are also what two duplicates of one call need. The
  theorems remove these bounds.
* `proxy_record_torn`: two sessions, since a torn row costs the row that is
  appended to it, which is the next session's first; three calls, one more than
  one kill may cost.
* `serve_loop`: three lines are a held or closing call, one behind it and one
  that races the deadline; times run to thirteen, past every deadline (an
  assumption of `MCServeLoop`), with upstream, hold and close of two ticks each,
  so that each deadline can fall before, at and after the others.
* `deadline_probe`: patience below the hold (1 and 3 of 6), beyond it and none at
  all; task deadlines on both sides of the hold; an upstream that takes up to two
  ticks, which is what tells a bound of two calls from one of one (section 6).
* `recovery_pass`: two operations with one retry, one late call, one foreign
  entry. Attribution is pairwise: it needs one operation to be mistaken for
  another. The budget of 3 is one wait and a half of `WaitMax`, so it runs out in
  the middle of one. One operation's effect may be left from an earlier run with the
  same seed.
* `task_window`: two tasks in a clean pass, the held task between the passes, and two
  chaos runs, so that what is left behind can land in the next task, the next pass,
  or after a pass that is not scored, and that there are two repeats whose records
  could be one; one call per task, which the agent may give up on; with a shared
  stderr, one call that a proxy lets go of, because it is killed or by its own
  timeout. Larger instances were run once for the two safety properties: a call let
  go of also where stderr is not shared (14.0 million states), and, where it is
  shared, a rejecting fault in the schedule (8.4 million) or a lost reply (13.8).
* `agent_run`: ten shapes, each large in one respect and small in the others: two
  tasks in one run (nets and reads that differ between tasks), one task in two runs
  (repeats, unread windows, keys), two keyed tasks, four calls of one operation with
  waits of 1 and 4 (three gaps, two ratios: growth, none, shrinkage), a count in place
  of entries, a model as the agent. Two writes and three calls are what a duplicate
  and a missing write that cancel need; two runs are what an unread and a read one need.
* `verdict`: one- and two-field tools, with which every malformed call may or may not
  carry the other field along; every position of the session's end; two samples, of
  which one can be slow; ramps of three and one levels; every combination of the
  agent's withheld readings. Thresholds divide 100, so the scores are exact.
* `scan_session`: two scans are an earlier and a later one; two commands that repeat,
  overlap in one id, or differ in the seed; one call per operation.
* Once a scan is over (`Over`, `Running`) the world is not followed further.

### Fairness

* `ServeLoop`: weak fairness of the loop's steps and of the clock. An asyncio
  loop runs what is ready, every upstream request is under a timeout, time
  passes. Nothing is assumed of the client.
* `RecoveryPass`: weak fairness of the scan's own steps. `Return` is one of them,
  because `MCPTarget.invoke` gives up at its timeout; that a call is ever applied
  (`Land`) is not assumed.
* `TaskWindow`: weak fairness of the scan's own steps, among which `Deadline` is
  enabled as long as the task runs: `asyncio.wait(timeout=...)`. Nothing is
  assumed of the agent, its proxies or the upstream.
* `ScanSession`: weak fairness of the code between two awaits (`Select`, `Probes`),
  of the scan's deadline while no cancellation is under way, and of the close's own
  bound (`GivenUp`): timers of the event loop. Nothing is assumed of the server,
  which may never answer and never let go of a session.
* `ProxyRecord`, `AgentRun` and `Verdict` have none: their properties are safety.

Deadlock checking is off in every run: sessions, tasks and scans end, and an
agent may stop calling at any time.

## 4. What is proved

For every value of the constants that the module's named `ASSUME` allows (sets of
tools, schedules, servers, policies, bounds of any size), and not only for the
instances of section 3. TLC evaluates those assumptions in every run. The bounds of
the models (`MaxCalls`, `MaxTime`, `MaxSessions`, ...) are constants like the others,
so a theorem holds whatever they are.

| Theorem | States | Needs, beside the module's assumption |
|---|---|---|
| **`ProxyRecordProofs`** | | |
| `TypeCorrect` | `[]TypeOK` | |
| `PositionCorrect`, `ScheduleFaithful` | `[]PositionInv`, `[]RealizedScheduleFaithful` | `Tears = FALSE` |
| `TruthCorrect`, `ExecutedFact`, `LostStaysLost` | `[]TruthInv`, `[]ExecutedIsAFact`, `[]LostReplyNeverAnswered` | |
| `AnswersRecorded` | `[]AnsweredIsRecorded` | `Tears = FALSE` |
| `HeldOnce` | `[]HeldOncePerRecord` | |
| `LossBounded` | `[]UnrecordedWorkBounded` | |
| `RecordImplementsSchedule` | `Recorded!Spec`, the refinement | `Tears = FALSE` |
| `OneRowPerCallAlways`, `DuplicatesWereRunAlways`, `RecoveryWasSeenAlways` | the property of that name, of the record read back | |
| **`DeadlineProbeProofs`** | of the loop alone, for any client: | |
| `ServeInvCorrect` | `[]ServeInv` | |
| `StampNeverLateAlways`, `ClosedInTimeAlways`, `HoldIsUsableAlways` | the property of that name | |
| | of the held task: | |
| `ProbeIsServe` | the probe's behaviours satisfy `ServeLoop`'s `Init /\ [][Next]_vars` | `OneAtATime` |
| `ProbeInvCorrect` | `[]ProbeInv` | `OneAtATime` |
| `ActedIsPatienceAlways`, `WaitedOutIsLowerBoundAlways` | the property of that name | `OneAtATime` |
| **`RecoveryPassProofs`** | | |
| `RecoveryInvCorrect` | `[]RecoveryInv` | |
| `DuplicatesAreOursAlways`, `NoFalseLossAlways`, `AccountsBalanceAlways` | the property of that name | |
| `PassWorkBounded` | at most `MaxRetries + 1` attempts of an operation; each step of the scan lessens `StepsLeft`, no other step changes it | |
| **`TaskWindowProofs`** | | |
| `WindowInvCorrect`, `WindowsExactAlways` | `[]WindowInv`, `[]WindowsExact` | |
| `RecordsExactAlways` | `[]RecordsExact` | |
| `ScanWorkBounded` | each step of the scan lessens `StepsLeft`, no other step changes it | |
| **`AgentRunProofs`** | | |
| `RunInvCorrect` | `[]RunInv` | |
| `DuplicatesNeverOverstatedAlways`, `PlainPassDeliveredAlways`, `RetriesAllCountedAlways`, `BackoffIsTheAgentsAlways` | the property of that name | |
| `AppliedTwiceNeverPassesAlways` | the property of that name | the policy has `duplicate_mutation_max` at 0 |
| `AbsorbedIsSpokenForAlways` | the property of that name | every task file expects some effect (`Expects`) |
| **`ScanSessionProofs`** | | |
| `SessionTypeCorrect`, `SessionInvCorrect` | `[]TypeOK`, `[]SessionInv` | |
| `RefusedCostsNothingAlways`, `RerunNeverCountedAlways` | the property of that name | |
| `InterruptStaysOneAlways` | `InterruptStaysOne`, an action property | |
| **`VerdictProofs`** | | |
| `ExitInvCorrect`, `ExitAgreesWithHeadlineAlways` | `[]ExitInv`, `[]ExitAgreesWithHeadline` | |
| `ScanInvCorrect` | `[]ScanInv` | |
| `SuppressedIsNoneAlways`, `UnreadDuplicatesNeverPassAlways`, `HonestToolNotBlamedAlways`, `WorseNeverHelpsAlways` | the property of that name | |
| `GuideNeverBareAlways` | the property of that name | no probe is named twice |
| `NothingAcceptedNeverPassesAlways` | the property of that name | no probe is named twice; `AsksForCalls` of every policy |

`Tears = FALSE` says that no kill cuts a row short; without it the position results
are false, because a torn row loses an ordinal (section 6). `OneAtATime` is the
probe's agent as the code supposes it: no call made in parallel, and a schedule
without faults, which is what `_measure_client_timeout` writes. With a parallel call
the first result is false (section 6).

The other assumptions name what the shipped defaults or the usual command give:

* *No probe is named twice.* `--probes latency,latency` runs a probe twice (section 6).
  The policy then reads the last entry of that name and the guide the first, and the two
  may differ in what they withhold.
* *`AsksForCalls`.* The policy asks for an error rate below 100 percent and for a
  recovery rate, and the probes that can still measure something when every call is
  refused, cost and contract, carry at most half of the weight. The shipped policy does:
  `error_rate_max` is 0.05, and the two weigh 30 of 100, or 30 of 85 with concurrency
  left out. A policy that rests on contract and cost alone does pass a server that
  accepted nothing.
* *`duplicate_mutation_max` is 0*, the shipped value. A policy that allows one duplicate
  lets one through.
* *`Expects`.* A task file that expects no effect at all lets the clean pass count
  nothing applied, and then no carry-over is named.

The instances of section 3 satisfy all of them.

### The arguments

*Positions* (`PositionInv`). `RealizedScheduleFaithful` recounts the file, sorted by
sequence number, and is not inductive: it says nothing of the running counters a
session draws from. `PositionInv` adds them. The file has no junk (`Whole`), row `i`
has number `i - 1` (`Numbered`), a running proxy's counters are those of the file
plus the call it is serving (`InStep`), the call being served drew the table's entry
at its ordinal (`ServedInPlace`), and so did every row (`Counted`). `Connect`
re-establishes `InStep` from the file alone, which is the point of the design;
`Record` moves a call from `InStep`'s correction term into the file. The refinement
maps a draw to the moment its row is written.

*Truth* (`TruthInv`). `ExecutedIsAFact` speaks of what happens *later* (a call
recorded as not executed is never acted on), so its induction is over `reached`: a
row that says "no" is of a call never forwarded, and only forwarded calls run
(`Settled`). `LostReplyNeverAnswered` needs that a row, a held reply and a written
reply of one call come from one response (`OneResponse`), which needs that ids are
never reused and at most one call is being served (`CallsInOrder`).

*Answers, holds, losses.* `RecordedFirst`: the call about to be answered has its row.
`HoldInv`: at most one held row, and a session armed to hold only while there is none,
but for the reply it is about to hold itself; a kill between the two leaves the row,
from which `Connect` disarms. `LossInv`: the forwarded calls the record lacks, and the
`Debt` of a line without its newline (that row, if it was one, and the next, which runs
into it) are together at most `LossPerKill` per kill. The debt is what makes the bound
inductive: what a kill inside a write costs is lost only in the next session.

*Deadlines* (`ServeInv`). A stamp is written before the time it names, so that it is
kept is a statement about what the loop will do. While it reads no held reply is
overdue, and while a call is upstream every deadline the loop has is later than the
moment that call came (`OnTime`): with the upstream's own bound this gives one call of
delay and no more. `HoldIsUsable` needs that what the loop has not taken came just now
or during a call that has just returned (`NothingWaits`), which is where the order of
the tests in `serve` matters.

*Rows read back* (`OneRowPerCall`, `RepliesFollow`). `replay` sorts rows by number and
gives an operation's trajectory its `k`-th row. The sort is modelled by rank (the `k`-th
of a set of rows is the one with `k - 1` below it), and `RankIsTaken` says that every
rank has a row. A call has at most one row, because its id is not reused, so `k` rows
that repeat acknowledged work stand, with the first one, for more than `k` calls; and
what an acknowledged row says was executed ran (`ExecutedIsAFact`). A recovery is seen
because every row whose call is not held has its reply on the wire, once nothing is
between the row and the reply: a kill in between leaves one row unanswered
(`Unanswered`), and a tool whose recovery nobody saw has such a row of its own.

*The measured patience* (`ProbeInv`). The agent, the record and the reading are three
views of one event. `GaveUpOnce` and `AcceptedLate` place it in the agent's own time,
`FirstRow` and `SecondSoon` say when the proxy has it in a row: the line after the held
call has waited for one call, and is in the record after one more. The two give the
bound of two calls.

*Attribution* (`RecoveryInv`). Ids of other namespaces never collide with the pass's
own (`OwnNamespace`), so while the window is open the growth of an operation's entries
is what this pass's calls added (`GrowthIsOurs`); the balance then is an identity
between sums over the ids, re-indexed from ids to operations by `SumRenamed`.

*Windows* (`WindowInv`). While nothing was let go of, a call is with the upstream only
in the task that runs (`OnlyThisTask`), because with a shared stderr a task does not end
while a proxy still serves. What the state was at the first read and what the task has
applied add up to what it is (`WindowsAddUp`). An abandoned task breaks this and is
only excluded by the passes the scan goes on from (`KeptEnded`).

*Records* (`RecordInv`). No two task runs share a file, because only chaos runs are of
one kind and each of them has a number (`OnePassOfAKind`, `KeysApart`). So a run's rows
and the calls proxies have of it make up the calls it made, less those a proxy was
killed with (`CallsKept`), and a task that ended by itself left none with a proxy
(`RecordsAddUp`).

*Agent runs* (`RunInv`). `truth` has one account for each task that was run, and is read
through three stages that each forget something. `Told` relates a window to the account
of its task: the counts are below what the store has too much of, and a write applied
twice shows unless the window was unread or has only net counts. `RunTold` adds the
tasks of a run (`PerTask`, `BucketsSplit`, sums over accounts with `SumByGroup`);
`CleanTold` says what the later phases are handed of the clean pass; `Reported` says the
report is the verdict on just these runs. From there each result is about the reading of
several runs: a group's worst run is scored (`WorstIsScored`), so a duplicate of any run
that was read in full is in the metric the policy fails (`DuplicateFails`).

*The backoff* (`RowsTimed`). After a reply the agent's next call comes when it has waited,
so the gap between two stamps is its wait (`GapsAreWaits`); a ratio of two gaps is on the
side of 1 that the two waits are (`RatioOfWaits`), and a median lies between the members
of its sample (`MedianIsBetween`).

*Termination* (`StepsLeft`). The safety half of `PassEnds` and `ScanEnds`: a natural number
that each step of the scan lessens and no step of the agent, the proxies, the target or
another writer changes. In `RecoveryPass` it holds as many steps as attempts are left,
which needs that no operation has had more than its retries allow (`AttemptsTaken`). What
is left for TLC is that some step of the scan is enabled until the scan is over.

*Sessions* (`SessionInv`). A scan's calls carry its own ids (`CallsAreOurs`) and none is
sent before the preflight (`QuietUntilPreflight`), through every await at which the scan
may be cancelled; a refusal is only reached from there (`StaleIsQuiet`).

*Verdicts* (`ScanInv`). Every entry of a result is `Honest` about what it withholds and
has numbers where the policy looks, the contract's entry is computed from its record,
and the report is the policy's of the whole result. For each probe one lemma shows that
its readings and its caveats, which the code computes apart, agree on what is withheld.
`WorseNeverHelps` follows the score: a check's curve falls (`ScoreFalls`), so does the
mean over the checks that found a number (`ProbeScoreFalls`), each dimension
(`BreakdownFalls`), the weighted score with its division (`WeightedFalls`), the score
under the absolute and the relative caps (`CapsFall`) and the verdict (`VerdictFalls`);
the coverage, on which the weights depend, is the same in both (`Lower`).
`HonestToolNotBlamed` walks the record of calls: the control after a malformed call
tells a session that ended from a tool that died. `Planned` says each probe still to run
has no entry yet, so that first and last entries are the same one; `Backed` says an
entry that withholds what a section rests on lacks the section's other figures too, or
has the caveat the guide looks for, so no section is bare. `Untaken` is what the entries
of a scan can say when no call was accepted: the latency probe found only errors and the
operations of the chaos pass came back failed, so that with `AsksForCalls` either a
check fails or at most half of the weight was measured.

*Sums.* `MapThenSumSet` adds a set's elements in the order `CHOOSE` takes them. That the
total depends neither on the order nor on the names is proved in `DataTheorems`. The
library's induction theorems take an operator as a parameter, which the installed
backends cannot instantiate; the inductions here are written as a smallest
counterexample instead (`SmallestExists`).

### Model-checked only

Every safety property that a run checks, action properties and the refinement
included, is also proved; `TruthInv` and `SuppressedIsNone` are proved and no run
checks them, being parts of what the other results are proved from. What is left to
TLC:

* Liveness (`HeldReplyGoesOut`, `PassEnds`, `ScanEnds`, `ConnectedScanEnds`), which
  needs fairness and `ENABLED`: out of the prover's reach.
* What the code's own loops compute is modelled with sets and functions in the modules
  with theorems, so none of them declares a `RECURSIVE` operator.

## 5. Abstractions worth knowing

* A tool call's content is its tool, or its operation; arguments, texts and
  results are absent. Fingerprints are equal exactly when the operation is.
* Which fault a call draws is a table (`ProxyRecord`) or any of a set
  (`RecoveryPass`, `AgentRun`): more than any seed draws. How the seed makes the
  choice is left out.
* `TaskWindow` has no clock: deadlines expire at any moment, a superset of what
  the timeouts allow. Its agent does at most `MaxCalls` calls in a task and waits
  for one at a time.
* A refusal (`ProbeRefusal`) ends the scan in `TaskWindow`, `RecoveryPass` and
  `AgentRun`; `Verdict` says what is reported then.
* `Verdict` takes an agent's readings from a set that has one of each kind that
  matters to the policy, instead of composing with `AgentRun`, which produces them
  and checks them up to the verdict.
* `AgentRun`'s window holds exactly its task's entries; `TaskWindow` says when it
  does.
* Rates are integer percentages; the percentiles of `latency.py` are taken from
  small samples in whole units.
* The agent and the upstream are code outside this repository. They are modelled
  from how the code uses them, as nondeterministic actions.

## 6. Findings

| Run | What it shows |
|---|---|
| `proxy_record_refused` | A connection that died after the call was sent is answered with the body that says `"executed": false`, "a fact, not a guess". |
| `agent_run_unread` | With `--repeats`, a run with one unread window has no duplicate count, so it is neither scored nor described: a duplicate that was read in its other task is dropped and the scan passes, against "A duplicate that happened in one run of five is a duplicate whichever group it landed in". |
| `scan_session_unbounded` | The close of a session that setup has not finished opening has no deadline: a server that does not let go stops the scan, against "Cleanup must be bounded". |

Other differences between what is said and what is done were met on the way.
Those in the first table have a formula: TLC gives the counterexample when it is
added as an invariant of the module.

| Module, formula | What happens |
|---|---|
| `ProxyRecord` with `Tears = TRUE`: `RealizedScheduleFaithful` | `_append` does not end a torn line, so the next session's first row is glued to the fragment and skipped by every reader: two calls then share an ordinal, against the comment on `realized_schedule` (`proxy.py:216`, `fault.py:171-173`). |
| `ReplayedRecord`: `LoopDetected(Replayed(t)) =>` no invocation of `Replayed(t)` succeeded | Three identical calls, the first of which succeeds, are a "loop" that ended "without ever succeeding" (`models.py:536-542`, `behavior.py:1363`). |
| `DeadlineProbe`: `measured.result = "no_deadline" => ~accepted` | "Still waiting" is also said of an agent that took the late reply and worked past the task deadline (`agent_deadline.py:25`, `:137`). |
| `DeadlineProbe`: `measured.result = "waited_out" => accepted` (with `Patiences = {3}`, `HoldFor = 2`, `UpstreamTimeout = 2`) | The release is reckoned from the call's arrival and the hold starts one upstream latency later, so an agent that gives up in between is said to have accepted the reply (`agent_deadline.py:24`, `:116`). |
| `DeadlineProbe` with `Parallel = TRUE`: `measured.result = "acted" => gaveUp # {}` | A call made in parallel during the hold is taken for giving up, against "The earliest is when it stopped waiting" (`agent_deadline.py:118-121`): an agent with no read timeout that takes the late reply gets a client timeout. `verify_gate_s.py:68` knows of agents with parallel calls. |
| `AgentRun`: a refusal whose `UnseenCause` is `"netted"` is of a task that wrote an entry twice, or more than one undeclared | `_unseen_refusal` says of every clean run whose net count agrees and whose entries do not that it "wrote one entry more than once and left another out" (`agent_baseline.py:379`). One undeclared entry in place of a declared one has the same net count; `unmatched`, which tells the two apart, is dropped at line 133. |
| `DeadlineProbe`: `measured.result = "acted" => measured.value <= Waited + UpstreamTimeout` (with `UpstreamTimeout = 2`) | The agent's timeout is reported late by more than the one call that kept the proxy from reading: when it gives up by calling again and returns before that call is back, the retry has no row and the return is taken for its first move (`agent_deadline.py:118-130`). The bound is two calls; the proof of one failed here. |
| `RecoveryPass`: `phase = "done" => backoff.unwaited <= ` the number of retries (with `Budget = 1`) | The wait after the last attempt is counted with the "un-waited retries" (`fault.py:801`, `:1175-1177`). |
| `RecoveryPass`: `phase = "done" /\ backoff.unwaited > 0 => backoff.left = 0` (with `0 \in Hints`) | `Retry-After: 0` is told as "backoff budget ran out" (`fault.py:1200`, `:1353`). |
| `RecoveryPass`: `Scored =>` no entry with an `"earlier"` id between `before` and `after` | A timed-out call of an earlier phase lands inside the window, against `fault.py:755-757`; the salted ids keep it out of the per-operation counts (`DuplicatesAreOurs`) and it is reported as unattributed. |

In `TaskWindow`, a call that its agent gave up on may land in a later task's
window when the proxies do not share the agent's stderr (`agent.py:378-386`), and
an agent that answered and exited is "abandoned" when a proxy still holds that
pipe (`fault.py:564`).

Of the verdict and its outputs:

* With `--tool-args`, a server that accepted nothing still passes at 100, the
  "worse lie" of `scanner.py:190-193`; `NothingAcceptedNeverPasses` leaves the flag out.
* `ci` exits 1 also when `passed` is None for want of coverage, where
  `docs/API-STABILITY.md` gives 1 to a policy failure and 2 to a scan that did not
  complete; `scan` never exits 2 for a verify tool it could not measure; `ci` writes no
  `--json-out` for NOT MEASURED or a missing score, and lacks `scan`'s check that
  `--max-retries` is at least 1. `--probes latency,latency` runs the probe twice.
* A service scan whose oracle is absent or unattributed, or whose behaviour probe
  crashed, may pass although `--verify-tool` was given (`policy.py:471-474`,
  `README.md:508-512`). A crashed probe is categorised "not_applicable".
* `wrongly_accepted` asks for required fields that exist and `should_reject` does not;
  when every scoreable case crashed `accepted_invalid` is 0, and not withheld. A
  session that ends in the last malformed call is charged to that call.
* `accepted_invalid` that is withheld for want of cases has an "annotate" caveat only
  (`models.py:619-620` asks for a suppressing one); effect "withhold" is outside the
  frozen set of `docs/API-STABILITY.md:86`; `models.py:805-818` drops the second of two
  probe-wide caveats with one effect, the loss the comment at 797-804 speaks of.
* For an LLM agent `behavior.py:1100-1113` adds "No clean-path call count", which is
  false, against the comment at 1129-1137.
* The guide prints "Nothing to fix. Every policy threshold ... was met."
  (`agents_md.py:795`) when the checks that failed have no section: error rate, p99,
  recovery between 0.9 and the floor, agent amplification up to 2. Its crash section and
  its deltas use the raw `crashes` although `crash_rate` was withheld. It is not written
  atomically, and replaces an `AGENTS.md` that has no state block.
* `max_sustained` may be above `saturation_point`; `_load_tasks` accepts a negative
  `expected_effects`; the gap between two attempts of an operation includes the time
  of other operations made between them.

Of sessions: with an HTTP status of 400 or more already seen, an interrupt of setup is
reported as the target's error (`mcp.py:371`), which `InterruptStaysOne` allows for;
the SDK's own cancellation without a status ends as one nobody asked for; a
cancellation inside setup's verify or preflight leaves the session open, since the
second `try` catches only `TargetError` and setup is awaited outside the scan's
`finally`; a late write of an earlier scan with the same seed that lands inside the
window is counted as this scan's.

## 7. Plan

Done: every module of section 2, with the proofs of section 4.

Next, in order of what the reported numbers rest on:

1. `FaultDraw`: `_choose_fault` (one draw against the running sum of the rates) and
   that a schedule drawn in advance equals the draws made one by one.
2. `ProxyOverlap`: two live sessions on one record.
3. The degradation pass of `fault.py` and the semaphore inside a concurrency level.

## 8. Not modelled

* LLM target, mock target: one request per call, with no state of their own.
* `tools/`, `ci/`: development aids. `examples/`, `tests/`: read as
  documentation of what the code should do.
* `parallel=True` of `run_scan`: nothing in the program passes it.
* The seeded draw of a fault. The models let the schedule fault any call, so nothing
  is lost for safety; what is not checked is that one seed gives one schedule.
* Two proxies alive on one record: `ProxyRecord` runs sessions one after another, and
  `TaskWindow` lets a proxy outlive its agent but has no schedule counters.
* Confidence intervals, the price table, the schema lint, the parsing of policy
  files, word lists: arithmetic or data without state.
* Of the modelled files, wording: reports' sentences, error texts, logging. Half of
  `agents_md.py` and `behavior.py` is such text.

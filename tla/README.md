# Specifications of the vulnerability pipeline

TLA+ models of the pipeline in `harness/` (the streaming batch with find, grade,
judge and report; the agent session under it; the patch loop; the `report` and
`patch` commands over a results directory), of its sandbox's way out
(`scripts/`, `harness/auth.py`) and of the detection-and-response harness in
`dnr_harness/` with its grader. TLC checks small instances; TLAPS proves the
theorems listed below for every value of the constants. Paths are relative to
the repository.

## The system

The program is a Python orchestrator. It starts headless agent CLIs in
containers, reads their answers from tagged text, and keeps its state in files
of a results directory. One invocation is one asyncio event loop; code between
two awaits runs alone. What a later invocation knows is what the files say.

| component | state it keeps | operations | hard behaviour | what makes it correct |
|---|---|---|---|---|
| streaming batch, `harness/cli.py` `_run_all`, `_run_once`, `_stream_dispatch`, `_stream_report` | `result.json` per run, `found_bugs.jsonl`, `manifest.jsonl`, `judge_log.jsonl`, `bug_NN/report.json`, `report_vK.json`, `canonical.json`; a lock and a list of tasks in memory | find, grade, judge under the lock, report, compare; kill; `--resume` | runs interleave at awaits, files outlive kills, report tasks overlap | ids never reused, one verdict per run, terminal results kept, no crash stranded, no report lost without an exception |
| agent session, `harness/agent.py` `run_agent` | messages, session id, attempt counter, transcript file | start the CLI, read its stream, resume after a failure with back-off, probe the container | CLI and container die at any time | no message lost or repeated, work never restarted from scratch, retries bounded |
| find, grade, `harness/find.py`, `grade.py` | none | run a session, parse its tags, read the PoC | salvage after an error | used by the batch, abstracted there |
| patch loop and ladder, `harness/patch.py`, `patch_grade.py` | `patch.diff`, `patch_result.json` | up to k iterations of agent and T0-T3 ladder | tiers fail, time out or break; results of an earlier iteration linger | "verified" only for the diff that was graded, tiers in order |
| report and patch commands, `_cmd_report`, `_cmd_patch`, `harness/dedup.py` | `bug_NN/report.json` | group results, number groups, checkpoint by signature, patch | numbering drifts between invocations, commands are killed, sequential and parallel failures differ | a checkpoint is reused only for its own bug, exit 0 means done |
| signatures, `harness/detection.py` | none | agent text to class, route, signature | blocks that do not parse or lack fields | one bug, one signature |
| egress proxy, `scripts/egress_proxy.py` | two sockets, two threads and a shared deadline per tunnel; the allowlist of its environment | relay, half-close, idle reaping | threads race, peers stall or vanish | nothing in flight is cut off, a live tunnel is not reaped, a dead one is |
| sandbox launch, `scripts/setup_sandbox.sh`, `bin/vp-sandboxed` | the proxy container | set up the proxy, check its list, start a pipeline | each reads an environment of its own time | what agents call is what the proxy lets through |
| credentials, `harness/auth.py` | environment | choose a provider, derive the allowlist, fill a container's environment | two code paths over one environment | the two agree |
| DNR harness, `dnr_harness/cli.py` | `result.json` and `INCIDENTS.json` per run, containers | hunt, grade, guarded runs, batch status, cleanup on a signal | errors merged over results on disk, stops between and inside writes, agents that rewrite what may be read at any moment | exit 0 and the files tell what happened |
| dnrcanary grader, `targets/dnrcanary/grade.py` | none | score a submission | rules about words in text | a fuller submission never scores less |
| containers, `harness/docker_ops.py`, `sandbox.py` | the containers of the daemon | remove and start, verify, tear down, clean up by name | errors and signals between start and `try` | no container outlives its phase unseen |
| recon and focus areas, `harness/recon.py` | `focus_areas.json` | one session, round-robin | none found | |
| parsers of agent answers, `judge.py`, `grade.py`, `find.py` | none | text to an outcome | malformed text | fail open as documented |
| PoC runner, `targets/eathub/run_poc.js` | database copies, a child app | reset, start with port retry, replay, oracles | port races, hangs, stale copies | exit code tells bug, hang, clean and broken apart |

Calls: `_run_all` runs `_run_once` coroutines; each calls `run_find` and
`run_grade`, which call `agent_container` and `run_agent`; `_stream_dispatch`
calls `run_judge` under a lock and starts `_stream_report` tasks. The separate
commands `report` and `patch` read what `run` left on disk. Siblings share
`found_bugs.jsonl`, mounted read-only in the find containers. Every agent talks
to its API through a tunnel of the egress proxy. `dnr_harness` uses the agent
sessions, containers and credentials of `harness`.

## Plan

1. `StreamBatch`, its abstract specification `TriageLedger`, proofs of both and
   of the refinement between them. *Done, proved.*
2. `AgentSession`: retry and resume of one agent, with the CLI and the
   container as environment. *Done, proved.*
3. `PatchLadder`: the patch loop around the grading ladder, and its abstract
   specification `PatchPromise`. *Done, proved.*
4. `ReportBatch` over `Detection`: dedup, numbering and checkpoints of `report`
   and `patch` over a results directory that `run` extends. *Done, proved.*
5. `Egress` composing `EgressTunnel` and `Auth`: the proxy, its allowlist, the
   launch and the two relay threads of a tunnel; `TwoWayPipe` says what a tunnel
   is to its peers. *Done, proved.*
6. `DnrBatch` over `DnrScore`: the DNR harness, its containers and what the
   grader makes of a submission an agent keeps rewriting; `BatchLedger` says what
   its results directories promise. *Done, proved.*
7. `PocRunner`: the life of one replay in `run_poc.js`, if the program inside a
   target image is to be covered as well.

## StreamBatch

One variable per kind of file and one per kind of memory. `pc[r]` is where the
coroutine of run `r` stands, `task[r]` its report task. An action is the code
between two awaits, cut again where a kill would leave other files behind:
`JudgeNew` writes the manifest, `LogNew` the judge log, and `LoopFree` keeps
every other coroutine out in between, as the event loop does.

| code | actions |
|---|---|
| `_cmd_run`, `_run_all` | `Launch`, `BuildFails`, `Finish` |
| signals, SIGKILL | `Kill`, `KillInResult`, `KillInReport` |
| `_run_once` | `StartFind`, `FindFails`, `FindNothing`, `FindUnchecked`, `FindSubmits`, `GradeFails`, `GradeEnds`, `RunRaises` |
| `_stream_dispatch` | `TakeLock`, `JudgeRaises`, `JudgeSkips`, `JudgeBetter`, `JudgeNew`, `LogNew`, `LogNewRaises` |
| `_stream_report` | `StartReport`, `StartReportRaises`, `EndReport`, `ReportRaises`, `EndCompare` |

Abstractions. A crash is its root cause. A judge is a set of answers
`_parse_judge` can return: all of them (`HonestJudge = FALSE`), or those that
compare causes correctly. Reports keep their run, their status and whether
their text is empty. An append of one line to a `.jsonl` is one write; a
`json.dump` may be torn. With `CodeRaises`, what no handler near it catches may
raise: a run, the log line of a verdict, a report before its agent starts or
while it is written. `gather` keeps such an exception and the batch goes on.
`focus_areas.json` and timings are left out. A kill
while `_cmd_run` rewrites the results of raised runs leaves the same files as
one just before it or as `KillInResult`, and has no action of its own.

Runs:

| run | asks | bounds and why they are enough |
|---|---|---|
| `stream_resume` | ids, verdicts, results and claims across kills and resumes with any flags and any judge | two runs, two causes, two invocations: every hazard listed is between two runs or between an invocation and the next; judge ids 0..2 include unknown bugs |
| `stream_batch` | refinement of `TriageLedger`, the end of every invocation that is not killed, the steps it takes to it, which reports may be missing and whose the others are | two runs and two causes, so that a report and a re-report of one bug overlap; three invocations, so that a resume is itself killed |
| `stream_killed` | every bug of a resumed batch gets a report | violated, see findings |
| `stream_race` | the cleaner example stays | violated, see findings |

Deadlock is not checked: a batch stops when it is done and its operator
launches nothing more.

Fairness (`FairSpec`, `stream_batch` only): weak fairness of each run's find,
grade, judge and report steps and of `Finish`. Agents have turn budgets and
bounded retries, so each session ends; asyncio runs what is ready. `Launch`,
`Kill` and `BuildFails` are not fair. Weak fairness is enough for the lock:
with finitely many runs each is judged once, so the lock is free for good after
the last of the others.

Findings:

- `stream_killed`. `_log_judge` runs before the report task exists, and
  `_checkpointed` skips every run in the judge log. A kill in the twenty
  minutes a report takes loses the report for good; the bug stays in the
  manifest and later crashes are judged duplicates of it.
  The run has `CodeRaises = FALSE`: the kill alone does it.
- `stream_race`. A re-report does not wait for a report of the same bug that is
  in flight. The slower, older one lands last and replaces the cleaner one.

Observed, without a run of its own: `novelty.py` uses `re` and does not import
it, so `upstream_log`, whose comment says "Never raises", raises on every call.
With `run --stream --novelty` every report task ends there (`StartReportRaises`
is then the only way on), outside its handler, after a re-report has moved the
prior report.json away; `gather` swallows the exception, and the batch ends as
if nothing had happened, without reports. `MissingReportExplained` says what
remains true: only an exception of that kind, or a verdict that could not be
logged, leaves a bug of an uninterrupted batch without its report.

### Proofs

`StreamBatchProofs` proves, from `ConstantsAssumption` alone, every safety
property of `stream_resume`. Two inductive invariants:

- `CoreInv`: types; a run that is being judged holds the lock and has seen the
  whole manifest (`LockInv`, `SeenInv`); it has a crash (`CrashInv`); ids are
  dense. `DenseBugIds` alone is not inductive: `NextBugId` is computed from the
  manifest as read before the judge ran, and only the lock makes that the
  manifest the entry is appended to. `NextBugIdOfDense` turns the maximum of
  the ids into the length of the manifest.
- `TriageInv` adds what ties the coroutines to the files: only terminal results
  carry a verdict, a run in its find+grade cycle has no terminal result, a run
  on its way through the judge has its graded crash on disk and no line in the
  log while its invocation is up (`PendingInv`), judged runs are graded, and no
  graded crash drops out of a streaming invocation (`CoveredInv`). The property
  `TerminalResultKept` follows from it step by step. `LockHolderIsJudging` is
proved beside it: every step that leaves the judge, an exception included,
releases the lock, and a start finds it free.

`StreamReportProofs` proves the two invariants of `stream_batch` and the
refinement. `ReportInv` adds to `TriageInv` the report tasks: a run has a task
only after its verdict was logged (`TaskInv`); every report.json is from a judged
run whose task has written it (`WrittenInv`), which with `JudgedOnce` makes the
prior report that a task renames another run's; the old text a task holds is
that of such a version (`OldInv`); and in the first invocation each bug of the
manifest has its report.json, a task that will write it or has raised, or a
verdict that could not be logged (`FirstStartInv`).

Two more properties rest on these. `ReportsOfTheirBug` says that `reports/bug_NN`
holds reports of bug NN and nothing else. `OwnBugInv` carries it from the judge's
answer over the task to the file: an id that is named, logged or given to a task
is the manifest entry with the run's own cause, the manifest only grows
(`ManifestGrows`), and the graded crash a file was written from stays
(`GradedStays`). It assumes a judge that compares causes correctly; what the id of
a wrong answer stands for no document says. `InvocationAdvances` orders the steps
of a run and its report task, ten in all: each step of an invocation takes one
run further and no run back. With it, the only thing an invocation's end leaves
to fairness is that enabled steps are taken.

`FilesImplementLedger` assumes `HonestJudge = TRUE` and maps each step to one of
`TriageLedger` or to a stutter: the end of a grading to `Grade`, `JudgeNew` to
`Register`, and the judge log line of any verdict to `Assign`. `JudgeNew` may
register because the manifest the judge was shown is the whole manifest
(`LockInv`, `SeenInv`); `LogNew` assigns the right bug because nothing is
appended between the two writes (`NamedInv`); and a run killed between them
finds its own entry when it is judged again. Here too the assumptions are
`ConstantsAssumption` and nothing about kills or restarts.

Model-checked only: `InvocationEnds`, which is liveness.

## AgentSession

`run_agent` for one session, and the end of `run_find` that takes the
submission out of the messages. `at` is where the coroutine stands; the CLI
process (its session, the turns it took, what it printed and nobody read) and
the container are the environment.

| code | actions |
|---|---|
| start of an attempt | `StartCli`, `SpawnRaises` |
| the loop over the stream | `ReadLine`, `StreamEnds` |
| the `except` branch and the probe | `FoundDead`, `GiveUp`, `BackOff`, `Wake` |
| `run_find` after `run_agent` | `ReadPoc` |
| the CLI, docker | `CliTurn`, `CliResult`, `CliDies`, `ContainerDies` |

Of the CLI it is assumed, as the code does, that `--resume` continues the saved
conversation, that a resumed stream has only new messages, and that a process
opens with an init message. A message is its kind, its session and its place in
the conversation. The probe may find nothing wrong with a dead container (the
daemon does not answer). The transcript file and the counters of progress lines
are left out.

| run | asks | bounds and why they are enough |
|---|---|---|
| `agent_session` | one conversation, resumes counted, submission salvaged, turn budget, end of the session | two turns per process and two resumes: a failure before, between and after two messages, a resume of a resume, and the last attempt |
| `session_lost` | the result survives an exception | violated: starting the CLI is outside the `try` of the attempt |

Fairness: the program's own steps, and a CLI that is alive eventually takes its
turns and prints a result. It need not exit then: the program must not wait for
it. Nothing is assumed about deaths. A CLI that hangs without dying would hang
the session; the code has no timeout for that.

`AgentSessionProofs` proves every safety property of `agent_session` for all
limits, from `LimitsAssumption`. None is inductive:

- `ResumesCounted`: between a failure and the decision to resume, the attempt is
  counted and the resume is not. `Counters` says for each step of `run_agent`
  how the three counters go together.
- `OneConversation` needs the lines that are printed and not yet read.
  `Stream` says which session they belong to (that of the result, once it is
  known, and then the stream opens with its init message), `Order` that the
  turns read, the turns in the pipe and the turns saved follow each other.
  That a resumed process has the saved session, and not a new one, is where
  `attempt > 0` and a known session must coincide (last conjunct of `Stream`).
- `SubmissionSalvaged`: `Submission` ties the history variable to the last
  tagged message; `LastTaggedIsLast` shows that `find_tagged_message` finds it.
- `TurnBudget`: `Spent` counts the running process apart from those before it,
  each of which may have used its whole `--max-turns`; `Counters` then turns
  processes into the resumes that the result reports. A limit that was reached is
  the last line of the messages because nothing is read outside the stream.

`SessionEnds` is model-checked only.

## PatchLadder

`patch` for one bug: `_one` of `_cmd_patch`, `run_patch`, `grade_patch`, and
what they leave on disk and in docker, over several invocations.

| code | actions |
|---|---|
| `_one`, `run_patch` | `Launch`, `Prepare`, `NoTag`, `Unreadable`, `Grade`, `WriteResult` |
| `grade_patch` | `Build`, `ReplayPoc`, `RunTests`, `Commit`, `StartAttack`, `AttackEnds`, `StyleJudged` |
| exceptions | `Raise`, `StartGraderRaises`, `StartAttackRaises`, the last disjunct of `Judge` |
| signals, a full disk | `Kill`, `CutWrite` |

`grade` holds the locals `t0`, `t1`, `t2` and `re_clean` of the grading in
progress, `verdict` what `run_patch` keeps of the last one. Every oracle answer
is open, so the model says nothing about which patches are good: it is about
which answers a status, a file and a feedback stand for. `failure` records what
really made an iteration fail, at the step where it happens: a tier, or, of a
re-attack, the mere submission of a PoC on which no oracle fires (`"claim"`).
`_failed_tier` derives the tier again from the verdict, and
`EvidenceOfLastFailure` says how the two may differ (`Tells`). Of the evidence a
verdict carries, the model keeps what `_failed_tier` looks at: whether the text
of tier 1 mentions `rc=3`. It does after a hang, and may after any failed replay,
since the text ends with what the replay printed. Whether a
target has tests and the options of the command are chosen anew for each
invocation. Containers and images carry the invocation that made them.

| run | asks | bounds and why they are enough |
|---|---|---|
| `patch_ladder` | verified means graded and on disk, files are a pair, feedback, nothing left behind, refinement of `PatchPromise`, the end of an invocation | two iterations, so that a verdict or a diff can be stale; two invocations, so that files and containers can be; two diffs to tell them apart |
| `patch_judgment` | no patch fails based on model judgment | violated: a re-attack that submits anything rejects the patch; no oracle is run on it |

Fairness: weak fairness of the steps of a running invocation (`Run`): docker
calls return and agents end (`SessionEnds` of `AgentSession`). Launches, kills
and cut writes are not fair.

`PatchLadderProofs` proves `VerifiedMeansGraded` for every set of diffs and all
bounds. The inductive `LadderInv` adds what each rung of the ladder knows of
the tiers below it (`Rungs`), that the recorded failure and the verdict agree
from the last tier on, and that a verdict kept into the next iteration did not
pass (`Decided`): without the last conjunct, an iteration that yields no diff
could return an earlier verdict as a success. The other safety properties are
proved beside it: `TypeOK`; `ResultDescribesDiff`; `EvidenceOfLastFailure` from
`Feedback` (the tier `_failed_tier` finds in the verdict stands for the failure
that is recorded); `NothingLeftBehind` from `Left`, whose `Expected` lists the
containers and images there can be at each docker call, and whose `Past` keeps
those of earlier invocations apart.

`PatchPromise` is what the command promises of one bug: a bounded number of
attempts, each an answer that is judged once and kept together with its judgment,
and an outcome that tells the last one. It has no tiers, containers or files.
`PatchKeepsPromise` proves that the ladder implements it. `Waste` and `Reject` are
the two ways `Retry` is reached, the climb through the tiers is a stutter, and
the two writes of `_write_result` are one step, because a cut between them leaves
nothing that is relied on (`KeptPatch`). The mapping needs `LadderInv` (the
verdict that is written is of the diff the loop holds), and `Counted`: at an
answer the attempts that failed are one less than the iteration. `PatchEnds` is model-checked only. The
assumptions are `PatchAssumption` and `ValuesAssumption` (the constants are
distinct values).

Finding (`patch_judgment`): `docs/patching.md` says that no patch fails based on
model judgment, and that of a re-attack "the oracles decide". `grade_patch` fails
the tier when `run_find` returns a crash (`patch_grade.py:223`), which it does
when the find agent submits all of its tags; nothing replays the PoC. The run
shows a patch that every oracle passes and that is rejected. `VerifiedMeansGraded`
takes the tier as the code has it.

Observed, and not a run: `_failed_tier` tells a hang by the text `rc=3` anywhere
in the evidence (`patch.py:184`), so that the agent may be told of a hang when an
oracle fired; the runner's own codes are told apart as the document promises. The
image that `agent_container` builds from the committed one (`agent_image.py:92`)
stays after the re-attack, one for each, although `docs/patching.md` calls the
snapshot temporary: `NothingLeftBehind` is about the committed image.

Left open by the model because no document settles it: a re-attack agent that
died counts as a clean re-attack, and an exception in the style judge, which
`docs/patching.md` calls advisory and which is awaited before the verdict is
made, turns a patch that passed into `error`.

## ReportBatch and Detection

`report` and `patch` over one results directory. `bug_NN` is stored nowhere:
each command derives it as the position of a group in the sorted groups of what
is on disk, and between two commands `run --resume` adds crashes and
`run --stream` writes reports under numbers of its own. `at[b]` is where the
coroutine of a number stands, `hand` and `given` what its agent was given;
`current` is a history variable, the bugs reported since the results last
changed.

| code | actions |
|---|---|
| `run`, `run --resume`, `run --stream` between the commands | `LandResult`, `StreamReport` |
| `_cmd_report`, `_cmd_patch` up to the first coroutine | `StartReport`, `StartPatch` |
| `_report_one` | `BeginReport`, `EndReport`, `WriteFails` |
| `_one` of `_cmd_patch` around `run_patch` | `BeginPatch`, `ReadFails`, `EndPatch` |
| the summaries, signals | `Finish`, `Kill` |

`Detection` is `signature()` and what it rests on as operators: a class or a
route is its rank among the names, since only equality, the precedence list and
the sort order look at them. A crash is its detection blocks, the class its
agent claimed and the length of its PoC. The text of a report is which crash it
is about. What happens inside `run_patch` is `PatchLadder`.

| run | asks | bounds and why they are enough |
|---|---|---|
| `report_batch` | checkpoints belong to their group, numbers agree between the commands, exit 0 means done, nothing is done twice, the end of a command | two runs and three crashes, one of them a larger example of another's group and one misnamed by its agent, so that two groups trade places and a representative changes; one streamed report; two commands, which is what the properties relate |
| `report_order` | a patch agent gets the report of its own group | violated, see below |

A number is lower than the number of runs, so two runs give the two numbers
that drift needs; a third run adds groups and no new relation between them.

Fairness: weak fairness of "some coroutine or the summary goes on". Agents end
(`SessionEnds`) and the event loop runs what is ready.

Finding (`report_order`): `patch` reads `bug_NN/report.json` by number alone. A
run resumed between `report` and `patch` may add a group that sorts first; the
patch agent of that group is then given the report of the other one. `report`
itself looks at the signature. `PatchGetsCurrentReport` says what holds: with
the results as `report` saw them, the report is about the very crash.

`CheckpointIsOwn` leaves streamed reports out. `_stream_report` signs a report
with the agent's own `crash_type` and an empty route, where `report` compares
the class of the detection block and `<no-route>`; for a crash its agent
misnamed the two differ, or meet those of another group. No text says whether
`report` should take streamed reports over.

`ReportBatchProofs` proves `TypeOK`, `CheckpointIsOwn` and `ExitZeroMeansAll`
for every number of runs and every set of crashes, from `ReportAssumption`. In
`ReportInv`, `ReportsHonest` (a submitted report is about a crash of the group
it is signed with) makes the checkpoint sound, `OwnCrashInHand` is what keeps it
true, and `CountedOnDisk` and `NoneForgotten` are what exit 0 rests on. The
proofs use nothing about the order of the groups: drift cannot break them.

`ReportOrderProofs` adds `PatchGetsCurrentReport` and `SubmittedNotRedone`,
which rest on that order. `SignatureIsPair` (what `signature()` returns can be
compared, from `PrecedenceAssumption`) makes the sort key a strict total order
(`OrderIsTotal`), so two groups never share a number (`NumbersGrow`); passed
groups sort first, so `--only-passed` leaves the groups it keeps their numbers
(`PassedKeepNumber`); the path breaks the last tie of `_pick_representative`
(`RepresentativeIsUnique`). The inductive `Agreement` then says which number,
representative and report go together, in memory and on disk.

`CommandEnds` is model-checked only.

## Egress, EgressTunnel and Auth

`Auth` is `harness/auth.py` as functions of the environment: `RequiredHosts`
and `EgressSatisfied` are what `setup_sandbox.sh` and `vp-sandboxed` call,
`ResolveAuth` is what the pipeline then gives its containers. A region is one
the code can derive an endpoint for or not; a credential is there or not.

| code | actions |
|---|---|
| `setup_sandbox.sh` | `RemoveProxy`, `StartProxy` |
| docker restarting the proxy | `RestartProxy` |
| `vp-sandboxed`, and the end of the pipeline it starts | `Launch`, `PipelineEnds` |
| `do_CONNECT` | `Connect` |
| `one_way` in `_pump`, once per direction | `Recv`, `Stamp`, `Send`, `PollTimesOut`, `SendTimesOut` |
| the end of `_pump`, the handler after it | `Close`, `Drop` |
| peers and clock | `Arrive`, `EndStream`, `Stall`, `Breaks`, `Tick` |

`Egress` composes the three: set-up, launch and tunnels over the same proxy.
Each script is started in an environment of its own; a removed proxy takes its
tunnel along. `Recv` and `Stamp` are apart because the two relay threads share
`last_activity` without a lock. The clock counts ticks up to the deadline;
above it ages are not told apart. `silence` is a history variable.

| run | asks | bounds and why they are enough |
|---|---|---|
| `egress` | agents reach their API, both code paths have the same gates, nothing is cut off, only quiet tunnels are reaped, refinement of `TwoWayPipe`, every tunnel ends | 1296 environments: every provider flag, region, credential and allowlist that a branch of `auth.py` tells apart, for set-up and launch each; a timeout of two ticks, so that activity can come at either side of a tick; one piece up and two down, so that one direction ends while the other has several parts in flight |

One tunnel is followed. Tunnels share nothing but the allowlist, which no tunnel
changes. One pipeline runs at a time. DNS, TLS, a refused or failed CONNECT, and
the privileges of the set-up are left out.

Fairness: relay threads are scheduled and time passes. Peers owe nothing: that a
tunnel ends rests on the deadline and the socket timeout alone.

Observed, and said by no text to be otherwise: a thread that has received but
not stamped yet does not keep the other one from reaping (`ReapedOnlyWhenQuiet`
leaves that instant out); the check refuses every launch with Vertex, as no host
can be derived for it; and after `_pump` the handler of the standard library
reads on from the client's socket, which `Drop` stands for.

`EgressProofs` proves every safety property of the run, from
`TunnelAssumption` and `EgressAssumption`, for every set of regions and
environments, every timeout and any number of pieces. `RelayInv` says what a
direction that polls or has ended has handed over, `DeadlineInv` that the shared
deadline is never older than the silence, and `RequiredCoversCalls` is the lemma
about `auth.py` itself: what `RequiredHosts` names covers what the CLI calls,
and both refuse on the same gates. `TunnelEnds` is model-checked only.

`TwoWayPipe` is a tunnel as its two peers see it, without threads and deadlines:
two directions that hand over what was sent, each of which drains or is given up
on its own, and a close after both. `TunnelIsPipe` proves that a tunnel is that
for all the threads share; the mapping forgets what is received and not sent on,
the stamps and the ages. It needs from `RelayInv` that a direction at its end of
stream has handed over all it was sent, and `Clean`: between tunnels nothing of
the last one is left.

## DnrBatch and DnrScore

`dnr-pipeline run` for several targets on one docker daemon, one batch of a
target at a time. `pc[r]` is where `_run_once` of a run stands; `result[r]` is
its dictionary, `disk[r]` its `result.json` and `incidents[r]` its copy of
`INCIDENTS.json`; `file[r]` is that file in the hunt container; `containers`
exist on the daemon and `leaked` are those no `with` block will remove.

| code | actions |
|---|---|
| `_cmd_run`, `_batch_status` | `Refuse`, `Launch`, `Exit` |
| `_run_all`, `_guarded` | `InTurn`, `Merged` and `Raised` (in the actions below) |
| `_run_once` | `StartHunt`, `HuntEnds`, `RecordSubmission`, `StartGrade`, `GradeEnds`, `Leave`, `AgentRaises` |
| the writes a stop cuts | `FilesHit` (in `Signal` and `Kill`) |
| `_on_signal`, SIGKILL | `Signal`, `Kill` |
| `docker_ops.run`, `agent_container` | `Starts`, `StartRaises`, `Removes` (in the actions above) |
| the hunt agent in its container | `Refine` |

`DnrScore` is `score()` of the dnrcanary grader. The text of an entry is the set
of needles the grader finds in it; alternatives that are always looked for
together are one needle. `Extends` says when a submission only adds to another
one: it says more in a narrative, its PoC fired after all, it reports a further
step of the campaign, it rules something out.

A step of a run writes one file at most, so that a signal or a kill may come
between any two writes: between `INCIDENTS.json` (cli.py:194, `HuntEnds`) and the
`result.json` that names it (cli.py:199, `RecordSubmission`), and between a
`result.json` that is written inside a `with` block and the end of the block
(`Leave`). It may also come inside a write (`FilesHit`): `write_text` and
`write_bytes` truncate first, so the stop leaves a file that cannot be read,
"torn" or "cut". A docker call that is under way when its caller goes away may be
carried out or not: a container may come up (`Late`) or be gone (`Going`).

The agent rewrites its file to any content: a fuller one, a lesser one, or one
that is truncated and not written yet (`Cut`, or no bytes). The harness reads the
file as it is when the agent ends or fails, and may so salvage less than the file
once had. No property promises otherwise.

Abstractions. A submission that is not JSON of the right shape is the empty one,
as the grader treats it; one that is cut has no score, and the grade agent may
answer anything on it. Results directories have distinct time stamps, so a launch
finds none of its own. A write that raises (a full disk) is left out: the harness
would then leave what a stop leaves, in a batch that goes on. docker takes the
filter of `_on_signal` for a part of a container's name: `Matched[t]` are the
targets whose containers the filter of `t` finds, `t` itself and those whose name
contains `t` and an underscore at the right place.

| run | asks | bounds and why they are enough |
|---|---|---|
| `dnr_batch` | containers are accounted for, files tell the outcome, exit 0 means all passed, a fuller submission scores no less, refinement of `BatchLedger`, a batch ends | a batch of two runs, sequential or parallel, beside that of a target whose containers the first one's filter finds too; one signal or kill, of either batch and at any point, and the batch after it (the proofs have any number of them); three drafts in any order: one whose PoC has not fired, one with all a pass needs and an account takeover, one that says "sql" in the prose of the takeover, once mistaken for a false positive |

Fairness: weak fairness of the steps of each batch (`BatchStep`), its event loop's
own; no run is assumed to get its turn. Agents have turn
budgets and bounded retries, and docker calls return. Launches, signals, kills
and rewrites are not fair.

`DnrBatchProofs` proves every safety property of the run from `DnrAssumption`,
for any targets and filters, numbers of runs and stops, and any submissions.
`RunInv` ties phase, dictionary and files of a run: either the phase says what
the two files hold (`Phase`), or the batch was stopped in the middle of a write
(`Spoilt`). `ContainerInv` says which containers exist, `BatchInv` what an exit
code was computed from. `ContainersAccounted` and `ResultTellsOutcome` say what
holds between two writes too: a named `INCIDENTS.json` is there and whole at every
moment, and one that is there is named once its run has ended. `FullerKept` rests on
`FullerScoresNoLess`, a theorem about the grader alone: `Extends` relates two
submissions entry by entry (`SaysMore`), every rule that must be met is monotone
in it and every rule that must not is antitone, because it looks at the claims of
an entry and not at its narrative. It is about rewrites that only add, and says
nothing of retractions, weakened verdicts and cut files.

`BatchLedger` is what a reader of the results directory may rely on, who sees no
process, container or agent: a record is filled in at most twice, with the
submission and with what became of it, is then settled for good, and the exit
code is a function of the settled records. A stop may make one unsettled record
unreadable: `_run_once` persists the hunt's fields because "a crash in the grade
phase must not lose them" (cli.py:196), and keeps that for exceptions and for a
stop at any moment but one, inside the write that replaces them with the final
result. `BatchKeepsLedger` proves that `DnrBatch` implements the ledger, through
failures at every docker call, signals and kills. `RunInv` is what the mapping
needs: the dictionary in memory, which every write replaces the file with, is the
file and what the phase adds to it (`RecordOfPhase`). `BatchEnds` is
model-checked only.

Two batches of one target on one host would remove each other's containers,
since names carry the target and the index only. The code does not guard against
it and no text promises it; the model has one batch of a target at a time.

## What is proved, what is only checked

Every safety property of every passing run is a theorem for all values of the
constants, and so are the refinements of `TriageLedger`, `PatchPromise`,
`BatchLedger` and `TwoWayPipe`. The assumptions are the named `ASSUME`s of the modules, which TLC
evaluates on every run; `TriageLedger` and `ReportsOfTheirBug` also assume a
judge that compares causes correctly. The type invariants of the modules are
theorems as well, and no run repeats them. Only model-checked are the
liveness properties, which are out of the prover's reach: `InvocationEnds`,
`SessionEnds`, `PatchEnds`, `CommandEnds`, `TunnelEnds` and `BatchEnds`.

## Not modelled

- Recon (`harness/recon.py`): one session whose lines are printed. Focus areas
  are dealt round-robin from a file that is read once.
- The text of agents' answers. Parsers are modelled by the outcomes they can
  return; only the detection block, whose fields decide groups and numbers, is
  modelled as such.
- Prompts: text for language models.
- What the upstream novelty log says: a clone and an excerpt. That it may raise
  in the middle of a report is modelled (`StreamBatch`).
- The transcript file, progress lines, token counts, summaries, layout.
- `harness/cli.py` has the signal handler of `dnr_harness/cli.py` with other
  names; it is modelled by `Kill` in `StreamBatch` and `PatchLadder`, and its
  filter only in `DnrBatch`.
- Set-up of runsc and images, beyond the proxy.
- The targets: the eathub application and its PoC runner, the log generator and
  the seeds of dnrcanary. They run inside target images; the pipeline sees exit
  codes and reports, which are inputs of the models.

---------------------------- MODULE PatchLadder ----------------------------
(***************************************************************************)
(* `vuln-pipeline patch` for one bug: _one in src/harness/cli.py, the      *)
(* patch loop run_patch of src/harness/patch.py and the verification       *)
(* ladder grade_patch of src/harness/patch_grade.py, over several          *)
(* invocations on the same results directory, any of which may be killed.  *)
(*                                                                         *)
(* What the agents answer, what the oracles (build, PoC replay, tests) say *)
(* and whether docker works is open; a diff is one of Diffs.  A step is    *)
(* the code up to the next docker call or agent.                           *)
(***************************************************************************)
EXTENDS Naturals, FiniteSets

CONSTANTS
  Diffs,          \* the patches the agent can write
  None,
  Empty,          \* b"", what read_file gives for a path that is not there
  Torn,           \* the content of a file whose writing was cut
  MaxIterations,  \* --max-iterations
  MaxInvocations  \* bound: how often the command is run

ASSUME PatchAssumption ==
  /\ MaxIterations \in Nat \ {0} /\ MaxInvocations \in Nat

VARIABLES
  at,          \* the call in progress, "idle" between invocations
  options,     \* of the invocation: is there a test_command, run_reattack, run_style
  iteration,   \* iterations
  diff,        \* diff_bytes
  verdict,     \* the verdict of run_patch, None or a record
  grade,       \* t0, t1, t2, re_clean of the grade_patch in progress
  retry,       \* the tier named in retry_evidence
  status,      \* of the last invocation: what _one returns, or "killed"
  patchDiff,   \* reports/bug_NN/patch.diff
  patchResult, \* reports/bug_NN/patch_result.json, with the invocation that wrote it
  containers,  \* <<kind, iteration, invocation that started it>>
  images,      \* <<kind, iteration, invocation that built it>>
  invocation,
  failure,     \* history: what really made the last iteration fail
  cut          \* history: the last writing of the two files was cut

files   == <<patchDiff, patchResult>>
docker  == <<containers, images>>
program == <<options, iteration, diff, verdict, retry>>
history == <<failure, cut>>
vars    == <<at, program, grade, status, files, docker, invocation, history>>

Calls    == {"prepare", "agent", "build", "poc", "tests", "commit", "launch",
             "attack", "style", "write"}
Options  == [tests : BOOLEAN, reattack : BOOLEAN, style : BOOLEAN]
Tri      == {"None", "True", "False"}
\* Exit codes of the PoC runner; "-1" is the 600 s timeout.
Codes    == {"0", "1", "2", "3", "-1"}
Verdicts == [of : Diffs, t0 : BOOLEAN, t1 : BOOLEAN, t2 : Tri, re : Tri,
             error : BOOLEAN,   \* ladder_error is set
             rc3   : BOOLEAN]   \* "rc=3" is somewhere in evidence["t1"]
Tiers    == {"output", "t0", "t1 harness", "t1 hung", "t1 fires", "t2", "re-attack"}
\* What makes an iteration fail: a tier, or the find agent's word for an attack.
Causes   == Tiers \cup {"claim"}
Statuses == {"none", "no_diff", "patch_verified", "patch_rejected", "error", "killed"}

ASSUME ValuesAssumption ==
  {None, Empty, Torn} \cap (Diffs \cup Verdicts \cup Causes) = {} /\ Empty # None

NewGrade(d) == [of |-> d, t0 |-> FALSE, t1 |-> FALSE, t2 |-> "None", re |-> "False",
                error |-> FALSE, rc3 |-> FALSE]

\* PatchVerdict.passed
Passed(v) == v.t0 /\ v.t1 /\ v.t2 # "False" /\ v.re # "False"

Init ==
  /\ at = "idle" /\ options = [tests |-> FALSE, reattack |-> FALSE, style |-> FALSE] /\ iteration = 0
  /\ diff = None /\ verdict = None /\ grade = None /\ retry = None
  /\ status = "none" /\ patchDiff = None /\ patchResult = None
  /\ containers = {} /\ images = {} /\ invocation = 0
  /\ failure = None /\ cut = FALSE

-----------------------------------------------------------------------------
(* Containers                                                              *)

Mine(kind) == <<kind, iteration, invocation>>

\* docker_ops.run removes a container of that name and starts one.
Replacing(kind, cs) == {c \in cs : ~ (c[1] = kind /\ c[2] = iteration)}
Starting(kind, cs)  == Replacing(kind, cs) \cup {Mine(kind)}

\* The containers that the finally blocks of the open agent_containers remove.
Open == {<<"patch", 0, invocation>>, Mine("grade"), Mine("attack"), Mine("style")}

\* Mutant: the committed image stays.
UnwoundButImage(cs) == containers' = cs \ Open /\ UNCHANGED images

\* An exception or a return: these, and grade_patch's removal of the committed image.
Unwound(cs) == containers' = cs \ Open /\ images' = images \ {Mine("patched")}

\* A docker call, the start of an agent or a write raises: _one returns "error".
Raise ==
  /\ at \in Calls
  /\ at' = "idle" /\ status' = "error"
  /\ Unwound(containers)
  /\ UNCHANGED <<program, grade, files, invocation, history>>

\* docker_ops.run raises: before the container is there, or after it, in which
\* case no finally block removes it.
StartRaises(kind, cs) ==
  /\ at' = "idle" /\ status' = "error"
  /\ \E left \in SUBSET {Mine(kind)} :
       containers' = (Replacing(kind, cs) \ Open) \cup left
  /\ images' = images \ {Mine("patched")}

-----------------------------------------------------------------------------
(* run_patch                                                               *)

\* _one: container A is started; patch.diff and patch_result.json stay.
Launch ==
  /\ at = "idle" /\ invocation < MaxInvocations
  /\ invocation' = invocation + 1
  /\ options' \in Options
  /\ iteration' = 0 /\ diff' = None /\ verdict' = None /\ retry' = None /\ grade' = None
  /\ LET cs  == {c \in containers : c[1] # "patch"}
         new == <<"patch", 0, invocation'>> IN
       \/ at' = "prepare" /\ status' = "none" /\ containers' = cs \cup {new}
       \/ at' = "idle" /\ status' = "error" /\ containers' \in {cs, cs \cup {new}}
  /\ failure' = None /\ UNCHANGED <<files, images, cut>>

\* The PoC and the baseline commit in container A.
Prepare ==
  /\ at = "prepare"
  /\ at' = "agent" /\ iteration' = 1
  /\ UNCHANGED <<options, diff, verdict, retry, grade, status, files, docker, invocation,
                 history>>

\* Mutant: the outcome is told from the replay alone.
ReturnAfterReplay(d, v) ==
  /\ at' = "idle"
  /\ status' = IF d = None THEN "no_diff"
               ELSE IF v # None /\ v.t1 THEN "patch_verified" ELSE "patch_rejected"
  /\ Unwound(containers)
  /\ UNCHANGED iteration

\* run_patch returns, container A is removed and _one names the outcome.
Return(d, v) ==
  /\ at' = "idle"
  /\ status' = IF d = None THEN "no_diff"
               ELSE IF v # None /\ Passed(v) THEN "patch_verified" ELSE "patch_rejected"
  /\ Unwound(containers)
  /\ UNCHANGED iteration

\* Mutant: the loop does not count.
RetryUncounted(tier, d, v) ==
  /\ retry' = tier
  /\ at' = "agent" /\ UNCHANGED <<iteration, status, docker>>

\* Mutant: one iteration too many.
RetryOnceMore(tier, d, v) ==
  /\ retry' = tier
  /\ IF iteration <= MaxIterations
     THEN at' = "agent" /\ iteration' = iteration + 1 /\ UNCHANGED <<status, docker>>
     ELSE Return(d, v)

\* The loop goes round with the evidence, or is done.
Retry(tier, d, v) ==
  /\ retry' = tier
  /\ IF iteration < MaxIterations
     THEN at' = "agent" /\ iteration' = iteration + 1 /\ UNCHANGED <<status, docker>>
     ELSE Return(d, v)

NoTag ==
  /\ at = "agent"
  /\ Retry("output", diff, verdict) /\ failure' = "output"
  /\ UNCHANGED <<options, diff, verdict, grade, files, invocation, cut>>

Unreadable ==
  /\ at = "agent"
  /\ diff' = Empty
  /\ Retry("output", Empty, verdict) /\ failure' = "output"
  /\ UNCHANGED <<options, verdict, grade, files, invocation, cut>>

\* A readable diff: grade_patch starts container B.
Grade ==
  /\ at = "agent"
  /\ \E d \in Diffs : diff' = d /\ grade' = NewGrade(d)
  /\ at' = "build" /\ containers' = Starting("grade", containers)
  /\ UNCHANGED <<options, iteration, verdict, retry, status, files, images, invocation,
                 history>>

StartGraderRaises ==
  /\ at = "agent"
  /\ \E d \in Diffs : diff' = d /\ grade' = NewGrade(d)
  /\ StartRaises("grade", containers)
  /\ UNCHANGED <<options, iteration, verdict, retry, files, invocation, history>>

-----------------------------------------------------------------------------
(* grade_patch                                                             *)

Grading == UNCHANGED <<options, iteration, diff, retry, files, invocation, cut>>

\* The next tier, in the same container.
Climb(call) == at' = call /\ UNCHANGED <<verdict, status, docker, failure>>

\* grade_patch returns g: container B and the committed image are removed.
Graded(g, tier, cs) ==
  /\ at' = "write" /\ verdict' = g /\ failure' = tier
  /\ containers' = cs \ {Mine("grade")}
  /\ images' = images \ {Mine("patched")}
  /\ UNCHANGED status

\* After the last gating tier: the style judge, in a container of its own.
Judge(g, tier, cs) ==
  \/ ~ options.style /\ Graded(g, tier, cs)
  \/ /\ options.style
     /\ at' = "style" /\ failure' = tier /\ containers' = Starting("style", cs)
     /\ UNCHANGED <<verdict, status, images>>
  \/ options.style /\ StartRaises("style", cs) /\ UNCHANGED <<verdict, failure>>

\* git apply and build_command, with its timeout.
Build ==
  /\ at = "build"
  /\ \/ grade' = [grade EXCEPT !.t0 = TRUE] /\ Climb("poc")
     \/ grade' = grade /\ Graded(grade, "t0", containers)
  /\ Grading

\* What the runner's exit code says of a failed replay.
Told(code) ==
  IF code = "1" THEN "t1 harness" ELSE IF code = "3" THEN "t1 hung" ELSE "t1 fires"

\* The verdict after a replay.  The evidence of a failed one begins with "rc=" and
\* the code and goes on with what the replay printed, which may mention any code.
Replayed(code, mentioned) ==
  [grade EXCEPT !.t1 = (code = "0"), !.error = (code = "1"),
                !.rc3 = (code = "3" \/ (code # "0" /\ mentioned))]

\* The original PoC is replayed; only exit 0 passes.
ReplayPoc ==
  /\ at = "poc"
  /\ \E code \in Codes, mentioned \in BOOLEAN :
       LET g == Replayed(code, mentioned) IN
         /\ grade' = g
         /\ IF code = "0" THEN Climb("tests") ELSE Graded(g, Told(code), containers)
  /\ Grading

\* Then the re-attack, or not.
AfterTests(g) ==
  \/ options.reattack /\ grade' = g /\ Climb("commit")
  \/ /\ ~ options.reattack
     /\ grade' = [g EXCEPT !.re = "None"] /\ Judge(grade', None, containers)

RunTests ==
  /\ at = "tests"
  /\ \/ ~ options.tests /\ AfterTests(grade)
     \/ options.tests /\ AfterTests([grade EXCEPT !.t2 = "True"])
     \/ /\ options.tests
        /\ grade' = [grade EXCEPT !.t2 = "False"] /\ Graded(grade', "t2", containers)
  /\ Grading

\* docker commit of container B under a new tag.
Commit ==
  /\ at = "commit"
  /\ at' = "launch" /\ images' = images \cup {Mine("patched")}
  /\ Grading /\ UNCHANGED <<grade, verdict, status, containers, failure>>

\* agent_container(patched_tag): the agent image is built from the committed
\* one, under a tag of its own, and a container started from it.
StartAttack ==
  /\ at = "launch"
  /\ at' = "attack" /\ images' = images \cup {Mine("agent")}
  /\ containers' = Starting("attack", containers)
  /\ Grading /\ UNCHANGED <<grade, verdict, status, failure>>

StartAttackRaises ==
  /\ at = "launch"
  /\ StartRaises("attack", containers)
  /\ Grading /\ UNCHANGED <<grade, verdict, failure>>

\* Ways a re-attack ends: the find agent submits a PoC on which an oracle fires,
\* or one on which none does; it submits nothing; it breaks off.
Attacks == {"fires", "claimed", "found nothing", "died"}

\* What makes the tier fail.
CauseOf(attack) ==
  IF attack = "fires" THEN "re-attack" ELSE IF attack = "claimed" THEN "claim" ELSE None

\* The tier fails when anything was submitted: no oracle is run on it.
AttackEnds ==
  /\ at = "attack"
  /\ \E attack \in Attacks :
       LET clean == attack \in {"found nothing", "died"}
           g == [grade EXCEPT !.re = IF clean THEN "True" ELSE "False"] IN
       /\ grade' = g
       /\ Judge(g, CauseOf(attack), containers \ {Mine("attack")})
  /\ Grading

\* Its score goes into the verdict and decides nothing.
StyleJudged ==
  /\ at = "style"
  /\ Graded(grade, failure, containers \ {Mine("style")})
  /\ Grading /\ UNCHANGED grade

-----------------------------------------------------------------------------
(* The result                                                              *)

Result == [verdict |-> verdict, by |-> invocation]

\* Mutant: the harness error of the replay is not told apart.
FailedTierPlain(v) ==
  IF ~ v.t0 THEN "t0"
  ELSE IF ~ v.t1 THEN IF v.rc3 THEN "t1 hung" ELSE "t1 fires"
  ELSE IF v.t2 = "False" THEN "t2"
  ELSE "re-attack"

\* _failed_tier: a hang is told from the text of the evidence.
FailedTier(v) ==
  IF ~ v.t0 THEN "t0"
  ELSE IF ~ v.t1 THEN
         IF v.error THEN "t1 harness" ELSE IF v.rc3 THEN "t1 hung" ELSE "t1 fires"
  ELSE IF v.t2 = "False" THEN "t2"
  ELSE "re-attack"

\* Mutant: only a patch that passed is written.
WritePassed == patchDiff' = (IF Passed(verdict) THEN diff ELSE patchDiff) /\ patchResult' = Result

\* _write_result
WriteFiles == patchDiff' = diff /\ patchResult' = Result

\* Then run_patch returns, or goes round.
WriteResult ==
  /\ at = "write"
  /\ WriteFiles
  /\ IF Passed(verdict) THEN Return(diff, verdict) /\ UNCHANGED retry
     ELSE Retry(FailedTier(verdict), diff, verdict)
  /\ cut' = FALSE
  /\ UNCHANGED <<options, diff, verdict, grade, invocation, failure>>

\* A signal, or a full disk, in the middle of _write_result.
CutWrite ==
  /\ at = "write"
  /\ \/ patchDiff' = Torn /\ UNCHANGED patchResult
     \/ patchDiff' = diff /\ patchResult' \in {patchResult, Torn}
  /\ at' = "idle" /\ cut' = TRUE
  /\ \/ status' = "killed" /\ UNCHANGED docker
     \/ status' = "error" /\ Unwound(containers)
  /\ UNCHANGED <<program, grade, invocation, failure>>

\* SIGTERM or SIGINT: _on_signal removes the containers whose names contain
\* find_<target>_, grader_<target>_, recon_<target> or report_<target>_, and
\* those of patch_<target>_<n> do not.
Kill ==
  /\ at \in Calls
  /\ at' = "idle" /\ status' = "killed"
  /\ UNCHANGED <<program, grade, files, docker, invocation, history>>

Run  == Prepare \/ NoTag \/ Unreadable \/ Grade \/ StartGraderRaises \/ Build \/ ReplayPoc
        \/ RunTests \/ Commit \/ StartAttack \/ StartAttackRaises \/ AttackEnds
        \/ StyleJudged \/ WriteResult \/ Raise
Next == Launch \/ Run \/ CutWrite \/ Kill

Spec == Init /\ [][Next]_vars
\* Every docker call and every agent returns (the agents: see AgentSession).
FairSpec == Spec /\ WF_vars(Run)

-----------------------------------------------------------------------------
(* Properties                                                              *)

Kinds == {"patch", "grade", "attack", "style"}
Owned(kinds) == kinds \X (0 .. MaxIterations) \X (1 .. MaxInvocations)

TypeOK ==
  /\ at \in Calls \cup {"idle"} /\ options \in Options
  /\ iteration \in 0 .. MaxIterations /\ diff \in Diffs \cup {None, Empty}
  /\ verdict \in Verdicts \cup {None} /\ grade \in Verdicts \cup {None}
  /\ retry \in Tiers \cup {None} /\ status \in Statuses
  /\ patchDiff \in Diffs \cup {None, Torn}
  /\ patchResult \in [verdict : Verdicts, by : 1 .. MaxInvocations] \cup {None, Torn}
  /\ containers \subseteq Owned(Kinds) /\ images \subseteq Owned({"patched", "agent"})
  /\ invocation \in 0 .. MaxInvocations
  /\ failure \in Causes \cup {None} /\ cut \in BOOLEAN

Completed == at = "idle" /\ status \in {"no_diff", "patch_verified", "patch_rejected"}

\* "A patch passes when build, reproduce, regress (or no suite), and re-attack
\* are all clean" (docs/patching.md), re-attack being clean when its agent submits
\* nothing (NoPatchFailsOnJudgment is about that): an invocation that completes says
\* patch_verified exactly when nothing failed its last iteration, in whatever order
\* attempts failed, gave no diff or an unreadable one before, and then both files
\* are that diff and its verdict.
VerifiedMeansGraded ==
  Completed => /\ status = "patch_verified" <=> failure = None
               /\ status = "patch_verified" =>
                    patchDiff = diff /\ verdict.of = diff /\ patchResult = Result

\* patch_result.json speaks of the diff that is beside it in patch.diff, over
\* several iterations and invocations, unless the writing was cut.
ResultDescribesDiff ==
  patchResult # None /\ ~ cut => patchDiff = patchResult.verdict.of

\* The tier that stands for a cause.  Two are told for another: an oracle that fires
\* for a hang, when its evidence mentions rc=3, and a claim for a re-attack.
Tells(tier, cause, v) ==
  \/ tier = cause
  \/ tier = "t1 hung" /\ cause = "t1 fires" /\ v.rc3
  \/ tier = "re-attack" /\ cause = "claim"

\* "If a tier fails, the evidence of the failure goes into the next attempt's prompt;
\* [a harness error] is fed back as a harness error" (docs/patching.md): the next
\* attempt is told of the tier at which the one before really failed, as _failed_tier
\* finds it again in the verdict.  A harness error is never told as a fix that does
\* not work, nor the other way round, and a hang never as an oracle that fires; an
\* oracle that fires may be told as a hang, if its output says rc=3.
EvidenceOfLastFailure == at = "agent" => Tells(retry, failure, verdict)

\* What an invocation started or committed is removed when it ends; only a
\* signal, or an error in a docker call, leaves a container.
NothingLeftBehind ==
  at = "idle" /\ status # "killed" =>
    /\ \A i \in images : i[3] = invocation => i[1] # "patched"
    /\ Completed => \A c \in containers : c[3] # invocation

\* The refinement mapping to the promise of the command.
PromisedStep ==
  IF at = "idle" THEN "closed" ELSE IF at \in {"prepare", "agent"} THEN "asking" ELSE "judging"
FailedAttempts == IF at = "idle" \/ iteration = 0 THEN 0 ELSE iteration - 1
LastAnswer     == IF at = "idle" THEN None ELSE diff
KeptPatch      == IF cut THEN None ELSE patchDiff
KeptIsGood     == ~ cut /\ patchDiff \in Diffs /\ Passed(patchResult.verdict)

Promise == INSTANCE PatchPromise
             WITH MaxAttempts <- MaxIterations, step <- PromisedStep,
                  attempts <- FailedAttempts, answer <- LastAnswer, kept <- KeptPatch,
                  good <- KeptIsGood, outcome <- status

\* The command does what PatchPromise says, through every order of tiers,
\* failures, signals and restarts: each answer is judged at most once and kept with
\* its own judgment, there are at most MaxIterations of them, and the outcome is
\* that of the last, also when the last attempt brought no patch at all.
ImplementsPatchPromise == Promise!Spec

\* An invocation ends: at most MaxIterations rounds.
PatchEnds == []<>(at = "idle")

\* "No patch fails based on model judgment" (docs/patching.md): a patch that is
\* rejected failed at an oracle in the last iteration, never because an agent said so.
NoPatchFailsOnJudgment == Completed /\ status = "patch_rejected" => failure # "claim"
=============================================================================

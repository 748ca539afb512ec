------------------------- MODULE PatchLadderProofs --------------------------
(***************************************************************************)
(* Proofs about PatchLadder, for every set of diffs and every bound on     *)
(* iterations and invocations.                                             *)
(***************************************************************************)
EXTENDS PatchLadder, TLAPS

OnLadder == {"build", "poc", "tests", "commit", "launch", "attack", "style"}

\* A grading is about the diff the loop holds, and at each rung the tiers below
\* it have passed and those above it have not been asked.
Rungs ==
  /\ at \in OnLadder \cup {"write"} => diff \in Diffs /\ grade \in Verdicts /\ grade.of = diff
  /\ at \in {"build", "poc", "tests"} => grade.t2 = "None" /\ grade.re = "False"
  /\ at = "poc" => grade.t0
  /\ at \in {"tests", "commit", "launch", "attack"} =>
       grade.t0 /\ grade.t1 /\ grade.t2 # "False"

\* What made the grading fail is known as soon as it is decided, and a verdict
\* that the loop keeps into its next iteration did not pass.
Decided ==
  /\ at = "style" => (failure = None <=> Passed(grade))
  /\ at = "write" => verdict = grade /\ (failure = None <=> Passed(verdict))
  /\ at \in {"prepare", "agent"} => verdict = None \/ ~ Passed(verdict)

LadderInv ==
  /\ at \in Calls \cup {"idle"}
  /\ failure \in Causes \cup {None}
  /\ Rungs /\ Decided /\ VerifiedMeansGraded

\* No cause and no tier is None.
LEMMA NoneIsNoTier ==
  /\ None \notin Causes /\ None \notin Tiers /\ Tiers \subseteq Causes
  /\ None \notin Diffs /\ None # Empty /\ None \notin Verdicts
BY ValuesAssumption DEF Causes

\* The labels of a failed replay and of a failed verdict are tiers.
LEMMA ToldIsTier == \A code : Told(code) \in Tiers /\ Told(code) \in Causes
BY DEF Told, Tiers, Causes

\* A replay gives a verdict on the same diff, passed with exit code 0 alone.
LEMMA ReplayedType ==
  ASSUME grade \in Verdicts, NEW code \in Codes, NEW mentioned \in BOOLEAN
  PROVE  LET g == Replayed(code, mentioned) IN
           /\ g \in Verdicts /\ g.of = grade.of /\ g.t0 = grade.t0
           /\ g.t2 = grade.t2 /\ g.re = grade.re
           /\ (g.t1 <=> code = "0") /\ (g.error <=> code = "1")
           /\ (code = "3" => g.rc3)
BY DEF Replayed, Verdicts

\* Only a submission fails the re-attack, and it is one cause or the other.
LEMMA CauseOfType ==
  ASSUME NEW attack \in Attacks
  PROVE  /\ CauseOf(attack) \in {"re-attack", "claim", None}
         /\ CauseOf(attack) \in Causes \cup {None}
         /\ CauseOf(attack) = None <=> attack \in {"found nothing", "died"}
BY NoneIsNoTier DEF CauseOf, Attacks, Causes, Tiers

LEMMA FailedTierIsTier == \A v : FailedTier(v) \in Tiers
BY DEF FailedTier, Tiers

\* The verdict grade_patch starts from.
LEMMA NewGradeType == \A d \in Diffs : /\ NewGrade(d) \in Verdicts /\ NewGrade(d).of = d
                                       /\ NewGrade(d).t2 = "None" /\ NewGrade(d).re = "False"
BY DEF NewGrade, Verdicts, Tri

\* An invocation that ends in an error or a kill completes nothing.
LEMMA AbortedKeepsInv ==
  ASSUME LadderInv, at' = "idle", status' \in {"error", "killed"}, failure' \in Causes \cup {None}
  PROVE  LadderInv'
BY DEF LadderInv, Rungs, Decided, VerifiedMeansGraded, Completed, OnLadder

\* The patch loop after an iteration that failed: it goes round or returns.
LEMMA RetryKeepsInv ==
  ASSUME LadderInv, NEW tier \in Tiers, NEW d, NEW v,
         v = None \/ ~ Passed(v), Retry(tier, d, v), failure' \in Causes, verdict' = v
  PROVE  LadderInv'
<1>1. failure' # None
  BY NoneIsNoTier
<1>2. CASE iteration < MaxIterations
  <2>1. at' = "agent"
    BY <1>2 DEF Retry
  <2> QED  BY <2>1 DEF LadderInv, Rungs, Decided, VerifiedMeansGraded, Completed, OnLadder,
                      Calls, Passed
<1>3. CASE ~ (iteration < MaxIterations)
  <2>1. at' = "idle" /\ status' \in {"no_diff", "patch_rejected"}
    BY <1>3 DEF Retry, Return
  <2> QED  BY <1>1, <2>1 DEF LadderInv, Rungs, Decided, VerifiedMeansGraded, Completed, OnLadder
<1> QED  BY <1>2, <1>3

\* grade_patch returning a grading whose failing tier is known.
LEMMA GradedKeepsInv ==
  ASSUME LadderInv, NEW g \in Verdicts, NEW tier \in Causes \cup {None}, NEW cs,
         g.of = diff, diff \in Diffs, UNCHANGED diff, grade' = g,
         tier = None <=> Passed(g), Graded(g, tier, cs)
  PROVE  LadderInv'
<1>1. at' = "write" /\ verdict' = g /\ failure' = tier
  BY DEF Graded
<1> QED  BY <1>1 DEF LadderInv, Rungs, Decided, VerifiedMeansGraded, Completed, OnLadder,
                     Calls, Passed

\* The style judge changes nothing of what is decided.
LEMMA JudgeKeepsInv ==
  ASSUME LadderInv, NEW g \in Verdicts, NEW tier \in Causes \cup {None}, NEW cs,
         g.of = diff, diff \in Diffs, UNCHANGED diff, grade' = g,
         tier = None <=> Passed(g), Judge(g, tier, cs)
  PROVE  LadderInv'
<1>1. CASE Graded(g, tier, cs)
  BY <1>1, GradedKeepsInv
<1>2. CASE at' = "style" /\ failure' = tier
  BY <1>2 DEF LadderInv, Rungs, Decided, VerifiedMeansGraded, Completed, OnLadder, Calls, Passed
<1>3. CASE StartRaises("style", cs) /\ UNCHANGED failure
  <2>1. at' = "idle" /\ status' = "error"
    BY <1>3 DEF StartRaises
  <2> QED  BY <1>3, <2>1, AbortedKeepsInv DEF LadderInv
<1> QED  BY <1>1, <1>2, <1>3 DEF Judge

\* After the tests, whatever they said short of a failure.
LEMMA AfterTestsKeepsInv ==
  ASSUME LadderInv, NEW g \in Verdicts, g.of = diff, diff \in Diffs, UNCHANGED diff,
         g.t0, g.t1, g.t2 # "False", AfterTests(g)
  PROVE  LadderInv'
<1>1. CASE grade' = g /\ Climb("commit")
  <2>1. at' = "commit" /\ UNCHANGED failure
    BY <1>1 DEF Climb
  <2> QED  BY <1>1, <2>1 DEF LadderInv, Rungs, Decided, VerifiedMeansGraded, Completed,
                            OnLadder, Calls
<1>2. CASE grade' = [g EXCEPT !.re = "None"] /\ Judge(grade', None, containers)
  <2> DEFINE h == [g EXCEPT !.re = "None"]
  <2>1. h \in Verdicts /\ h.of = diff /\ Passed(h)
    BY DEF Verdicts, Tri, Passed
  <2>2. Judge(h, None, containers)
    BY <1>2
  <2> QED  BY <1>2, <2>1, <2>2, JudgeKeepsInv
<1> QED  BY <1>1, <1>2 DEF AfterTests

LEMMA LadderStep == LadderInv /\ Next => LadderInv'
<1> SUFFICES ASSUME LadderInv, Next PROVE LadderInv'
  OBVIOUS
<1>1. CASE Launch
  <2>1. \/ at' = "prepare" /\ failure' = None /\ verdict' = None
        \/ at' = "idle" /\ status' = "error" /\ failure' = None
    BY <1>1 DEF Launch
  <2>2. CASE at' = "prepare" /\ failure' = None /\ verdict' = None
    BY <2>2 DEF LadderInv, Rungs, Decided, VerifiedMeansGraded, Completed, OnLadder, Calls
  <2> QED  BY <2>1, <2>2, AbortedKeepsInv
<1>2. CASE Prepare
  <2>1. at' = "agent" /\ UNCHANGED <<verdict, failure>>
    BY <1>2 DEF Prepare, history
  <2> QED  BY <1>2, <2>1 DEF LadderInv, Rungs, Decided, VerifiedMeansGraded, Completed,
                            OnLadder, Calls, Prepare
<1>3. CASE NoTag
  <2>1. verdict = None \/ ~ Passed(verdict)
    BY <1>3 DEF NoTag, LadderInv, Decided
  <2>2. Retry("output", diff, verdict) /\ failure' = "output" /\ verdict' = verdict
    BY <1>3 DEF NoTag
  <2> QED  BY <2>1, <2>2, RetryKeepsInv DEF Tiers, Causes
<1>4. CASE Unreadable
  <2>1. verdict = None \/ ~ Passed(verdict)
    BY <1>4 DEF Unreadable, LadderInv, Decided
  <2>2. Retry("output", Empty, verdict) /\ failure' = "output" /\ verdict' = verdict
    BY <1>4 DEF Unreadable
  <2> QED  BY <2>1, <2>2, RetryKeepsInv DEF Tiers, Causes
<1>5. CASE Grade
  <2>1. PICK d \in Diffs : diff' = d /\ grade' = NewGrade(d)
    BY <1>5 DEF Grade
  <2>2. at' = "build" /\ UNCHANGED failure
    BY <1>5 DEF Grade, history
  <2> QED  BY <2>1, <2>2, NewGradeType DEF LadderInv, Rungs, Decided, VerifiedMeansGraded,
                     Completed, OnLadder, Calls
<1>6. CASE StartGraderRaises
  <2>1. at' = "idle" /\ status' = "error" /\ UNCHANGED failure
    BY <1>6 DEF StartGraderRaises, StartRaises, history
  <2> QED  BY <2>1, AbortedKeepsInv DEF LadderInv
<1>7. CASE Build
  <2>1. grade \in Verdicts /\ grade.of = diff /\ diff \in Diffs /\ UNCHANGED diff
    BY <1>7 DEF Build, Grading, LadderInv, Rungs, OnLadder
  <2>2. grade.t2 = "None" /\ grade.re = "False"
    BY <1>7 DEF Build, LadderInv, Rungs
  <2>3. CASE grade' = [grade EXCEPT !.t0 = TRUE] /\ Climb("poc")
    <3>1. at' = "poc" /\ UNCHANGED failure
      BY <2>3 DEF Climb
    <3>2. /\ grade' \in Verdicts /\ grade'.of = diff /\ grade'.t0
          /\ grade'.t2 = "None" /\ grade'.re = "False"
      BY <2>1, <2>2, <2>3 DEF Verdicts
    <3> QED  BY <2>1, <3>1, <3>2 DEF LadderInv, Rungs, Decided, VerifiedMeansGraded,
                     Completed, OnLadder, Calls
  <2>4. CASE grade' = grade /\ Graded(grade, "t0", containers)
    <3>1. ~ Passed(grade) /\ "t0" \in Causes /\ "t0" # None
      BY <2>2, NoneIsNoTier DEF Passed, Tiers, Causes
    <3> QED  BY <2>1, <2>4, <3>1, GradedKeepsInv
  <2> QED  BY <1>7, <2>3, <2>4 DEF Build
<1>8. CASE ReplayPoc
  <2>1. grade \in Verdicts /\ grade.of = diff /\ diff \in Diffs /\ UNCHANGED diff
    BY <1>8 DEF ReplayPoc, Grading, LadderInv, Rungs, OnLadder
  <2>2. grade.t2 = "None" /\ grade.re = "False"
    BY <1>8 DEF ReplayPoc, LadderInv, Rungs
  <2>3. PICK code \in Codes, mentioned \in BOOLEAN :
          LET g == Replayed(code, mentioned)
          IN  /\ grade' = g
              /\ IF code = "0" THEN Climb("tests") ELSE Graded(g, Told(code), containers)
    BY <1>8 DEF ReplayPoc
  <2> DEFINE g == Replayed(code, mentioned)
  <2>4. /\ g \in Verdicts /\ g.of = diff /\ g.t2 = "None" /\ g.re = "False"
        /\ grade' = g /\ g.t0 = grade.t0 /\ (g.t1 <=> code = "0")
    BY <2>1, <2>2, <2>3, ReplayedType
  <2> HIDE DEF g
  <2>7. IF code = "0" THEN Climb("tests") ELSE Graded(g, Told(code), containers)
    BY <2>3 DEF g
  <2>5. CASE code = "0"
    <3>1. at' = "tests" /\ UNCHANGED failure
      BY <2>7, <2>5 DEF Climb
    <3>2. g.t1
      BY <2>4, <2>5
    <3>3. g.t0
      BY <1>8, <2>4 DEF ReplayPoc, LadderInv, Rungs
    <3> QED  BY <2>1, <2>4, <3>1, <3>2, <3>3 DEF LadderInv, Rungs, Decided,
                     VerifiedMeansGraded, Completed, OnLadder, Calls
  <2>6. CASE code # "0"
    <3>1. ~ Passed(g) /\ Told(code) \in Causes /\ Told(code) # None
      BY <2>4, ToldIsTier, NoneIsNoTier DEF Passed
    <3>2. Graded(g, Told(code), containers)
      BY <2>7, <2>6
    <3> QED  BY <2>1, <2>4, <3>1, <3>2, GradedKeepsInv
  <2> QED  BY <2>5, <2>6
<1>9. CASE RunTests
  <2>1. /\ grade \in Verdicts /\ grade.of = diff /\ diff \in Diffs /\ UNCHANGED diff
        /\ grade.t0 /\ grade.t1 /\ grade.t2 # "False"
    BY <1>9 DEF RunTests, Grading, LadderInv, Rungs, OnLadder
  <2>2. CASE AfterTests(grade)
    BY <2>1, <2>2, AfterTestsKeepsInv
  <2>3. CASE AfterTests([grade EXCEPT !.t2 = "True"])
    <3> DEFINE g == [grade EXCEPT !.t2 = "True"]
    <3>1. g \in Verdicts /\ g.of = diff /\ g.t0 /\ g.t1 /\ g.t2 # "False"
      BY <2>1 DEF Verdicts, Tri
    <3> HIDE DEF g
    <3>2. AfterTests(g)
      BY <2>3 DEF g
    <3> QED  BY <2>1, <3>1, <3>2, AfterTestsKeepsInv
  <2>4. CASE grade' = [grade EXCEPT !.t2 = "False"] /\ Graded(grade', "t2", containers)
    <3> DEFINE g == [grade EXCEPT !.t2 = "False"]
    <3>1. g \in Verdicts /\ g.of = diff /\ ~ Passed(g) /\ "t2" \in Causes /\ "t2" # None
      BY <2>1, NoneIsNoTier DEF Verdicts, Tri, Passed, Tiers, Causes
    <3> HIDE DEF g
    <3>2. grade' = g /\ Graded(g, "t2", containers)
      BY <2>4 DEF g
    <3> QED  BY <2>1, <3>1, <3>2, GradedKeepsInv
  <2> QED  BY <1>9, <2>2, <2>3, <2>4 DEF RunTests
<1>10. CASE Commit
  <2>1. at' = "launch" /\ UNCHANGED <<grade, failure, diff>>
    BY <1>10 DEF Commit, Grading
  <2> QED  BY <1>10, <2>1 DEF Commit, LadderInv, Rungs, Decided, VerifiedMeansGraded,
                     Completed, OnLadder, Calls
<1>11. CASE StartAttack
  <2>1. at' = "attack" /\ UNCHANGED <<grade, failure, diff>>
    BY <1>11 DEF StartAttack, Grading
  <2> QED  BY <1>11, <2>1 DEF StartAttack, LadderInv, Rungs, Decided, VerifiedMeansGraded,
                     Completed, OnLadder, Calls
<1>12. CASE StartAttackRaises
  <2>1. at' = "idle" /\ status' = "error" /\ UNCHANGED failure
    BY <1>12 DEF StartAttackRaises, StartRaises
  <2> QED  BY <2>1, AbortedKeepsInv DEF LadderInv
<1>13. CASE AttackEnds
  <2>0. PICK attack \in Attacks :
          LET clean == attack \in {"found nothing", "died"}
              g == [grade EXCEPT !.re = IF clean THEN "True" ELSE "False"] IN
            /\ grade' = g
            /\ Judge(g, CauseOf(attack), containers \ {Mine("attack")})
    BY <1>13 DEF AttackEnds
  <2> DEFINE clean == attack \in {"found nothing", "died"}
             g     == [grade EXCEPT !.re = IF clean THEN "True" ELSE "False"]
             tier  == CauseOf(attack)
  <2>1. /\ grade \in Verdicts /\ grade.of = diff /\ diff \in Diffs /\ UNCHANGED diff
        /\ grade.t0 /\ grade.t1 /\ grade.t2 # "False"
    BY <1>13 DEF AttackEnds, Grading, LadderInv, Rungs, OnLadder
  <2>2. grade' = g /\ Judge(g, tier, containers \ {Mine("attack")})
    BY <2>0
  <2>3. g \in Verdicts /\ g.of = diff
    BY <2>1 DEF Verdicts, Tri
  <2>4. tier \in Causes \cup {None} /\ (tier = None <=> Passed(g))
    BY <2>1, CauseOfType DEF Verdicts, Passed
  <2> HIDE DEF g, tier
  <2> QED  BY <2>1, <2>2, <2>3, <2>4, JudgeKeepsInv
<1>14. CASE StyleJudged
  <2>1. /\ grade \in Verdicts /\ grade.of = diff /\ diff \in Diffs /\ UNCHANGED diff
        /\ failure = None <=> Passed(grade)
        /\ failure \in Causes \cup {None}
    BY <1>14 DEF StyleJudged, Grading, LadderInv, Rungs, Decided, OnLadder
  <2>2. grade' = grade /\ Graded(grade, failure, containers \ {Mine("style")})
    BY <1>14 DEF StyleJudged
  <2> QED  BY <2>1, <2>2, GradedKeepsInv
<1>15. CASE WriteResult
  <2>1. /\ verdict \in Verdicts /\ verdict.of = diff /\ diff \in Diffs
        /\ failure = None <=> Passed(verdict)
    BY <1>15 DEF WriteResult, LadderInv, Rungs, Decided
  <2>2. patchDiff' = diff /\ patchResult' = Result'
    BY <1>15 DEF WriteResult, WriteFiles, Result
  <2>3. UNCHANGED <<diff, verdict, failure>>
    BY <1>15 DEF WriteResult
  <2>4. CASE Passed(verdict)
    <3>1. at' = "idle" /\ status' = "patch_verified"
      BY <1>15, <2>1, <2>4, NoneIsNoTier DEF WriteResult, Return
    <3> QED  BY <2>1, <2>2, <2>3, <2>4, <3>1 DEF LadderInv, Rungs, Decided,
                     VerifiedMeansGraded, Completed, OnLadder
  <2>5. CASE ~ Passed(verdict)
    <3>1. Retry(FailedTier(verdict), diff, verdict)
      BY <1>15, <2>5 DEF WriteResult
    <3>2. failure' \in Causes /\ UNCHANGED failure
      BY <2>1, <2>3, <2>5 DEF LadderInv
    <3> QED  BY <2>1, <2>3, <2>5, <3>1, <3>2, RetryKeepsInv, FailedTierIsTier
  <2> QED  BY <2>4, <2>5
<1>16. CASE Raise
  <2>1. at' = "idle" /\ status' = "error" /\ UNCHANGED failure
    BY <1>16 DEF Raise, history
  <2> QED  BY <2>1, AbortedKeepsInv DEF LadderInv
<1>17. CASE CutWrite
  <2>1. at' = "idle" /\ status' \in {"error", "killed"} /\ UNCHANGED failure
    BY <1>17 DEF CutWrite
  <2> QED  BY <2>1, AbortedKeepsInv DEF LadderInv
<1>18. CASE Kill
  <2>1. at' = "idle" /\ status' = "killed" /\ UNCHANGED failure
    BY <1>18 DEF Kill, history
  <2> QED  BY <2>1, AbortedKeepsInv DEF LadderInv
<1> QED  BY <1>1, <1>2, <1>3, <1>4, <1>5, <1>6, <1>7, <1>8, <1>9, <1>10, <1>11, <1>12, <1>13,
            <1>14, <1>15, <1>16, <1>17, <1>18 DEF Next, Run

\* Every state of the ladder, in any number of iterations and invocations,
\* kills, failures of docker and torn writes included.
THEOREM LadderInvAlways == Spec => []LadderInv
<1>1. Init => LadderInv
  BY DEF Init, LadderInv, Rungs, Decided, VerifiedMeansGraded, Completed, OnLadder
<1>2. LadderInv /\ [Next]_vars => LadderInv'
  <2>1. LadderInv /\ UNCHANGED vars => LadderInv'
    BY DEF LadderInv, Rungs, Decided, VerifiedMeansGraded, Completed, OnLadder, Result, Passed,
           vars, program, files, history
  <2> QED  BY <2>1, LadderStep
<1> QED  BY <1>1, <1>2, PTL DEF Spec

\* For every set of diffs, bound on iterations and options: patch_verified is
\* said exactly of a diff that no tier failed, and it is the one on disk.
THEOREM VerifiedMeansGradedAlways == Spec => []VerifiedMeansGraded
<1>1. LadderInv => VerifiedMeansGraded
  BY DEF LadderInv
<1> QED  BY <1>1, LadderInvAlways, PTL

-----------------------------------------------------------------------------
(* Types                                                                   *)

\* Iterations are counted up to the limit, and every call is of an invocation.
TypeInv == TypeOK /\ (at \in Calls => invocation # 0)

\* Containers and images of the invocation in progress have names of their type.
LEMMA MineType ==
  ASSUME TypeInv, at \in Calls
  PROVE  /\ \A kind \in Kinds : Mine(kind) \in Owned(Kinds)
         /\ \A kind \in {"patched", "agent"} : Mine(kind) \in Owned({"patched", "agent"})
<1>1. invocation \in 1 .. MaxInvocations /\ iteration \in 0 .. MaxIterations
  BY PatchAssumption DEF TypeInv, TypeOK
<1> QED  BY <1>1 DEF Mine, Owned

\* Starting, unwinding and a start that raises keep those types.
LEMMA DockerType ==
  ASSUME TypeInv, at \in Calls
  PROVE  /\ \A kind \in Kinds, cs \in SUBSET Owned(Kinds) : Starting(kind, cs) \subseteq Owned(Kinds)
         /\ \A cs \in SUBSET Owned(Kinds) :
              Unwound(cs) => containers' \subseteq Owned(Kinds) /\ images' \subseteq images
         /\ \A kind \in Kinds, cs \in SUBSET Owned(Kinds) : StartRaises(kind, cs) =>
              containers' \subseteq Owned(Kinds) /\ images' \subseteq images
                /\ at' = "idle" /\ status' = "error"
BY MineType DEF Starting, Replacing, Unwound, StartRaises

\* The loop after an iteration that failed.
LEMMA RetryType ==
  ASSUME TypeInv, at \in Calls, NEW tier \in Tiers, NEW d, NEW v, Retry(tier, d, v)
  PROVE  /\ at' \in {"agent", "idle"} /\ iteration' \in 0 .. MaxIterations /\ retry' \in Tiers
         /\ status' \in Statuses
         /\ containers' \subseteq Owned(Kinds) /\ images' \subseteq images
<1>1. CASE iteration < MaxIterations
  BY <1>1, PatchAssumption DEF Retry, TypeInv, TypeOK, docker
<1>2. CASE ~ (iteration < MaxIterations)
  <2>1. Return(d, v) /\ retry' = tier
    BY <1>2 DEF Retry
  <2> QED  BY <2>1, DockerType DEF Return, TypeInv, TypeOK, Statuses
<1> QED  BY <1>1, <1>2

\* grade_patch returning.
LEMMA GradedType ==
  ASSUME TypeInv, at \in Calls, NEW g \in Verdicts, NEW tier \in Causes \cup {None},
         NEW cs \in SUBSET Owned(Kinds), Graded(g, tier, cs), Grading, grade' = g
  PROVE  TypeInv'
BY DEF Graded, Grading, TypeInv, TypeOK, files, Calls

LEMMA ClimbType ==
  ASSUME TypeInv, at \in Calls, NEW call \in Calls, grade' \in Verdicts, Climb(call), Grading
  PROVE  TypeInv'
BY DEF Climb, Grading, TypeInv, TypeOK, files, docker

LEMMA JudgeType ==
  ASSUME TypeInv, at \in Calls, NEW g \in Verdicts, NEW tier \in Causes \cup {None},
         NEW cs \in SUBSET Owned(Kinds), Judge(g, tier, cs), Grading, grade' = g
  PROVE  TypeInv'
<1>1. CASE Graded(g, tier, cs)
  BY <1>1, GradedType
<1>2. CASE /\ at' = "style" /\ failure' = tier /\ containers' = Starting("style", cs)
           /\ UNCHANGED <<verdict, status, images>>
  <2>1. containers' \subseteq Owned(Kinds)
    BY <1>2, DockerType DEF Kinds
  <2> QED  BY <1>2, <2>1 DEF Grading, TypeInv, TypeOK, files, Calls
<1>3. CASE StartRaises("style", cs) /\ UNCHANGED <<verdict, failure>>
  <2>1. containers' \subseteq Owned(Kinds) /\ images' \subseteq images /\ at' = "idle" /\ status' = "error"
    BY <1>3, DockerType DEF Kinds
  <2> QED  BY <1>3, <2>1 DEF Grading, TypeInv, TypeOK, files, Calls, Statuses
<1> QED  BY <1>1, <1>2, <1>3 DEF Judge

LEMMA AfterTestsType ==
  ASSUME TypeInv, at \in Calls, NEW g \in Verdicts, AfterTests(g), Grading
  PROVE  TypeInv'
<1>1. CASE grade' = g /\ Climb("commit")
  BY <1>1, ClimbType DEF Calls
<1>2. CASE grade' = [g EXCEPT !.re = "None"] /\ Judge(grade', None, containers)
  <2> DEFINE h == [g EXCEPT !.re = "None"]
  <2>1. h \in Verdicts
    BY DEF Verdicts, Tri
  <2>2. containers \in SUBSET Owned(Kinds)
    BY DEF TypeInv, TypeOK
  <2> HIDE DEF h
  <2>3. grade' = h /\ Judge(h, None, containers)
    BY <1>2 DEF h
  <2> QED  BY <2>1, <2>2, <2>3, JudgeType
<1> QED  BY <1>1, <1>2 DEF AfterTests

LEMMA TypeStep == LadderInv /\ TypeInv /\ Next => TypeInv'
<1> SUFFICES ASSUME LadderInv, TypeInv, Next PROVE TypeInv'
  OBVIOUS
<1>0. containers \in SUBSET Owned(Kinds) /\ Calls = Calls \ {"idle"}
  BY DEF TypeInv, TypeOK, Calls
<1>1. CASE Launch
  <2>1. invocation' \in 1 .. MaxInvocations
    BY <1>1, PatchAssumption DEF Launch, TypeInv, TypeOK
  <2>2. <<"patch", 0, invocation'>> \in Owned(Kinds)
    BY <2>1, PatchAssumption DEF Owned, Kinds
  <2>3. containers' \subseteq Owned(Kinds) /\ at' \in {"prepare", "idle"} /\ status' \in {"none", "error"}
    BY <1>0, <1>1, <2>2 DEF Launch
  <2> QED  BY <1>1, <2>1, <2>3, PatchAssumption DEF Launch, TypeInv, TypeOK, files, Statuses, Calls
<1>2. CASE Prepare
  BY <1>2, PatchAssumption DEF Prepare, TypeInv, TypeOK, files, docker, history, Calls
<1>3. CASE NoTag
  <2>1. at \in Calls /\ Retry("output", diff, verdict) /\ "output" \in Tiers
    BY <1>3 DEF NoTag, Calls, Tiers
  <2> QED  BY <1>3, <2>1, RetryType DEF NoTag, TypeInv, TypeOK, files, Calls, Causes
<1>4. CASE Unreadable
  <2>1. at \in Calls /\ Retry("output", Empty, verdict) /\ "output" \in Tiers
    BY <1>4 DEF Unreadable, Calls, Tiers
  <2> QED  BY <1>4, <2>1, RetryType DEF Unreadable, TypeInv, TypeOK, files, Calls, Causes
<1>5. CASE Grade
  <2>1. at \in Calls /\ containers' = Starting("grade", containers)
    BY <1>5 DEF Grade, Calls
  <2>2. containers' \subseteq Owned(Kinds)
    BY <1>0, <2>1, DockerType DEF Kinds
  <2> QED  BY <1>5, <2>1, <2>2, NewGradeType DEF Grade, TypeInv, TypeOK, files, history, Calls
<1>6. CASE StartGraderRaises
  <2>1. at \in Calls /\ StartRaises("grade", containers)
    BY <1>6 DEF StartGraderRaises, Calls
  <2>2. containers' \subseteq Owned(Kinds) /\ images' \subseteq images /\ at' = "idle" /\ status' = "error"
    BY <1>0, <2>1, DockerType DEF Kinds
  <2> QED  BY <1>6, <2>2, NewGradeType DEF StartGraderRaises, TypeInv, TypeOK, files, history, Calls, Statuses
<1>7. CASE Build
  <2>1. at \in Calls /\ grade \in Verdicts
    BY <1>7 DEF Build, LadderInv, Rungs, OnLadder, Calls
  <2>2. CASE grade' = [grade EXCEPT !.t0 = TRUE] /\ Climb("poc")
    <3>1. grade' \in Verdicts
      BY <2>1, <2>2 DEF Verdicts
    <3> QED  BY <1>7, <2>1, <2>2, <3>1, ClimbType DEF Build, Calls
  <2>3. CASE grade' = grade /\ Graded(grade, "t0", containers)
    BY <1>0, <1>7, <2>1, <2>3, GradedType DEF Build, Tiers, Causes
  <2> QED  BY <1>7, <2>2, <2>3 DEF Build
<1>8. CASE ReplayPoc
  <2>1. at \in Calls /\ grade \in Verdicts /\ Grading
    BY <1>8 DEF ReplayPoc, LadderInv, Rungs, OnLadder, Calls
  <2>2. PICK code \in Codes, mentioned \in BOOLEAN :
          LET g == Replayed(code, mentioned)
          IN  /\ grade' = g
              /\ IF code = "0" THEN Climb("tests") ELSE Graded(g, Told(code), containers)
    BY <1>8 DEF ReplayPoc
  <2> DEFINE g == Replayed(code, mentioned)
  <2>3. g \in Verdicts
    BY <2>1, ReplayedType
  <2> HIDE DEF g
  <2>4. grade' = g /\ IF code = "0" THEN Climb("tests") ELSE Graded(g, Told(code), containers)
    BY <2>2 DEF g
  <2>5. CASE code = "0"
    BY <2>1, <2>3, <2>4, <2>5, ClimbType DEF Calls
  <2>6. CASE code # "0"
    BY <1>0, <2>1, <2>3, <2>4, <2>6, GradedType, ToldIsTier
  <2> QED  BY <2>5, <2>6
<1>9. CASE RunTests
  <2>1. at \in Calls /\ grade \in Verdicts /\ Grading
    BY <1>9 DEF RunTests, LadderInv, Rungs, OnLadder, Calls
  <2>2. CASE AfterTests(grade)
    BY <2>1, <2>2, AfterTestsType
  <2>3. CASE AfterTests([grade EXCEPT !.t2 = "True"])
    <3>1. [grade EXCEPT !.t2 = "True"] \in Verdicts
      BY <2>1 DEF Verdicts, Tri
    <3> QED  BY <2>1, <2>3, <3>1, AfterTestsType
  <2>4. CASE grade' = [grade EXCEPT !.t2 = "False"] /\ Graded(grade', "t2", containers)
    <3> DEFINE g == [grade EXCEPT !.t2 = "False"]
    <3>1. g \in Verdicts /\ "t2" \in Causes
      BY <2>1 DEF Verdicts, Tri, Tiers, Causes
    <3> HIDE DEF g
    <3>2. grade' = g /\ Graded(g, "t2", containers)
      BY <2>4 DEF g
    <3> QED  BY <1>0, <2>1, <3>1, <3>2, GradedType
  <2> QED  BY <1>9, <2>2, <2>3, <2>4 DEF RunTests
<1>10. CASE Commit
  <2>1. at \in Calls /\ Mine("patched") \in Owned({"patched", "agent"})
    BY <1>10, MineType DEF Commit, Calls
  <2> QED  BY <1>10, <2>1 DEF Commit, Grading, TypeInv, TypeOK, files, Calls
<1>11. CASE StartAttack
  <2>1. at \in Calls /\ Mine("agent") \in Owned({"patched", "agent"})
    BY <1>11, MineType DEF StartAttack, Calls
  <2>2. containers' \subseteq Owned(Kinds)
    BY <1>0, <1>11, <2>1, DockerType DEF StartAttack, Kinds
  <2> QED  BY <1>11, <2>1, <2>2 DEF StartAttack, Grading, TypeInv, TypeOK, files, Calls
<1>12. CASE StartAttackRaises
  <2>1. at \in Calls /\ StartRaises("attack", containers)
    BY <1>12 DEF StartAttackRaises, Calls
  <2>2. containers' \subseteq Owned(Kinds) /\ images' \subseteq images /\ at' = "idle" /\ status' = "error"
    BY <1>0, <2>1, DockerType DEF Kinds
  <2> QED  BY <1>12, <2>2 DEF StartAttackRaises, Grading, TypeInv, TypeOK, files, Calls, Statuses
<1>13. CASE AttackEnds
  <2>1. at \in Calls /\ grade \in Verdicts /\ Grading
    BY <1>13 DEF AttackEnds, LadderInv, Rungs, OnLadder, Calls
  <2>2. PICK attack \in Attacks :
          LET clean == attack \in {"found nothing", "died"}
              g == [grade EXCEPT !.re = IF clean THEN "True" ELSE "False"] IN
            /\ grade' = g
            /\ Judge(g, CauseOf(attack), containers \ {Mine("attack")})
    BY <1>13 DEF AttackEnds
  <2> DEFINE clean == attack \in {"found nothing", "died"}
             g     == [grade EXCEPT !.re = IF clean THEN "True" ELSE "False"]
             tier  == CauseOf(attack)
  <2>3. g \in Verdicts /\ tier \in Causes \cup {None}
    BY <2>1, CauseOfType DEF Verdicts, Tri
  <2>4. grade' = g /\ Judge(g, tier, containers \ {Mine("attack")})
    BY <2>2
  <2> HIDE DEF g, tier
  <2>5. containers \ {Mine("attack")} \in SUBSET Owned(Kinds)
    BY <1>0
  <2> QED  BY <2>1, <2>3, <2>4, <2>5, JudgeType
<1>14. CASE StyleJudged
  <2>1. at \in Calls /\ grade \in Verdicts /\ Grading /\ failure \in Causes \cup {None}
    BY <1>14 DEF StyleJudged, LadderInv, Rungs, OnLadder, Calls
  <2>2. grade' = grade /\ Graded(grade, failure, containers \ {Mine("style")})
    BY <1>14 DEF StyleJudged
  <2>3. containers \ {Mine("style")} \in SUBSET Owned(Kinds)
    BY <1>0
  <2> QED  BY <2>1, <2>2, <2>3, GradedType
<1>15. CASE WriteResult
  <2>1. at \in Calls /\ verdict \in Verdicts /\ diff \in Diffs /\ invocation \in 1 .. MaxInvocations
    BY <1>15, PatchAssumption DEF WriteResult, LadderInv, Rungs, Decided, Calls, TypeInv, TypeOK
  <2>2. patchDiff' = diff /\ patchResult' = [verdict |-> verdict, by |-> invocation]
    BY <1>15 DEF WriteResult, WriteFiles, Result
  <2>3. /\ at' \in {"agent", "idle"} /\ iteration' \in 0 .. MaxIterations /\ retry' \in Tiers \cup {None}
        /\ status' \in Statuses /\ containers' \subseteq Owned(Kinds) /\ images' \subseteq images
    <3>1. CASE Passed(verdict)
      <4>1. Return(diff, verdict) /\ UNCHANGED retry
        BY <1>15, <3>1 DEF WriteResult
      <4> QED  BY <1>0, <2>1, <4>1, DockerType DEF Return, TypeInv, TypeOK, Statuses
    <3>2. CASE ~ Passed(verdict)
      <4>1. Retry(FailedTier(verdict), diff, verdict)
        BY <1>15, <3>2 DEF WriteResult
      <4> QED  BY <2>1, <4>1, RetryType, FailedTierIsTier
    <3> QED  BY <3>1, <3>2
  <2> QED  BY <1>15, <2>1, <2>2, <2>3 DEF WriteResult, TypeInv, TypeOK, Calls
<1>16. CASE Raise
  <2>1. at \in Calls /\ Unwound(containers) /\ at' = "idle" /\ status' = "error"
    BY <1>16 DEF Raise
  <2>2. containers' \subseteq Owned(Kinds) /\ images' \subseteq images
    BY <1>0, <2>1, DockerType
  <2> QED  BY <1>16, <2>1, <2>2 DEF Raise, TypeInv, TypeOK, program, files, history, Calls, Statuses
<1>17. CASE CutWrite
  <2>1. at \in Calls /\ diff \in Diffs /\ at' = "idle" /\ status' \in {"killed", "error"}
    BY <1>17 DEF CutWrite, LadderInv, Rungs, Calls
  <2>2. containers' \subseteq Owned(Kinds) /\ images' \subseteq images
    BY <1>0, <1>17, <2>1, DockerType DEF CutWrite, docker
  <2>3. patchDiff' \in Diffs \cup {None, Torn} /\ patchResult' \in {patchResult, Torn}
    BY <1>17, <2>1 DEF CutWrite
  <2> QED  BY <1>17, <2>1, <2>2, <2>3 DEF CutWrite, TypeInv, TypeOK, program, Calls, Statuses
<1>18. CASE Kill
  BY <1>18 DEF Kill, TypeInv, TypeOK, program, files, docker, history, Calls, Statuses
<1> QED  BY <1>1, <1>2, <1>3, <1>4, <1>5, <1>6, <1>7, <1>8, <1>9, <1>10, <1>11, <1>12, <1>13,
            <1>14, <1>15, <1>16, <1>17, <1>18 DEF Next, Run

LEMMA InitType == Init => TypeInv
<1> SUFFICES ASSUME Init PROVE TypeInv
  OBVIOUS
<1>1. options \in Options
  BY DEF Init, Options
<1>2. 0 \in 0 .. MaxIterations /\ 0 \in 0 .. MaxInvocations
  BY PatchAssumption
<1> QED  BY <1>1, <1>2 DEF Init, TypeInv, TypeOK, Statuses, Calls

LEMMA TypeKept == LadderInv /\ TypeInv /\ [Next]_vars => TypeInv'
<1>1. TypeInv /\ UNCHANGED vars => TypeInv'
  BY DEF TypeInv, TypeOK, vars, program, files, docker, history
<1> QED  BY <1>1, TypeStep

\* Every state is typed, and made by an invocation that was counted.
THEOREM TypeInvAlways == Spec => []TypeInv
BY InitType, TypeKept, LadderInvAlways, PTL DEF Spec

\* Every variable keeps its type, the iteration its limit, and every container
\* and image carries an iteration and an invocation that were.
THEOREM PatchTypeSafety == Spec => []TypeOK
<1>1. TypeInv => TypeOK
  BY DEF TypeInv
<1> QED  BY <1>1, TypeInvAlways, PTL

-----------------------------------------------------------------------------
(* The pair of files                                                       *)

\* The two files go together whenever the last writing was not cut; a cut one
\* may leave any part of the pair, and the next writing replaces both.
LEMMA FilesStep == LadderInv /\ ResultDescribesDiff /\ Next => ResultDescribesDiff'
<1> SUFFICES ASSUME LadderInv, ResultDescribesDiff, Next PROVE ResultDescribesDiff'
  OBVIOUS
<1>1. CASE WriteResult
  <2>1. patchDiff' = diff /\ patchResult' = [verdict |-> verdict, by |-> invocation]
    BY <1>1 DEF WriteResult, WriteFiles, Result
  <2>2. verdict.of = diff
    BY <1>1 DEF WriteResult, LadderInv, Rungs, Decided
  <2> QED  BY <2>1, <2>2 DEF ResultDescribesDiff
<1>2. CASE CutWrite
  BY <1>2 DEF CutWrite, ResultDescribesDiff
<1>3. CASE UNCHANGED <<patchDiff, patchResult, cut>>
  BY <1>3 DEF ResultDescribesDiff
<1>4. Next => WriteResult \/ CutWrite \/ UNCHANGED <<patchDiff, patchResult, cut>>
  BY DEF Next, Run, Launch, Prepare, NoTag, Unreadable, Grade, StartGraderRaises, Build, ReplayPoc,
         RunTests, Commit, StartAttack, StartAttackRaises, AttackEnds, StyleJudged, Raise, Kill,
         Grading, files, history
<1> QED  BY <1>1, <1>2, <1>3, <1>4

\* patch_result.json speaks of the patch.diff beside it, through any number of
\* iterations, invocations, errors and kills that did not cut the writing.
THEOREM ResultDescribesDiffAlways == Spec => []ResultDescribesDiff
<1>1. Init => ResultDescribesDiff
  BY DEF Init, ResultDescribesDiff
<1>2. LadderInv /\ ResultDescribesDiff /\ [Next]_vars => ResultDescribesDiff'
  <2>1. ResultDescribesDiff /\ UNCHANGED vars => ResultDescribesDiff'
    BY DEF ResultDescribesDiff, vars, files, history
  <2> QED  BY <2>1, FilesStep
<1> QED  BY <1>1, <1>2, LadderInvAlways, PTL DEF Spec

-----------------------------------------------------------------------------
(* Feedback                                                                *)

\* What _failed_tier finds in g, if something made it fail, stands for it.
Names(cause, g) == cause # None => Tells(FailedTier(g), cause, g)

\* What made the iteration fail will be told from its verdict: a rung that is being climbed has not passed yet, those below it have.
Feedback ==
  /\ at = "prepare" => retry = None /\ failure = None
  /\ at = "build" => ~ grade.t0
  /\ at = "style" => Names(failure, grade)
  /\ at = "write" => Names(failure, verdict)
  /\ EvidenceOfLastFailure

LEMMA IdleFeedback == at' = "idle" => Feedback'
BY DEF Feedback, EvidenceOfLastFailure

LEMMA RetryFeedback ==
  ASSUME NEW tier, NEW d, NEW v, Retry(tier, d, v), Tells(tier, failure', verdict')
  PROVE  Feedback'
BY DEF Retry, Return, Feedback, EvidenceOfLastFailure

LEMMA GradedFeedback ==
  ASSUME NEW g, NEW tier, NEW cs, Graded(g, tier, cs), Names(tier, g)
  PROVE  Feedback'
BY DEF Graded, Feedback, EvidenceOfLastFailure, Names, FailedTier, Tells

LEMMA JudgeFeedback ==
  ASSUME NEW g, NEW tier, NEW cs, Judge(g, tier, cs), Names(tier, g), grade' = g
  PROVE  Feedback'
<1>1. CASE Graded(g, tier, cs)
  BY <1>1, GradedFeedback
<1>2. CASE at' = "style" /\ failure' = tier
  BY <1>2 DEF Feedback, EvidenceOfLastFailure, Names, FailedTier, Tells
<1>3. CASE StartRaises("style", cs)
  BY <1>3, IdleFeedback DEF StartRaises
<1> QED  BY <1>1, <1>2, <1>3 DEF Judge

LEMMA AfterTestsFeedback ==
  ASSUME NEW g, AfterTests(g)
  PROVE  Feedback'
<1>1. CASE grade' = g /\ Climb("commit")
  BY <1>1 DEF Climb, Feedback, EvidenceOfLastFailure
<1>2. CASE grade' = [g EXCEPT !.re = "None"] /\ Judge(grade', None, containers)
  <2> DEFINE h == [g EXCEPT !.re = "None"]
  <2>1. Names(None, h)
    BY DEF Names
  <2> HIDE DEF h
  <2>2. grade' = h /\ Judge(h, None, containers)
    BY <1>2 DEF h
  <2> QED  BY <2>1, <2>2, JudgeFeedback
<1> QED  BY <1>1, <1>2 DEF AfterTests

LEMMA FeedbackStep == LadderInv /\ Feedback /\ Next => Feedback'
<1> SUFFICES ASSUME LadderInv, Feedback, Next PROVE Feedback'
  OBVIOUS
<1>1. CASE Launch
  BY <1>1 DEF Launch, Feedback, EvidenceOfLastFailure
<1>2. CASE Prepare
  BY <1>2 DEF Prepare, Feedback, EvidenceOfLastFailure, Tells, history
<1>3. CASE NoTag
  BY <1>3, RetryFeedback DEF NoTag, Tells
<1>4. CASE Unreadable
  BY <1>4, RetryFeedback DEF Unreadable, Tells
<1>5. CASE Grade
  BY <1>5 DEF Grade, NewGrade, Feedback, EvidenceOfLastFailure
<1>6. CASE StartGraderRaises
  BY <1>6, IdleFeedback DEF StartGraderRaises, StartRaises
<1>7. CASE Build
  <2>1. CASE Climb("poc")
    BY <2>1 DEF Climb, Feedback, EvidenceOfLastFailure
  <2>2. CASE Graded(grade, "t0", containers)
    <3>1. Names("t0", grade)
      BY <1>7 DEF Build, Feedback, Names, FailedTier, Tells
    <3> QED  BY <2>2, <3>1, GradedFeedback
  <2> QED  BY <1>7, <2>1, <2>2 DEF Build
<1>8. CASE ReplayPoc
  <2>1. grade \in Verdicts /\ grade.t0
    BY <1>8 DEF ReplayPoc, LadderInv, Rungs, OnLadder
  <2>2. PICK code \in Codes, mentioned \in BOOLEAN :
          LET g == Replayed(code, mentioned)
          IN  /\ grade' = g
              /\ IF code = "0" THEN Climb("tests") ELSE Graded(g, Told(code), containers)
    BY <1>8 DEF ReplayPoc
  <2> DEFINE g == Replayed(code, mentioned)
  <2>3. CASE code = "0"
    BY <2>2, <2>3 DEF Climb, Feedback, EvidenceOfLastFailure
  <2>4. CASE code # "0"
    <3>1. g.t0 /\ ~ g.t1 /\ (g.error <=> code = "1") /\ (code = "3" => g.rc3)
      BY <2>1, <2>4, ReplayedType
    <3>2. Graded(g, Told(code), containers)
      BY <2>2, <2>4
    <3> HIDE DEF g
    <3>3. Names(Told(code), g)
      BY <3>1 DEF Names, FailedTier, Told, Tells
    <3> QED  BY <3>2, <3>3, GradedFeedback
  <2> QED  BY <2>3, <2>4
<1>9. CASE RunTests
  <2>1. grade \in Verdicts /\ grade.t0 /\ grade.t1
    BY <1>9 DEF RunTests, LadderInv, Rungs, OnLadder
  <2>2. CASE AfterTests(grade)
    BY <2>2, AfterTestsFeedback
  <2>3. CASE AfterTests([grade EXCEPT !.t2 = "True"])
    BY <2>3, AfterTestsFeedback
  <2>4. CASE grade' = [grade EXCEPT !.t2 = "False"] /\ Graded(grade', "t2", containers)
    <3> DEFINE g == [grade EXCEPT !.t2 = "False"]
    <3>1. g.t0 /\ g.t1 /\ g.t2 = "False"
      BY <2>1 DEF Verdicts
    <3> HIDE DEF g
    <3>2. Graded(g, "t2", containers)
      BY <2>4 DEF g
    <3>3. Names("t2", g)
      BY <3>1 DEF Names, FailedTier, Tells
    <3> QED  BY <3>2, <3>3, GradedFeedback
  <2> QED  BY <1>9, <2>2, <2>3, <2>4 DEF RunTests
<1>10. CASE Commit
  BY <1>10 DEF Commit, Feedback, EvidenceOfLastFailure
<1>11. CASE StartAttack
  BY <1>11 DEF StartAttack, Feedback, EvidenceOfLastFailure
<1>12. CASE StartAttackRaises
  BY <1>12, IdleFeedback DEF StartAttackRaises, StartRaises
<1>13. CASE AttackEnds
  <2>1. /\ grade \in Verdicts /\ grade.t0 /\ grade.t1 /\ grade.t2 # "False"
    BY <1>13 DEF AttackEnds, LadderInv, Rungs, OnLadder
  <2>2. PICK attack \in Attacks :
          LET clean == attack \in {"found nothing", "died"}
              g == [grade EXCEPT !.re = IF clean THEN "True" ELSE "False"] IN
            /\ grade' = g
            /\ Judge(g, CauseOf(attack), containers \ {Mine("attack")})
    BY <1>13 DEF AttackEnds
  <2> DEFINE clean == attack \in {"found nothing", "died"}
             g     == [grade EXCEPT !.re = IF clean THEN "True" ELSE "False"]
             tier  == CauseOf(attack)
  <2>3. g.t0 /\ g.t1 /\ g.t2 # "False" /\ tier \in {None, "re-attack", "claim"}
    BY <2>1, CauseOfType DEF Verdicts
  <2>4. grade' = g /\ Judge(g, tier, containers \ {Mine("attack")})
    BY <2>2
  <2> HIDE DEF g, tier
  <2>5. Names(tier, g)
    BY <2>3 DEF Names, FailedTier, Tells
  <2> QED  BY <2>4, <2>5, JudgeFeedback
<1>14. CASE StyleJudged
  <2>1. Names(failure, grade)
    BY <1>14 DEF StyleJudged, Feedback
  <2> QED  BY <1>14, <2>1, GradedFeedback DEF StyleJudged
<1>15. CASE WriteResult
  <2>1. /\ Names(failure, verdict) /\ failure' = failure
        /\ failure = None <=> Passed(verdict)
    BY <1>15 DEF WriteResult, LadderInv, Decided, Feedback
  <2>2. CASE Passed(verdict)
    BY <1>15, <2>2, IdleFeedback DEF WriteResult, Return
  <2>3. CASE ~ Passed(verdict)
    <3>1. Retry(FailedTier(verdict), diff, verdict)
      BY <1>15, <2>3 DEF WriteResult
    <3>2. Tells(FailedTier(verdict), failure', verdict')
      <4>1. UNCHANGED <<failure, verdict>>
        BY <1>15 DEF WriteResult
      <4> QED  BY <2>1, <2>3, <4>1 DEF Names
    <3> QED  BY <3>1, <3>2, RetryFeedback
  <2> QED  BY <2>2, <2>3
<1>16. CASE Raise
  BY <1>16, IdleFeedback DEF Raise
<1>17. CASE CutWrite
  BY <1>17, IdleFeedback DEF CutWrite
<1>18. CASE Kill
  BY <1>18, IdleFeedback DEF Kill
<1> QED  BY <1>1, <1>2, <1>3, <1>4, <1>5, <1>6, <1>7, <1>8, <1>9, <1>10, <1>11, <1>12, <1>13,
            <1>14, <1>15, <1>16, <1>17, <1>18 DEF Next, Run

\* The agent of a next iteration is told the tier at which the one before failed,
\* for every order of answers and whatever the replays print: a broken harness or a
\* hang never reads as a fix that does not work.  (An oracle that fires may read as
\* a hang: Tells.)
THEOREM EvidenceAlways == Spec => []EvidenceOfLastFailure
<1>1. Init => Feedback
  BY DEF Init, Feedback, EvidenceOfLastFailure
<1>2. LadderInv /\ Feedback /\ [Next]_vars => Feedback'
  <2>1. Feedback /\ UNCHANGED vars => Feedback'
    BY DEF Feedback, EvidenceOfLastFailure, Names, FailedTier, Tells, vars, program, history
  <2> QED  BY <2>1, FeedbackStep
<1>3. Feedback => EvidenceOfLastFailure
  BY DEF Feedback
<1> QED  BY <1>1, <1>2, <1>3, LadderInvAlways, PTL DEF Spec

-----------------------------------------------------------------------------
(* Containers and images                                                   *)

Patching == <<"patch", 0, invocation>>

\* The containers of the invocation at each call, and the only committed image.
Expected ==
  /\ at \in {"prepare", "agent", "write"} =>
       \A c \in containers : c[3] = invocation => c = Patching
  /\ at \in {"build", "poc", "tests", "commit", "launch"} =>
       \A c \in containers : c[3] = invocation => c \in {Patching, Mine("grade")}
  /\ at = "attack" =>
       \A c \in containers : c[3] = invocation => c \in {Patching, Mine("grade"), Mine("attack")}
  /\ at = "style" =>
       \A c \in containers : c[3] = invocation => c \in {Patching, Mine("grade"), Mine("style")}
  /\ at \in Calls =>
       \A i \in images : i[1] = "patched" /\ i[3] = invocation =>
         i = Mine("patched") /\ at \in {"launch", "attack", "style"}

\* Nothing carries the number of an invocation to come.
Past ==
  /\ \A c \in containers : c[3] \in Nat /\ c[3] <= invocation
  /\ \A i \in images : i[3] \in Nat /\ i[3] <= invocation

Left == Past /\ Expected /\ NothingLeftBehind

LEMMA MineNamed == /\ \A kind : Mine(kind)[1] = kind /\ Mine(kind)[3] = invocation
                   /\ Patching[3] = invocation
BY DEF Mine, Patching

\* An invocation is killed, or ends in an error that leaves only the committed
\* image behind, if it was not removed.
LEMMA KilledLeft ==
  ASSUME Left, at' = "idle", status' = "killed", UNCHANGED <<docker, invocation>>
  PROVE  Left'
BY DEF Left, Past, Expected, NothingLeftBehind, Calls, docker, Completed

LEMMA ErrorLeft ==
  ASSUME Left, at \in Calls, at' = "idle", status' = "error", UNCHANGED invocation,
         images' = images \ {Mine("patched")},
         \A c \in containers' : c[3] \in Nat /\ c[3] <= invocation
  PROVE  Left'
<1>1. \A i \in images' : i[3] = invocation' => i[1] # "patched"
  BY DEF Left, Expected
<1> QED  BY <1>1 DEF Left, Past, Expected, NothingLeftBehind, Calls, Completed

LEMMA UnwoundLeft ==
  ASSUME Left, at \in Calls, at' = "idle", status' = "error", UNCHANGED invocation,
         Unwound(containers)
  PROVE  Left'
BY ErrorLeft DEF Unwound, Left, Past

LEMMA StartRaisesLeft ==
  ASSUME TypeInv, Left, at \in Calls, NEW kind, NEW cs \in SUBSET containers, StartRaises(kind, cs),
         UNCHANGED invocation
  PROVE  Left'
<1>1. /\ at' = "idle" /\ status' = "error" /\ images' = images \ {Mine("patched")}
      /\ containers' \subseteq containers \cup {Mine(kind)}
  BY DEF StartRaises, Replacing
<1>2. invocation \in Nat /\ invocation <= invocation
  BY PatchAssumption DEF TypeInv, TypeOK
<1>3. \A c \in containers' : c[3] \in Nat /\ c[3] <= invocation
  BY <1>1, <1>2, MineNamed DEF Left, Past
<1> QED  BY <1>1, <1>3, ErrorLeft

\* The loop goes round, or returns with container A removed.
LEMMA RetryLeft ==
  ASSUME Left, at \in {"agent", "write"}, NEW tier, NEW d, NEW v, Retry(tier, d, v),
         UNCHANGED invocation
  PROVE  Left'
<1>1. \A c \in containers : c[3] = invocation => c = Patching
  BY DEF Left, Expected
<1>2. \A i \in images : i[3] = invocation => i[1] # "patched"
  BY DEF Left, Expected, Calls
<1>3. CASE iteration < MaxIterations
  <2>1. at' = "agent" /\ UNCHANGED docker
    BY <1>3 DEF Retry, docker
  <2> QED  BY <1>1, <1>2, <2>1
           DEF Left, Past, Expected, NothingLeftBehind, Calls, docker, Patching, Completed
<1>4. CASE ~ (iteration < MaxIterations)
  <2>1. at' = "idle" /\ containers' = containers \ Open /\ images' \subseteq images
    BY <1>4 DEF Retry, Return, Unwound
  <2>2. \A c \in containers' : c[3] # invocation'
    BY <1>1, <2>1 DEF Open, Patching
  <2> QED  BY <1>2, <2>1, <2>2 DEF Left, Past, Expected, NothingLeftBehind, Calls, Completed
<1> QED  BY <1>3, <1>4

\* grade_patch returns, with the containers it opened after B closed again.
LEMMA GradedLeft ==
  ASSUME Left, at \in OnLadder, NEW g, NEW tier, NEW cs \in SUBSET containers, Graded(g, tier, cs),
         \A c \in cs : c[3] = invocation => c \in {Patching, Mine("grade")},
         UNCHANGED <<invocation, iteration>>
  PROVE  Left'
<1>1. at' = "write" /\ containers' = cs \ {Mine("grade")} /\ images' = images \ {Mine("patched")}
  BY DEF Graded
<1>2. \A i \in images' : i[1] = "patched" => i[3] # invocation
  BY <1>1 DEF Left, Expected, OnLadder, Calls
<1> QED  BY <1>1, <1>2
         DEF Left, Past, Expected, NothingLeftBehind, Calls, Patching, Completed

LEMMA StartingLeft ==
  ASSUME TypeInv, Past, NEW kind, NEW cs \in SUBSET containers
  PROVE  /\ \A c \in Starting(kind, cs) : c[3] \in Nat /\ c[3] <= invocation
         /\ Starting(kind, cs) \subseteq cs \cup {Mine(kind)}
<1>1. invocation \in Nat
  BY PatchAssumption DEF TypeInv, TypeOK
<1> QED  BY <1>1, MineNamed DEF Starting, Replacing, Past

LEMMA JudgeLeft ==
  ASSUME TypeInv, Left, at \in OnLadder, NEW g, NEW tier, NEW cs \in SUBSET containers,
         Judge(g, tier, cs),
         \A c \in cs : c[3] = invocation => c \in {Patching, Mine("grade")},
         UNCHANGED <<invocation, iteration>>
  PROVE  Left'
<1>0. at \in Calls
  BY DEF OnLadder, Calls
<1>1. CASE Graded(g, tier, cs)
  BY <1>1, GradedLeft
<1>2. CASE at' = "style" /\ containers' = Starting("style", cs) /\ UNCHANGED images
  <2>1. \A c \in containers' : c[3] \in Nat /\ c[3] <= invocation
    BY <1>2, StartingLeft DEF Left
  <2>2. \A c \in containers' : c[3] = invocation => c \in {Patching, Mine("grade"), Mine("style")}
    BY <1>2, StartingLeft DEF Left
  <2>3. Patching' = Patching /\ \A kind : Mine(kind)' = Mine(kind)
    BY DEF Patching, Mine
  <2>4. \A i \in images : i[1] = "patched" /\ i[3] = invocation => i = Mine("patched")
    BY <1>0 DEF Left, Expected
  <2> QED  BY <1>2, <2>1, <2>2, <2>3, <2>4 DEF Left, Past, Expected, NothingLeftBehind, Completed
<1>3. CASE StartRaises("style", cs)
  BY <1>0, <1>3, StartRaisesLeft
<1> QED  BY <1>1, <1>2, <1>3 DEF Judge

\* A rung that starts no container and commits nothing.
LEMMA ClimbLeft ==
  ASSUME Left, at \in {"build", "poc", "tests"}, NEW call \in {"poc", "tests", "commit"}, Climb(call),
         UNCHANGED <<invocation, iteration>>
  PROVE  Left'
BY DEF Climb, docker, Left, Past, Expected, NothingLeftBehind, Calls, Patching, Mine, Completed

LEMMA AfterTestsLeft ==
  ASSUME TypeInv, Left, at = "tests", NEW g, AfterTests(g), UNCHANGED <<invocation, iteration>>
  PROVE  Left'
<1>1. CASE Climb("commit")
  BY <1>1, ClimbLeft
<1>2. ASSUME NEW h, Judge(h, None, containers) PROVE Left'
  <2>1. \A c \in containers : c[3] = invocation => c \in {Patching, Mine("grade")}
    BY DEF Left, Expected
  <2> QED  BY <1>2, <2>1, JudgeLeft DEF OnLadder
<1> QED  BY <1>1, <1>2 DEF AfterTests

LEMMA LeftStep == TypeInv /\ Left /\ Next => Left'
<1> SUFFICES ASSUME TypeInv, Left, Next PROVE Left'
  OBVIOUS
<1>0. invocation \in Nat
  BY PatchAssumption DEF TypeInv, TypeOK
<1>1. CASE Launch
  <2>1. invocation' = invocation + 1 /\ UNCHANGED images /\ at = "idle"
    BY <1>1 DEF Launch
  <2>2. /\ containers' \subseteq containers \cup {Patching'}
        /\ at' = "prepare" \/ (at' = "idle" /\ status' = "error")
    BY <1>1 DEF Launch, Patching
  <2>3. \A c \in containers : c[3] \in Nat /\ c[3] <= invocation' /\ c[3] # invocation'
    BY <1>0, <2>1 DEF Left, Past
  <2>4. \A i \in images' : i[3] \in Nat /\ i[3] <= invocation' /\ i[3] # invocation'
    BY <1>0, <2>1 DEF Left, Past
  <2>5. Patching'[3] = invocation' /\ invocation' \in Nat /\ invocation' <= invocation'
    BY <1>0, <2>1 DEF Patching
  <2> QED  BY <2>2, <2>3, <2>4, <2>5 DEF Left, Past, Expected, NothingLeftBehind, Calls, Completed
<1>2. CASE Prepare
  BY <1>2 DEF Prepare, docker, Left, Past, Expected, NothingLeftBehind, Calls, Patching, Completed
<1>3. CASE NoTag
  BY <1>3, RetryLeft DEF NoTag
<1>4. CASE Unreadable
  BY <1>4, RetryLeft DEF Unreadable
<1>5. CASE Grade
  <2>1. at = "agent" /\ at' = "build" /\ containers' = Starting("grade", containers)
        /\ UNCHANGED <<images, invocation, iteration>>
    BY <1>5 DEF Grade
  <2>2. \A c \in containers' : c[3] \in Nat /\ c[3] <= invocation
    BY <2>1, StartingLeft DEF Left
  <2>3. \A c \in containers' : c[3] = invocation => c \in {Patching, Mine("grade")}
    BY <2>1, StartingLeft DEF Left, Expected
  <2>4. Patching' = Patching /\ Mine("grade")' = Mine("grade")
    BY <2>1 DEF Patching, Mine
  <2> QED  BY <2>1, <2>2, <2>3, <2>4
           DEF Left, Past, Expected, NothingLeftBehind, Calls, Completed
<1>6. CASE StartGraderRaises
  BY <1>6, StartRaisesLeft DEF StartGraderRaises, Calls
<1>7. CASE Build
  <2>1. at = "build" /\ UNCHANGED <<invocation, iteration>>
    BY <1>7 DEF Build, Grading
  <2>2. CASE Climb("poc")
    BY <2>1, <2>2, ClimbLeft
  <2>3. CASE Graded(grade, "t0", containers)
    <3>1. \A c \in containers : c[3] = invocation => c \in {Patching, Mine("grade")}
      BY <2>1 DEF Left, Expected
    <3> QED  BY <2>1, <2>3, <3>1, GradedLeft DEF OnLadder
  <2> QED  BY <1>7, <2>2, <2>3 DEF Build
<1>8. CASE ReplayPoc
  <2>1. at = "poc" /\ UNCHANGED <<invocation, iteration>>
    BY <1>8 DEF ReplayPoc, Grading
  <2>2. Climb("tests") \/ \E g, tier : Graded(g, tier, containers)
    BY <1>8 DEF ReplayPoc
  <2>3. CASE Climb("tests")
    BY <2>1, <2>3, ClimbLeft
  <2>4. ASSUME NEW g, NEW tier, Graded(g, tier, containers) PROVE Left'
    <3>1. \A c \in containers : c[3] = invocation => c \in {Patching, Mine("grade")}
      BY <2>1 DEF Left, Expected
    <3> QED  BY <2>1, <2>4, <3>1, GradedLeft DEF OnLadder
  <2> QED  BY <2>2, <2>3, <2>4
<1>9. CASE RunTests
  <2>1. at = "tests" /\ UNCHANGED <<invocation, iteration>>
    BY <1>9 DEF RunTests, Grading
  <2>2. (\E g : AfterTests(g)) \/ \E g : Graded(g, "t2", containers)
    BY <1>9 DEF RunTests
  <2>3. ASSUME NEW g, AfterTests(g) PROVE Left'
    BY <2>1, <2>3, AfterTestsLeft
  <2>4. ASSUME NEW g, Graded(g, "t2", containers) PROVE Left'
    <3>1. \A c \in containers : c[3] = invocation => c \in {Patching, Mine("grade")}
      BY <2>1 DEF Left, Expected
    <3> QED  BY <2>1, <2>4, <3>1, GradedLeft DEF OnLadder
  <2> QED  BY <2>2, <2>3, <2>4
<1>10. CASE Commit
  <2>1. at = "commit" /\ at' = "launch" /\ images' = images \cup {Mine("patched")}
        /\ UNCHANGED <<containers, invocation, iteration>>
    BY <1>10 DEF Commit, Grading
  <2>2. \A kind : Mine(kind)' = Mine(kind)
    BY <2>1 DEF Mine
  <2>3. invocation <= invocation
    BY <1>0
  <2> QED  BY <1>0, <2>1, <2>2, <2>3, MineNamed
           DEF Left, Past, Expected, NothingLeftBehind, Calls, Patching, Completed
<1>11. CASE StartAttack
  <2>1. at = "launch" /\ at' = "attack" /\ images' = images \cup {Mine("agent")}
        /\ containers' = Starting("attack", containers) /\ UNCHANGED <<invocation, iteration>>
    BY <1>11 DEF StartAttack, Grading
  <2>2. \A c \in containers' : c[3] \in Nat /\ c[3] <= invocation
    BY <2>1, StartingLeft DEF Left
  <2>3. \A c \in containers' : c[3] = invocation => c \in {Patching, Mine("grade"), Mine("attack")}
    BY <2>1, StartingLeft DEF Left, Expected
  <2>4. Patching' = Patching /\ \A kind : Mine(kind)' = Mine(kind)
    BY <2>1 DEF Patching, Mine
  <2>5. invocation <= invocation
    BY <1>0
  <2> QED  BY <1>0, <2>1, <2>2, <2>3, <2>4, <2>5, MineNamed
           DEF Left, Past, Expected, NothingLeftBehind, Calls, Completed
<1>12. CASE StartAttackRaises
  BY <1>12, StartRaisesLeft DEF StartAttackRaises, Calls, Grading
<1>13. CASE AttackEnds
  <2>1. at = "attack" /\ UNCHANGED <<invocation, iteration>>
    BY <1>13 DEF AttackEnds, Grading
  <2>2. PICK g, tier : Judge(g, tier, containers \ {Mine("attack")})
    BY <1>13 DEF AttackEnds
  <2>3. \A c \in containers \ {Mine("attack")} : c[3] = invocation => c \in {Patching, Mine("grade")}
    BY <2>1 DEF Left, Expected
  <2> QED  BY <2>1, <2>2, <2>3, JudgeLeft DEF OnLadder
<1>14. CASE StyleJudged
  <2>1. at = "style" /\ UNCHANGED <<invocation, iteration>>
    BY <1>14 DEF StyleJudged, Grading
  <2>2. \A c \in containers \ {Mine("style")} : c[3] = invocation => c \in {Patching, Mine("grade")}
    BY <2>1 DEF Left, Expected
  <2>3. Graded(grade, failure, containers \ {Mine("style")})
    BY <1>14 DEF StyleJudged
  <2> QED  BY <2>1, <2>2, <2>3, GradedLeft DEF OnLadder
<1>15. CASE WriteResult
  <2>1. at = "write" /\ UNCHANGED invocation
    BY <1>15 DEF WriteResult
  <2>2. CASE Passed(verdict)
    <3>1. at' = "idle" /\ containers' = containers \ Open /\ images' \subseteq images
      BY <1>15, <2>2 DEF WriteResult, Return, Unwound
    <3>2. \A c \in containers' : c[3] # invocation'
      BY <2>1, <3>1 DEF Left, Expected, Open, Patching
    <3>3. \A i \in images' : i[3] = invocation' => i[1] # "patched"
      BY <2>1, <3>1 DEF Left, Expected, Calls
    <3> QED  BY <2>1, <3>1, <3>2, <3>3 DEF Left, Past, Expected, NothingLeftBehind, Calls
  <2>3. CASE ~ Passed(verdict)
    BY <1>15, <2>1, <2>3, RetryLeft DEF WriteResult
  <2> QED  BY <2>2, <2>3
<1>16. CASE Raise
  BY <1>16, UnwoundLeft DEF Raise
<1>17. CASE CutWrite
  <2>1. at \in Calls /\ at' = "idle" /\ UNCHANGED invocation
    BY <1>17 DEF CutWrite, Calls
  <2>2. CASE status' = "killed" /\ UNCHANGED docker
    BY <2>1, <2>2, KilledLeft
  <2>3. CASE status' = "error" /\ Unwound(containers)
    BY <2>1, <2>3, UnwoundLeft
  <2> QED  BY <1>17, <2>2, <2>3 DEF CutWrite
<1>18. CASE Kill
  BY <1>18, KilledLeft DEF Kill
<1> QED  BY <1>1, <1>2, <1>3, <1>4, <1>5, <1>6, <1>7, <1>8, <1>9, <1>10, <1>11, <1>12, <1>13,
            <1>14, <1>15, <1>16, <1>17, <1>18 DEF Next, Run

\* For any number of iterations and invocations: an invocation that completes
\* leaves no container, and one that is not killed no committed image.
THEOREM NothingLeftBehindAlways == Spec => []NothingLeftBehind
<1>1. Init => Left
  BY DEF Init, Left, Past, Expected, NothingLeftBehind, Calls
<1>2. TypeInv /\ Left /\ [Next]_vars => Left'
  <2>1. Left /\ UNCHANGED vars => Left'
    BY DEF Left, Past, Expected, NothingLeftBehind, Completed, Patching, Mine, vars, program, docker
  <2> QED  BY <2>1, LeftStep
<1>3. Left => NothingLeftBehind
  BY DEF Left
<1> QED  BY <1>1, <1>2, <1>3, TypeInvAlways, PTL DEF Spec
-----------------------------------------------------------------------------
(* The promise of the command                                              *)

\* The iteration is counted from the first call of the agent.
Counted ==
  /\ at = "prepare" => iteration = 0
  /\ at \in Calls \ {"prepare"} => iteration \in 1 .. MaxIterations

\* The calls of a grading, and of the writing of its verdict.
Judging == {"build", "poc", "tests", "commit", "launch", "attack", "style", "write"}

\* What one step of the code is to a grading in progress: the next tier, the
\* end of the grading, or its breaking off.
Graders == Build \/ ReplayPoc \/ RunTests \/ Commit \/ StartAttack \/ StartAttackRaises
             \/ AttackEnds \/ StyleJudged

LEMMA GraderMoves ==
  ASSUME Graders
  PROVE  /\ at \in Judging /\ Grading
         /\ \/ at' \in Judging /\ status' = status
            \/ at' = "idle" /\ status' = "error"
BY DEF Graders, Build, ReplayPoc, RunTests, AfterTests, Judge, Commit, StartAttack,
   StartAttackRaises, AttackEnds, StyleJudged, Graded, Climb, StartRaises, Judging

LEMMA RetryCounted ==
  ASSUME Counted, at \in Calls \ {"prepare"}, NEW tier, NEW d, NEW v, Retry(tier, d, v)
  PROVE  Counted'
<1>1. CASE iteration < MaxIterations
  BY <1>1, PatchAssumption DEF Retry, Counted, Calls
<1>2. CASE ~ (iteration < MaxIterations)
  BY <1>2 DEF Retry, Return, Counted, Calls
<1>3. QED BY <1>1, <1>2

LEMMA CountedStep == Counted /\ [Next]_vars => Counted'
<1> SUFFICES ASSUME Counted, [Next]_vars PROVE Counted'
  OBVIOUS
<1>1. CASE Launch
  BY <1>1 DEF Launch, Counted, Calls
<1>2. CASE Prepare
  BY <1>2, PatchAssumption DEF Prepare, Counted, Calls
<1>3. CASE NoTag \/ Unreadable
  <2>1. at = "agent" /\ \E d : Retry("output", d, verdict)
    BY <1>3 DEF NoTag, Unreadable
  <2>2. QED BY <2>1, RetryCounted DEF Calls
<1>4. CASE Grade \/ StartGraderRaises
  BY <1>4 DEF Grade, StartGraderRaises, StartRaises, Counted, Calls
<1>5. CASE Graders
  BY <1>5, GraderMoves DEF Grading, Counted, Calls, Judging
<1>6. CASE WriteResult
  <2>1. at = "write" /\ (at' = "idle" \/ \E tier : Retry(tier, diff, verdict))
    BY <1>6 DEF WriteResult, Return
  <2>2. QED BY <2>1, RetryCounted DEF Counted, Calls
<1>7. CASE Raise \/ CutWrite \/ Kill
  BY <1>7 DEF Raise, CutWrite, Kill, Counted, Calls
<1>8. CASE UNCHANGED vars
  BY <1>8 DEF vars, program, Counted
<1>9. QED BY <1>1, <1>2, <1>3, <1>4, <1>5, <1>6, <1>7, <1>8 DEF Next, Run, Graders

\* An invocation that is over is a promise that is closed, with its outcome.
LEMMA EndCloses ==
  ASSUME at' = "idle"
  PROVE  Promise!Close(status')
BY DEF Promise!Close, PromisedStep, FailedAttempts, LastAnswer

LEMMA FilesKeep ==
  ASSUME UNCHANGED <<files, cut>>
  PROVE  UNCHANGED <<KeptPatch, KeptIsGood>>
BY DEF files, KeptPatch, KeptIsGood, Passed

\* Going round, or out of the loop, is a failed attempt.
LEMMA RetryIsFailure ==
  ASSUME Counted, at \in Calls \ {"prepare"}, NEW tier, NEW d, NEW v, Retry(tier, d, v),
         v = None \/ ~ Passed(v), diff' = d
  PROVE  Promise!AttemptFails(d)
<1>0. iteration \in 1 .. MaxIterations /\ FailedAttempts = iteration - 1
  BY DEF Counted, FailedAttempts, Calls
<1>1. CASE iteration < MaxIterations
  <2>1. at' = "agent" /\ iteration' = iteration + 1 /\ status' = status
    BY <1>1 DEF Retry
  <2>2. PromisedStep' = "asking" /\ FailedAttempts' = FailedAttempts + 1 /\ LastAnswer' = d
    BY <1>0, <2>1 DEF PromisedStep, FailedAttempts, LastAnswer
  <2>3. FailedAttempts + 1 < MaxIterations
    BY <1>0, <1>1, PatchAssumption
  <2>4. QED BY <2>1, <2>2, <2>3 DEF Promise!AttemptFails
<1>2. CASE ~ (iteration < MaxIterations)
  <2>1. Return(d, v)
    BY <1>2 DEF Retry
  <2>2. at' = "idle" /\ status' = IF d = None THEN "no_diff" ELSE "patch_rejected"
    BY <2>1 DEF Return
  <2>3. ~ (FailedAttempts + 1 < MaxIterations)
    BY <1>0, <1>2, PatchAssumption
  <2>4. QED BY <2>2, <2>3, EndCloses DEF Promise!AttemptFails
<1>3. QED BY <1>1, <1>2

LEMMA ErrorBreaksOff ==
  ASSUME at \in Calls, at' = "idle", status' \in {"error", "killed"}, UNCHANGED <<files, cut>>
  PROVE  Promise!BreakOff
<1>1. PromisedStep # "closed"
  BY DEF PromisedStep, Calls
<1>2. QED BY <1>1, EndCloses, FilesKeep DEF Promise!BreakOff

LEMMA PromiseInit == Init => Promise!Init
BY NoneIsNoTier
   DEF Init, Promise!Init, PromisedStep, FailedAttempts, LastAnswer, KeptPatch, KeptIsGood

LEMMA PromiseStep ==
  LadderInv /\ Counted /\ [Next]_vars => [Promise!Next]_(Promise!promiseVars)
<1> SUFFICES ASSUME LadderInv, Counted, [Next]_vars
             PROVE  [Promise!Next]_(Promise!promiseVars)
  OBVIOUS
<1>1. CASE Launch
  <2>1. at = "idle" /\ iteration' = 0 /\ diff' = None /\ UNCHANGED <<files, cut>>
    BY <1>1 DEF Launch
  <2>2. \/ at' = "prepare" /\ status' = "none"
        \/ at' = "idle" /\ status' = "error"
    BY <1>1 DEF Launch
  <2>3. /\ PromisedStep = "closed" /\ UNCHANGED <<FailedAttempts, LastAnswer>>
        /\ PromisedStep' = IF at' = "idle" THEN "closed" ELSE "asking"
    BY <2>1, <2>2 DEF PromisedStep, FailedAttempts, LastAnswer
  <2>4. Promise!Start
    BY <2>1, <2>2, <2>3, FilesKeep DEF Promise!Start
  <2>5. QED BY <2>4 DEF Promise!Next
<1>2. CASE Prepare
  <2>1. /\ at = "prepare" /\ at' = "agent" /\ iteration = 0 /\ iteration' = 1
        /\ UNCHANGED <<diff, status, files, cut>>
    BY <1>2 DEF Prepare, history, Counted
  <2>2. UNCHANGED <<PromisedStep, FailedAttempts, LastAnswer>>
    BY <2>1 DEF PromisedStep, FailedAttempts, LastAnswer
  <2>3. QED BY <2>1, <2>2, FilesKeep DEF Promise!promiseVars
<1>3. CASE NoTag \/ Unreadable
  <2>1. /\ at = "agent" /\ UNCHANGED <<files, cut>> /\ diff' \in {diff, Empty}
        /\ Retry("output", diff', verdict)
    BY <1>3 DEF NoTag, Unreadable
  <2>2. verdict = None \/ ~ Passed(verdict)
    BY <2>1 DEF LadderInv, Decided
  <2>3. PromisedStep = "asking" /\ LastAnswer = diff
    BY <2>1 DEF PromisedStep, LastAnswer
  <2>4. Promise!AttemptFails(diff')
    BY <2>1, <2>2, RetryIsFailure DEF Calls
  <2>5. Promise!Waste
    BY <2>1, <2>3, <2>4, FilesKeep DEF Promise!Waste
  <2>6. QED BY <2>5 DEF Promise!Next
<1>4. CASE Grade
  <2>1. /\ at = "agent" /\ at' = "build" /\ diff' \in Diffs
        /\ UNCHANGED <<iteration, status, files, cut>>
    BY <1>4 DEF Grade, history
  <2>2. /\ PromisedStep = "asking" /\ PromisedStep' = "judging" /\ LastAnswer' \in Diffs
        /\ FailedAttempts' = FailedAttempts
    BY <2>1 DEF PromisedStep, FailedAttempts, LastAnswer
  <2>3. Promise!Answer
    BY <2>1, <2>2, FilesKeep DEF Promise!Answer
  <2>4. QED BY <2>3 DEF Promise!Next
<1>5. CASE StartGraderRaises
  <2>1. at = "agent" /\ at' = "idle" /\ status' = "error" /\ UNCHANGED <<files, cut>>
    BY <1>5 DEF StartGraderRaises, StartRaises, history
  <2>2. QED BY <2>1, ErrorBreaksOff DEF Promise!Next, Calls
<1>6. CASE Graders
  <2>1. at \in Judging /\ UNCHANGED <<iteration, diff, files, cut>>
    BY <1>6, GraderMoves DEF Grading
  <2>2. CASE at' \in Judging /\ status' = status
    <3>1. UNCHANGED <<PromisedStep, FailedAttempts, LastAnswer>>
      BY <2>1, <2>2 DEF PromisedStep, FailedAttempts, LastAnswer, Judging
    <3>2. QED BY <2>1, <2>2, <3>1, FilesKeep DEF Promise!promiseVars
  <2>3. CASE at' = "idle" /\ status' = "error"
    BY <2>1, <2>3, ErrorBreaksOff DEF Promise!Next, Judging, Calls
  <2>4. QED BY <1>6, <2>2, <2>3, GraderMoves
<1>7. CASE WriteResult
  <2>1. /\ at = "write" /\ UNCHANGED <<diff, verdict>>
        /\ patchDiff' = diff /\ patchResult' = Result /\ cut' = FALSE
    BY <1>7 DEF WriteResult, WriteFiles
  <2>2. diff \in Diffs
    BY <2>1 DEF LadderInv, Rungs
  <2>3. PromisedStep = "judging" /\ LastAnswer = diff
    BY <2>1 DEF PromisedStep, LastAnswer
  <2>4. KeptPatch' = LastAnswer
    BY <2>1, <2>3 DEF KeptPatch
  <2>5. KeptIsGood' <=> Passed(verdict)
    <3>1. patchResult'.verdict = verdict
      BY <2>1 DEF Result
    <3>2. QED BY <2>1, <2>2, <3>1 DEF KeptIsGood, Passed
  <2>6. KeptIsGood' \in BOOLEAN
    BY DEF KeptIsGood, Passed
  <2>7. CASE Passed(verdict)
    <3>1. Return(diff, verdict)
      BY <1>7, <2>7 DEF WriteResult
    <3>2. diff # None /\ verdict # None
      <4>1. verdict \in Verdicts
        BY <2>1 DEF LadderInv, Rungs, Decided
      <4>2. QED BY <2>2, <4>1, NoneIsNoTier
    <3>3. at' = "idle" /\ status' = "patch_verified"
      BY <2>7, <3>1, <3>2 DEF Return
    <3>4. KeptIsGood' = TRUE
      BY <2>5, <2>6, <2>7
    <3>5. Promise!Verify
      BY <2>3, <2>4, <3>3, <3>4, EndCloses DEF Promise!Verify
    <3>6. QED BY <3>5 DEF Promise!Next
  <2>8. CASE ~ Passed(verdict)
    <3>1. Retry(FailedTier(verdict), diff, verdict)
      BY <1>7, <2>8 DEF WriteResult
    <3>2. Promise!AttemptFails(diff)
      BY <2>1, <2>8, <3>1, RetryIsFailure DEF Calls
    <3>3. KeptIsGood' = FALSE
      BY <2>5, <2>6, <2>8
    <3>4. Promise!Reject
      BY <2>3, <2>4, <3>2, <3>3 DEF Promise!Reject
    <3>5. QED BY <3>4 DEF Promise!Next
  <2>9. QED BY <2>7, <2>8
<1>8. CASE CutWrite
  <2>1. /\ at = "write" /\ at' = "idle" /\ status' \in {"killed", "error"} /\ cut' = TRUE
    BY <1>8 DEF CutWrite
  <2>2. PromisedStep = "judging" /\ KeptPatch' = None /\ KeptIsGood' = FALSE
    BY <2>1 DEF PromisedStep, KeptPatch, KeptIsGood
  <2>3. Promise!BreakOff
    BY <2>1, <2>2, EndCloses DEF Promise!BreakOff
  <2>4. QED BY <2>3 DEF Promise!Next
<1>9. CASE Raise \/ Kill
  <2>1. /\ at \in Calls /\ at' = "idle" /\ status' \in {"error", "killed"}
        /\ UNCHANGED <<files, cut>>
    BY <1>9 DEF Raise, Kill, history
  <2>2. QED BY <2>1, ErrorBreaksOff DEF Promise!Next
<1>10. CASE UNCHANGED vars
  <2>1. UNCHANGED <<at, iteration, diff, status, files, cut>>
    BY <1>10 DEF vars, program, history
  <2>2. UNCHANGED <<PromisedStep, FailedAttempts, LastAnswer>>
    BY <2>1 DEF PromisedStep, FailedAttempts, LastAnswer
  <2>3. QED BY <2>1, <2>2, FilesKeep DEF Promise!promiseVars
<1>11. QED
  BY <1>1, <1>2, <1>3, <1>4, <1>5, <1>6, <1>7, <1>8, <1>9, <1>10 DEF Next, Run, Graders

\* The patch command implements its promise: for every set of diffs and bound on
\* iterations, whatever the agents, the oracles and docker do and whenever it is
\* killed, an attempt is judged at most once and kept with its own judgment, and
\* the outcome is that of the last attempt.
THEOREM PatchKeepsPromise == Spec => ImplementsPatchPromise
<1>1. Init => Counted
  BY DEF Init, Counted, Calls
<1>2. Spec => []Counted
  BY <1>1, CountedStep, PTL DEF Spec
<1>3. QED
  BY <1>2, PromiseInit, PromiseStep, LadderInvAlways, PTL
     DEF Spec, ImplementsPatchPromise, Promise!Spec
=============================================================================

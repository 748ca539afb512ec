---------------------------- MODULE DnrBatchProofs ----------------------------
(***************************************************************************)
(* Proofs about DnrBatch and the grader DnrScore, for every set of targets  *)
(* and name filters, any number of runs and stops, and all submissions.     *)
(***************************************************************************)
EXTENDS DnrBatch, TLAPS

-----------------------------------------------------------------------------
(* The grader                                                              *)

\* The checks of one flaw: what its candidates show, fuller ones show.
LEMMA ExtendsMatches ==
  ASSUME NEW s, NEW s2, Extends(s, s2), NEW needles
  PROVE  \A e \in Matching(s.incidents, needles) :
           \E e2 \in Matching(s2.incidents, needles) : SaysMore(e, e2)
BY DEF Extends, SaysMore, Matching

LEMMA ExtendsAny ==
  ASSUME NEW cands, NEW cands2, NEW needleSets,
         \A e \in cands : \E e2 \in cands2 : SaysMore(e, e2),
         AnyMatch(cands, needleSets)
  PROVE  AnyMatch(cands2, needleSets)
<1>1. PICK n \in needleSets, e \in cands : n \subseteq e.text
  BY DEF AnyMatch, Matching
<1>2. PICK e2 \in cands2 : SaysMore(e, e2)
  OBVIOUS
<1>3. n \subseteq e2.text
  BY <1>1, <1>2 DEF SaysMore
<1> QED
  BY <1>2, <1>3 DEF AnyMatch, Matching

LEMMA ExtendsFlaws ==
  ASSUME NEW s, NEW s2, Extends(s, s2)
  PROVE  /\ SqliSolved(s) => SqliSolved(s2)
         /\ IdorSolved(s) => IdorSolved(s2)
<1>1. \A e, e2 : SaysMore(e, e2) => (Confirmed(e) => Confirmed(e2)) /\ (PocFired(e) => PocFired(e2))
  BY DEF SaysMore, Confirmed
<1>2. \A e \in SqliCandidates(s) : \E e2 \in SqliCandidates(s2) : SaysMore(e, e2)
  BY ExtendsMatches DEF SqliCandidates
<1>3. \A e \in IdorCandidates(s) : \E e2 \in IdorCandidates(s2) : SaysMore(e, e2)
  BY ExtendsMatches DEF IdorCandidates
<1>4. SqliSolved(s) => SqliSolved(s2)
  <2> DEFINE exposed == {{"users", "hash"}, {"users", "password"}}
             located == {{"app.py"}}
  <2>1. AnyMatch(SqliCandidates(s), exposed) => AnyMatch(SqliCandidates(s2), exposed)
    BY <1>2, ExtendsAny
  <2>2. AnyMatch(SqliCandidates(s), located) => AnyMatch(SqliCandidates(s2), located)
    BY <1>2, ExtendsAny
  <2> QED
    BY <1>1, <1>2, <2>1, <2>2 DEF SqliSolved
<1>5. IdorSolved(s) => IdorSolved(s2)
  <2> DEFINE exposed == {{"personalData"}}
             located == {{"app.py", "mechanism"}}
  <2>1. AnyMatch(IdorCandidates(s), exposed) => AnyMatch(IdorCandidates(s2), exposed)
    BY <1>3, ExtendsAny
  <2>2. AnyMatch(IdorCandidates(s), located) => AnyMatch(IdorCandidates(s2), located)
    BY <1>3, ExtendsAny
  <2> QED
    BY <1>1, <1>3, <2>1, <2>2 DEF IdorSolved
<1> QED
  BY <1>4, <1>5

LEMMA ExtendsNegatives ==
  ASSUME NEW s, NEW s2, Extends(s, s2)
  PROVE  /\ BurstTriaged(s) => BurstTriaged(s2)
         /\ (\A e \in s.incidents : ~LoginClaimed(e)) => \A e \in s2.incidents : ~LoginClaimed(e)
         /\ (\A e \in s.incidents : Confirmed(e) => InCampaign(e))
              => \A e \in s2.incidents : Confirmed(e) => InCampaign(e)
<1>1. \A e, e2 : SaysMore(e, e2) =>
        /\ MentionsBurst(e) => MentionsBurst(e2)
        /\ Negative(e) => Negative(e2)
        /\ LoginClaimed(e2) => LoginClaimed(e)
        /\ Confirmed(e2) => Confirmed(e)
        /\ InCampaign(e) => InCampaign(e2)
  BY DEF SaysMore, MentionsBurst, Negative, LoginClaimed, Confirmed, InCampaign
<1>2. BurstTriaged(s) => BurstTriaged(s2)
  BY <1>1 DEF BurstTriaged, Extends
<1>3. ASSUME \A e \in s.incidents : ~LoginClaimed(e)
      PROVE  \A e \in s2.incidents : ~LoginClaimed(e)
  BY <1>1, <1>3 DEF Extends
<1>4. ASSUME \A e \in s.incidents : Confirmed(e) => InCampaign(e)
      PROVE  \A e \in s2.incidents : Confirmed(e) => InCampaign(e)
  BY <1>1, <1>4 DEF Extends
<1> QED
  BY <1>2, <1>3, <1>4

LEMMA ExtendsOptional ==
  ASSUME NEW s, NEW s2, Extends(s, s2)
  PROVE  \A c \in DOMAIN Optional(s) : Optional(s)[c] => Optional(s2)[c]
<1> DEFINE rows == {{"rows stated"}}
           acct == {{"account"}}
           volume == {{"volume stated"}}
           link == {{"attackerIp", "secondIp"}}
           cracked == {{"password of account"}}
           all(x) == x.incidents \cup x.ruledOut
<1>1. \A e \in SqliCandidates(s) : \E e2 \in SqliCandidates(s2) : SaysMore(e, e2)
  BY ExtendsMatches DEF SqliCandidates
<1>2. \A e \in IdorCandidates(s) : \E e2 \in IdorCandidates(s2) : SaysMore(e, e2)
  BY ExtendsMatches DEF IdorCandidates
<1>3. \A e \in s.incidents : \E e2 \in s2.incidents : SaysMore(e, e2)
  BY DEF Extends
<1>4. \A e \in all(s) : \E e2 \in all(s2) : SaysMore(e, e2)
  BY <1>3 DEF Extends, SaysMore
<1>5. AnyMatch(SqliCandidates(s), rows) => AnyMatch(SqliCandidates(s2), rows)
  BY <1>1, ExtendsAny
<1>6. AnyMatch(IdorCandidates(s), acct) => AnyMatch(IdorCandidates(s2), acct)
  BY <1>2, ExtendsAny
<1>7. AnyMatch(IdorCandidates(s), volume) => AnyMatch(IdorCandidates(s2), volume)
  BY <1>2, ExtendsAny
<1>8. AnyMatch(s.incidents, link) => AnyMatch(s2.incidents, link)
  BY <1>3, ExtendsAny
<1>9. AnyMatch(all(s), cracked) => AnyMatch(all(s2), cracked)
  BY <1>4, ExtendsAny
<1> HIDE DEF rows, acct, volume, link, cracked, all
<1>10. /\ Optional(s).sqli_row_count => Optional(s2).sqli_row_count
       /\ Optional(s).idor_account => Optional(s2).idor_account
       /\ Optional(s).idor_volume => Optional(s2).idor_volume
       /\ Optional(s).campaign_linked => Optional(s2).campaign_linked
  BY <1>5, <1>6, <1>7, <1>8, <1>9 DEF Optional, rows, acct, volume, link, cracked, all
<1>11. DOMAIN Optional(s) = {"sqli_row_count", "idor_account", "idor_volume", "campaign_linked"}
  BY DEF Optional
<1> QED
  BY <1>10, <1>11

\* Of grade.py's score(): a submission that extends another one passes if that one
\* does, and keeps its optional checks, whatever the two are.
THEOREM FullerScoresNoLess ==
  ASSUME NEW s, NEW s2, Extends(s, s2)
  PROVE  /\ Pass(s) => Pass(s2)
         /\ \A c \in DOMAIN Optional(s) : Optional(s)[c] => Optional(s2)[c]
<1>1. Pass(s) => Pass(s2)
  BY ExtendsFlaws, ExtendsNegatives DEF Pass
<1> QED
  BY <1>1, ExtendsOptional

-----------------------------------------------------------------------------
(* The batch                                                               *)

\* Where a run has a `with` block open.
Block(p) == IF p = "hunt" THEN {"hunting", "hunted"} ELSE {"grading", "judged"}

\* c belongs to a `with` block that is open.
IsOpen(c) ==
  \E r \in Runs, p \in {"hunt", "grader"} :
    orch[r[1]] = "running" /\ pc[r] \in Block(p) /\ c = Container(p, r)

\* No other target's name filter finds the containers of t.
Private(t) == \A u \in Targets \ {t} : t \notin Matched[u]

\* A final result, and what it tells of the INCIDENTS.json beside it.
Tells(res, inc) ==
  /\ res.status \notin {"none", "torn", "grading"}
  /\ inc = IF res.submission THEN "whole" ELSE "absent"
  /\ res.verdict # NoVerdict <=> res.status = "graded"
  /\ res.status \in {"ungraded", "graded"} => res.submission

\* Each phase of a run and what its two dictionaries hold then.
Phase(r) ==
  /\ pc[r] \in {"queued", "hunting", "saved"} => disk[r] = NoResult
  /\ pc[r] \in {"queued", "hunting"} => incidents[r] = "absent"
  /\ pc[r] = "queued" => result[r] = NoResult
  /\ pc[r] \in {"hunting", "saved"} => result[r] = [NoResult EXCEPT !.status = "error"]
  /\ pc[r] \in {"saved", "submitted", "grading"} => incidents[r] = "whole"
  /\ pc[r] \in {"submitted", "grading"} =>
       /\ disk[r] = result[r] /\ disk[r].submission
       /\ disk[r].status = "grading" /\ disk[r].verdict = NoVerdict
  /\ pc[r] \in {"hunted", "judged", "done"} => disk[r] = result[r] /\ Tells(disk[r], incidents[r])

\* A stop came in the middle of a write.
Spoilt(r) ==
  /\ orch[r[1]] = "stopped"
  /\ pc[r] \notin {"hunted", "judged", "done"}
  /\ \/ disk[r] = Torn
     \/ disk[r] = NoResult /\ incidents[r] = "cut"

RunInv(r) == Phase(r) \/ Spoilt(r)

\* A batch has an exit code only after all its runs, and then that of their results.
BatchInv(t) ==
  /\ orch[t] # "exited" => exit[t] = -1
  /\ orch[t] = "exited" /\ exit[t] # 1 =>
       /\ \A r \in RunsOf(t) : pc[r] = "done"
       /\ exit[t] = 0 => \A r \in RunsOf(t) : result[r].status = "graded" /\ result[r].verdict \in Passing
       /\ exit[t] = 2 => \E r \in RunsOf(t) : ~(result[r].status = "graded" /\ result[r].verdict \in Passing)

\* What exists is leaked or belongs to an open block; what belongs to one exists,
\* unless another target's handler may have taken it.
ContainerInv ==
  /\ \A c \in containers : c \in leaked \/ IsOpen(c)
  /\ \A c : IsOpen(c) /\ Private(c[2]) => c \in containers

\* ContainerInv with what TypeOK says of the containers.
Accounted ==
  /\ ContainerInv
  /\ containers \subseteq Names
  /\ leaked \subseteq containers

Inv ==
  /\ TypeOK
  /\ ContainerInv
  /\ \A r \in Runs : RunInv(r)
  /\ \A t \in Targets : BatchInv(t)

LEMMA RunType ==
  ASSUME NEW r \in Runs
  PROVE  r = <<r[1], r[2]>> /\ r[1] \in Targets /\ r[2] \in Nat
<1>1. PICK t \in Targets : r \in {t} \X (0 .. NumRuns[t] - 1)
  BY DEF Runs
<1>2. NumRuns[t] \in Nat
  BY DnrAssumption
<1> QED
  BY <1>1, <1>2

LEMMA ContainerInjective ==
  ASSUME NEW q \in Runs, NEW r \in Runs, NEW p1, NEW p2, Container(p1, q) = Container(p2, r)
  PROVE  p1 = p2 /\ q = r
<1>1. q = <<q[1], q[2]>> /\ r = <<r[1], r[2]>>
  BY RunType
<1>2. p1 = p2 /\ q[1] = r[1] /\ q[2] = r[2]
  BY DEF Container
<1> QED
  BY <1>1, <1>2

LEMMA ContainerName ==
  ASSUME NEW r \in Runs, NEW p \in {"hunt", "grader"}
  PROVE  Container(p, r) \in Names /\ Container(p, r)[1] = p /\ Container(p, r)[2] = r[1]
BY RunType DEF Container, Names

LEMMA OpenIsOpen ==
  /\ \A c : IsOpen(c) <=> \E t \in Targets : c \in Open(t)
  /\ \A t \in Targets : \A c \in Open(t) : c[1] \in {"hunt", "grader"} /\ c[2] = t
<1>1. ASSUME NEW t \in Targets, NEW c \in Open(t)
      PROVE  IsOpen(c) /\ c[1] \in {"hunt", "grader"} /\ c[2] = t
  <2>1. PICK r \in RunsOf(t), p \in {"hunt", "grader"} :
          orch[t] = "running" /\ pc[r] \in Block(p) /\ c = Container(p, r)
    BY <1>1 DEF Open, Block
  <2> QED
    BY <2>1, ContainerName DEF RunsOf, IsOpen
<1>2. ASSUME NEW c, IsOpen(c) PROVE \E t \in Targets : c \in Open(t)
  <2>1. PICK r \in Runs, p \in {"hunt", "grader"} :
          orch[r[1]] = "running" /\ pc[r] \in Block(p) /\ c = Container(p, r)
    BY <1>2 DEF IsOpen
  <2>2. c \in Open(r[1])
    BY <2>1 DEF Open, Block, RunsOf
  <2> QED
    BY <2>2, RunType
<1> QED
  BY <1>1, <1>2

LEMMA InitInv == Init => Inv
<1> SUFFICES ASSUME Init PROVE Inv
  OBVIOUS
<1>1. TypeOK
  BY DnrAssumption DEF Init, TypeOK, Result, NoResult
<1>2. ContainerInv
  BY DEF Init, ContainerInv, IsOpen, Block
<1>3. ASSUME NEW r \in Runs PROVE RunInv(r)
  BY DEF Init, RunInv, Phase
<1>4. ASSUME NEW t \in Targets PROVE BatchInv(t)
  BY DEF Init, BatchInv
<1> QED
  BY <1>1, <1>2, <1>3, <1>4 DEF Inv

\* A run whose batch goes on is in the phase its pc says.
LEMMA RunningPhase ==
  ASSUME Inv, NEW r \in Runs, orch[r[1]] = "running"
  PROVE  Phase(r)
BY DEF Inv, RunInv, Spoilt

\* A step of a run leaves every batch, and all of every other run, alone.
LEMMA OtherRuns ==
  ASSUME Inv, NEW r \in Runs, UNCHANGED ofBatch, orch[r[1]] = "running",
         \A q \in Runs : q # r => /\ pc'[q] = pc[q] /\ result'[q] = result[q]
                                  /\ disk'[q] = disk[q] /\ incidents'[q] = incidents[q]
  PROVE  /\ \A q \in Runs : q # r => RunInv(q)'
         /\ \A t \in Targets : BatchInv(t)'
<1>1. ASSUME NEW q \in Runs, q # r PROVE RunInv(q)'
  <2>1. /\ pc'[q] = pc[q] /\ result'[q] = result[q] /\ disk'[q] = disk[q]
        /\ incidents'[q] = incidents[q] /\ orch' = orch /\ RunInv(q)
    BY <1>1 DEF Inv, ofBatch
  <2> QED
    BY <2>1 DEF RunInv, Phase, Spoilt, Tells
<1>2. ASSUME NEW t \in Targets PROVE BatchInv(t)'
  <2>1. orch'[t] = orch[t] /\ exit'[t] = exit[t] /\ BatchInv(t)
    BY DEF ofBatch, Inv
  <2>2. CASE t = r[1]
    BY <2>1, <2>2 DEF BatchInv
  <2>3. CASE t # r[1]
    <3>1. \A q \in RunsOf(t) : q \in Runs /\ q # r
      BY <2>3 DEF RunsOf
    <3>2. RunsOf(t)' = RunsOf(t)
      BY DEF RunsOf
    <3> QED
      BY <2>1, <3>1, <3>2 DEF BatchInv
  <2> QED
    BY <2>2, <2>3
<1> QED
  BY <1>1, <1>2

\* A block that opens.
LEMMA BlockOpens ==
  ASSUME Inv, NEW r \in Runs, NEW p \in {"hunt", "grader"},
         orch' = orch, orch[r[1]] = "running", pc[r] \notin Block("hunt") \cup Block("grader"),
         NEW next \in Block(p), pc' = [pc EXCEPT ![r] = next],
         Starts(Container(p, r))
  PROVE  Accounted'
<1>1. \A q \in Runs : pc'[q] = IF q = r THEN next ELSE pc[q]
  BY DEF Inv, TypeOK
<1>2. \A c : IsOpen(c)' => IsOpen(c) \/ c = Container(p, r)
  BY <1>1 DEF IsOpen, Container, Block
<1>3. \A c : IsOpen(c) /\ c # Container(p, r) => IsOpen(c)'
  BY <1>1 DEF IsOpen, Container, Block
<1>4. IsOpen(Container(p, r))'
  BY <1>1 DEF IsOpen, Container, Block
<1>5. \A t : Private(t)' <=> Private(t)
  BY DEF Private
<1> QED
  BY <1>2, <1>3, <1>4, <1>5, ContainerName DEF Accounted, Starts, Inv, ContainerInv, TypeOK

\* A block that closes, or whose container did not come to be its own: the
\* container is gone or leaked.
LEMMA BlockCloses ==
  ASSUME Inv, NEW r \in Runs, NEW p \in {"hunt", "grader"},
         orch' = orch, pc[r] \in Block("hunt") \cup Block("grader") => pc[r] \in Block(p),
         NEW next \in {"saved", "done"}, pc' = [pc EXCEPT ![r] = next],
         StartRaises(Container(p, r)) \/ Removes(Container(p, r))
  PROVE  Accounted'
<1>1. \A q \in Runs : pc'[q] = IF q = r THEN next ELSE pc[q]
  BY DEF Inv, TypeOK
<1>2. \A c : IsOpen(c)' <=> IsOpen(c) /\ c # Container(p, r)
  <2> SUFFICES ASSUME NEW c PROVE IsOpen(c)' <=> IsOpen(c) /\ c # Container(p, r)
    OBVIOUS
  <2>1. ASSUME IsOpen(c)' PROVE IsOpen(c) /\ c # Container(p, r)
    <3>1. PICK q \in Runs, o \in {"hunt", "grader"} :
            orch[q[1]] = "running" /\ pc'[q] \in Block(o) /\ c = Container(o, q)
      BY <2>1 DEF IsOpen, Block, Container
    <3>2. q # r /\ pc'[q] = pc[q]
      BY <1>1, <3>1 DEF Block
    <3> QED
      BY <3>1, <3>2, ContainerInjective DEF IsOpen
  <2>2. ASSUME IsOpen(c), c # Container(p, r) PROVE IsOpen(c)'
    <3>1. PICK q \in Runs, o \in {"hunt", "grader"} :
            orch[q[1]] = "running" /\ pc[q] \in Block(o) /\ c = Container(o, q)
      BY <2>2 DEF IsOpen
    <3>2. q # r
      <4> SUFFICES ASSUME q = r PROVE FALSE
        OBVIOUS
      <4>1. pc[r] \in Block(p) /\ pc[r] \in Block(o)
        BY <3>1 DEF Block
      <4>2. o = p
        BY <4>1 DEF Block
      <4> QED
        BY <2>2, <3>1, <4>2
    <3>3. pc'[q] \in Block(o) /\ orch'[q[1]] = "running"
      BY <1>1, <3>1, <3>2
    <3> QED
      BY <3>1, <3>3 DEF IsOpen, Block, Container
  <2> QED
    BY <2>1, <2>2
<1>3. \A t : Private(t)' <=> Private(t)
  BY DEF Private
<1> QED
  BY <1>2, <1>3, ContainerName DEF Accounted, StartRaises, Removes, Inv, ContainerInv, TypeOK

\* A step that leaves a run's block open or shut.
LEMMA BlockStays ==
  ASSUME Inv, NEW r \in Runs, orch' = orch, UNCHANGED <<containers, leaked>>,
         NEW next, pc' = [pc EXCEPT ![r] = next],
         \A p \in {"hunt", "grader"} : next \in Block(p) <=> pc[r] \in Block(p)
  PROVE  Accounted'
<1>1. \A q \in Runs : pc'[q] = IF q = r THEN next ELSE pc[q]
  BY DEF Inv, TypeOK
<1>2. \A q \in Runs, p \in {"hunt", "grader"} : pc'[q] \in Block(p) <=> pc[q] \in Block(p)
  BY <1>1
<1>3. \A c : IsOpen(c)' <=> IsOpen(c)
  BY <1>2 DEF IsOpen, Block, Container
<1>4. \A t : Private(t)' <=> Private(t)
  BY DEF Private
<1> QED
  BY <1>3, <1>4 DEF Accounted, Inv, ContainerInv, TypeOK

\* A run comes to a final result that tells what is on disk.
LEMMA FinalKeepsInv ==
  ASSUME Inv, NEW r \in Runs, orch[r[1]] = "running",
         UNCHANGED <<ofBatch, incidents>>, file' = file \/ file' = [file EXCEPT ![r] = {}],
         NEW next \in {"hunted", "judged", "done"}, pc' = [pc EXCEPT ![r] = next],
         NEW res \in Result, Writes(r, res), Tells(res, incidents[r]),
         Accounted'
  PROVE  Inv'
<1>1. TypeOK'
  BY DEF Inv, TypeOK, Writes, ofBatch, Accounted
<1>2. /\ pc'[r] = next /\ result'[r] = res /\ disk'[r] = res /\ incidents'[r] = incidents[r]
      /\ \A q \in Runs : q # r => /\ pc'[q] = pc[q] /\ result'[q] = result[q]
                                  /\ disk'[q] = disk[q] /\ incidents'[q] = incidents[q]
  BY DEF Inv, TypeOK, Writes
<1>3. Tells(disk'[r], incidents'[r])
  BY <1>2
<1>4. RunInv(r)'
  BY <1>2, <1>3 DEF RunInv, Phase, Tells
<1>5. /\ \A q \in Runs : q # r => RunInv(q)'
      /\ \A t \in Targets : BatchInv(t)'
  BY <1>2, OtherRuns
<1> QED
  BY <1>1, <1>4, <1>5 DEF Inv, Accounted

\* The result of an exception: what was on disk stays.
LEMMA MergedTells ==
  ASSUME Inv, NEW r \in Runs, orch[r[1]] = "running",
         pc[r] \in {"queued", "hunting", "submitted", "grading"}
  PROVE  Merged(r) \in Result /\ Tells(Merged(r), incidents[r])
<1>1. disk[r] \in Result /\ Phase(r)
  BY RunningPhase DEF Inv, TypeOK
<1>2. /\ Merged(r) \in Result /\ Merged(r).status = "error"
      /\ Merged(r).verdict = disk[r].verdict /\ Merged(r).submission = disk[r].submission
  BY <1>1 DEF Merged, Result
<1>3. CASE pc[r] \in {"queued", "hunting"}
  <2>1. disk[r].submission = FALSE /\ disk[r].verdict = NoVerdict /\ incidents[r] = "absent"
    BY <1>1, <1>3 DEF Phase, NoResult
  <2> QED
    BY <1>2, <2>1 DEF Tells
<1>4. CASE pc[r] \in {"submitted", "grading"}
  BY <1>1, <1>2, <1>4 DEF Phase, Tells
<1> QED
  BY <1>3, <1>4

LEMMA RaisedKeepsInv ==
  ASSUME Inv, NEW r \in Runs, orch[r[1]] = "running",
         pc[r] \in {"queued", "hunting", "submitted", "grading"},
         UNCHANGED <<ofBatch, incidents>>, file' = file \/ file' = [file EXCEPT ![r] = {}],
         Raised(r), Accounted'
  PROVE  Inv'
<1>1. Merged(r) \in Result /\ Tells(Merged(r), incidents[r])
  BY MergedTells
<1>2. pc' = [pc EXCEPT ![r] = "done"] /\ Writes(r, Merged(r))
  BY DEF Raised, Done
<1> QED
  BY <1>1, <1>2, FinalKeepsInv

LEMMA StartHuntKeepsInv ==
  ASSUME Inv, NEW r \in Runs, StartHunt(r)
  PROVE  Inv'
<1>1. /\ pc[r] = "queued" /\ orch[r[1]] = "running" /\ UNCHANGED <<ofBatch, file, incidents>>
      /\ orch' = orch
  BY DEF StartHunt, InTurn, Loop, ofBatch
<1>2. CASE /\ Starts(Container("hunt", r))
           /\ pc' = [pc EXCEPT ![r] = "hunting"]
           /\ result' = [result EXCEPT ![r].status = "error"]
           /\ UNCHANGED disk
  <2>1. Accounted'
    <3>1. "hunting" \in Block("hunt") /\ pc[r] \notin Block("hunt") \cup Block("grader")
      BY <1>1 DEF Block
    <3> QED
      BY <1>1, <1>2, <3>1, BlockOpens
  <2>2. TypeOK'
    <3>1. result[r] \in Result
      BY DEF Inv, TypeOK
    <3>2. [result[r] EXCEPT !.status = "error"] \in Result
      BY <3>1 DEF Result
    <3>3. result' \in [Runs -> Result]
      BY <1>2, <3>2 DEF Inv, TypeOK
    <3> QED
      BY <1>1, <1>2, <2>1, <3>3 DEF Inv, TypeOK, ofBatch, Accounted
  <2>3. RunInv(r)'
    <3>1. pc'[r] = "hunting" /\ disk'[r] = disk[r] /\ incidents'[r] = incidents[r]
          /\ result'[r] = [result[r] EXCEPT !.status = "error"]
      BY <1>1, <1>2 DEF Inv, TypeOK
    <3>2. Phase(r)
      BY <1>1, RunningPhase
    <3> QED
      BY <1>1, <3>1, <3>2 DEF RunInv, Phase
  <2>4. \A q \in Runs : q # r => /\ pc'[q] = pc[q] /\ result'[q] = result[q]
                                  /\ disk'[q] = disk[q] /\ incidents'[q] = incidents[q]
    BY <1>1, <1>2 DEF Inv, TypeOK
  <2>5. (\A q \in Runs : q # r => RunInv(q)') /\ \A t \in Targets : BatchInv(t)'
    BY <1>1, <2>4, OtherRuns
  <2> QED
    BY <2>1, <2>2, <2>3, <2>5 DEF Inv, Accounted
<1>3. CASE StartRaises(Container("hunt", r)) /\ Raised(r)
  <2>1. pc' = [pc EXCEPT ![r] = "done"]
    BY <1>3 DEF Raised, Done
  <2>2. Accounted'
    BY <1>1, <1>3, <2>1, BlockCloses DEF Block
  <2> QED
    BY <1>1, <1>3, <2>2, RaisedKeepsInv
<1> QED
  BY <1>2, <1>3 DEF StartHunt

LEMMA RefineKeepsInv ==
  ASSUME Inv, NEW r \in Runs, Refine(r)
  PROVE  Inv'
<1>1. PICK s \in {{}, {Cut}} \cup {{d} : d \in Drafts} : file' = [file EXCEPT ![r] = s]
  BY DEF Refine
<1>2. s \subseteq Drafts \cup {Cut} /\ (s = {} \/ \E x \in s : s = {x})
  OBVIOUS
<1>3. UNCHANGED <<ofBatch, pc, result, disk, incidents, containers, leaked>>
  BY DEF Refine
<1>4. /\ file' \in [Runs -> SUBSET (Drafts \cup {Cut})]
      /\ \A q \in Runs : file'[q] = s \/ file'[q] = file[q]
  BY <1>1, <1>2 DEF Inv, TypeOK
<1>5. TypeOK'
  BY <1>2, <1>3, <1>4 DEF Inv, TypeOK, ofBatch
<1>6. ContainerInv'
  BY <1>3 DEF Inv, ContainerInv, IsOpen, Block, Container, Private, ofBatch
<1>7. (\A q \in Runs : RunInv(q)') /\ (\A t \in Targets : BatchInv(t)')
  BY <1>3 DEF Inv, RunInv, Phase, Spoilt, Tells, BatchInv, ofBatch, RunsOf
<1> QED
  BY <1>5, <1>6, <1>7 DEF Inv

LEMMA HuntEndsKeepsInv ==
  ASSUME Inv, NEW r \in Runs, HuntEnds(r)
  PROVE  Inv'
<1>1. /\ pc[r] = "hunting" /\ orch[r[1]] = "running" /\ UNCHANGED ofBatch /\ orch' = orch
      /\ file' = [file EXCEPT ![r] = {}]
  BY DEF HuntEnds, Working, Loop, ofBatch
<1>2. /\ result[r] \in Result /\ incidents[r] = "absent" /\ disk[r] = NoResult
      /\ result[r] = [NoResult EXCEPT !.status = "error"]
      /\ result[r].submission = FALSE /\ result[r].verdict = NoVerdict
  <2>1. Phase(r) /\ result[r] \in Result
    BY <1>1, RunningPhase DEF Inv, TypeOK
  <2>2. result[r] = [NoResult EXCEPT !.status = "error"] /\ disk[r] = NoResult /\ incidents[r] = "absent"
    BY <1>1, <2>1 DEF Phase
  <2> QED
    BY <2>1, <2>2 DEF NoResult
<1>3. file' \in [Runs -> SUBSET (Drafts \cup {Cut})] /\ \A q \in Runs : file'[q] = {} \/ file'[q] = file[q]
  BY <1>1 DEF Inv, TypeOK
<1>4. CASE /\ pc' = [pc EXCEPT ![r] = "saved"]
           /\ incidents' = [incidents EXCEPT ![r] = "whole"]
           /\ Removes(Container("hunt", r))
           /\ UNCHANGED <<result, disk>>
  <2>1. Accounted'
    BY <1>1, <1>4, BlockCloses DEF Block
  <2>2. TypeOK'
    BY <1>1, <1>3, <1>4, <2>1 DEF Inv, TypeOK, ofBatch, Accounted
  <2>3. RunInv(r)'
    <3>1. /\ pc'[r] = "saved" /\ incidents'[r] = "whole"
          /\ result'[r] = result[r] /\ disk'[r] = disk[r]
      BY <1>4 DEF Inv, TypeOK
    <3> QED
      BY <1>2, <3>1 DEF RunInv, Phase
  <2>4. \A q \in Runs : q # r => /\ pc'[q] = pc[q] /\ result'[q] = result[q]
                                  /\ disk'[q] = disk[q] /\ incidents'[q] = incidents[q]
    BY <1>4 DEF Inv, TypeOK
  <2>5. (\A q \in Runs : q # r => RunInv(q)') /\ \A t \in Targets : BatchInv(t)'
    BY <1>1, <2>4, OtherRuns
  <2> QED
    BY <2>1, <2>2, <2>3, <2>5 DEF Inv, Accounted
<1>5. ASSUME NEW status \in {"error", "no_submission"},
             pc' = [pc EXCEPT ![r] = "hunted"],
             Writes(r, [result[r] EXCEPT !.status = status]),
             UNCHANGED <<incidents, containers, leaked>>
      PROVE  Inv'
  <2> DEFINE res == [result[r] EXCEPT !.status = status]
  <2>1. /\ res \in Result /\ res.status = status
        /\ res.submission = FALSE /\ res.verdict = NoVerdict
    BY <1>2 DEF Result
  <2>2. Writes(r, res)
    BY <1>5
  <2> HIDE DEF res
  <2>3. Tells(res, incidents[r])
    BY <1>2, <2>1 DEF Tells
  <2>4. Accounted'
    BY <1>1, <1>5, BlockStays DEF Block
  <2> QED
    BY <1>1, <1>5, <2>1, <2>2, <2>3, <2>4, FinalKeepsInv
<1> QED
  BY <1>4, <1>5, Zenon DEF HuntEnds

LEMMA RecordSubmissionKeepsInv ==
  ASSUME Inv, NEW r \in Runs, RecordSubmission(r)
  PROVE  Inv'
<1> DEFINE res == [result[r] EXCEPT !.status = "grading", !.submission = TRUE]
<1>1. /\ pc[r] = "saved" /\ orch[r[1]] = "running" /\ orch' = orch /\ Writes(r, res)
      /\ pc' = [pc EXCEPT ![r] = "submitted"]
      /\ UNCHANGED <<ofBatch, file, incidents, containers, leaked>>
  BY DEF RecordSubmission, Working, Loop, ofBatch
<1>2. result[r] \in Result /\ incidents[r] = "whole" /\ result[r].verdict = NoVerdict
  BY <1>1, RunningPhase DEF Inv, TypeOK, Phase, NoResult
<1>3. res \in Result /\ res.status = "grading" /\ res.submission = TRUE /\ res.verdict = NoVerdict
  BY <1>2 DEF Result
<1> HIDE DEF res
<1>4. Accounted'
  BY <1>1, BlockStays DEF Block
<1>5. TypeOK'
  BY <1>1, <1>3, <1>4 DEF Inv, TypeOK, Writes, ofBatch, Accounted
<1>6. /\ pc'[r] = "submitted" /\ result'[r] = res /\ disk'[r] = res /\ incidents'[r] = "whole"
      /\ \A q \in Runs : q # r => /\ pc'[q] = pc[q] /\ result'[q] = result[q]
                                  /\ disk'[q] = disk[q] /\ incidents'[q] = incidents[q]
  BY <1>1, <1>2 DEF Inv, TypeOK, Writes
<1>7. RunInv(r)'
  BY <1>3, <1>6 DEF RunInv, Phase
<1>8. (\A q \in Runs : q # r => RunInv(q)') /\ \A t \in Targets : BatchInv(t)'
  BY <1>1, <1>6, OtherRuns
<1> QED
  BY <1>4, <1>5, <1>7, <1>8 DEF Inv, Accounted

LEMMA StartGradeKeepsInv ==
  ASSUME Inv, NEW r \in Runs, StartGrade(r)
  PROVE  Inv'
<1>1. /\ pc[r] = "submitted" /\ orch[r[1]] = "running" /\ UNCHANGED <<ofBatch, file, incidents>>
      /\ orch' = orch
  BY DEF StartGrade, Working, Loop, ofBatch
<1>2. CASE /\ Starts(Container("grader", r))
           /\ pc' = [pc EXCEPT ![r] = "grading"]
           /\ UNCHANGED <<result, disk>>
  <2>1. Accounted'
    <3>1. "grading" \in Block("grader") /\ pc[r] \notin Block("hunt") \cup Block("grader")
      BY <1>1 DEF Block
    <3> QED
      BY <1>1, <1>2, <3>1, BlockOpens
  <2>2. TypeOK'
    BY <1>1, <1>2, <2>1 DEF Inv, TypeOK, ofBatch, Accounted
  <2>3. RunInv(r)'
    <3>1. /\ pc'[r] = "grading" /\ result'[r] = result[r] /\ disk'[r] = disk[r]
          /\ incidents'[r] = incidents[r]
      BY <1>1, <1>2 DEF Inv, TypeOK
    <3>2. Phase(r)
      BY <1>1, RunningPhase
    <3> QED
      BY <1>1, <3>1, <3>2 DEF RunInv, Phase
  <2>4. \A q \in Runs : q # r => /\ pc'[q] = pc[q] /\ result'[q] = result[q]
                                  /\ disk'[q] = disk[q] /\ incidents'[q] = incidents[q]
    BY <1>1, <1>2 DEF Inv, TypeOK
  <2>5. (\A q \in Runs : q # r => RunInv(q)') /\ \A t \in Targets : BatchInv(t)'
    BY <1>1, <2>4, OtherRuns
  <2> QED
    BY <2>1, <2>2, <2>3, <2>5 DEF Inv, Accounted
<1>3. CASE (StartRaises(Container("grader", r)) \/ Removes(Container("grader", r))) /\ Raised(r)
  <2>1. pc' = [pc EXCEPT ![r] = "done"]
    BY <1>3 DEF Raised, Done
  <2>2. Accounted'
    BY <1>1, <1>3, <2>1, BlockCloses DEF Block
  <2> QED
    BY <1>1, <1>3, <2>2, RaisedKeepsInv
<1> QED
  BY <1>2, <1>3 DEF StartGrade

LEMMA GradeEndsKeepsInv ==
  ASSUME Inv, NEW r \in Runs, GradeEnds(r)
  PROVE  Inv'
<1>1. /\ pc[r] = "grading" /\ orch[r[1]] = "running" /\ UNCHANGED <<ofBatch, file, incidents>>
      /\ orch' = orch
  BY DEF GradeEnds, Working, Loop, ofBatch
<1>2. /\ result[r] \in Result /\ result[r].submission /\ result[r].verdict = NoVerdict
      /\ incidents[r] = "whole"
  BY <1>1, RunningPhase DEF Inv, TypeOK, Phase
<1>3. CASE /\ pc' = [pc EXCEPT ![r] = "judged"]
           /\ Writes(r, [result[r] EXCEPT !.status = "ungraded"])
           /\ UNCHANGED <<containers, leaked>>
  <2> DEFINE res == [result[r] EXCEPT !.status = "ungraded"]
  <2>1. /\ res \in Result /\ res.status = "ungraded"
        /\ res.submission = result[r].submission /\ res.verdict = NoVerdict
    BY <1>2 DEF Result
  <2>2. Writes(r, res)
    BY <1>3
  <2> HIDE DEF res
  <2>3. Tells(res, incidents[r])
    BY <1>2, <2>1 DEF Tells
  <2>4. Accounted'
    BY <1>1, <1>3, BlockStays DEF Block
  <2> QED
    BY <1>1, <1>3, <2>1, <2>2, <2>3, <2>4, FinalKeepsInv
<1>4. CASE /\ \E overall \in Overalls :
                Done(r, [result[r] EXCEPT !.status = "graded", !.verdict = overall])
           /\ Removes(Container("grader", r))
  <2>1. PICK overall \in Overalls :
          Done(r, [result[r] EXCEPT !.status = "graded", !.verdict = overall])
    BY <1>4
  <2> DEFINE res == [result[r] EXCEPT !.status = "graded", !.verdict = overall]
  <2>2. /\ res \in Result /\ res.status = "graded"
        /\ res.submission = result[r].submission /\ res.verdict = overall
    BY <1>2 DEF Result
  <2>3. pc' = [pc EXCEPT ![r] = "done"] /\ Writes(r, res)
    BY <2>1 DEF Done
  <2> HIDE DEF res
  <2>4. overall # NoVerdict
    BY DnrAssumption
  <2>5. Tells(res, incidents[r])
    BY <1>2, <2>2, <2>4 DEF Tells
  <2>6. Accounted'
    BY <1>1, <1>4, <2>3, BlockCloses DEF Block
  <2> QED
    BY <1>1, <2>2, <2>3, <2>5, <2>6, FinalKeepsInv
<1> QED
  BY <1>3, <1>4 DEF GradeEnds

LEMMA LeaveKeepsInv ==
  ASSUME Inv, NEW r \in Runs, Leave(r)
  PROVE  Inv'
<1>1. /\ orch[r[1]] = "running" /\ orch' = orch /\ pc' = [pc EXCEPT ![r] = "done"]
      /\ UNCHANGED <<ofBatch, file, result, disk, incidents>> /\ pc[r] \in {"hunted", "judged"}
  BY DEF Leave, Working, Loop, ofBatch
<1>2. PICK p \in {"hunt", "grader"} : pc[r] \in Block(p) /\ Removes(Container(p, r))
  BY DEF Leave, Working, Block
<1>3. Accounted'
  BY <1>1, <1>2, BlockCloses
<1>4. disk[r] \in Result /\ disk[r] = result[r] /\ Tells(disk[r], incidents[r])
  BY <1>1, RunningPhase DEF Inv, TypeOK, Phase
<1>5. TypeOK'
  BY <1>1, <1>3 DEF Inv, TypeOK, ofBatch, Accounted
<1>6. /\ pc'[r] = "done" /\ result' = result /\ disk' = disk /\ incidents' = incidents
      /\ \A q \in Runs : q # r => pc'[q] = pc[q]
  BY <1>1 DEF Inv, TypeOK
<1>7. RunInv(r)'
  BY <1>4, <1>6 DEF RunInv, Phase, Tells
<1>8. (\A q \in Runs : q # r => RunInv(q)') /\ \A t \in Targets : BatchInv(t)'
  BY <1>1, <1>6, OtherRuns
<1> QED
  BY <1>3, <1>5, <1>7, <1>8 DEF Inv, Accounted

LEMMA AgentRaisesKeepsInv ==
  ASSUME Inv, NEW r \in Runs, AgentRaises(r)
  PROVE  Inv'
<1>1. /\ orch[r[1]] = "running" /\ UNCHANGED <<ofBatch, incidents>> /\ orch' = orch
      /\ file' = [file EXCEPT ![r] = {}] /\ Raised(r) /\ pc[r] \in {"hunting", "grading"}
  BY DEF AgentRaises, Working, Loop, ofBatch
<1>2. pc' = [pc EXCEPT ![r] = "done"]
  BY <1>1 DEF Raised, Done
<1>3. PICK p \in {"hunt", "grader"} : pc[r] \in Block(p) /\ Removes(Container(p, r))
  BY DEF AgentRaises, Working, Block
<1>4. Accounted'
  BY <1>1, <1>2, <1>3, BlockCloses
<1> QED
  BY <1>1, <1>4, RaisedKeepsInv

LEMMA RefuseKeepsInv ==
  ASSUME Inv, NEW t \in Targets, Refuse(t)
  PROVE  Inv'
<1>1. /\ orch[t] = "idle" /\ orch' = [orch EXCEPT ![t] = "exited"] /\ exit' = [exit EXCEPT ![t] = 1]
      /\ UNCHANGED <<parallel, pc, file, result, disk, incidents, containers, leaked, stops>>
  BY DEF Refuse
<1>2. TypeOK'
  BY <1>1 DEF Inv, TypeOK
<1>3. ContainerInv'
  <2>1. \A r \in Runs : orch'[r[1]] = "running" <=> orch[r[1]] = "running"
    BY <1>1, RunType DEF Inv, TypeOK
  <2> QED
    BY <1>1, <2>1 DEF Inv, ContainerInv, IsOpen, Block, Container, Private
<1>4. ASSUME NEW r \in Runs PROVE RunInv(r)'
  <2>1. orch[r[1]] = "stopped" => orch'[r[1]] = "stopped"
    BY <1>1, RunType DEF Inv, TypeOK
  <2> QED
    BY <1>1, <2>1 DEF Inv, RunInv, Phase, Spoilt, Tells
<1>5. ASSUME NEW u \in Targets PROVE BatchInv(u)'
  <2>1. CASE u = t
    BY <1>1, <2>1 DEF Inv, TypeOK, BatchInv
  <2>2. CASE u # t
    <3>1. orch'[u] = orch[u] /\ exit'[u] = exit[u] /\ BatchInv(u)
      BY <1>1, <2>2 DEF Inv, TypeOK
    <3> QED
      BY <1>1, <3>1 DEF BatchInv, RunsOf
  <2> QED
    BY <2>1, <2>2
<1> QED
  BY <1>2, <1>3, <1>4, <1>5 DEF Inv

LEMMA LaunchKeepsInv ==
  ASSUME Inv, NEW t \in Targets, Launch(t)
  PROVE  Inv'
<1>1. /\ orch[t] \in {"idle", "stopped"} /\ orch' = [orch EXCEPT ![t] = "running"]
      /\ pc' = [r \in Runs |-> IF r[1] = t THEN "queued" ELSE pc[r]]
      /\ result' = [r \in Runs |-> IF r[1] = t THEN NoResult ELSE result[r]]
      /\ disk' = [r \in Runs |-> IF r[1] = t THEN NoResult ELSE disk[r]]
      /\ incidents' = [r \in Runs |-> IF r[1] = t THEN "absent" ELSE incidents[r]]
      /\ UNCHANGED <<exit, file, containers, leaked, stops>>
  BY DEF Launch
<1>2. parallel' \in [Targets -> BOOLEAN]
  <2>1. parallel' = [parallel EXCEPT ![t] = FALSE] \/ parallel' = [parallel EXCEPT ![t] = NumRuns[t] > 1]
    BY Zenon DEF Launch
  <2>2. (NumRuns[t] > 1) \in BOOLEAN
    OBVIOUS
  <2> QED
    BY <2>1, <2>2 DEF Inv, TypeOK
<1>3. TypeOK'
  <2>1. NoResult \in Result
    BY DEF NoResult, Result
  <2> QED
    BY <1>1, <1>2, <2>1 DEF Inv, TypeOK
<1>4. ContainerInv'
  <2>1. \A r \in Runs, p \in {"hunt", "grader"} :
          (orch[r[1]] = "running" /\ pc[r] \in Block(p))
            <=> (orch'[r[1]] = "running" /\ pc'[r] \in Block(p))
    BY <1>1, RunType DEF Inv, TypeOK, Block
  <2>2. \A c : IsOpen(c)' <=> IsOpen(c)
    BY <2>1 DEF IsOpen, Block, Container
  <2> QED
    BY <1>1, <2>2 DEF Inv, ContainerInv, Private
<1>5. ASSUME NEW r \in Runs PROVE RunInv(r)'
  <2>1. CASE r[1] = t
    BY <1>1, <2>1 DEF RunInv, Phase
  <2>2. CASE r[1] # t
    <3>1. /\ pc'[r] = pc[r] /\ result'[r] = result[r] /\ disk'[r] = disk[r]
          /\ incidents'[r] = incidents[r] /\ orch'[r[1]] = orch[r[1]]
      BY <1>1, <2>2, RunType DEF Inv, TypeOK
    <3>2. RunInv(r)
      BY DEF Inv
    <3> QED
      BY <3>1, <3>2 DEF RunInv, Phase, Spoilt, Tells
  <2> QED
    BY <2>1, <2>2
<1>6. ASSUME NEW u \in Targets PROVE BatchInv(u)'
  <2>1. BatchInv(u)
    BY DEF Inv
  <2>2. CASE u = t
    BY <1>1, <2>1, <2>2 DEF Inv, TypeOK, BatchInv
  <2>3. CASE u # t
    <3>1. orch'[u] = orch[u] /\ exit'[u] = exit[u]
      BY <1>1, <2>3 DEF Inv, TypeOK
    <3>2. \A r \in RunsOf(u) : pc'[r] = pc[r] /\ result'[r] = result[r]
      BY <1>1, <2>3 DEF RunsOf
    <3>3. RunsOf(u)' = RunsOf(u)
      BY DEF RunsOf
    <3> QED
      BY <2>1, <3>1, <3>2, <3>3 DEF BatchInv
  <2> QED
    BY <2>2, <2>3
<1> QED
  BY <1>3, <1>4, <1>5, <1>6 DEF Inv

LEMMA ExitKeepsInv ==
  ASSUME Inv, NEW t \in Targets, Exit(t)
  PROVE  Inv'
<1>1. /\ orch[t] = "running" /\ \A r \in RunsOf(t) : pc[r] = "done"
      /\ orch' = [orch EXCEPT ![t] = "exited"] /\ exit' = [exit EXCEPT ![t] = BatchStatus(t)]
      /\ UNCHANGED <<parallel, pc, file, result, disk, incidents, containers, leaked, stops>>
  BY DEF Exit
<1>2. BatchStatus(t) \in {0, 2}
  BY DEF BatchStatus
<1>3. TypeOK'
  BY <1>1, <1>2 DEF Inv, TypeOK
<1>4. ContainerInv'
  <2>1. \A r \in Runs : pc[r] # "done" => (orch'[r[1]] = "running" <=> orch[r[1]] = "running")
    BY <1>1, RunType DEF Inv, TypeOK, RunsOf
  <2> QED
    BY <1>1, <2>1 DEF Inv, ContainerInv, IsOpen, Block, Container, Private
<1>5. ASSUME NEW r \in Runs PROVE RunInv(r)'
  <2>1. orch[r[1]] = "stopped" => orch'[r[1]] = "stopped"
    BY <1>1, RunType DEF Inv, TypeOK
  <2> QED
    BY <1>1, <2>1 DEF Inv, RunInv, Phase, Spoilt, Tells
<1>6. ASSUME NEW u \in Targets PROVE BatchInv(u)'
  <2>1. BatchInv(u)
    BY DEF Inv
  <2>2. CASE u # t
    <3>1. orch'[u] = orch[u] /\ exit'[u] = exit[u]
      BY <1>1, <2>2 DEF Inv, TypeOK
    <3> QED
      BY <1>1, <2>1, <3>1 DEF BatchInv, RunsOf
  <2>3. CASE u = t
    <3>1. orch'[t] = "exited" /\ exit'[t] = BatchStatus(t)
      BY <1>1 DEF Inv, TypeOK
    <3>2. BatchStatus(t) = 0 => \A r \in RunsOf(t) : result[r].status = "graded" /\ result[r].verdict \in Passing
      BY DEF BatchStatus, Passed, Graded
    <3>3. BatchStatus(t) = 2 => \E r \in RunsOf(t) : ~(result[r].status = "graded" /\ result[r].verdict \in Passing)
      BY DEF BatchStatus, Passed, Graded
    <3> QED
      BY <1>1, <2>3, <3>1, <3>2, <3>3 DEF BatchInv, RunsOf
  <2> QED
    BY <2>2, <2>3
<1> QED
  BY <1>3, <1>4, <1>5, <1>6 DEF Inv

\* The names a stopped batch may still bring up or have removed are names of its
\* target.
LEMMA LateNames ==
  ASSUME NEW t \in Targets
  PROVE  /\ \A late \in Late(t) : late \subseteq Names
         /\ \A gone \in Going(t) : \A c \in gone : c[2] = t
<1>1. \A c \in UnderWay(t) : c \in Names /\ c[2] = t
  BY ContainerName DEF UnderWay, RunsOf
<1>2. \A c \in Open(t) : c[2] = t
  BY OpenIsOpen
<1> QED
  BY <1>1, <1>2 DEF Late, Going

\* What a stop leaves of the files of a run.
LEMMA FilesHitKeepsRuns ==
  ASSUME Inv, NEW t \in Targets, FilesHit(t), orch[t] = "running",
         orch' = [orch EXCEPT ![t] = "stopped"], UNCHANGED <<pc, result>>
  PROVE  /\ \A q \in Runs : RunInv(q)'
         /\ disk' \in [Runs -> Result] /\ incidents' \in [Runs -> {"absent", "cut", "whole"}]
<1>1. /\ disk \in [Runs -> Result] /\ incidents \in [Runs -> {"absent", "cut", "whole"}]
      /\ Torn \in Result
  BY DEF Inv, TypeOK, Torn, Result
<1>2. ASSUME NEW q \in Runs, disk'[q] = disk[q], incidents'[q] = incidents[q]
      PROVE  RunInv(q)'
  <2>1. RunInv(q) /\ (orch[q[1]] = "stopped" => orch'[q[1]] = "stopped")
    BY RunType DEF Inv, TypeOK
  <2> QED
    BY <1>2, <2>1 DEF RunInv, Phase, Spoilt, Tells
<1>3. \A q \in RunsOf(t) : q \in Runs /\ orch'[q[1]] = "stopped" /\ orch[q[1]] = "running"
  BY DEF RunsOf, Inv, TypeOK
<1>4. CASE UNCHANGED <<disk, incidents>>
  BY <1>1, <1>2, <1>4
<1>5. ASSUME NEW r \in RunsOf(t), Writing(r), disk' = [disk EXCEPT ![r] = Torn], UNCHANGED incidents
      PROVE  /\ \A q \in Runs : RunInv(q)'
             /\ disk' \in [Runs -> Result] /\ incidents' \in [Runs -> {"absent", "cut", "whole"}]
  <2>1. disk'[r] = Torn /\ \A q \in Runs : q # r => disk'[q] = disk[q]
    BY <1>1, <1>3, <1>5
  <2>2. pc[r] \in {"queued", "hunting", "saved", "submitted", "grading"}
    BY <1>5 DEF Writing, Working
  <2>3. RunInv(r)'
    BY <1>3, <2>1, <2>2 DEF RunInv, Spoilt, Torn
  <2> QED
    BY <1>1, <1>2, <1>5, <2>1, <2>3
<1>6. ASSUME NEW r \in RunsOf(t), Working(r, "hunting"), incidents' = [incidents EXCEPT ![r] = "cut"],
             UNCHANGED disk
      PROVE  /\ \A q \in Runs : RunInv(q)'
             /\ disk' \in [Runs -> Result] /\ incidents' \in [Runs -> {"absent", "cut", "whole"}]
  <2>1. incidents'[r] = "cut" /\ \A q \in Runs : q # r => incidents'[q] = incidents[q]
    BY <1>1, <1>3, <1>6
  <2>2. pc[r] = "hunting" /\ disk[r] = NoResult
    BY <1>3, <1>6, RunningPhase DEF Working, Phase
  <2>3. RunInv(r)'
    BY <1>3, <1>6, <2>1, <2>2 DEF RunInv, Spoilt, NoResult
  <2> QED
    BY <1>1, <1>2, <1>6, <2>1, <2>3
<1> QED
  BY <1>4, <1>5, <1>6, Zenon DEF FilesHit

LEMMA StopKeepsInv ==
  ASSUME Inv, NEW t \in Targets, Signal(t) \/ Kill(t)
  PROVE  Inv'
<1>1. /\ orch[t] = "running" /\ orch' = [orch EXCEPT ![t] = "stopped"]
      /\ file' = [r \in Runs |-> IF r[1] = t THEN {} ELSE file[r]]
      /\ stops < MaxStops /\ stops' = stops + 1
      /\ UNCHANGED <<exit, parallel, pc, result>> /\ FilesHit(t)
  BY DEF Signal, Kill, Stop
<1>2. \A c : IsOpen(c)' <=> IsOpen(c) /\ c \notin Open(t)
  <2> SUFFICES ASSUME NEW c PROVE IsOpen(c)' <=> IsOpen(c) /\ c \notin Open(t)
    OBVIOUS
  <2>1. \A r \in Runs : orch'[r[1]] = "running" <=> orch[r[1]] = "running" /\ r[1] # t
    BY <1>1, RunType DEF Inv, TypeOK
  <2>2. ASSUME IsOpen(c)' PROVE IsOpen(c) /\ c \notin Open(t)
    <3>1. PICK q \in Runs, p \in {"hunt", "grader"} :
            orch[q[1]] = "running" /\ q[1] # t /\ pc[q] \in Block(p) /\ c = Container(p, q)
      BY <1>1, <2>1, <2>2 DEF IsOpen, Block, Container
    <3>2. c[2] # t
      BY <3>1, ContainerName
    <3> QED
      BY <3>1, <3>2, OpenIsOpen DEF IsOpen
  <2>3. ASSUME IsOpen(c), c \notin Open(t) PROVE IsOpen(c)'
    <3>1. PICK q \in Runs, p \in {"hunt", "grader"} :
            orch[q[1]] = "running" /\ pc[q] \in Block(p) /\ c = Container(p, q)
      BY <2>3 DEF IsOpen
    <3>2. q[1] # t
      BY <1>1, <2>3, <3>1 DEF Open, RunsOf, Block
    <3>3. orch'[q[1]] = "running" /\ pc'[q] \in Block(p)
      BY <1>1, <2>1, <3>1, <3>2
    <3> QED
      BY <3>1, <3>3 DEF IsOpen, Block, Container
  <2> QED
    BY <2>2, <2>3
<1>3. /\ ContainerInv /\ containers \subseteq Names /\ leaked \subseteq containers
      /\ \A u : Private(u)' <=> Private(u)
  BY DEF Inv, TypeOK, Private
<1>4. Accounted'
  <2>1. CASE Signal(t)
    <3>1. PICK late \in Late(t) : /\ containers' = (containers \ OfTarget(t)) \cup late
                                  /\ leaked' = (leaked \ OfTarget(t)) \cup late
      BY <2>1 DEF Signal
    <3>2. \A c \in containers : c \in Open(t) => c \in OfTarget(t)
      BY OpenIsOpen, DnrAssumption DEF OfTarget
    <3>3. \A c : IsOpen(c)' /\ Private(c[2]) => c \notin OfTarget(t)
      <4> SUFFICES ASSUME NEW c, IsOpen(c), c \notin Open(t), Private(c[2]) PROVE c \notin OfTarget(t)
        BY <1>2
      <4>1. PICK u \in Targets : c \in Open(u)
        BY OpenIsOpen
      <4>2. c[2] = u /\ u # t
        BY <4>1, OpenIsOpen
      <4> QED
        BY <4>2 DEF Private, OfTarget
    <3>4. late \subseteq Names
      BY LateNames
    <3>5. \A c \in containers' : c \in leaked' \/ IsOpen(c)'
      BY <1>2, <1>3, <3>1, <3>2 DEF ContainerInv
    <3>6. \A c : IsOpen(c)' /\ Private(c[2])' => c \in containers'
      BY <1>2, <1>3, <3>1, <3>3 DEF ContainerInv
    <3> QED
      BY <1>3, <3>1, <3>4, <3>5, <3>6 DEF Accounted, ContainerInv
  <2>2. CASE Kill(t)
    <3>1. PICK late \in Late(t), gone \in Going(t) :
            /\ containers' = (containers \ gone) \cup late
            /\ leaked' = ((leaked \cup (Open(t) \cap containers)) \ gone) \cup late
      BY <2>2 DEF Kill
    <3>2. late \subseteq Names /\ \A c \in gone : c[2] = t
      BY LateNames
    <3>3. \A c : IsOpen(c)' => c \notin gone
      <4> SUFFICES ASSUME NEW c, IsOpen(c), c \notin Open(t) PROVE c \notin gone
        BY <1>2
      <4>1. PICK u \in Targets : c \in Open(u)
        BY OpenIsOpen
      <4>2. c[2] = u /\ u # t
        BY <4>1, OpenIsOpen
      <4> QED
        BY <3>2, <4>2
    <3>4. \A c \in containers' : c \in leaked' \/ IsOpen(c)'
      BY <1>2, <1>3, <3>1 DEF ContainerInv
    <3>5. \A c : IsOpen(c)' /\ Private(c[2])' => c \in containers'
      BY <1>2, <1>3, <3>1, <3>3 DEF ContainerInv
    <3> QED
      BY <1>3, <3>1, <3>2, <3>4, <3>5 DEF Accounted, ContainerInv
  <2> QED
    BY <2>1, <2>2
<1>5. /\ \A r \in Runs : RunInv(r)'
      /\ disk' \in [Runs -> Result] /\ incidents' \in [Runs -> {"absent", "cut", "whole"}]
  BY <1>1, FilesHitKeepsRuns
<1>6. TypeOK'
  <2>1. stops' \in 0 .. MaxStops
    BY <1>1, DnrAssumption DEF Inv, TypeOK
  <2> QED
    BY <1>1, <1>4, <1>5, <2>1 DEF Inv, TypeOK, Accounted
<1>7. ASSUME NEW u \in Targets PROVE BatchInv(u)'
  <2>1. BatchInv(u) /\ exit'[u] = exit[u] /\ (orch'[u] = "exited" <=> orch[u] = "exited")
    BY <1>1 DEF Inv, TypeOK
  <2> QED
    BY <1>1, <2>1 DEF BatchInv, RunsOf
<1> QED
  BY <1>4, <1>5, <1>6, <1>7 DEF Inv, Accounted

LEMMA NextKeepsInv == Inv /\ [Next]_vars => Inv'
<1> SUFFICES ASSUME Inv, [Next]_vars PROVE Inv'
  OBVIOUS
<1>1. ASSUME NEW r \in Runs,
             \/ StartHunt(r) \/ Refine(r) \/ HuntEnds(r) \/ RecordSubmission(r)
             \/ StartGrade(r) \/ GradeEnds(r) \/ Leave(r) \/ AgentRaises(r)
      PROVE  Inv'
  BY <1>1, StartHuntKeepsInv, RefineKeepsInv, HuntEndsKeepsInv, RecordSubmissionKeepsInv,
     StartGradeKeepsInv, GradeEndsKeepsInv, LeaveKeepsInv, AgentRaisesKeepsInv
<1>2. ASSUME NEW t \in Targets, Refuse(t) \/ Launch(t) \/ Exit(t) \/ Signal(t) \/ Kill(t)
      PROVE  Inv'
  BY <1>2, RefuseKeepsInv, LaunchKeepsInv, ExitKeepsInv, StopKeepsInv
<1>3. ASSUME UNCHANGED vars PROVE Inv'
  <2>1. TypeOK' /\ ContainerInv'
    BY <1>3 DEF vars, Inv, TypeOK, ContainerInv, IsOpen, Block, Container, Private
  <2>2. (\A r \in Runs : RunInv(r)') /\ (\A t \in Targets : BatchInv(t)')
    BY <1>3 DEF vars, Inv, RunInv, Phase, Spoilt, Tells, BatchInv, RunsOf
  <2> QED
    BY <2>1, <2>2 DEF Inv
<1> QED
  BY <1>1, <1>2, <1>3 DEF Next

THEOREM DnrInvariance == Spec => []Inv
<1> QED
  BY InitInv, NextKeepsInv, PTL DEF Spec

\* Values keep their types and a hunt container has one submission at most.
THEOREM DnrTypeSafety == Spec => []TypeOK
<1>1. Inv => TypeOK
  BY DEF Inv
<1> QED
  BY <1>1, DnrInvariance, PTL

\* No container is lost track of, whatever fails, is signalled or killed, and an
\* agent keeps its container if no other target's name filter finds it.
THEOREM ContainersKnown == Spec => []ContainersAccounted
<1>1. Inv => ContainersAccounted
  <2> SUFFICES ASSUME Inv PROVE ContainersAccounted
    OBVIOUS
  <2>1. containers \subseteq leaked \cup UNION {Open(t) : t \in Targets}
    BY OpenIsOpen DEF Inv, ContainerInv
  <2>2. ASSUME NEW t \in Targets, Private(t) PROVE Open(t) \subseteq containers
    BY <2>2, OpenIsOpen DEF Inv, ContainerInv
  <2> QED
    BY <2>1, <2>2 DEF ContainersAccounted, Private
<1> QED
  BY <1>1, DnrInvariance, PTL

\* result.json, INCIDENTS.json, the verdict and the phase of a run tell the same
\* story, up to the write that is under way or that a stop cut.
THEOREM ResultsTell == Spec => []ResultTellsOutcome
<1>1. Inv => ResultTellsOutcome
  <2> SUFFICES ASSUME Inv, NEW r \in Runs
               PROVE  /\ disk[r].submission => incidents[r] = "whole"
                      /\ incidents[r] = "whole" /\ ~disk[r].submission => pc[r] = "saved" \/ orch[r[1]] = "stopped"
                      /\ incidents[r] = "cut" \/ disk[r].status = "torn" => orch[r[1]] = "stopped"
                      /\ disk[r].verdict # NoVerdict <=> disk[r].status = "graded"
                      /\ disk[r].status \in {"grading", "ungraded", "graded"} => disk[r].submission
                      /\ disk[r].status = "grading" => pc[r] \in {"submitted", "grading"}
                      /\ orch[r[1]] = "exited" /\ exit[r[1]] # 1 => disk[r].status \notin {"none", "torn", "grading"}
    BY Zenon DEF ResultTellsOutcome
  <2>1. /\ RunInv(r)
        /\ pc[r] \in {"queued", "hunting", "hunted", "saved", "submitted", "grading", "judged", "done"}
        /\ disk[r] \in Result /\ incidents[r] \in {"absent", "cut", "whole"}
    BY DEF Inv, TypeOK
  <2>2. orch[r[1]] = "exited" /\ exit[r[1]] # 1 => pc[r] = "done"
    BY RunType DEF Inv, BatchInv, RunsOf
  <2>3. CASE Phase(r) /\ pc[r] \in {"queued", "hunting", "saved"}
    BY <2>1, <2>2, <2>3 DEF Phase, NoResult
  <2>4. CASE Phase(r) /\ pc[r] \in {"submitted", "grading"}
    BY <2>1, <2>2, <2>4 DEF Phase
  <2>5. CASE Phase(r) /\ pc[r] \in {"hunted", "judged", "done"}
    BY <2>1, <2>5 DEF Phase, Tells
  <2>6. CASE Spoilt(r)
    BY <2>1, <2>2, <2>6 DEF Spoilt, Torn, NoResult
  <2> QED
    BY <2>1, <2>3, <2>4, <2>5, <2>6 DEF RunInv
<1> QED
  BY <1>1, DnrInvariance, PTL

\* Exit 0 exactly for batches whose results on disk all passed.
THEOREM ExitZeroHonest == Spec => []ExitZeroMeansAllPassed
<1>1. Inv => ExitZeroMeansAllPassed
  <2> SUFFICES ASSUME Inv, NEW t \in Targets
               PROVE  /\ exit[t] = 0 => \A r \in RunsOf(t) : disk[r].status = "graded" /\ disk[r].verdict \in Passing
                      /\ exit[t] = 2 => \E r \in RunsOf(t) : ~(disk[r].status = "graded" /\ disk[r].verdict \in Passing)
    BY DEF ExitZeroMeansAllPassed
  <2>1. exit[t] \in {0, 2} =>
          /\ \A r \in RunsOf(t) : pc[r] = "done"
          /\ exit[t] = 0 => \A r \in RunsOf(t) : result[r].status = "graded" /\ result[r].verdict \in Passing
          /\ exit[t] = 2 => \E r \in RunsOf(t) : ~(result[r].status = "graded" /\ result[r].verdict \in Passing)
    BY DEF Inv, BatchInv
  <2>2. \A r \in RunsOf(t) : pc[r] = "done" => disk[r] = result[r]
    BY DEF Inv, RunInv, Phase, Spoilt, RunsOf
  <2> QED
    BY <2>1, <2>2
<1> QED
  BY <1>1, DnrInvariance, PTL

\* A rewrite that only adds keeps a pass and every optional check, whatever the
\* agent has written and whatever else it may write.
THEOREM FullerKept == Spec => FullerNeverScoresLess
<1>1. [Next]_vars =>
        [\A r \in Runs : \A s \in file[r] \ {Cut} : \A better \in file'[r] \ {Cut} :
           Extends(s, better) =>
             /\ Pass(s) => Pass(better)
             /\ \A c \in DOMAIN Optional(s) : Optional(s)[c] => Optional(better)[c]]_vars
  <2> SUFFICES ASSUME NEW s, NEW better, Extends(s, better)
               PROVE  /\ Pass(s) => Pass(better)
                      /\ \A c \in DOMAIN Optional(s) : Optional(s)[c] => Optional(better)[c]
    BY Zenon
  <2> QED
    BY FullerScoresNoLess
<1> QED
  BY <1>1, PTL DEF Spec, FullerNeverScoresLess
-----------------------------------------------------------------------------
(* The ledger                                                              *)

\* While a run of a batch is in the cycle its record is not settled, and it is
\* blank until the submission is in.
LEMMA RecordOfPhase ==
  ASSUME Inv, NEW r \in Runs, orch[r[1]] = "running"
  PROVE  /\ disk[r] \in Result
         /\ pc[r] \in {"queued", "hunting", "saved"} => disk[r] = NoResult
         /\ pc[r] \in {"submitted", "grading"} => disk[r] = result[r] /\ disk[r].status = "grading"
         /\ pc[r] \notin {"hunted", "judged", "done"} => ~ Ledger!Settled(r)
         /\ pc[r] = "done" => Ledger!Settled(r) /\ disk[r] = result[r]
<1>1. /\ disk[r] \in Result /\ Phase(r)
      /\ pc[r] \in {"queued", "hunting", "hunted", "saved", "submitted", "grading", "judged", "done"}
  BY RunningPhase DEF Inv, TypeOK
<1>2. QED BY <1>1 DEF Phase, Tells, Ledger!Settled, NoResult

\* A record is what its keys say.
LEMMA SameResult ==
  ASSUME NEW x \in Result, NEW y \in Result,
         x.status = y.status, x.submission = y.submission, x.verdict = y.verdict
  PROVE  x = y
BY DEF Result

LEMMA RecordUpdate ==
  ASSUME NEW res \in Result,
         NEW st \in {"error", "no_submission", "grading", "ungraded", "graded"},
         NEW sub \in BOOLEAN
  PROVE  /\ [res EXCEPT !.status = st] = [status |-> st, submission |-> res.submission,
                                          verdict |-> res.verdict]
         /\ [res EXCEPT !.status = st, !.submission = sub]
              = [status |-> st, submission |-> sub, verdict |-> res.verdict]
<1> DEFINE x(b) == [status |-> st, submission |-> b, verdict |-> res.verdict]
           y == [res EXCEPT !.status = st]
           z == [res EXCEPT !.status = st, !.submission = sub]
<1>1. \A b \in BOOLEAN : /\ x(b) \in Result
                         /\ x(b).status = st /\ x(b).submission = b /\ x(b).verdict = res.verdict
  BY DEF Result
<1>2. y \in Result /\ y.status = st /\ y.submission = res.submission /\ y.verdict = res.verdict
  BY DEF Result
<1>3. z \in Result /\ z.status = st /\ z.submission = sub /\ z.verdict = res.verdict
  BY DEF Result
<1>4. res.submission \in BOOLEAN
  BY DEF Result
<1> HIDE DEF x, y, z
<1>5. y = x(res.submission)
  BY <1>1, <1>2, <1>4, SameResult
<1>6. z = x(sub)
  BY <1>1, <1>3, SameResult
<1> QED BY <1>5, <1>6 DEF x, y, z

LEMMA VerdictUpdate ==
  ASSUME NEW res \in Result, NEW v \in Overalls \cup {NoVerdict},
         NEW st \in {"ungraded", "graded"}
  PROVE  /\ [res EXCEPT !.status = st, !.verdict = v] = [res EXCEPT !.verdict = v, !.status = st]
         /\ v = res.verdict => [res EXCEPT !.status = st] = [res EXCEPT !.verdict = v, !.status = st]
<1> DEFINE x == [res EXCEPT !.status = st, !.verdict = v]
           y == [res EXCEPT !.verdict = v, !.status = st]
           z == [res EXCEPT !.status = st]
<1>1. x \in Result /\ x.status = st /\ x.submission = res.submission /\ x.verdict = v
  BY DEF Result
<1>2. y \in Result /\ y.status = st /\ y.submission = res.submission /\ y.verdict = v
  BY DEF Result
<1>3. z \in Result /\ z.status = st /\ z.submission = res.submission /\ z.verdict = res.verdict
  BY DEF Result
<1> HIDE DEF x, y, z
<1>4. x = y /\ (v = res.verdict => z = y)
  BY <1>1, <1>2, <1>3, SameResult
<1> QED BY <1>4 DEF x, y, z

\* An exception settles a record with what it has.
LEMMA RaisedFails ==
  ASSUME Inv, NEW r \in Runs, orch[r[1]] = "running",
         pc[r] \notin {"hunted", "judged", "done"}, Raised(r), UNCHANGED <<orch, exit>>
  PROVE  Ledger!Fail(r)
<1>1. ~ Ledger!Settled(r)
  BY RecordOfPhase
<1>2. disk' = [disk EXCEPT ![r] = [disk[r] EXCEPT !.status = "error"]]
  BY DEF Raised, Done, Writes, Merged
<1>3. disk' = [disk EXCEPT ![r].status = "error"]
  BY <1>2
<1>4. QED BY <1>1, <1>3 DEF Ledger!Fail

LEMMA LedgerInit == Init => Ledger!Init
BY DEF Init, Ledger!Init, Ledger!Blank, NoResult

LEMMA LedgerStep == Inv /\ [Next]_vars => [Ledger!Next]_(Ledger!ledgerVars)
<1> SUFFICES ASSUME Inv, [Next]_vars
             PROVE  [Ledger!Next]_(Ledger!ledgerVars)
  OBVIOUS
<1>a. disk \in [Runs -> Result] /\ result \in [Runs -> Result]
  BY DEF Inv, TypeOK
<1>1. ASSUME NEW r \in Runs, StartHunt(r) \/ StartGrade(r) \/ AgentRaises(r)
      PROVE  [Ledger!Next]_(Ledger!ledgerVars)
  <2>1. /\ orch[r[1]] = "running" /\ pc[r] \notin {"hunted", "judged", "done"}
        /\ UNCHANGED <<orch, exit>>
    BY <1>1 DEF StartHunt, StartGrade, AgentRaises, InTurn, Working, Loop, ofBatch
  <2>2. Raised(r) \/ UNCHANGED disk
    BY <1>1 DEF StartHunt, StartGrade, AgentRaises
  <2>3. CASE Raised(r)
    <3>1. Ledger!Fail(r)
      BY <2>1, <2>3, RaisedFails
    <3>2. QED BY <3>1 DEF Ledger!Next
  <2>4. CASE UNCHANGED disk
    BY <2>1, <2>4 DEF Ledger!ledgerVars
  <2>5. QED BY <2>2, <2>3, <2>4
<1>2. ASSUME NEW r \in Runs, HuntEnds(r)
      PROVE  [Ledger!Next]_(Ledger!ledgerVars)
  <2>1. /\ orch[r[1]] = "running" /\ pc[r] = "hunting" /\ UNCHANGED <<orch, exit>>
        /\ disk[r] = Ledger!Blank /\ disk[r] \in Result
        /\ result[r] = [NoResult EXCEPT !.status = "error"] /\ result[r] \in Result
    <3>1. orch[r[1]] = "running" /\ pc[r] = "hunting" /\ UNCHANGED <<orch, exit>>
      BY <1>2 DEF HuntEnds, Working, Loop, ofBatch
    <3>2. Phase(r)
      BY <3>1, RunningPhase
    <3>3. QED BY <1>a, <3>1, <3>2 DEF Phase, NoResult, Ledger!Blank
  <2>2. CASE UNCHANGED disk
    BY <2>1, <2>2 DEF Ledger!ledgerVars
  <2>3. ASSUME NEW st \in {"error", "no_submission"},
               disk' = [disk EXCEPT ![r] = [result[r] EXCEPT !.status = st]]
        PROVE  [Ledger!Next]_(Ledger!ledgerVars)
    <3>1. [result[r] EXCEPT !.status = st] = [disk[r] EXCEPT !.status = st]
      <4>1. result[r].submission = disk[r].submission /\ result[r].verdict = disk[r].verdict
        BY <2>1 DEF NoResult, Ledger!Blank
      <4>2. [result[r] EXCEPT !.status = st]
              = [status |-> st, submission |-> result[r].submission, verdict |-> result[r].verdict]
        BY <2>1, RecordUpdate
      <4>3. [disk[r] EXCEPT !.status = st]
              = [status |-> st, submission |-> disk[r].submission, verdict |-> disk[r].verdict]
        BY <2>1, RecordUpdate
      <4>4. QED BY <4>1, <4>2, <4>3
    <3>2. CASE st = "no_submission"
      <4>1. disk' = [disk EXCEPT ![r] = [Ledger!Blank EXCEPT !.status = "no_submission"]]
        BY <2>1, <2>3, <3>1, <3>2
      <4>2. Ledger!NoSubmission(r)
        BY <2>1, <4>1 DEF Ledger!NoSubmission
      <4>3. QED BY <4>2 DEF Ledger!Next
    <3>3. CASE st = "error"
      <4>1. disk' = [disk EXCEPT ![r].status = "error"]
        BY <2>3, <3>1, <3>3
      <4>2. ~ Ledger!Settled(r)
        BY <2>1, RecordOfPhase
      <4>3. Ledger!Fail(r)
        BY <2>1, <4>1, <4>2 DEF Ledger!Fail
      <4>4. QED BY <4>3 DEF Ledger!Next
    <3>4. QED BY <3>2, <3>3
  <2>4. QED BY <1>2, <2>2, <2>3, Zenon DEF HuntEnds, Writes
<1>3. ASSUME NEW r \in Runs, GradeEnds(r)
      PROVE  [Ledger!Next]_(Ledger!ledgerVars)
  <2>1. /\ orch[r[1]] = "running" /\ pc[r] = "grading" /\ UNCHANGED <<orch, exit>>
    BY <1>3 DEF GradeEnds, Working, Loop, ofBatch
  <2>2. /\ disk[r] = result[r] /\ disk[r].status = "grading"
        /\ disk[r].verdict = NoVerdict /\ disk[r] \in Result
    BY <1>a, <2>1, RecordOfPhase, RunningPhase DEF Phase
  <2>3. PICK v \in Overalls \cup {NoVerdict} :
          disk' = [disk EXCEPT ![r] = [disk[r] EXCEPT !.verdict = v,
                     !.status = IF v = NoVerdict THEN "ungraded" ELSE "graded"]]
    <3>1. CASE Writes(r, [result[r] EXCEPT !.status = "ungraded"])
      <4>1. [result[r] EXCEPT !.status = "ungraded"]
              = [disk[r] EXCEPT !.verdict = NoVerdict, !.status = "ungraded"]
        BY <2>2, VerdictUpdate
      <4>2. QED BY <3>1, <4>1 DEF Writes
    <3>2. CASE \E overall \in Overalls :
                 Done(r, [result[r] EXCEPT !.status = "graded", !.verdict = overall])
      <4>1. PICK v \in Overalls :
              disk' = [disk EXCEPT ![r] = [result[r] EXCEPT !.status = "graded", !.verdict = v]]
        BY <3>2 DEF Done, Writes
      <4>2. v # NoVerdict
        BY DnrAssumption
      <4>3. [result[r] EXCEPT !.status = "graded", !.verdict = v]
              = [disk[r] EXCEPT !.verdict = v, !.status = "graded"]
        BY <2>2, VerdictUpdate
      <4>4. QED BY <4>1, <4>2, <4>3
    <3>3. QED BY <1>3, <3>1, <3>2 DEF GradeEnds
  <2>4. disk' = [disk EXCEPT ![r].verdict = v,
                             ![r].status = IF v = NoVerdict THEN "ungraded" ELSE "graded"]
    BY <1>a, <2>3
  <2>5. Ledger!Judge(r)
    BY <2>1, <2>2, <2>4 DEF Ledger!Judge
  <2>6. QED BY <2>5 DEF Ledger!Next
<1>b. ASSUME NEW r \in Runs, RecordSubmission(r)
      PROVE  [Ledger!Next]_(Ledger!ledgerVars)
  <2>1. /\ orch[r[1]] = "running" /\ pc[r] = "saved" /\ UNCHANGED <<orch, exit>>
        /\ disk' = [disk EXCEPT ![r] = [result[r] EXCEPT !.status = "grading", !.submission = TRUE]]
    BY <1>b DEF RecordSubmission, Working, Loop, Writes, ofBatch
  <2>2. /\ disk[r] = Ledger!Blank /\ disk[r] \in Result
        /\ result[r] = [NoResult EXCEPT !.status = "error"] /\ result[r] \in Result
    <3>1. Phase(r)
      BY <2>1, RunningPhase
    <3>2. QED BY <1>a, <2>1, <3>1 DEF Phase, NoResult, Ledger!Blank
  <2>3. [result[r] EXCEPT !.status = "grading", !.submission = TRUE]
          = [disk[r] EXCEPT !.status = "grading", !.submission = TRUE]
    <3>1. result[r].verdict = disk[r].verdict
      BY <2>2 DEF NoResult, Ledger!Blank
    <3>2. [result[r] EXCEPT !.status = "grading", !.submission = TRUE]
            = [status |-> "grading", submission |-> TRUE, verdict |-> result[r].verdict]
      BY <2>2, RecordUpdate
    <3>3. [disk[r] EXCEPT !.status = "grading", !.submission = TRUE]
            = [status |-> "grading", submission |-> TRUE, verdict |-> disk[r].verdict]
      BY <2>2, RecordUpdate
    <3>4. QED BY <3>1, <3>2, <3>3
  <2>4. disk' = [disk EXCEPT ![r] = [Ledger!Blank EXCEPT !.status = "grading", !.submission = TRUE]]
    BY <2>1, <2>2, <2>3
  <2>5. Ledger!Submit(r)
    BY <2>1, <2>2, <2>4 DEF Ledger!Submit
  <2>6. QED BY <2>5 DEF Ledger!Next
<1>c. ASSUME NEW r \in Runs, Leave(r)
      PROVE  [Ledger!Next]_(Ledger!ledgerVars)
  BY <1>c DEF Leave, ofBatch, Ledger!ledgerVars
<1>4. ASSUME NEW r \in Runs, Refine(r)
      PROVE  [Ledger!Next]_(Ledger!ledgerVars)
  BY <1>4 DEF Refine, ofBatch, Ledger!ledgerVars
<1>5. ASSUME NEW t \in Targets, Refuse(t)
      PROVE  [Ledger!Next]_(Ledger!ledgerVars)
  BY <1>5 DEF Refuse, Ledger!Refuse, Ledger!Next
<1>6. ASSUME NEW t \in Targets, Launch(t)
      PROVE  [Ledger!Next]_(Ledger!ledgerVars)
  BY <1>6 DEF Launch, NoResult, Ledger!Launch, Ledger!Blank, Ledger!Next
<1>7. ASSUME NEW t \in Targets, Exit(t)
      PROVE  [Ledger!Next]_(Ledger!ledgerVars)
  <2>1. \A r \in RunsOf(t) : Ledger!Settled(r) /\ disk[r] = result[r]
    <3>1. \A r \in RunsOf(t) : r \in Runs /\ orch[r[1]] = "running" /\ pc[r] = "done"
      BY <1>7 DEF Exit, RunsOf
    <3>2. QED BY <3>1, RecordOfPhase
  <2>2. Ledger!Of(t) = RunsOf(t)
    BY DEF Ledger!Of, RunsOf
  <2>3. (\A r \in RunsOf(t) : Ledger!Passed(r)) <=> Passed(t) = RunsOf(t)
    BY <2>1 DEF Ledger!Passed, Passed, Graded
  <2>4. Ledger!Exit(t)
    BY <1>7, <2>1, <2>2, <2>3 DEF Exit, BatchStatus, Ledger!Exit
  <2>5. QED BY <2>4 DEF Ledger!Next
<1>8. ASSUME NEW t \in Targets, Signal(t) \/ Kill(t)
      PROVE  [Ledger!Next]_(Ledger!ledgerVars)
  <2>1. /\ orch[t] = "running" /\ orch' = [orch EXCEPT ![t] = "stopped"] /\ UNCHANGED exit
        /\ FilesHit(t)
    BY <1>8 DEF Signal, Kill, Stop
  <2>2. \/ UNCHANGED disk
        \/ \E r \in RunsOf(t) : Writing(r) /\ disk' = [disk EXCEPT ![r] = Torn]
    BY <2>1, Zenon DEF FilesHit
  <2>3. ASSUME NEW r \in RunsOf(t), Writing(r) PROVE r \in Ledger!Of(t) /\ ~ Ledger!Settled(r)
    <3>1. r \in Runs /\ orch[r[1]] = "running" /\ pc[r] \notin {"hunted", "judged", "done"}
      BY <2>1, <2>3 DEF RunsOf, Writing, Working
    <3>2. r \in Ledger!Of(t)
      BY DEF RunsOf, Ledger!Of
    <3>3. QED BY <3>1, <3>2, RecordOfPhase
  <2>4. Ledger!Stop(t)
    BY <2>1, <2>2, <2>3 DEF Ledger!Stop, Ledger!Unreadable, Torn
  <2>5. QED BY <2>4 DEF Ledger!Next
<1>9. CASE UNCHANGED vars
  BY <1>9 DEF vars, Ledger!ledgerVars
<1>10. QED
  BY <1>1, <1>2, <1>3, <1>b, <1>c, <1>4, <1>5, <1>6, <1>7, <1>8, <1>9 DEF Next

\* For any targets, numbers of runs, drafts and verdicts, and however often a
\* batch is stopped, in the middle of a write too, and launched again: the records
\* of a results directory are settled once and for good, a stop costs one that is
\* not settled at most, and the exit code is a function of them.
THEOREM BatchKeepsLedger == Spec => ImplementsBatchLedger
BY LedgerInit, LedgerStep, DnrInvariance, PTL DEF Spec, ImplementsBatchLedger, Ledger!Spec
=============================================================================

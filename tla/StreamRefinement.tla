-------------------------- MODULE StreamRefinement --------------------------
(***************************************************************************)
(* The refinement mapping from the files of a streaming batch to the       *)
(* triage ledger: graded crashes are the result.json files, the ledger is  *)
(* manifest.jsonl, and a verdict is a line of judge_log.jsonl.             *)
(***************************************************************************)
EXTENDS StreamBatch

GradedCrash == [r \in Runs |-> IF IsGraded(result[r]) THEN result[r].crash ELSE NoCrash]

ManifestCauses == [i \in 1 .. Len(manifest) |-> manifest[i].crash]

\* Bug ids count from 0, ledger positions from 1.
LoggedBug ==
  [r \in Runs |->
    IF r \in JudgedRuns
    THEN judgeLog[CHOOSE i \in DOMAIN judgeLog : judgeLog[i].run = r].bug + 1
    ELSE 0]

Ledger == INSTANCE TriageLedger
            WITH graded <- GradedCrash, ledger <- ManifestCauses, verdict <- LoggedBug

\* "two simultaneous arrivals don't both claim NEW for the same root cause"
\* (_stream_dispatch), and more: with a judge that compares causes correctly,
\* no interleaving, kill or resume files a cause twice, judges a crash twice,
\* or assigns it to the bug of another cause.
ImplementsTriageLedger == Ledger!Spec
=============================================================================

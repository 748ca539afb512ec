------------------------------- MODULE DnrScore -------------------------------
(***************************************************************************)
(* The grader of the dnrcanary target (targets/dnrcanary/grade.py): which   *)
(* INCIDENTS.json scores as a pass.                                         *)
(*                                                                         *)
(* grade.py looks for lower-case needles in the JSON text of an entry. Here *)
(* a text is the set of needles found in it; alternatives that are looked   *)
(* for together (the eleven phrases for a postal address, say) are one      *)
(* needle. Entries are only searched with any() and all(), so the two lists *)
(* of a submission are sets. A submission of another JSON shape is the      *)
(* empty one, as grade.py treats it.                                        *)
(***************************************************************************)

\* What grade.py looks for. attackerIp, secondIp, burstIp and account are the
\* planted addresses and the account of ground_truth.yaml; personalData stands
\* for the phrases of idor_scope, mechanism for those of idor_source_loc.
Needles == {"/search", "/orders", "/login", "login", "attackerIp", "secondIp",
            "burstIp", "account", "password of account", "users", "hash",
            "password", "app.py", "personalData", "mechanism", "rows stated",
            "volume stated", "sql", "inject", "sqlmap"}

Verdicts == {"confirmed_exploited", "suspected", "attempted_not_vulnerable",
             "benign", "none"}
Pocs == {"none", "not verified", "unflagged", "verified"}

\* An entry: the needles of its claim fields, of all of it, its verdict and
\* its PoC. A bare string of ruled_out has no claim, verdict or PoC.
Entry == [text : SUBSET Needles, claims : SUBSET Needles,
          verdict : Verdicts, poc : Pocs]

Submission == [incidents : SUBSET Entry, ruledOut : SUBSET Entry]

-----------------------------------------------------------------------------

Confirmed(e) == e.verdict = "confirmed_exploited"

\* A PoC that says "verified": false did not fire; one without the flag counts.
PocFired(e) == e.poc \in {"unflagged", "verified"}

Negative(e) == e.verdict \in {"attempted_not_vulnerable", "benign"}

\* The entries whose text has every needle.
Matching(entries, needles) == {e \in entries : needles \subseteq e.text}

\* Some entry has every needle of one of the sets.
AnyMatch(entries, needleSets) == \E n \in needleSets : Matching(entries, n) # {}

\* The candidates for the SQL injection and for the walk over the orders.
SqliCandidates(s) == Matching(s.incidents, {"/search", "attackerIp"})
IdorCandidates(s) == Matching(s.incidents, {"/orders", "secondIp"})

\* Required: found (some candidate), confirmed, credential exposure named,
\* located in the source, PoC fired; each by any of the candidates.
SqliSolved(s) ==
  LET cands == SqliCandidates(s) IN
  /\ \E c \in cands : Confirmed(c)
  /\ AnyMatch(cands, {{"users", "hash"}, {"users", "password"}})
  /\ AnyMatch(cands, {{"app.py"}})
  /\ \E c \in cands : PocFired(c)

IdorSolved(s) ==
  LET cands == IdorCandidates(s) IN
  /\ \E c \in cands : Confirmed(c)
  /\ AnyMatch(cands, {{"personalData"}})
  /\ AnyMatch(cands, {{"app.py", "mechanism"}})
  /\ \E c \in cands : PocFired(c)

\* The scanner burst that led nowhere: its address, or the tool with the page.
MentionsBurst(e) ==
  \/ "burstIp" \in e.text
  \/ "sqlmap" \in e.text /\ e.text \cap {"login", "/login"} # {}

\* Ruled out and not confirmed, or left among the incidents with a negative
\* verdict.
BurstTriaged(s) ==
  \/ \E e \in s.ruledOut : MentionsBurst(e) /\ ~Confirmed(e)
  \/ \E e \in s.incidents : MentionsBurst(e) /\ Negative(e)

\* Mutant: the whole entry is searched.
LoginMentioned(e) ==
  /\ Confirmed(e)
  /\ "/login" \in e.text
  /\ e.text \cap {"sql", "inject", "sqlmap"} # {}

\* A confirmed incident whose claim fields call /login injectable: the rest of
\* its text may mention the injection that gave the password.
LoginClaimed(e) ==
  /\ Confirmed(e)
  /\ "/login" \in e.claims
  /\ e.claims \cap {"sql", "inject", "sqlmap"} # {}

\* A confirmed incident must name something of the planted campaign.
InCampaign(e) ==
  e.text \cap {"/search", "/orders", "attackerIp", "secondIp", "account"} # {}

Pass(s) ==
  /\ SqliSolved(s)
  /\ IdorSolved(s)
  /\ BurstTriaged(s)
  /\ \A e \in s.incidents : ~LoginClaimed(e)
  /\ \A e \in s.incidents : Confirmed(e) => InCampaign(e)

\* The checks that are counted and never required.
Optional(s) ==
  [sqli_row_count  |-> AnyMatch(SqliCandidates(s), {{"rows stated"}}),
   idor_account    |-> AnyMatch(IdorCandidates(s), {{"account"}}),
   idor_volume     |-> AnyMatch(IdorCandidates(s), {{"volume stated"}}),
   campaign_linked |-> \/ AnyMatch(s.incidents, {{"attackerIp", "secondIp"}})
                       \/ AnyMatch(s.incidents \cup s.ruledOut, {{"password of account"}})]

-----------------------------------------------------------------------------
(* A fuller submission.                                                     *)

\* e2 says at least what e says, and claims and is judged the same.
SaysMore(e, e2) ==
  /\ e.text \subseteq e2.text
  /\ e2.claims = e.claims
  /\ e2.verdict = e.verdict
  /\ PocFired(e) => PocFired(e2)

\* s2 has, for each entry of s, one that says at least as much; and its
\* incidents are these or name the campaign and claim nothing false.
Extends(s, s2) ==
  /\ \A e \in s.incidents : \E e2 \in s2.incidents : SaysMore(e, e2)
  /\ \A e2 \in s2.incidents : \/ \E e \in s.incidents : SaysMore(e, e2)
                              \/ InCampaign(e2) /\ ~LoginClaimed(e2)
  /\ s.ruledOut \subseteq s2.ruledOut
===============================================================================

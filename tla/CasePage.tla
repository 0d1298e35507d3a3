------------------------------ MODULE CasePage ------------------------------
(***************************************************************************)
(* What the specialist reads.  The console asks for GET /review/{ref},     *)
(* translates the answer into a page (web/src/services/review/             *)
(* reviewApi.ts) and lays it out in cards (web/src/features/specialist/    *)
(* components).  The answer was read in five statements, so the page is a  *)
(* function of what review_detail had in hand when it read the last of     *)
(* them, the audit rows: it is computed here at the step that answers.     *)
(* The order and the time of rows are left out; a row is named by the      *)
(* request that wrote it.                                                  *)
(***************************************************************************)
EXTENDS ControlPlane

-----------------------------------------------------------------------------
(* The translation of the audit rows. *)

\* What the service wrote into the result column of a row: a check writes
\* the status of its rule, a decision its code.
Statuses(row) ==
  CASE row.result \in {"checked", "allegation", "out_of_scope"} ->
         {"clear", "discrepancy", "needs_evidence", "ambiguous", "out_of_scope"}
    [] row.result = "decided" -> Decision
    [] OTHER -> {row.result}

AuditResultMap == [s \in {"verified", "already_bound", "queued", "drafted",
                          "discrepancy", "stored", "duplicate"} |->
  CASE s \in {"verified", "already_bound", "queued", "drafted"} -> "ok"
    [] s = "discrepancy" -> "discrepancy"
    [] s \in {"stored", "duplicate"} -> "stored"]

\* Whatever is not known to be a success is shown as a refusal.
MapAuditResult(s) ==
  IF s \in DOMAIN AuditResultMap THEN AuditResultMap[s] ELSE "refused"

ToAuditEntry(row) ==
  [by |-> row.by, tool |-> row.action,
   badges |-> {MapAuditResult(s) : s \in Statuses(row)}]

\* The milestones of the side panel; a draft is one even when it was refused.
HistoryActions(row) ==
  CASE row.action = "draft_complaint" -> "Draft prepared"
    [] row.action = "send_to_review" /\ row.result = "queued" ->
         "Sent to review"
    [] row.action = "decide" -> "Decision"
    [] row.action = "post_call" -> "Transcript stored"
    [] row.action = "verify_session" /\ row.result = "verified" ->
         "Caller verified"
    [] OTHER -> "none"

ToCaseHistory(rows) ==
  {[by |-> a.by, event |-> HistoryActions(a)] :
     a \in {b \in rows : HistoryActions(b) # "none"}}

\* Three times that are read off the rows: here, whether there is one.
LatestAgentAt(rows) ==
  \E a \in rows : a.action \notin {"decide", "post_call"}
TranscriptStoredAt(rows) == \E a \in rows : a.action = "post_call"
DraftConfirmedAt(rows) ==
  \E a \in rows : a.action = "draft_complaint" /\ a.result = "drafted"

-----------------------------------------------------------------------------
(* toCaseView *)

\* The findings of every group of the draft that is shown.
FlattenVerifiedFindings(draft) ==
  UNION {d.evidence : d \in {e \in drafts : e.id = draft}}

\* A rule is shown when a finding cites one, and every finding does.
PickRule(findings) == findings # {}

\* Mutant: the rows of the review's own call only.
PageRowsOfCall(v) == {a \in AuditFor(v.case) : a.conv = v.conv}

PageRows(v) == AuditFor(v.case)

\* The turns listed on the page, by the delivery whose body has them: none
\* when there is no body, or one in which no turn is recognised.
ToTranscriptEntries(body) == {q \in {body} \ {None} : call[q].turns}

\* The page request r is answered with, if it reads the audit rows now.
ToCaseView(r) ==
  LET v        == reviews[call[r].review]
      findings == FlattenVerifiedFindings(mem[r].draft)
  IN [reviewRef          |-> call[r].review,
      tier               |-> v.tier,
      caseRef            |-> v.case,
      transcriptPending  |-> mem[r].body = None,
      decided            |-> mem[r].result = "decided",
      allegations        |-> mem[r].package,
      verifiedFindings   |-> findings,
      rule               |-> PickRule(findings),
      draft              |-> mem[r].draft,
      transcript         |-> ToTranscriptEntries(mem[r].body),
      audit              |-> {ToAuditEntry(a) : a \in PageRows(v)},
      caseHistory        |-> ToCaseHistory(PageRows(v)),
      endedAt            |-> LatestAgentAt(PageRows(v)),
      transcriptStoredAt |-> TranscriptStoredAt(PageRows(v)),
      draftConfirmedAt   |-> DraftConfirmedAt(PageRows(v))]

-----------------------------------------------------------------------------
(* The cards. *)

TierLabel(p) == CASE p.tier = 2 -> "TIER 2 - MANDATORY QUALIFIED"
                  [] p.tier = 1 -> "TIER 1"
                  [] p.tier = 0 -> "TIER 0"

\* Mutant: the transcript is not looked at.
TranscriptStatusBannerOpen(p) == IF p.decided THEN "Decision recorded"
                                 ELSE "Ready to decide"

TranscriptStatusBanner(p) ==
  CASE p.decided -> "Decision recorded"
    [] ~p.decided /\ p.transcriptPending -> "Decision locked"
    [] OTHER -> "Ready to decide"

\* The facts and the rule they cite, or "no verified records".
VerifiedFactsCard(p) ==
  [facts |-> p.verifiedFindings, rule |-> p.rule,
   empty |-> p.verifiedFindings = {} /\ ~p.rule]

AllegationsCard(p) == [statements |-> p.allegations,
                       empty |-> p.allegations = {}]

\* The time is the first confirmation's, the draft the latest one.
ComplaintDraftCard(p) ==
  IF p.draft = None THEN [draft |-> None, confirmedAt |-> FALSE]
  ELSE [draft |-> p.draft, confirmedAt |-> p.draftConfirmedAt]

\* The activity table and the number of refusals in its heading.
AgentActivityCard(p) ==
  [entries  |-> p.audit,
   refusals |-> {e \in p.audit : "refused" \in e.badges}]

\* The three tabs of the side panel.
CaseSidePanel(p) ==
  [transcript |-> CASE p.transcript # {} -> "turns"
                    [] p.transcript = {} /\ p.transcriptPending -> "pending"
                    [] OTHER -> "none is stored",
   history    |-> p.caseHistory,
   audit      |-> p.audit,
   rule       |-> p.rule]

-----------------------------------------------------------------------------
(* What a reader of the page may rely on, when the page is answered.       *)

Refusals == {"session_not_verified", "case_scope_violation",
             "dependency_unavailable", "not_confirmed", "invalid_tier",
             "already_queued", "verification_failed", "verification_locked",
             "already_verified", "callback_without_consent",
             "already_decided", "invalid_decision", "transcript_pending"}

\* What request q was told is on page p.
Shows(p, q) ==
  /\ mem[q].result = "queued" =>
       [by |-> q, event |-> "Sent to review"] \in CaseSidePanel(p).history
  /\ mem[q].result = "verified" =>
       [by |-> q, event |-> "Caller verified"] \in CaseSidePanel(p).history
  /\ mem[q].result = "allegation" => q \in AllegationsCard(p).statements
  /\ mem[q].result = "drafted" =>
       LET card == ComplaintDraftCard(p)
       IN card.draft # None /\ card.confirmedAt /\ card.draft \notin before[q]
  /\ (/\ mem[q].result \in {"decided", "already_decided"}
      /\ call[q].review = p.reviewRef) =>
       /\ TranscriptStatusBanner(p) = "Decision recorded"
       /\ [by |-> q, event |-> "Decision"] \in CaseSidePanel(p).history
  /\ mem[q].result \in Refusals =>
       \E e \in AgentActivityCard(p).refusals : e.by = q
  /\ q = p.reviewRef /\ mem[q].tier = 2 =>
       TierLabel(p) = "TIER 2 - MANDATORY QUALIFIED"

\* A page asked for after the service had answered somebody about its case
\* shows what was answered: the verification, the allegation, the latest
\* draft and its confirmation, the tier, the decision, every refusal.
PageKeepsUp ==
  [][\A r \in Req : DetailAudit(r) =>
       \A q \in before[r] :
         mem[q].case = ToCaseView(r).caseRef => Shows(ToCaseView(r), q)]_vars

\* Every fact shown as verified is a record finding, of a check on this case
\* that is in the activity table of the same page, although the draft and the
\* audit rows are read one after the other.
FactsTraced ==
  [][\A r \in Req : DetailAudit(r) =>
       LET p == ToCaseView(r)
       IN \A f \in VerifiedFactsCard(p).facts :
            /\ f[2] = "record" /\ call[f[1]].case = p.caseRef
            /\ \E e \in CaseSidePanel(p).audit :
                 e.by = f[1] /\ e.tool \in EvidenceTools]_vars

\* The console's lock is never looser than the server's: a page that offers
\* the decision, or shows one, is about a call whose transcript is stored, and
\* its first tab lists the turns of the very delivery that is kept.  When the
\* body of that delivery has none, the same page says that no transcript is
\* stored; it never says that one is pending.
GatesAgree ==
  [][\A r \in Req : DetailAudit(r) =>
       LET p == ToCaseView(r)
       IN TranscriptStatusBanner(p) # "Decision locked" =>
            /\ HasTranscript(reviews[p.reviewRef].conv)
            /\ p.transcript = ToTranscriptEntries(
                 transcripts[reviews[p.reviewRef].conv])
            /\ CaseSidePanel(p).transcript =
                 IF p.transcript # {} THEN "turns" ELSE "none is stored"]_vars
=============================================================================

----------------------------- MODULE CallTools -----------------------------
(***************************************************************************)
(* The eight tools the voice agent may call (app/service.py), one action   *)
(* per Store operation of each handler.                                    *)
(***************************************************************************)
EXTENDS Requests

-----------------------------------------------------------------------------
(* verify_session: read the session, compare the credentials with the      *)
(* contract, then bind the call or count a failed attempt.                 *)

\* Mutant: the one-time code is not compared.
MatchWithoutPin(k) == k.worker # None /\ CaseOf[k.worker] = k.case

Match(k) == /\ k.worker # None
            /\ k.pin
            /\ CaseOf[k.worker] = k.case

VerifyRead(r) ==
  /\ At(r, "session", {"verify_session"})
  /\ LET s == sessions[call[r].conv]
         k == call[r].case
     IN \/ s.locked /\ Answer(r, "verification_locked", k)
        \/ /\ ~s.locked /\ s.verified
           /\ Answer(r, IF s.case = k THEN "already_bound"
                        ELSE "already_verified", k)
        \/ /\ ~s.locked /\ ~s.verified
           /\ \/ Answer(r, "dependency_unavailable", k)
              \/ Go(r, IF Match(call[r]) THEN "bind" ELSE "fail_attempt",
                    mem[r])
  /\ UNCHANGED db

BindCall(r) ==
  /\ pc[r] = "bind"
  /\ Bind(call[r].conv, call[r].worker, call[r].case)
  /\ Answer(r, "verified", call[r].case)
  /\ UNCHANGED <<allegations, drafts, reviews, transcripts, audit>>

FailAttempt(r) ==
  /\ pc[r] = "fail_attempt"
  /\ CountFailure(call[r].conv)
  /\ Go(r, "fail_read", mem[r])
  /\ UNCHANGED <<allegations, drafts, reviews, transcripts, audit>>

FailRead(r) ==
  /\ pc[r] = "fail_read"
  /\ IF AttemptsSpent(call[r].conv) THEN Go(r, "lock", mem[r])
     ELSE Answer(r, "verification_failed", call[r].case)
  /\ UNCHANGED db

LockCall(r) ==
  /\ pc[r] = "lock"
  /\ LockSession(call[r].conv)
  /\ Answer(r, "verification_locked", call[r].case)
  /\ UNCHANGED <<allegations, drafts, reviews, transcripts, audit>>

-----------------------------------------------------------------------------
(* transfer_to_human. *)

TransferRead(r) ==
  /\ At(r, "session", {"transfer_to_human"})
  /\ LET k == sessions[call[r].conv].case
     IN \/ /\ call[r].callback /\ ~call[r].consent
           /\ Answer(r, "callback_without_consent", k)
        \/ /\ call[r].callback /\ call[r].consent
           /\ Go(r, "set_consent",
                 [mem[r] EXCEPT !.result = "callback", !.case = k])
        \/ /\ ~call[r].callback
           /\ Answer(r, "transfer", k)
  /\ UNCHANGED db

SetConsent(r) ==
  /\ pc[r] = "set_consent"
  /\ SetCallbackConsent(call[r].conv)
  /\ Go(r, "audit", mem[r])
  /\ UNCHANGED <<allegations, drafts, reviews, transcripts, audit>>

-----------------------------------------------------------------------------
(* The scope check every other tool starts with (_scoped).                 *)

\* Mutant: any verified caller is in scope of any case.
InScopeOfAny(r) == sessions[call[r].conv].verified

InScope(r) == /\ sessions[call[r].conv].verified
              /\ sessions[call[r].conv].case = call[r].case

RefusePeriod(r) ==
  /\ At(r, "scoped", {"check", "record_allegation"})
  /\ ~call[r].period
  /\ Answer(r, "invalid_period", None)
  /\ UNCHANGED db

OutOfScope(r) ==
  /\ pc[r] = "scoped"
  /\ call[r].tool \in {"check", "record_allegation"} => call[r].period
  /\ ~InScope(r)
  /\ Answer(r, IF sessions[call[r].conv].verified
               THEN "case_scope_violation" ELSE "session_not_verified",
            call[r].case)
  /\ UNCHANGED db

-----------------------------------------------------------------------------
(* The checks (_run): scope and worker from one read of the session, then  *)
(* the records of that worker and a pure rule, then the audit row; a rule  *)
(* may raise instead.                                                      *)

RecordsDown(r) ==
  /\ At(r, "scoped", {"check", "record_allegation"})
  /\ call[r].period /\ InScope(r)
  /\ Answer(r, "dependency_unavailable", call[r].case)
  /\ UNCHANGED db

\* Continue to the audit row with a rule's result on the bound worker.
Ruled(r, result, o) ==
  Go(r, "audit", [mem[r] EXCEPT !.result = result,
                                !.case = call[r].case,
                                !.worker = sessions[call[r].conv].worker,
                                !.tier = o.tier,
                                !.findings = o.findings])

RunCheck(r) ==
  /\ At(r, "scoped", {"check"})
  /\ call[r].period /\ InScope(r)
  /\ \E o \in Outcomes \ {None} : Ruled(r, "checked", o)
  /\ UNCHANGED db

\* timing_check finds no rule for the month, or no due date, and raises.
\* Nobody catches it: the request is answered 500 and writes no audit row.
CheckRaises(r) ==
  /\ At(r, "scoped", {"check"})
  /\ call[r].period /\ InScope(r)
  /\ None \in Outcomes
  /\ Go(r, "done", [mem[r] EXCEPT !.result = "raised"])
  /\ UNCHANGED db

\* allegation_result is always tier 2 and quotes the record if there is
\* one; a worker out of MoHRE's scope is routed at tier 1 or 2 instead.
RunAllegation(r) ==
  /\ At(r, "scoped", {"record_allegation"})
  /\ call[r].period /\ InScope(r)
  /\ \/ \E f \in {{"statement"}, {"record", "statement"}} :
          Ruled(r, "allegation", [tier |-> 2, findings |-> f])
     \/ \E t \in 1 .. 2 :
          Ruled(r, "out_of_scope", [tier |-> t, findings |-> {}])
  /\ UNCHANGED db

StoreAllegation(r) ==
  /\ pc[r] = "add_allegation"
  /\ AddAllegation(r, call[r].case)
  /\ Go(r, "done", mem[r])
  /\ UNCHANGED <<sessions, drafts, reviews, transcripts, audit>>

-----------------------------------------------------------------------------
(* draft_complaint: the body is read from two tables one after the other.  *)

EvidenceActions == {"check", "record_allegation"}

\* Mutants: unverified findings too; the checks only.
AllFindings(k, c) ==
  {e \in Evidence : \E a \in AuditFor(k) :
     /\ a.by = e[1] /\ a.conv = c
     /\ a.action \in EvidenceActions /\ e[2] \in a.findings}
CheckFindings(k, c) ==
  {e \in Evidence : \E a \in AuditFor(k) :
     /\ a.by = e[1] /\ a.conv = c
     /\ a.action = "check" /\ e[2] \in a.findings}

VerifiedFindings(k, c) ==
  {e \in Evidence :
     /\ e[2] = "record"
     /\ \E a \in AuditFor(k) : /\ a.by = e[1]
                               /\ a.conv = c
                               /\ a.action \in EvidenceActions
                               /\ e[2] \in a.findings}

DraftScoped(r) ==
  /\ At(r, "scoped", {"draft_complaint"})
  /\ InScope(r)
  /\ IF call[r].confirmed THEN Go(r, "draft_allegations", mem[r])
     ELSE Answer(r, "not_confirmed", call[r].case)
  /\ UNCHANGED db

DraftAllegations(r) ==
  /\ pc[r] = "draft_allegations"
  /\ Go(r, "draft_evidence",
        [mem[r] EXCEPT !.package = AllegationsOf(call[r].case)])
  /\ UNCHANGED db

DraftEvidence(r) ==
  /\ pc[r] = "draft_evidence"
  /\ Go(r, "create_draft",
        [mem[r] EXCEPT
           !.evidence = VerifiedFindings(call[r].case, call[r].conv)])
  /\ UNCHANGED db

StoreDraft(r) ==
  /\ pc[r] = "create_draft"
  /\ CreateDraft(r, call[r].case, mem[r].package, mem[r].evidence)
  /\ Answer(r, "drafted", call[r].case)
  /\ UNCHANGED <<sessions, allegations, reviews, transcripts, audit>>

-----------------------------------------------------------------------------
(* send_to_review: one open review per call and case, at a tier no lower   *)
(* than any the audit of this call shows.                                  *)

QueueScoped(r) ==
  /\ At(r, "scoped", {"send_to_review"})
  /\ InScope(r)
  /\ IF call[r].tier = NoTier THEN Answer(r, "invalid_tier", call[r].case)
     ELSE Go(r, "active_review", mem[r])
  /\ UNCHANGED db

QueueActive(r) ==
  /\ pc[r] = "active_review"
  /\ IF ActiveReview(call[r].case, call[r].conv)
     THEN Answer(r, "already_queued", call[r].case)
     ELSE Go(r, "floor", mem[r])
  /\ UNCHANGED db

TiersSeen(k, c) == {a.tier : a \in {b \in AuditFor(k) : b.conv = c}}

\* Mutants: the floor is ignored; the lowest is taken.
RequestedTier(t, seen) == t
LowestTier(t, seen) ==
  CHOOSE m \in seen \cup {t} : \A u \in seen \cup {t} : m <= u

\* The highest of the requested tier and the tiers seen; NoTier is lowest.
FinalTier(t, seen) ==
  CHOOSE m \in seen \cup {t} : \A u \in seen \cup {t} : u <= m

QueueFloor(r) ==
  /\ pc[r] = "floor"
  /\ Go(r, "package",
        [mem[r] EXCEPT
           !.tier = FinalTier(call[r].tier,
                              TiersSeen(call[r].case, call[r].conv))])
  /\ UNCHANGED db

QueuePackage(r) ==
  /\ pc[r] = "package"
  /\ Go(r, "create_review",
        [mem[r] EXCEPT !.package = AllegationsOf(call[r].case)])
  /\ UNCHANGED db

StoreReview(r) ==
  /\ pc[r] = "create_review"
  /\ CreateReview(r, call[r].case, call[r].conv, mem[r].tier, mem[r].package)
  /\ Answer(r, "queued", call[r].case)
  /\ UNCHANGED <<sessions, allegations, drafts, transcripts, audit>>

-----------------------------------------------------------------------------
CallStep(r) ==
  \/ VerifyRead(r) \/ BindCall(r) \/ FailAttempt(r) \/ FailRead(r)
  \/ LockCall(r) \/ TransferRead(r) \/ SetConsent(r)
  \/ RefusePeriod(r) \/ OutOfScope(r) \/ RecordsDown(r)
  \/ RunCheck(r) \/ CheckRaises(r) \/ RunAllegation(r)
  \/ StoreAllegation(r)
  \/ DraftScoped(r) \/ DraftAllegations(r) \/ DraftEvidence(r)
  \/ StoreDraft(r)
  \/ QueueScoped(r) \/ QueueActive(r) \/ QueueFloor(r) \/ QueuePackage(r)
  \/ StoreReview(r)
=============================================================================

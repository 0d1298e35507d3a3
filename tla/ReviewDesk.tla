----------------------------- MODULE ReviewDesk -----------------------------
(***************************************************************************)
(* The specialist's side of the service: the post-call webhook that stores *)
(* the transcript (app/main.py), the decision it unlocks and the review    *)
(* package the specialist reads (app/service.py).                          *)
(***************************************************************************)
EXTENDS Requests

-----------------------------------------------------------------------------
(* decide *)

ReviewMissing(r) ==
  /\ At(r, "review", {"decide", "review_detail"})
  /\ call[r].review \notin ReviewRefs
  /\ Go(r, "done", [mem[r] EXCEPT !.result = "not_found"])
  /\ UNCHANGED db

\* Mutant: the transcript is not asked for.
DecideReadUngated(r) ==
  /\ At(r, "review", {"decide"})
  /\ call[r].review \in ReviewRefs
  /\ IF reviews[call[r].review].decision # None
     THEN Answer(r, "already_decided", reviews[call[r].review].case)
     ELSE Go(r, "decide", mem[r])
  /\ UNCHANGED db

DecideRead(r) ==
  /\ At(r, "review", {"decide"})
  /\ call[r].review \in ReviewRefs
  /\ LET it == reviews[call[r].review]
     IN IF it.decision # None THEN Answer(r, "already_decided", it.case)
        ELSE IF call[r].decision = None
        THEN Answer(r, "invalid_decision", it.case)
        ELSE Go(r, "has_transcript", mem[r])
  /\ UNCHANGED db

\* Mutant: wait for the transcript instead of refusing.
DecideUnlockPolls(r) ==
  /\ pc[r] = "has_transcript"
  /\ Go(r, IF HasTranscript(reviews[call[r].review].conv) THEN "decide"
           ELSE "review", mem[r])
  /\ UNCHANGED db

DecideUnlock(r) ==
  /\ pc[r] = "has_transcript"
  /\ LET it == reviews[call[r].review]
     IN IF HasTranscript(it.conv) THEN Go(r, "decide", mem[r])
        ELSE Answer(r, "transcript_pending", it.case)
  /\ UNCHANGED db

StoreDecision(r) ==
  /\ pc[r] = "decide"
  /\ Decide(call[r].review, r, call[r].decision)
  /\ Answer(r, "decided", reviews[call[r].review].case)
  /\ UNCHANGED <<sessions, allegations, drafts, transcripts, audit>>

-----------------------------------------------------------------------------
(* review_detail: the review, its transcript, and the allegations, the      *)
(* latest draft and the audit rows of its case, each read on its own.       *)

DetailReview(r) ==
  /\ At(r, "review", {"review_detail"})
  /\ call[r].review \in ReviewRefs
  /\ Go(r, "transcript",
        [mem[r] EXCEPT
           !.result = IF reviews[call[r].review].decision = None
                      THEN "undecided" ELSE "decided"])
  /\ UNCHANGED db

DetailTranscript(r) ==
  /\ pc[r] = "transcript"
  /\ Go(r, "allegations",
        [mem[r] EXCEPT !.body = transcripts[reviews[call[r].review].conv]])
  /\ UNCHANGED db

DetailAllegations(r) ==
  /\ pc[r] = "allegations"
  /\ Go(r, "latest_draft",
        [mem[r] EXCEPT !.package = AllegationsOf(reviews[call[r].review].case)])
  /\ UNCHANGED db

\* The draft with the latest time stamp: one that no draft asked for after
\* it was answered has replaced.
LatestDrafts(k) ==
  {d \in drafts : d.case = k /\ ~ \E e \in drafts : e.case = k /\ d.id \in before[e.id]}

DetailDraft(r) ==
  /\ pc[r] = "latest_draft"
  /\ LET latest == LatestDrafts(reviews[call[r].review].case)
     IN \/ /\ latest = {}
           /\ Go(r, "audit_for", mem[r])
        \/ \E d \in latest : Go(r, "audit_for", [mem[r] EXCEPT !.draft = d.id])
  /\ UNCHANGED db

DetailAudit(r) ==
  /\ pc[r] = "audit_for"
  /\ Go(r, "done", mem[r])
  /\ UNCHANGED db

-----------------------------------------------------------------------------
(* post_call, after the signature is verified *)

StoreTranscript(r) ==
  /\ pc[r] = "save_transcript"
  /\ SaveTranscript(r, call[r].conv)
  /\ Answer(r, IF HasTranscript(call[r].conv) THEN "duplicate" ELSE "stored",
            None)
  /\ UNCHANGED <<sessions, allegations, drafts, reviews, audit>>

-----------------------------------------------------------------------------
DeskStep(r) ==
  \/ ReviewMissing(r) \/ DecideRead(r) \/ DecideUnlock(r) \/ StoreDecision(r)
  \/ DetailReview(r) \/ DetailTranscript(r) \/ DetailAllegations(r)
  \/ DetailDraft(r) \/ DetailAudit(r) \/ StoreTranscript(r)
=============================================================================

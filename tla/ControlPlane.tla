---------------------------- MODULE ControlPlane ----------------------------
(***************************************************************************)
(* The service as a whole: tool calls, webhooks and specialist requests    *)
(* interleaved at every Store operation, and process crashes.              *)
(*                                                                         *)
(* Many properties below relate two requests in real time: q precedes r    *)
(* when q had been answered before r was sent.  What a client was told     *)
(* must bind what the service does for every later request; what it does   *)
(* for two requests that overlap is a race, and the properties that the    *)
(* documents state without that proviso are the ones at the end.           *)
(***************************************************************************)
EXTENDS CallTools, ReviewDesk

vars == <<db, requestVars>>

Init == InitStore /\ InitRequests

Serve(r) == CallStep(r) \/ DeskStep(r) \/ Audit(r)

\* No request is left to send or to serve.
Finished == /\ \A r \in Req : pc[r] \in {"done", "lost"}
            /\ UNCHANGED vars

Next == \/ \E r \in Req : Arrive(r) \/ Serve(r)
        \/ Crash
        \/ Finished

Spec == Init /\ [][Next]_vars

\* A thread that can run does run; clients and crashes owe nothing.
FairSpec == Spec /\ \A r \in Req : WF_vars(Serve(r))

-----------------------------------------------------------------------------
TypeOK ==
  /\ sessions \in [Conv -> Session]
  /\ allegations \subseteq Allegation
  /\ drafts \subseteq Draft
  /\ reviews \in [Req -> Review \cup {None}]
  /\ transcripts \in [Conv -> Req \cup {None}]
  /\ audit \subseteq AuditRow
  /\ call \in [Req -> Call \cup {None}]
  /\ pc \in [Req -> Label \cup {"idle", "done", "lost"}]
  /\ mem \in [Req -> Memory]
  /\ before \in [Req -> SUBSET Req]
  /\ crashes \in Nat

-----------------------------------------------------------------------------
(* Vocabulary of the properties. *)

\* r carries a call of one of these tools.
Is(r, tools) == call[r] # None /\ call[r].tool \in tools

Verifies(r, c) == Is(r, {"verify_session"}) /\ call[r].conv = c

SameReview(d, e) == /\ Is(d, {"decide"})
                    /\ Is(e, {"decide"})
                    /\ call[d].review = call[e].review

\* q and r are about one case on one call.
SameScope(q, r) == /\ call[q].conv = call[r].conv
                   /\ call[q].case = call[r].case

\* Worker w proved on call c who they are.
Proved(c, w) ==
  \/ w = Bound[c]
  \/ \E r \in Req : /\ Verifies(r, c) /\ call[r].worker = w
                    /\ call[r].pin /\ call[r].case = CaseOf[w]

EvidenceTools == {"check", "record_allegation"}

-----------------------------------------------------------------------------
(* Verification and scope.                                                 *)

\* Invariant 2 of the README, as far as the code keeps it: whatever the
\* order in which verify_session threads bind a call, the worker it is bound
\* to gave that worker's own id, case and one-time code on that very call.
BoundByCredentials ==
  \A c \in Conv : sessions[c].verified =>
    LET w == sessions[c].worker
    IN w \in Worker /\ CaseOf[w] = sessions[c].case /\ Proved(c, w)

\* No tool answers about a case from another worker's records: the worker
\* _scoped returns owns the case the call asked about, even when the call is
\* bound again between the scope check and the answer.
OwnRecordsOnly ==
  \A r \in Req : mem[r].worker # None =>
    CaseOf[mem[r].worker] = call[r].case

\* A review, a draft or an allegation is only ever filed for a case whose
\* own worker was verified on the call that filed it.
CaseworkProved ==
  \A r \in Req :
    (\/ r \in ReviewRefs
     \/ \E d \in drafts : d.id = r
     \/ \E a \in allegations : a.id = r)
    => \E w \in Worker : CaseOf[w] = call[r].case /\ Proved(call[r].conv, w)

\* Once a client was told its call is verified, no later verify_session
\* binds that call: it is already bound or refused.
BindOnce ==
  \A r \in Req : \A q \in before[r] :
    (/\ Is(q, {"verify_session"}) /\ Verifies(r, call[q].conv)
     /\ mem[q].result = "verified")
    => mem[r].result # "verified"

\* After two refused attempts have been answered the call is locked out:
\* every later verify_session is refused, right credentials or not.
TwoFailuresLock ==
  \A r \in Req : \A p, q \in before[r] :
    (/\ p # q
     /\ Is(p, {"verify_session"})
     /\ Verifies(q, call[p].conv) /\ Verifies(r, call[p].conv)
     /\ {mem[p].result, mem[q].result}
          \subseteq {"verification_failed", "verification_locked"})
    => mem[r].result \in {"none", "verification_locked"}

\* Once a client was told its call is locked, it stays locked.
LockoutHolds ==
  \A r \in Req : \A q \in before[r] :
    (/\ Is(q, {"verify_session"}) /\ Verifies(r, call[q].conv)
     /\ mem[q].result = "verification_locked")
    => mem[r].result \in {"none", "verification_locked"}

-----------------------------------------------------------------------------
(* Evidence, allegations and tiers.                                        *)

\* Invariant 3: the evidence of a draft is what this call's own checks found
\* in the records; nothing the caller said, nothing of another call or case.
EvidenceIsRecords ==
  \A d \in drafts : \A e \in d.evidence :
    /\ e[2] = "record"
    /\ Is(e[1], EvidenceTools)
    /\ SameScope(e[1], d.id)
    /\ pc[e[1]] # "lost" => "record" \in mem[e[1]].findings

\* A draft leaves out no record finding the worker had been told of before
\* asking for the draft.
EvidenceComplete ==
  \A d \in drafts : \A q \in before[d.id] :
    (/\ Is(q, EvidenceTools) /\ SameScope(q, d.id)
     /\ "record" \in mem[q].findings)
    => <<q, "record">> \in d.evidence

\* What a worker was told is recorded is in every draft and every review
\* package asked for afterwards.
AllegationsKept ==
  \A r \in Req : \A q \in before[r] :
    (mem[q].result = "allegation" /\ Is(r, {"draft_complaint", "send_to_review"})
     /\ call[q].case = call[r].case)
    => /\ r \in ReviewRefs => q \in reviews[r].package
       /\ \A d \in drafts : d.id = r => q \in d.allegations

\* Invariant 5: a review is queued no lower than the tier asked for and than
\* every tier answered on this call and case before it was asked for.
TierFloor ==
  \A v \in ReviewRefs :
    /\ reviews[v].tier >= call[v].tier
    /\ \A q \in before[v] :
         (Is(q, EvidenceTools \cup {"send_to_review"}) /\ SameScope(q, v))
         => reviews[v].tier >= mem[q].tier

-----------------------------------------------------------------------------
(* Reviews and decisions.                                                  *)

\* The human gate: no review is decided before the transcript of its call is
\* stored.
DecisionNeedsTranscript ==
  \A v \in ReviewRefs :
    reviews[v].decision # None => transcripts[reviews[v].conv] # None

\* Once a specialist was told a review is decided, no later request decides
\* it again.
DecideOnce ==
  \A e \in Req : \A d \in before[e] :
    (SameReview(d, e) /\ mem[d].result = "decided")
    => mem[e].result # "decided"

-----------------------------------------------------------------------------
(* Deliveries, audit, progress.                                            *)

\* However often and however concurrently the post-call webhook is
\* delivered, the delivery that was stored is the one that is kept.
FirstDeliveryKept ==
  \A r \in Req : (Is(r, {"post_call"}) /\ mem[r].result = "stored")
                 => transcripts[call[r].conv] = r

\* Invariant 6, as far as the code keeps it: every answered request has left
\* one audit row, which says what was answered, but for a read, a decision on
\* an unknown review, and a check whose rule raised (a 500, which leaves no
\* row at all); and no allegation is stored without one.
AuditTrail ==
  /\ \A r \in Req :
       (/\ pc[r] = "done" /\ mem[r].result # "not_found"
        /\ ~Is(r, {"review_detail"})
        /\ ~(Is(r, {"check"}) /\ mem[r].result = "raised"))
       => /\ \E a \in audit : a.by = r
          /\ \A a \in audit : a.by = r =>
               a.result = mem[r].result /\ a.action = call[r].tool
  /\ \A g \in allegations : \E a \in audit : a.by = g.id

\* Every request sent is answered, unless the process dies while serving it.
EveryCallAnswered ==
  \A r \in Req : pc[r] # "idle" ~> pc[r] \in {"done", "lost"}

-----------------------------------------------------------------------------
(* The service as an implementation of HumanGate.                          *)

Gate == INSTANCE HumanGate WITH
  Item <- Req, Topic <- Case, Channel <- Conv, Priority <- Tier,
  Verdict <- Decision, Nil <- None,
  item <- [v \in Req |->
            IF reviews[v] = None THEN None
            ELSE [about |-> reviews[v].case, channel |-> reviews[v].conv,
                  priority |-> reviews[v].tier,
                  verdict |-> reviews[v].decision]],
  readable <- {c \in Conv : transcripts[c] # None}

\* None is not the entry of a review that is in the queue.
ASSUME EntryAssumption == None \notin Gate!Entry

\* Two requests overlap when neither was answered before the other was sent;
\* the death of the process ends every request it finds in flight.
Overlap(q, r) == /\ q # r /\ {pc[q], pc[r]} \cap {"idle", "lost"} = {}
                 /\ q \notin before[r] /\ r \notin before[q]

\* Two decisions on one review, or two calls of send_to_review for one case
\* and call: the requests that race for the same row.
Contend(q, r) ==
  \/ SameReview(q, r)
  \/ Is(q, {"send_to_review"}) /\ Is(r, {"send_to_review"}) /\ SameScope(q, r)

\* A step of a request that overlaps with one it contends with.
RacingStep == \E q, r \in Req : /\ Contend(q, r) /\ Overlap(q, r)
                               /\ pc'[q] # pc[q]

\* But for those steps the review table is a HumanGate: one open item per
\* case and call, one verdict per item, given with the transcript stored.
KeepsGate ==
  Gate!GateInit /\ [][UNCHANGED Gate!gateVars \/ Gate!GateNext \/ RacingStep]_Gate!gateVars

-----------------------------------------------------------------------------
(* What the repository's documents say without the proviso that requests   *)
(* do not overlap and that no request is cut short.                        *)

\* "each review item is decided exactly once" (docs/adr/D8, line 8).
DecidedExactlyOnce ==
  \A d, e \in Req :
    (d # e /\ SameReview(d, e))
    => ~(mem[d].result = "decided" /\ mem[e].result = "decided")

\* "One call, one worker, one case" (README.md, line 44): a call bound to a
\* case is never bound to another.
OneCallOneCase ==
  [][\A c \in Conv : sessions[c].verified => sessions'[c].case = sessions[c].case]_vars
=============================================================================

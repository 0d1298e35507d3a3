----------------------------- MODULE Desk_proofs -----------------------------
(***************************************************************************)
(* The specialist's desk: the review table as an implementation of         *)
(* HumanGate, and the page the specialist reads.                           *)
(***************************************************************************)
EXTENDS Casework_proofs, CasePage

-----------------------------------------------------------------------------
(***************************************************************************)
(* The service implements HumanGate, but for the steps of requests that    *)
(* race for one row.  What has to be shown is that those steps are the     *)
(* only exception: a handler that has looked at the review table and finds *)
(* it changed when it writes was overlapped by the request that changed    *)
(* it, and that request is still there to be named.                        *)
(***************************************************************************)

\* A review is for the case and call of the request it is named after.
Queued ==
  \A v \in ReviewRefs : /\ Is(v, {"send_to_review"})
                        /\ reviews[v].case = call[v].case
                        /\ reviews[v].conv = call[v].conv

\* A handler past the check of already_decided, whose review is decided now,
\* was overtaken by the request that decided it.
DecidersRace ==
  \A r \in Req :
    (pc[r] \in {"has_transcript", "decide"} /\ Target(r).decision # None) =>
      \E d \in Req : /\ d # r /\ SameReview(d, r)
                     /\ pc[d] \in Settled /\ d \notin before[r]

\* A handler past the check of already_queued was overtaken by the request of
\* every review of its case and call that is open.
QueuersRace ==
  \A r \in Req : pc[r] \in {"floor", "package", "create_review"} =>
    \A j \in OpenReviews(call[r].case, call[r].conv) :
      j # r /\ pc[j] \in Settled /\ j \notin before[r]

RaceInv == Queued /\ DecidersRace /\ QueuersRace

LEMMA SettledStays ==
  ASSUME Inv, Inv', NEW r \in Req, Serve(r), NEW q \in Req, pc[q] \in Settled
  PROVE  pc'[q] \in Settled
<1>1. CASE q = r
  <2>1. Audit(r) \/ StoreAllegation(r)
    BY <1>1, ServeEdges DEF CalleeEdges, Settled, Label
  <2>. QED  BY <1>1, <2>1, Lands DEF Audit, StoreAllegation, Settled
<1>2. CASE q # r
  BY <1>2, ServeMoves, MovesFacts
<1>. QED  BY <1>1, <1>2

LEMMA QueueRequest ==
  ASSUME Inv, NEW r \in Req, StoreReview(r)
  PROVE  /\ Is(r, {"send_to_review"}) /\ call[r].case \in Case
         /\ call[r].conv \in Conv /\ mem[r].tier \in Tier
<1>1. call[r] \in QueueCall /\ mem[r].tier \in Tier
  BY DEF StoreReview, Inv, ShapeOK, Shape
<1>. QED  BY <1>1, CallFields, CallsAssumption DEF Is, Call

LEMMA DecideRequest ==
  ASSUME Inv, NEW r \in Req, pc[r] \in {"has_transcript", "decide"}
  PROVE  /\ Is(r, {"decide"}) /\ call[r].review \in Req
         /\ call[r].decision \in Decision /\ Target(r) \in Review
<1>1. /\ call[r] \in DecideCall /\ call[r].decision \in Decision
      /\ reviews[call[r].review] \in Review
  BY DEF Inv, ShapeOK, Shape
<1>. QED  BY <1>1, CallFields, CallsAssumption DEF Is, Call, Target

LEMMA RaceServe ==
  ASSUME Inv, Inv', GateInv, HistoryInv, RaceInv, NEW r \in Req, Serve(r)
  PROVE  RaceInv'
<1>1. CalleeEdges(r) /\ pc[r] \in Label
  BY ServeEdges DEF CalleeEdges
<1>2. /\ \A q \in Req : q # r => pc'[q] = pc[q] /\ mem'[q] = mem[q]
      /\ call' = call /\ before' = before
  BY ServeMoves, MovesFacts
<1>3. \A x \in Req : r \notin before[x]
  BY <1>1 DEF HistoryInv, BeforeDone, Label
<1>4. StoreReview(r) =>
        /\ reviews[r] = None /\ pc'[r] = "audit"
        /\ reviews' = [reviews EXCEPT ![r] =
             [case |-> call[r].case, conv |-> call[r].conv,
              tier |-> mem[r].tier, package |-> mem[r].package,
              decision |-> None, decidedBy |-> None]]
  BY Lands DEF StoreReview, CreateReview, GateInv, ReviewsFresh
<1>5. Queued'
  <2>1. ASSUME NEW v \in Req, reviews'[v] # None
        PROVE  /\ Is(v, {"send_to_review"})
               /\ reviews'[v].case = call[v].case
               /\ reviews'[v].conv = call[v].conv
    <3>1. CASE reviews[v] # None
      BY <3>1, ReviewsStable DEF RaceInv, Queued, ReviewRefs
    <3>2. CASE reviews[v] = None
      <4>1. v = r /\ StoreReview(r)
        BY <2>1, <3>2, ReviewBody
      <4>. QED  BY <1>4, <4>1, QueueRequest DEF Inv, TypeOK
    <3>. QED  BY <3>1, <3>2
  <2>. QED  BY <1>2, <2>1 DEF Queued, ReviewRefs, Is
<1>6. DecidersRace'
  <2>1. ASSUME NEW x \in Req, pc'[x] \in {"has_transcript", "decide"},
               Target(x)'.decision # None
        PROVE  \E d \in Req : /\ d # x /\ SameReview(d, x)
                              /\ pc'[d] \in Settled /\ d \notin before[x]
    <3>1. CASE /\ pc[x] \in {"has_transcript", "decide"}
               /\ Target(x).decision # None
      BY <3>1, SettledStays DEF RaceInv, DecidersRace
    <3>2. CASE /\ pc[x] \in {"has_transcript", "decide"}
               /\ Target(x).decision = None
      <4>1. Target(x) \in Review /\ call[x].review \in Req /\ Is(x, {"decide"})
        BY <3>2, DecideRequest
      <4>2. StoreDecision(r) /\ call[r].review = call[x].review
        <5>1. ~StoreReview(r)
          BY <1>2, <1>4, <2>1, <3>2, <4>1, NoneAssumption
             DEF Target, Inv, TypeOK
        <5>2. reviews' # reviews
          BY <1>2, <2>1, <3>2 DEF Target
        <5>3. StoreDecision(r)
          BY <5>1, <5>2, ServeWrites
        <5>. QED  BY <1>2, <2>1, <3>2, <4>1, <5>3
                  DEF StoreDecision, Decide, Target, Inv, TypeOK
      <4>3. pc[r] = "decide" /\ pc'[r] = "audit"
        BY <4>2, Lands DEF StoreDecision
      <4>4. r # x /\ SameReview(r, x)
        BY <2>1, <4>1, <4>2, <4>3, DecideRequest DEF SameReview
      <4>. QED  BY <1>3, <4>3, <4>4 DEF Settled
    <3>3. CASE pc[x] \notin {"has_transcript", "decide"}
      <4>1. x = r /\ DecideRead(r)
        BY <1>1, <1>2, <2>1, <3>3 DEF CalleeEdges, DecideUnlock
      <4>2. Target(r).decision = None /\ reviews' = reviews
        BY <2>1, <4>1, Lands DEF DecideRead, Target, db
      <4>. QED  BY <1>2, <2>1, <4>1, <4>2 DEF Target
    <3>. QED  BY <3>1, <3>2, <3>3
  <2>. QED  BY <1>2, <2>1 DEF DecidersRace, SameReview, Is
<1>7. QueuersRace'
  <2>1. ASSUME NEW x \in Req,
               pc'[x] \in {"floor", "package", "create_review"},
               NEW j \in Req, reviews'[j] # None,
               reviews'[j].case = call[x].case,
               reviews'[j].conv = call[x].conv, reviews'[j].decision = None
        PROVE  j # x /\ pc'[j] \in Settled /\ j \notin before[x]
    <3>1. CASE reviews[j] # None
      <4>1. j \in OpenReviews(call[x].case, call[x].conv)
        BY <2>1, <3>1, ReviewsStable DEF OpenReviews, ReviewRefs
      <4>2. CASE pc[x] \in {"floor", "package", "create_review"}
        BY <4>1, <4>2, SettledStays DEF RaceInv, QueuersRace
      <4>3. CASE pc[x] \notin {"floor", "package", "create_review"}
        <5>1. x = r /\ QueueActive(r)
          BY <1>1, <1>2, <2>1, <4>3 DEF CalleeEdges, QueueFloor, QueuePackage
        <5>2. ~ActiveReview(call[r].case, call[r].conv)
          BY <2>1, <5>1, Lands DEF QueueActive
        <5>. QED  BY <4>1, <5>1, <5>2 DEF ActiveReview
      <4>. QED  BY <4>2, <4>3
    <3>2. CASE reviews[j] = None
      <4>1. j = r /\ StoreReview(r)
        BY <2>1, <3>2, ReviewBody
      <4>. QED  BY <1>3, <1>4, <2>1, <4>1 DEF Settled
    <3>. QED  BY <3>1, <3>2
  <2>. QED  BY <1>2, <2>1 DEF QueuersRace, OpenReviews, ReviewRefs
<1>. QED  BY <1>5, <1>6, <1>7 DEF RaceInv

LEMMA RaceInvAlways == Spec => []RaceInv
<1>1. Init => RaceInv
  BY DEF Init, InitStore, InitRequests, RaceInv, Queued, DecidersRace,
     QueuersRace, ReviewRefs
<1>2. /\ Inv /\ Inv' /\ GateInv /\ ScopeInv /\ HistoryInv /\ RaceInv
      /\ [Next]_vars
      => RaceInv'
  <2> SUFFICES ASSUME Inv, Inv', GateInv, ScopeInv, HistoryInv, RaceInv,
                      [Next]_vars
               PROVE  RaceInv'
    OBVIOUS
  <2>1. ASSUME NEW r \in Req, Arrive(r)
        PROVE  RaceInv'
    <3>1. /\ pc[r] = "idle" /\ ~Filed(r) /\ reviews' = reviews
          /\ pc'[r] \in {"session", "review", "save_transcript", "scoped"}
          /\ \A q \in Req : q # r =>
               /\ pc'[q] = pc[q] /\ call'[q] = call[q]
               /\ before'[q] = before[q]
      BY <2>1, ArriveFacts DEF db
    <3>2. r \notin ReviewRefs
      BY <3>1 DEF Filed
    <3>3. Queued'
      BY <3>1, <3>2 DEF RaceInv, Queued, Is, ReviewRefs
    <3>4. DecidersRace'
      BY <3>1 DEF RaceInv, DecidersRace, SameReview, Is, Settled, Target
    <3>5. QueuersRace'
      BY <3>1, <3>2 DEF RaceInv, QueuersRace, OpenReviews, ReviewRefs, Settled
    <3>. QED  BY <3>3, <3>4, <3>5 DEF RaceInv
  <2>2. CASE Crash
    <3>1. /\ UNCHANGED <<reviews, call, before>>
          /\ \A q \in Req : \/ pc'[q] = pc[q]
                            \/ pc[q] \in Label /\ pc'[q] = "lost"
      BY <2>2, CrashFacts DEF db
    <3>2. \A q \in Req : pc'[q] = "lost" \/ pc[q] \notin Label
      BY <2>2 DEF Crash, InFlight
    <3>. QED  BY <3>1, <3>2 DEF RaceInv, Queued, Is, ReviewRefs,
              DecidersRace, QueuersRace, Label
  <2>3. CASE UNCHANGED vars
    BY <2>3 DEF vars, db, requestVars, RaceInv, Queued, DecidersRace,
       QueuersRace, SameReview, Is, OpenReviews, ReviewRefs, Target
  <2>. QED  BY <2>1, <2>2, <2>3, RaceServe DEF Next, Finished
<1>. QED  BY <1>1, <1>2, InvAlways, GateInvAlways, ScopeInvAlways,
             HistoryInvAlways, PTL DEF Spec

-----------------------------------------------------------------------------
(* Each operation that writes a table HumanGate sees is a step of it. *)

LEMMA StoreReviewKeeps ==
  ASSUME Inv, Inv', GateInv, HistoryInv, RaceInv, NEW r \in Req,
         Serve(r), StoreReview(r)
  PROVE  Gate!GateNext \/ RacingStep
<1>1. reviews[r] = None /\ pc[r] = "create_review" /\ pc'[r] = "audit"
  BY Lands DEF StoreReview, GateInv, ReviewsFresh
<1>2. CASE \E j \in Req : j \in OpenReviews(call[r].case, call[r].conv)
  <2>1. PICK j \in Req : j \in OpenReviews(call[r].case, call[r].conv)
    BY <1>2
  <2>2. j # r /\ pc[j] \in Settled /\ j \notin before[r]
    BY <1>1, <2>1 DEF RaceInv, QueuersRace
  <2>3. /\ Is(j, {"send_to_review"}) /\ reviews[j].case = call[j].case
        /\ reviews[j].conv = call[j].conv
    BY <2>1 DEF RaceInv, Queued, OpenReviews
  <2>4. Contend(r, j)
    BY <2>1, <2>3, QueueRequest DEF Contend, SameScope, OpenReviews
  <2>5. Overlap(r, j)
    BY <1>1, <2>2 DEF Overlap, Settled, HistoryInv, BeforeDone
  <2>. QED  BY <1>1, <2>4, <2>5 DEF RacingStep
<1>3. CASE ~ \E j \in Req : j \in OpenReviews(call[r].case, call[r].conv)
  <2> DEFINE k == call[r].case
             c == call[r].conv
             row == [case |-> k, conv |-> c, tier |-> mem[r].tier,
                     package |-> mem[r].package, decision |-> None,
                     decidedBy |-> None]
             entry == [about |-> k, channel |-> c,
                       priority |-> mem[r].tier, verdict |-> None]
             item(rs) == [v \in Req |->
                            IF rs[v] = None THEN None
                            ELSE [about |-> rs[v].case,
                                  channel |-> rs[v].conv,
                                  priority |-> rs[v].tier,
                                  verdict |-> rs[v].decision]]
  <2>1. /\ reviews' = [reviews EXCEPT ![r] = row]
        /\ transcripts' = transcripts
    BY DEF StoreReview, CreateReview
  <2>2. reviews'[r] = row /\ reviews'[r] # None
    <3>1. mem[r] \in Memory /\ k \in Case /\ c \in Conv /\ mem[r].tier \in Tier
      BY QueueRequest DEF Inv, TypeOK
    <3>2. row \in Review
      BY <3>1 DEF Memory, Review
    <3>. QED  BY <2>1, <3>2, NoneAssumption DEF Inv, TypeOK
  <2>3. item(reviews') = [item(reviews) EXCEPT ![r] = entry]
    BY <2>1, <2>2 DEF Inv, TypeOK
  <2>4. ~ \E j \in Req : /\ Gate!IsOpen(j) /\ item(reviews)[j].about = k
                         /\ item(reviews)[j].channel = c
    BY <1>3 DEF Gate!IsOpen, OpenReviews, ReviewRefs
  <2>5. k \in Case /\ c \in Conv /\ mem[r].tier \in Tier
    BY QueueRequest
  <2>6. \E t \in Case, d \in Conv, p \in Tier :
          /\ ~ \E j \in Req : /\ Gate!IsOpen(j) /\ item(reviews)[j].about = t
                            /\ item(reviews)[j].channel = d
          /\ item(reviews') = [item(reviews) EXCEPT ![r] =
               [about |-> t, channel |-> d, priority |-> p, verdict |-> None]]
    <3> HIDE DEF item
    <3>. QED  BY <2>3, <2>4, <2>5
  <2>7. item(reviews)[r] = None
    BY <1>1
  <2>8. Gate!Enqueue(r)
    BY <2>1, <2>6, <2>7, Zenon DEF Gate!Enqueue
  <2>. QED  BY <2>8 DEF Gate!GateNext
<1>. QED  BY <1>2, <1>3

LEMMA StoreDecisionKeeps ==
  ASSUME Inv, Inv', GateInv, HistoryInv, RaceInv, NEW r \in Req,
         Serve(r), StoreDecision(r)
  PROVE  Gate!GateNext \/ RacingStep
\* A name for the review that is the same before and after the step.
<1>0. PICK v \in Req : v = call[r].review
  BY DecideRequest DEF StoreDecision
<1>1. /\ pc[r] = "decide" /\ pc'[r] = "audit" /\ transcripts' = transcripts
      /\ Target(r) \in Review /\ call[r].decision \in Decision
      /\ Is(r, {"decide"})
  BY Lands, DecideRequest DEF StoreDecision
<1>2. CASE Target(r).decision # None
  <2>1. PICK d \in Req : /\ d # r /\ SameReview(d, r)
                         /\ pc[d] \in Settled /\ d \notin before[r]
    BY <1>1, <1>2 DEF RaceInv, DecidersRace
  <2>2. Contend(r, d)
    BY <2>1 DEF Contend, SameReview
  <2>3. Overlap(r, d)
    BY <1>1, <2>1 DEF Overlap, Settled, HistoryInv, BeforeDone
  <2>. QED  BY <1>1, <2>2, <2>3 DEF RacingStep
<1>3. CASE Target(r).decision = None
  <2> DEFINE ruled == [reviews[v] EXCEPT !.decision = call[r].decision,
                                         !.decidedBy = r]
             shown(it) == [about |-> it.case, channel |-> it.conv,
                           priority |-> it.tier, verdict |-> it.decision]
             item(rs) == [w \in Req |-> IF rs[w] = None THEN None
                          ELSE [about |-> rs[w].case, channel |-> rs[w].conv,
                                priority |-> rs[w].tier,
                                verdict |-> rs[w].decision]]
  <2>1. reviews[v] \in Review /\ reviews[v] # None
    BY <1>0, <1>1, NoneAssumption DEF Target
  <2>2. ruled \in Review
    BY <1>0, <1>1, <2>1 DEF Review
  <2>3. reviews' = [reviews EXCEPT ![v] = ruled] /\ ruled # None
    BY <1>0, <1>1, <2>1, <2>2, NoneAssumption
       DEF StoreDecision, Decide, Inv, TypeOK
  <2>4. shown(ruled) = [shown(reviews[v]) EXCEPT !.verdict = call[r].decision]
    BY <2>1 DEF Review
  <2>5. reviews'[v] = ruled /\ \A w \in Req : w # v => reviews'[w] = reviews[w]
    BY <1>0, <1>1, <2>3 DEF Inv, TypeOK
  <2> HIDE DEF ruled
  <2>6. /\ item(reviews)[v] = shown(reviews[v])
        /\ item(reviews')[v] = shown(ruled)
        /\ \A w \in Req : w # v => item(reviews')[w] = item(reviews)[w]
    BY <1>0, <1>1, <2>1, <2>3, <2>5
  <2>7. item(reviews') = [item(reviews) EXCEPT ![v].verdict = call[r].decision]
    <3>1. /\ item(reviews) = [w \in Req |-> item(reviews)[w]]
          /\ item(reviews') = [w \in Req |-> item(reviews')[w]]
      OBVIOUS
    <3> HIDE DEF item, shown
    <3>. QED  BY <1>0, <1>1, <2>4, <2>6, <3>1
  <2>8. shown(reviews[v]) \in Gate!Entry
    BY <2>1 DEF Review, Gate!Entry
  <2>9. item(reviews)[v] # None /\ item(reviews)[v].verdict = None
    BY <1>0, <1>3, <2>6, <2>8, EntryAssumption DEF Target
  <2>10. item(reviews)[v].channel \in {c \in Conv : transcripts[c] # None}
    <3>1. reviews[v].conv \in Conv /\ transcripts[reviews[v].conv] # None
      BY <1>0, <1>1, <2>1 DEF GateInv, Unlocked, Target, Review
    <3>. QED  BY <2>6, <3>1
  <2>11. \E d \in Decision :
           item(reviews') = [item(reviews) EXCEPT ![v].verdict = d]
    BY <1>0, <1>1, <2>7
  <2>12. Gate!Rule(v)
    BY <1>0, <1>1, <2>9, <2>10, <2>11, Zenon DEF Gate!Rule, Gate!IsOpen
  <2>. QED  BY <2>12 DEF Gate!GateNext
<1>. QED  BY <1>2, <1>3

LEMMA StoreTranscriptKeeps ==
  ASSUME Inv, NEW r \in Req, StoreTranscript(r)
  PROVE  UNCHANGED Gate!gateVars \/ Gate!GateNext
<1>0. PICK c \in Conv : c = call[r].conv
  BY CallFields DEF StoreTranscript, Inv, ShapeOK, Shape
<1>1. reviews' = reviews
  BY DEF StoreTranscript
<1>2. CASE HasTranscript(c)
  BY <1>0, <1>1, <1>2 DEF StoreTranscript, SaveTranscript, Gate!gateVars
<1>3. CASE ~HasTranscript(c)
  <2>1. transcripts' = [transcripts EXCEPT ![c] = r] /\ r # None
    BY <1>0, <1>3, ConstantsAssumption DEF StoreTranscript, SaveTranscript
  <2>2. {d \in Conv : transcripts'[d] # None}
          = {d \in Conv : transcripts[d] # None} \cup {c}
    BY <1>0, <1>1, <2>1 DEF Inv, TypeOK
  <2>3. Gate!Publish(c)
    BY <1>0, <1>1, <2>2 DEF Gate!Publish
  <2>. QED  BY <2>3 DEF Gate!GateNext
<1>. QED  BY <1>2, <1>3

\* The review table and the transcripts are a HumanGate, but for the steps of
\* two decisions on one review, or two sends of one case and call, that
\* overlap: one open item per case and call, and one verdict per item, given
\* with the transcript stored.
THEOREM GateKept == Spec => KeepsGate
<1>1. Init => Gate!GateInit
  <2> SUFFICES ASSUME Init
               PROVE  Gate!GateInit
    OBVIOUS
  <2>1. /\ \A v \in Req : reviews[v] = None
        /\ \A c \in Conv : transcripts[c] = None
    BY DEF Init, InitStore
  <2>. QED  BY <2>1 DEF Gate!GateInit
<1>2. /\ Inv /\ Inv' /\ GateInv /\ HistoryInv /\ RaceInv /\ [Next]_vars
      => (UNCHANGED Gate!gateVars \/ Gate!GateNext \/ RacingStep)
  <2> SUFFICES ASSUME Inv, Inv', GateInv, HistoryInv, RaceInv, [Next]_vars
               PROVE  UNCHANGED Gate!gateVars \/ Gate!GateNext \/ RacingStep
    OBVIOUS
  <2>1. UNCHANGED <<reviews, transcripts>> => UNCHANGED Gate!gateVars
    BY DEF Gate!gateVars
  <2>2. ASSUME NEW r \in Req, Serve(r)
        PROVE  UNCHANGED Gate!gateVars \/ Gate!GateNext \/ RacingStep
    <3>1. \/ StoreReview(r) \/ StoreDecision(r) \/ StoreTranscript(r)
          \/ UNCHANGED <<reviews, transcripts>>
      BY <2>2, ServeWrites
    <3>. QED  BY <2>1, <2>2, <3>1, StoreReviewKeeps, StoreDecisionKeeps,
                 StoreTranscriptKeeps
  <2>3. ASSUME NEW r \in Req, Arrive(r)
        PROVE  UNCHANGED <<reviews, transcripts>>
    BY <2>3 DEF Arrive, db
  <2>4. Crash \/ UNCHANGED vars => UNCHANGED <<reviews, transcripts>>
    BY DEF Crash, vars, db
  <2>. QED  BY <2>1, <2>2, <2>3, <2>4 DEF Next, Finished
<1>. QED  BY <1>1, <1>2, InvAlways, GateInvAlways, HistoryInvAlways,
             RaceInvAlways, PTL DEF Spec, KeepsGate

-----------------------------------------------------------------------------
(***************************************************************************)
(* The page.  review_detail reads five tables one after the other, so what *)
(* the page says of an answered request is settled at five points of time. *)
(* At each of them the table holds what was answered before the page was   *)
(* asked for (AnswersTrue, DraftsInv, TierTold), and what has been read is *)
(* still true when the last table is (ReadSoFar): rows are only added,     *)
(* a decision and a transcript are never taken back, and the draft that    *)
(* was read is not an earlier one than any that was answered before.       *)
(***************************************************************************)

\* An answer names the tool that gives it, and the table it is about says so.
AnswersTrue ==
  \A q \in Req :
    /\ mem[q].result \in {"queued", "verified", "drafted", "allegation",
                          "already_decided"} => pc[q] \in Settled
    /\ mem[q].result = "queued" => Is(q, {"send_to_review"})
    /\ mem[q].result = "verified" => Is(q, {"verify_session"})
    /\ mem[q].result = "drafted" =>
         /\ Is(q, {"draft_complaint"})
         /\ \E d \in drafts : d.id = q /\ d.case = mem[q].case
    /\ mem[q].result = "allegation" => mem[q].case = call[q].case
    /\ mem[q].result = "already_decided" =>
         Is(q, {"decide"}) /\ Target(q) # None /\ Target(q).decision # None
    /\ mem[q].result = "decided" => Is(q, {"decide", "review_detail"})

\* The check that evidence e quotes is in the audit trail of case k.
Sourced(e, k) == \E a \in audit : /\ a.by = e[1] /\ a.case = k
                                  /\ a.action \in EvidenceTools

DraftsInv ==
  /\ \A d \in drafts : d.case = call[d.id].case
  /\ \A d \in drafts : \A e \in d.evidence : Sourced(e, call[d.id].case)
  /\ \A r \in Req : pc[r] = "create_draft" =>
       \A e \in mem[r].evidence : Sourced(e, call[r].case)
  /\ \A d \in drafts : LatestDrafts(d.case) # {}

\* The tier a review was queued at is the one its request answered.
TierTold == \A v \in ReviewRefs :
  pc[v] = "lost" \/ mem[v].tier = reviews[v].tier

\* The labels of review_detail after it found its review.
Reading == {"transcript", "allegations", "latest_draft", "audit_for"}

ReadersAlone ==
  \A r \in Req :
    /\ Is(r, {"review_detail"}) =>
         /\ pc[r] \in Reading \cup {"review", "done", "lost"}
         /\ mem[r].case = None
         /\ pc[r] \notin {"audit_for", "done"} => mem[r].draft = None
    /\ pc[r] \in Reading => Is(r, {"review_detail"}) /\ Target(r) # None

\* q was told that the review r reads is decided; that an allegation on its
\* case is recorded; that a draft of its case is.
ToldDecided(q, r) == /\ Is(q, {"decide"}) /\ call[q].review = call[r].review
                     /\ mem[q].result \in {"decided", "already_decided"}
ToldOfCase(q, r, s) == mem[q].result = s /\ mem[q].case = Target(r).case

ReadSoFar(r) ==
  /\ mem[r].result = "decided" => Target(r).decision # None
  /\ \A q \in before[r] : ToldDecided(q, r) => mem[r].result = "decided"
  /\ pc[r] # "transcript" =>
       /\ mem[r].body # None => mem[r].body = transcripts[Target(r).conv]
       /\ mem[r].result = "decided" => mem[r].body # None
  /\ pc[r] \in {"latest_draft", "audit_for"} =>
       \A q \in before[r] : ToldOfCase(q, r, "allegation")
                              => q \in mem[r].package
  /\ pc[r] = "audit_for" =>
       /\ mem[r].draft # None =>
            \E d \in drafts : d.id = mem[r].draft /\ d.case = Target(r).case
       /\ \A q \in before[r] : ToldOfCase(q, r, "drafted") =>
            mem[r].draft # None /\ mem[r].draft \notin before[q]

ReadersInv == \A r \in Req : pc[r] \in Reading => ReadSoFar(r)

PageInv == /\ AnswersTrue /\ DraftsInv /\ TierTold
           /\ ReadersAlone /\ ReadersInv

-----------------------------------------------------------------------------
(* What gives each answer, and what a reader's next step is. *)

AnswerEdges(r) ==
  /\ mem'[r].result = "queued" => mem[r].result = "queued" \/ StoreReview(r)
  /\ mem'[r].result = "drafted" => mem[r].result = "drafted" \/ StoreDraft(r)
  /\ mem'[r].result = "already_decided" =>
       \/ mem[r].result = "already_decided"
       \/ DecideRead(r) /\ Target(r).decision # None

LEMMA ServeAnswers ==
  ASSUME Inv, NEW r \in Req, Serve(r)
  PROVE  AnswerEdges(r)
<1>1. /\ \A l, m : Go(r, l, m) => mem'[r] = m
      /\ \A s, k : Answer(r, s, k) => mem'[r].result = s
  BY Lands
<1>2. mem[r] \in Memory
  BY DEF Inv, TypeOK
<1>3. CASE VerifyRead(r) \/ BindCall(r) \/ FailAttempt(r) \/ FailRead(r)
           \/ LockCall(r)
  BY <1>1, <1>3
     DEF VerifyRead, BindCall, FailAttempt, FailRead, LockCall, AnswerEdges
<1>4. CASE TransferRead(r)
  <2>1. ASSUME NEW k, mem'[r] = [mem[r] EXCEPT !.result = "callback",
                                               !.case = k]
        PROVE  mem'[r].result = "callback"
    BY <1>2, <2>1 DEF Memory
  <2>2. PICK k : \/ Answer(r, "callback_without_consent", k)
                 \/ Answer(r, "transfer", k)
                 \/ Go(r, "set_consent",
                       [mem[r] EXCEPT !.result = "callback", !.case = k])
    BY <1>4 DEF TransferRead
  <2>3. mem'[r].result \in {"callback_without_consent", "transfer", "callback"}
    BY <1>1, <2>1, <2>2
  <2>. QED  BY <2>3 DEF AnswerEdges
<1>5. CASE SetConsent(r) \/ RefusePeriod(r) \/ OutOfScope(r)
           \/ RecordsDown(r)
  BY <1>1, <1>5 DEF SetConsent, RefusePeriod, OutOfScope, RecordsDown,
     AnswerEdges
<1>6. CASE RunCheck(r) \/ RunAllegation(r)
  <2>1. PICK s \in {"checked", "allegation", "out_of_scope"} :
          \E o : Ruled(r, s, o)
    BY <1>6 DEF RunCheck, RunAllegation
  <2>. QED  BY <2>1, RuledGives DEF AnswerEdges
<1>7. CASE DraftAllegations(r) \/ DraftEvidence(r)
  <2>1. ASSUME NEW e, mem'[r] = [mem[r] EXCEPT !.evidence = e]
        PROVE  mem'[r].result = mem[r].result
    BY <1>2, <2>1 DEF Memory
  <2>2. ASSUME NEW p, mem'[r] = [mem[r] EXCEPT !.package = p]
        PROVE  mem'[r].result = mem[r].result
    BY <1>2, <2>2 DEF Memory
  <2>. QED  BY <1>1, <1>7, <2>1, <2>2
            DEF DraftAllegations, DraftEvidence, AnswerEdges
<1>8. CASE DraftScoped(r) \/ StoreDraft(r) \/ QueueScoped(r)
           \/ QueueActive(r) \/ StoreReview(r)
  BY <1>1, <1>8 DEF DraftScoped, StoreDraft, QueueScoped, QueueActive,
     StoreReview, AnswerEdges
<1>9. CASE QueueFloor(r) \/ QueuePackage(r)
  BY <1>1, <1>2, <1>9 DEF QueueFloor, QueuePackage, AnswerEdges, Memory
<1>10. CASE CheckRaises(r) \/ ReviewMissing(r) \/ DecideUnlock(r)
            \/ StoreDecision(r)
  BY <1>1, <1>2, <1>10
     DEF CheckRaises, ReviewMissing, DecideUnlock, StoreDecision, AnswerEdges, Memory
<1>11. CASE DecideRead(r)
  BY <1>1, <1>11 DEF DecideRead, AnswerEdges, Target
<1>12. CASE DetailReview(r) \/ DetailTranscript(r) \/ DetailAllegations(r)
            \/ DetailAudit(r)
  BY <1>1, <1>2, <1>12 DEF DetailReview, DetailTranscript,
     DetailAllegations, DetailAudit, AnswerEdges, Memory
<1>13. CASE DetailDraft(r)
  <2>1. ASSUME NEW d, mem'[r] = [mem[r] EXCEPT !.draft = d]
        PROVE  mem'[r].result = mem[r].result
    BY <1>2, <2>1 DEF Memory
  <2>. QED  BY <1>1, <1>13, <2>1 DEF DetailDraft, AnswerEdges
<1>14. CASE StoreTranscript(r) \/ Audit(r) \/ StoreAllegation(r)
  BY <1>1, <1>14 DEF StoreTranscript, Audit, StoreAllegation, AnswerEdges
<1>. QED  BY <1>3, <1>4, <1>5, <1>6, <1>7, <1>8, <1>9, <1>10, <1>11, <1>12,
             <1>13, <1>14 DEF Serve, CallStep, DeskStep

\* A reader takes its own five steps, in their order.
LEMMA DetailSteps ==
  ASSUME NEW r \in Req, Serve(r), Is(r, {"review_detail"})
  PROVE  /\ pc[r] = "review" => ReviewMissing(r) \/ DetailReview(r)
         /\ pc[r] = "transcript" => DetailTranscript(r)
         /\ pc[r] = "allegations" => DetailAllegations(r)
         /\ pc[r] = "latest_draft" => DetailDraft(r)
         /\ pc[r] = "audit_for" => DetailAudit(r)
<1>1. ASSUME pc[r] \in {"review", "transcript", "allegations",
                       "latest_draft", "audit_for"}
      PROVE  DeskStep(r)
  BY <1>1 DEF Serve, CallStep, Is, VerifyRead, BindCall, FailAttempt,
     FailRead, LockCall, TransferRead, SetConsent, RefusePeriod, OutOfScope,
     RecordsDown, RunCheck, CheckRaises, RunAllegation, StoreAllegation, DraftScoped,
     DraftAllegations, DraftEvidence, StoreDraft, QueueScoped, QueueActive,
     QueueFloor, QueuePackage, StoreReview, Audit, At
<1>2. /\ DeskStep(r) /\ pc[r] = "review" => ReviewMissing(r) \/ DetailReview(r)
      /\ DeskStep(r) /\ pc[r] = "transcript" => DetailTranscript(r)
      /\ DeskStep(r) /\ pc[r] = "allegations" => DetailAllegations(r)
      /\ DeskStep(r) /\ pc[r] = "latest_draft" => DetailDraft(r)
      /\ DeskStep(r) /\ pc[r] = "audit_for" => DetailAudit(r)
  BY DEF DeskStep, Is, DecideRead, DecideUnlock, StoreDecision,
     ReviewMissing, DetailReview, DetailTranscript, DetailAllegations,
     DetailDraft, DetailAudit, StoreTranscript, At
<1>. QED  BY <1>1, <1>2

-----------------------------------------------------------------------------
(* Each part of the invariant under the step of a handler. *)

LEMMA AnswersServe ==
  ASSUME Inv, Inv', GateInv, RowsInv, AnswersTrue, NEW r \in Req, Serve(r)
  PROVE  AnswersTrue'
<1>1. /\ AnswerEdges(r) /\ CalleeEdges(r) /\ CalleeResults(r)
      /\ pc[r] \in Label
  BY ServeAnswers, ServeEdges, ServeResults DEF CalleeEdges
<1>2. /\ \A q \in Req : q # r => pc'[q] = pc[q] /\ mem'[q] = mem[q]
      /\ call' = call
  BY ServeMoves, MovesFacts
<1>3. drafts \subseteq drafts'
  BY ServeWrites DEF StoreDraft, CreateDraft
<1>4. ASSUME NEW q \in Req, Is(q, {"decide"}), Target(q) # None,
             Target(q).decision # None
      PROVE  Target(q)' # None /\ Target(q)'.decision # None
  <2>1. call[q].review \in Req
    BY <1>4, CallFields DEF Is, Inv, TypeOK, Call
  <2>. QED  BY <1>2, <1>4, <2>1, ReviewsStable DEF Target
<1> DEFINE Said(q) ==
      /\ mem[q].result \in {"queued", "verified", "drafted", "allegation",
                            "already_decided"} => pc[q] \in Settled
      /\ mem[q].result = "queued" => Is(q, {"send_to_review"})
      /\ mem[q].result = "verified" => Is(q, {"verify_session"})
      /\ mem[q].result = "drafted" =>
           /\ Is(q, {"draft_complaint"})
           /\ \E d \in drafts : d.id = q /\ d.case = mem[q].case
      /\ mem[q].result = "allegation" => mem[q].case = call[q].case
      /\ mem[q].result = "already_decided" =>
           Is(q, {"decide"}) /\ Target(q) # None /\ Target(q).decision # None
      /\ mem[q].result = "decided" => Is(q, {"decide", "review_detail"})
<1>5. ASSUME NEW q \in Req, mem'[q] = mem[q],
             pc[q] \in Settled => pc'[q] \in Settled
      PROVE  Said(q)'
  <2>1. Said(q)
    BY DEF AnswersTrue
  <2>2. Is(q, {"decide"}) /\ Target(q) # None /\ Target(q).decision # None
          => Target(q)' # None /\ Target(q)'.decision # None
    BY <1>4
  <2>. QED  BY <1>2, <1>3, <1>5, <2>1, <2>2 DEF Is
<1>6. ASSUME pc[r] \in Settled
      PROVE  Said(r)'
  <2>1. mem'[r] = mem[r] /\ pc'[r] \in Settled
    BY <1>1, <1>6, Lands
       DEF CalleeEdges, Audit, StoreAllegation, Settled, Label
  <2>. QED  BY <1>5, <2>1
<1>7. ASSUME pc[r] \notin Settled
      PROVE  Said(r)'
  <2>1. mem[r].result \notin {"queued", "verified", "drafted", "allegation",
                              "already_decided"}
    BY <1>7 DEF AnswersTrue
  <2>2. ASSUME mem'[r].result = "queued"
        PROVE  pc'[r] = "audit" /\ Is(r, {"send_to_review"})
    BY <1>1, <2>1, <2>2, Lands, QueueRequest DEF AnswerEdges, StoreReview
  <2>3. ASSUME mem'[r].result = "verified"
        PROVE  pc'[r] = "audit" /\ Is(r, {"verify_session"})
    <3>1. BindCall(r)
      BY <1>1, <2>1, <2>3 DEF CalleeResults
    <3>2. call[r] \in VerifyCall
      BY <3>1 DEF BindCall, Inv, ShapeOK, Shape
    <3>. QED  BY <3>1, <3>2, Lands, CallFields, CallsAssumption
              DEF BindCall, Is, Call
  <2>4. ASSUME mem'[r].result = "drafted"
        PROVE  /\ pc'[r] = "audit" /\ Is(r, {"draft_complaint"})
               /\ \E d \in drafts' : d.id = r /\ d.case = mem'[r].case
    <3>1. StoreDraft(r)
      BY <1>1, <2>1, <2>4 DEF AnswerEdges
    <3>2. call[r] \in DraftCall
      BY <3>1 DEF StoreDraft, Inv, ShapeOK, Shape
    <3>3. pc'[r] = "audit" /\ mem'[r].case = call[r].case
      BY <3>1, AnswerKeeps DEF StoreDraft
    <3>4. [id |-> r, case |-> call[r].case, allegations |-> mem[r].package,
           evidence |-> mem[r].evidence] \in drafts'
      BY <3>1 DEF StoreDraft, CreateDraft
    <3>. QED  BY <3>2, <3>3, <3>4, CallFields, CallsAssumption DEF Is, Call
  <2>5. ASSUME mem'[r].result = "allegation"
        PROVE  pc'[r] = "audit" /\ mem'[r].case = call[r].case
    <3>1. PICK s : \E o : Ruled(r, s, o)
      BY <1>1, <2>1, <2>5 DEF CalleeResults, RunAllegation
    <3>. QED  BY <3>1, RuledGives
  <2>6. ASSUME mem'[r].result = "already_decided"
        PROVE  /\ pc'[r] = "audit" /\ Is(r, {"decide"})
               /\ Target(r) # None /\ Target(r).decision # None
    <3>1. DecideRead(r) /\ Target(r).decision # None
      BY <1>1, <2>1, <2>6 DEF AnswerEdges
    <3>2. pc'[r] = "audit"
      BY <3>1, Lands DEF DecideRead, Target
    <3>3. call[r] \in DecideCall \cup DetailCall /\ call[r].tool = "decide"
      BY <3>1 DEF DecideRead, At, Inv, ShapeOK, Shape
    <3>. QED  BY <3>1, <3>2, <3>3, CallFields, CallsAssumption
              DEF DecideRead, Target, ReviewRefs, Is, Call
  <2>7. ASSUME mem'[r].result = "decided"
        PROVE  Is(r, {"decide", "review_detail"})
    <3>1. CASE mem[r].result = "decided"
      BY <3>1 DEF AnswersTrue
    <3>2. CASE StoreDecision(r)
      BY <3>2, DecideRequest DEF StoreDecision, Is
    <3>3. CASE DetailReview(r)
      <4>1. call[r] \in DecideCall \cup DetailCall
        BY <3>3 DEF DetailReview, At, Inv, ShapeOK, Shape
      <4>. QED  BY <4>1, CallFields, CallsAssumption DEF Is, Call
    <3>. QED  BY <1>1, <2>7, <3>1, <3>2, <3>3 DEF CalleeResults
  <2>. QED  BY <1>2, <1>4, <2>2, <2>3, <2>4, <2>5, <2>6, <2>7 DEF Settled, Is
<1>8. \A q \in Req : Said(q)'
  BY <1>2, <1>5, <1>6, <1>7
<1>. QED  BY <1>8 DEF AnswersTrue

LEMMA DraftsServe ==
  ASSUME Inv, Inv', HistoryInv, DraftsInv, NEW r \in Req, Serve(r)
  PROVE  DraftsInv'
<1>1. CalleeEdges(r) /\ pc[r] \in Label
  BY ServeEdges DEF CalleeEdges
<1>2. /\ \A q \in Req : q # r => pc'[q] = pc[q] /\ mem'[q] = mem[q]
      /\ call' = call /\ before' = before
  BY ServeMoves, MovesFacts
<1>3. \A e, k : Sourced(e, k) => Sourced(e, k)'
  BY ServeWrites DEF Audit, InsertAudit, Sourced
<1> DEFINE row == [id |-> r, case |-> call[r].case,
                   allegations |-> mem[r].package,
                   evidence |-> mem[r].evidence]
<1>4. StoreDraft(r) => drafts' = drafts \cup {row} /\ pc[r] = "create_draft"
  BY DEF StoreDraft, CreateDraft
<1>5. row.id = r /\ row.case = call[r].case /\ row.evidence = mem[r].evidence
  OBVIOUS
<1> HIDE DEF row
<1>6. ASSUME NEW d \in drafts'
      PROVE  d.case = call[d.id].case
  BY <1>4, <1>5, <1>6, ServeWrites DEF DraftsInv
<1>7. ASSUME NEW d \in drafts', NEW e \in d.evidence
      PROVE  Sourced(e, call[d.id].case)'
  BY <1>2, <1>3, <1>4, <1>5, <1>7, ServeWrites DEF DraftsInv
<1>8. ASSUME NEW x \in Req, pc'[x] = "create_draft", NEW e \in mem'[x].evidence
      PROVE  Sourced(e, call[x].case)'
  <2>1. CASE x # r
    BY <1>2, <1>3, <1>8, <2>1 DEF DraftsInv
  <2>2. CASE x = r
    <3>1. mem'[r] = [mem[r] EXCEPT !.evidence =
                       VerifiedFindings(call[r].case, call[r].conv)]
      BY <1>1, <1>8, <2>2, Lands DEF CalleeEdges, DraftEvidence
    <3>2. mem[r] \in Memory
      BY DEF Inv, TypeOK
    <3>3. e \in VerifiedFindings(call[r].case, call[r].conv)
      BY <1>8, <2>2, <3>1, <3>2 DEF Memory
    <3>4. Sourced(e, call[r].case)
      BY <3>3 DEF VerifiedFindings, AuditFor, Sourced, EvidenceActions,
         EvidenceTools
    <3>. QED  BY <1>2, <1>3, <2>2, <3>4
  <2>. QED  BY <2>1, <2>2
<1>9. ASSUME NEW d \in drafts'
      PROVE  LatestDrafts(d.case)' # {}
  <2>1. CASE StoreDraft(r)
    <3>1. \A e \in drafts' : e.id \in Req /\ r \notin before[e.id]
      BY <2>1, <1>4 DEF HistoryInv, BeforeDone, Inv, TypeOK, Draft
    <3>2. CASE d.case = call[r].case
      BY <1>2, <1>4, <1>5, <2>1, <3>1, <3>2 DEF LatestDrafts
    <3>3. CASE d.case # call[r].case
      <4>1. d \in drafts /\ LatestDrafts(d.case) # {}
        BY <1>4, <1>5, <1>9, <2>1, <3>3 DEF DraftsInv
      <4>. QED  BY <1>2, <1>4, <1>5, <2>1, <3>3, <4>1 DEF LatestDrafts
    <3>. QED  BY <3>2, <3>3
  <2>2. CASE drafts' = drafts
    BY <1>2, <1>9, <2>2 DEF DraftsInv, LatestDrafts
  <2>. QED  BY <2>1, <2>2, ServeWrites
<1>. QED  BY <1>2, <1>6, <1>7, <1>8, <1>9 DEF DraftsInv

LEMMA TierServe ==
  ASSUME Inv, Inv', GateInv, TierTold, NEW r \in Req, Serve(r)
  PROVE  TierTold'
<1>1. CalleeEdges(r)
  BY ServeEdges
<1>2. \A q \in Req : q # r => pc'[q] = pc[q] /\ mem'[q] = mem[q]
  BY ServeMoves, MovesFacts
<1>3. ASSUME NEW v \in Req, reviews'[v] # None
      PROVE  pc'[v] = "lost" \/ mem'[v].tier = reviews'[v].tier
  <2>1. CASE /\ v = r /\ StoreReview(r)
             /\ reviews'[v].tier = mem[r].tier
    BY <2>1, AnswerKeeps DEF StoreReview
  <2>2. CASE /\ reviews[v] # None /\ reviews'[v].tier = reviews[v].tier
    <3>1. pc[v] = "lost" \/ mem[v].tier = reviews[v].tier
      BY <2>2 DEF TierTold, ReviewRefs
    <3>2. v = r => mem'[r] = mem[r]
      <4>1. reviews[r] # None => pc[r] \in {"audit", "add_allegation"}
        BY <1>1 DEF GateInv, ReviewsFresh, CalleeEdges, Label
      <4>. QED  BY <1>1, <2>2, <4>1, Lands
                DEF CalleeEdges, Audit, StoreAllegation
    <3>3. v = r => pc[r] # "lost"
      BY <1>1 DEF CalleeEdges, Label
    <3>. QED  BY <1>2, <2>2, <3>1, <3>2, <3>3
  <2>. QED  BY <1>3, <2>1, <2>2, ReviewBody
<1>. QED  BY <1>3 DEF TierTold, ReviewRefs

LEMMA ReadersAloneServe ==
  ASSUME Inv, Inv', GateInv, ReadersAlone, NEW r \in Req, Serve(r)
  PROVE  ReadersAlone'
<1>1. /\ CalleeEdges(r) /\ MemoryEdges(r) /\ pc[r] \in Label
  BY ServeEdges, ServeMemory DEF CalleeEdges
<1>2. /\ \A q \in Req : q # r => pc'[q] = pc[q] /\ mem'[q] = mem[q]
      /\ call' = call
  BY ServeMoves, MovesFacts
<1>3. ASSUME NEW x \in Req, Is(x, {"review_detail"}), Target(x) # None
      PROVE  Target(x)' # None
  <2>1. call[x].review \in Req
    BY <1>3, CallFields DEF Is, Inv, TypeOK, Call
  <2>. QED  BY <1>2, <1>3, <2>1, ReviewsStable DEF Target
<1>4. pc'[r] \in Reading => Is(r, {"review_detail"})
  <2>1. pc'[r] \in Reading => call[r] \in DetailCall
    <3>1. pc'[r] \in {"transcript", "allegations", "latest_draft"}
            => call[r] \in DetailCall
      BY <1>2 DEF Inv, ShapeOK, Shape
    <3>2. pc'[r] = "audit_for" => call[r] \in DetailCall
      BY <1>1 DEF MemoryEdges, DetailDraft, Inv, ShapeOK, Shape
    <3>. QED  BY <3>1, <3>2 DEF Reading
  <2>. QED  BY <2>1, CallFields, CallsAssumption DEF Is, Call
<1>5. ASSUME Is(r, {"review_detail"})
      PROVE  /\ pc'[r] \in Reading \cup {"done"}
             /\ mem'[r].case = None
             /\ pc'[r] \notin {"audit_for", "done"} => mem'[r].draft = None
             /\ pc'[r] \in Reading => Target(r) # None
  <2>1. /\ pc[r] \in Reading \cup {"review"} /\ mem[r].case = None
        /\ pc[r] # "audit_for" => mem[r].draft = None
        /\ pc[r] \in Reading => Target(r) # None
    BY <1>1, <1>5 DEF ReadersAlone, Label
  <2>2. mem[r] \in Memory
    BY DEF Inv, TypeOK
  <2>3. CASE ReviewMissing(r) \/ DetailReview(r)
    <3>1. \E s : mem'[r] = [mem[r] EXCEPT !.result = s]
      BY <2>3, Lands DEF ReviewMissing, DetailReview
    <3>2. mem'[r].case = mem[r].case /\ mem'[r].draft = mem[r].draft
      BY <2>2, <3>1 DEF Memory
    <3>3. /\ pc[r] = "review" /\ pc'[r] \in {"transcript", "done"}
          /\ pc'[r] = "transcript" => Target(r) # None
      BY <2>3, Lands DEF ReviewMissing, DetailReview, At, Target, ReviewRefs
    <3>. QED  BY <2>1, <3>2, <3>3 DEF Reading
  <2>4. CASE DetailTranscript(r) \/ DetailAllegations(r) \/ DetailAudit(r)
    BY <2>1, <2>2, <2>4, Lands
       DEF DetailTranscript, DetailAllegations, DetailAudit, Reading, Memory
  <2>5. CASE DetailDraft(r)
    <3>1. /\ pc'[r] = "audit_for" /\ pc[r] \in Reading
          /\ \/ mem'[r] = mem[r]
             \/ \E d : mem'[r] = [mem[r] EXCEPT !.draft = d]
      BY <2>5, Lands DEF DetailDraft, Reading
    <3>2. mem'[r].case = mem[r].case
      BY <2>2, <3>1 DEF Memory
    <3>. QED  BY <2>1, <3>1, <3>2 DEF Reading
  <2>. QED  BY <1>5, <2>1, <2>3, <2>4, <2>5, DetailSteps DEF Reading
<1>6. ASSUME NEW x \in Req
      PROVE  /\ Is(x, {"review_detail"}) =>
                  /\ pc'[x] \in Reading \cup {"review", "done", "lost"}
                  /\ mem'[x].case = None
                  /\ pc'[x] \notin {"audit_for", "done"} => mem'[x].draft = None
             /\ pc'[x] \in Reading =>
                  Is(x, {"review_detail"}) /\ Target(x)' # None
  <2>1. CASE x = r
    BY <1>3, <1>4, <1>5, <2>1
  <2>2. CASE x # r
    BY <1>2, <1>3, <2>2 DEF ReadersAlone
  <2>. QED  BY <2>1, <2>2
<1>. QED  BY <1>2, <1>6 DEF ReadersAlone, Is

\* What a reader has read stays true whoever moves.
LEMMA ReadStays ==
  ASSUME Inv, Inv', GateInv, HistoryInv, ReadersAlone, NEW r \in Req, Serve(r),
         NEW x \in Req, x # r, pc[x] \in Reading, ReadSoFar(x)
  PROVE  ReadSoFar(x)'
<1>1. /\ \A q \in Req : q # r => pc'[q] = pc[q] /\ mem'[q] = mem[q]
      /\ call' = call /\ before' = before /\ pc[r] \in Label
  BY ServeMoves, MovesFacts, ServeEdges DEF CalleeEdges
<1>2. /\ Is(x, {"review_detail"}) /\ Target(x) # None /\ call[x].review \in Req
  BY CallFields DEF ReadersAlone, Is, Inv, TypeOK, Call
<1>3. Target(x) \in Review /\ Target(x).conv \in Conv
  BY <1>2 DEF Target, Inv, TypeOK, Review
<1>4. /\ Target(x)'.case = Target(x).case /\ Target(x)'.conv = Target(x).conv
      /\ Target(x).decision # None => Target(x)'.decision # None
      /\ transcripts[Target(x).conv] # None =>
           transcripts'[Target(x).conv] = transcripts[Target(x).conv]
  BY <1>1, <1>2, <1>3, ReviewsStable DEF Target
<1>5. drafts \subseteq drafts'
  BY ServeWrites DEF StoreDraft, CreateDraft
<1>6. \A q \in before[x] : /\ q \in Req /\ mem'[q] = mem[q]
  BY <1>1 DEF HistoryInv, BeforeDone, Label
<1>7. \A q \in before[x] :
        /\ ToldDecided(q, x)' => ToldDecided(q, x)
        /\ \A s : ToldOfCase(q, x, s)' => ToldOfCase(q, x, s)
  BY <1>1, <1>4, <1>6 DEF ToldDecided, ToldOfCase, Is
<1>. QED  BY <1>1, <1>4, <1>5, <1>6, <1>7 DEF ReadSoFar, HasTranscript

\* What a reader adds in its own step.
LEMMA ReadOwn ==
  ASSUME Inv, Inv', GateInv, HistoryInv, CaseInv, PageInv, NEW r \in Req,
         Serve(r), pc'[r] \in Reading, ReadersAlone'
  PROVE  ReadSoFar(r)'
<1>1. /\ call' = call /\ before' = before /\ pc[r] \in Label
      /\ \A q \in Req : q # r => mem'[q] = mem[q]
  BY ServeMoves, MovesFacts, ServeEdges DEF CalleeEdges
<1>2. Is(r, {"review_detail"}) /\ pc[r] \in Reading \cup {"review"}
  BY <1>1 DEF ReadersAlone, PageInv, Is, Label
<1>3. \A q \in before[r] : q \in Req /\ pc[q] = "done" /\ mem'[q] = mem[q]
  BY <1>1 DEF HistoryInv, BeforeDone, Label
<1>4. mem[r] \in Memory
  BY DEF Inv, TypeOK
<1>5. pc[r] \in Reading => ReadSoFar(r) /\ Target(r) \in Review
  <2>1. call[r].review \in Req
    BY <1>2, CallFields DEF Is, Inv, TypeOK, Call
  <2>. QED  BY <2>1 DEF PageInv, ReadersInv, ReadersAlone, Target, Inv, TypeOK
<1>6. \A q \in before[r] :
        /\ ToldDecided(q, r)' <=> ToldDecided(q, r)
        /\ \A s : Target(r)' = Target(r) =>
             (ToldOfCase(q, r, s)' <=> ToldOfCase(q, r, s))
  BY <1>1, <1>3 DEF ToldDecided, ToldOfCase, Is
<1>7. CASE DetailReview(r)
  <2>1. /\ pc'[r] = "transcript" /\ Target(r)' = Target(r)
        /\ mem'[r] = [mem[r] EXCEPT !.result = IF Target(r).decision = None
                                               THEN "undecided" ELSE "decided"]
    BY <1>1, <1>7, Lands DEF DetailReview, Target, db
  <2>2. mem'[r].result = IF Target(r).decision = None
                         THEN "undecided" ELSE "decided"
    BY <1>4, <2>1 DEF Memory
  <2>3. \A q \in before[r] : ToldDecided(q, r) => Target(r).decision # None
    BY <1>3 DEF ToldDecided, HistoryInv, DecidedTold, PageInv, AnswersTrue,
       Target
  <2>. QED  BY <1>1, <1>6, <2>1, <2>2, <2>3 DEF ReadSoFar
<1>8. CASE DetailTranscript(r)
  <2>1. /\ pc'[r] = "allegations" /\ UNCHANGED <<transcripts, reviews>>
        /\ pc[r] \in Reading
        /\ mem'[r] = [mem[r] EXCEPT !.body = transcripts[Target(r).conv]]
    BY <1>8, Lands DEF DetailTranscript, Target, Reading, db
  <2>2. mem'[r].body = transcripts[Target(r).conv]
        /\ mem'[r].result = mem[r].result
    BY <1>4, <2>1 DEF Memory, HasTranscript
  <2>3. Target(r)' = Target(r)
    BY <1>1, <2>1 DEF Target
  <2>4. Target(r).decision # None => HasTranscript(Target(r).conv)
    <3>1. call[r].review \in ReviewRefs
      BY <1>2, <2>1, CallFields
         DEF ReviewRefs, PageInv, ReadersAlone, Target, Is, Inv, TypeOK, Call
    <3>. QED  BY <3>1 DEF GateInv, DecisionNeedsTranscript, Target,
                 HasTranscript
  <2>. QED  BY <1>1, <1>5, <1>6, <2>1, <2>2, <2>3, <2>4
            DEF ReadSoFar, HasTranscript
<1>9. CASE DetailAllegations(r)
  <2>1. /\ pc'[r] = "latest_draft" /\ UNCHANGED <<transcripts, reviews>>
        /\ pc[r] = "allegations"
        /\ mem'[r] = [mem[r] EXCEPT !.package = AllegationsOf(Target(r).case)]
    BY <1>9, Lands DEF DetailAllegations, Target, db
  <2>2. /\ mem'[r].package = AllegationsOf(Target(r).case)
        /\ mem'[r].result = mem[r].result /\ mem'[r].body = mem[r].body
    BY <1>4, <2>1 DEF Memory
  <2>3. Target(r)' = Target(r)
    BY <1>1, <2>1 DEF Target
  <2>4. \A q \in before[r] : ToldOfCase(q, r, "allegation")
                             => q \in AllegationsOf(Target(r).case)
    BY <1>3 DEF ToldOfCase, CaseInv, AllegationTold, PageInv, AnswersTrue
  <2>. QED  BY <1>1, <1>5, <1>6, <2>1, <2>2, <2>3, <2>4
            DEF ReadSoFar, HasTranscript, Reading
<1>10. CASE DetailDraft(r)
  <2> DEFINE latest == LatestDrafts(Target(r).case)
  <2>1. /\ pc'[r] = "audit_for" /\ UNCHANGED <<transcripts, reviews, drafts>>
        /\ pc[r] = "latest_draft"
    BY <1>10, Lands DEF DetailDraft, db
  <2>2. \/ latest = {} /\ mem'[r] = mem[r]
        \/ \E d \in latest : mem'[r] = [mem[r] EXCEPT !.draft = d.id]
    BY <1>10, Lands DEF DetailDraft, Target
  <2>3. Target(r)' = Target(r)
    BY <1>1, <2>1 DEF Target
  <2>4. mem[r].draft = None
    BY <1>2, <2>1 DEF PageInv, ReadersAlone
  <2>5. /\ mem'[r].package = mem[r].package
        /\ mem'[r].result = mem[r].result /\ mem'[r].body = mem[r].body
    BY <1>4, <2>2 DEF Memory
  <2>6. \/ latest = {} /\ mem'[r].draft = None
        \/ \E d \in latest : mem'[r].draft = d.id
    BY <1>4, <2>2, <2>4 DEF Memory
  <2>7. \A d \in latest : d \in drafts /\ d.case = Target(r).case
    BY DEF LatestDrafts
  <2>8. ASSUME NEW q \in before[r], ToldOfCase(q, r, "drafted")
        PROVE  mem'[r].draft # None /\ mem'[r].draft \notin before[q]
    <3>1. PICK e \in drafts : e.id = q /\ e.case = Target(r).case
      BY <1>3, <2>8 DEF ToldOfCase, PageInv, AnswersTrue
    <3>2. latest # {}
      BY <3>1 DEF PageInv, DraftsInv
    <3>3. PICK d \in latest : mem'[r].draft = d.id
      BY <2>6, <3>2
    <3>4. d.id \notin before[q]
      BY <3>1 DEF LatestDrafts
    <3>5. d.id \in Req
      BY <2>7 DEF Inv, TypeOK, Draft
    <3>. QED  BY <3>3, <3>4, <3>5, ConstantsAssumption
  <2> HIDE DEF latest
  <2>. QED  BY <1>1, <1>5, <1>6, <2>1, <2>3, <2>5, <2>6, <2>7, <2>8
            DEF ReadSoFar, HasTranscript, Reading
<1>11. CASE ReviewMissing(r) \/ DetailAudit(r)
  BY <1>11, Lands DEF ReviewMissing, DetailAudit, Reading
<1>. QED  BY <1>2, <1>7, <1>8, <1>9, <1>10, <1>11, DetailSteps DEF Reading

LEMMA PageServe ==
  ASSUME Inv, Inv', GateInv, HistoryInv, RowsInv, CaseInv, PageInv,
         NEW r \in Req, Serve(r)
  PROVE  PageInv'
<1>1. AnswersTrue' /\ DraftsInv' /\ TierTold' /\ ReadersAlone'
  BY AnswersServe, DraftsServe, TierServe, ReadersAloneServe DEF PageInv
<1>2. ASSUME NEW x \in Req, pc'[x] \in Reading
      PROVE  ReadSoFar(x)'
  <2>1. CASE x = r
    BY <1>1, <1>2, <2>1, ReadOwn
  <2>2. CASE x # r
    <3>1. pc[x] \in Reading
      BY <1>2, <2>2, ServeMoves, MovesFacts
    <3>. QED  BY <2>2, <3>1, ReadStays DEF PageInv, ReadersInv
  <2>. QED  BY <2>1, <2>2
<1>3. ReadersInv'
  BY <1>2 DEF ReadersInv
<1>. QED  BY <1>1, <1>3 DEF PageInv

LEMMA PageArrive ==
  ASSUME Inv, Inv', ScopeInv, HistoryInv, PageInv, NEW r \in Req, Arrive(r)
  PROVE  PageInv'
<1>1. /\ pc[r] = "idle" /\ ~Filed(r) /\ mem[r] = NoMemory /\ call[r] = None
      /\ mem' = mem /\ UNCHANGED <<reviews, drafts, transcripts, audit>>
      /\ call'[r] \in Call
      /\ pc'[r] \in {"session", "review", "save_transcript", "scoped"}
      /\ \A q \in Req : q # r =>
           /\ pc'[q] = pc[q] /\ call'[q] = call[q] /\ before'[q] = before[q]
  BY ArriveFacts DEF db
<1>2. r \notin ReviewRefs /\ \A d \in drafts : d.id # r /\ d.id \in Req
  BY <1>1 DEF Filed, Inv, TypeOK, Draft
<1>3. \A x \in Req : \A q \in before[x] : q # r /\ q \in Req
  BY <1>1 DEF HistoryInv, BeforeDone
<1>4. /\ mem[r].result = "none" /\ mem[r].case = None /\ mem[r].draft = None
  BY <1>1 DEF NoMemory
<1>5. AnswersTrue'
  BY <1>1, <1>4 DEF PageInv, AnswersTrue, Is, Target
<1>6. DraftsInv'
  <2>1. \A e, k : Sourced(e, k)' = Sourced(e, k)
    BY <1>1 DEF Sourced
  <2>2. \A k : LatestDrafts(k)' = LatestDrafts(k)
    BY <1>1, <1>2 DEF LatestDrafts
  <2>. QED  BY <1>1, <1>2, <2>1, <2>2 DEF PageInv, DraftsInv
<1>7. TierTold'
  BY <1>1, <1>2 DEF PageInv, TierTold, ReviewRefs
<1>8. ReadersAlone'
  <2>1. \A q \in Req : q # r =>
          /\ Is(q, {"review_detail"})' = Is(q, {"review_detail"})
          /\ Target(q)' = Target(q)
    BY <1>1 DEF Is, Target
  <2>2. /\ pc'[r] \notin Reading /\ mem'[r].case = None /\ mem'[r].draft = None
        /\ Is(r, {"review_detail"})' => pc'[r] = "review"
    <3>1. pc'[r] = "review" \/ call'[r].tool # "review_detail"
      BY <1>1 DEF Arrive, FirstLabel, Inv, TypeOK
    <3>. QED  BY <1>1, <1>4, <3>1 DEF Is, Reading
  <2>. QED  BY <1>1, <2>1, <2>2 DEF PageInv, ReadersAlone
<1>9. ReadersInv'
  <2>1. ASSUME NEW x \in Req, pc'[x] \in Reading
        PROVE  ReadSoFar(x)'
    <3>1. x # r /\ pc[x] \in Reading
      BY <1>1, <2>1 DEF Reading
    <3>2. ReadSoFar(x)
      BY <3>1 DEF PageInv, ReadersInv
    <3>3. Target(x)' = Target(x) /\ before'[x] = before[x]
      BY <1>1, <3>1 DEF Target
    <3>4. \A q \in before[x] :
            /\ ToldDecided(q, x)' = ToldDecided(q, x)
            /\ \A s : ToldOfCase(q, x, s)' = ToldOfCase(q, x, s)
            /\ before'[q] = before[q]
      BY <1>1, <1>3, <3>1, <3>3 DEF ToldDecided, ToldOfCase, Is
    <3>. QED  BY <1>1, <3>1, <3>2, <3>3, <3>4 DEF ReadSoFar, HasTranscript
  <2>. QED  BY <2>1 DEF ReadersInv
<1>. QED  BY <1>5, <1>6, <1>7, <1>8, <1>9 DEF PageInv

LEMMA PageCrash ==
  ASSUME Inv, Inv', HistoryInv, PageInv, Crash
  PROVE  PageInv'
<1>1. /\ UNCHANGED <<db, call, before>>
      /\ \A q \in Req : \/ pc'[q] = pc[q] /\ mem'[q] = mem[q]
                        \/ /\ pc[q] \in Label
                           /\ pc'[q] = "lost" /\ mem'[q] = NoMemory
  BY CrashFacts
<1>2. \A q \in Req : pc'[q] \notin Label
  BY DEF Crash, InFlight, Label, Inv, TypeOK
<1>3. NoMemory.result = "none" /\ NoMemory.case = None /\ NoMemory.draft = None
  BY DEF NoMemory
<1>4. AnswersTrue'
  BY <1>1, <1>3 DEF PageInv, AnswersTrue, Is, Target, db
<1>5. DraftsInv'
  <2>1. /\ \A e, k : Sourced(e, k)' = Sourced(e, k)
        /\ \A k : LatestDrafts(k)' = LatestDrafts(k)
    BY <1>1 DEF Sourced, LatestDrafts, db
  <2>. QED  BY <1>1, <1>2, <2>1 DEF PageInv, DraftsInv, db, Label
<1>6. TierTold'
  BY <1>1 DEF PageInv, TierTold, ReviewRefs, db
<1>7. ReadersAlone'
  BY <1>1, <1>2, <1>3 DEF PageInv, ReadersAlone, Is, Label, Reading
<1>8. ReadersInv'
  BY <1>2 DEF ReadersInv, Reading, Label
<1>. QED  BY <1>4, <1>5, <1>6, <1>7, <1>8 DEF PageInv

LEMMA PageInvAlways == Spec => []PageInv
<1>1. Init => PageInv
  BY BlankMemory DEF Init, InitStore, InitRequests, PageInv, AnswersTrue,
     DraftsInv, TierTold, ReviewRefs, ReadersAlone, ReadersInv, Is, Reading
<1>2. /\ Inv /\ Inv' /\ GateInv /\ ScopeInv /\ HistoryInv /\ RowsInv
      /\ CaseInv /\ PageInv /\ [Next]_vars
      => PageInv'
  <2> SUFFICES ASSUME Inv, Inv', GateInv, ScopeInv, HistoryInv, RowsInv,
                      CaseInv, PageInv, [Next]_vars
               PROVE  PageInv'
    OBVIOUS
  <2>1. CASE UNCHANGED vars
    <3>1. UNCHANGED <<sessions, allegations, drafts, reviews, transcripts,
                      audit, call, pc, mem, before>>
      BY <2>1 DEF vars, db, requestVars
    <3>2. AnswersTrue' /\ TierTold' /\ ReadersAlone'
      BY <3>1 DEF PageInv, AnswersTrue, TierTold, ReadersAlone, ReviewRefs,
         Is, Target
    <3>3. DraftsInv'
      BY <3>1 DEF PageInv, DraftsInv, Sourced, LatestDrafts
    <3>4. ReadersInv'
      BY <3>1 DEF PageInv, ReadersInv, ReadSoFar, ToldDecided, ToldOfCase,
         Is, Target, HasTranscript
    <3>. QED  BY <3>2, <3>3, <3>4 DEF PageInv
  <2>. QED  BY <2>1, PageServe, PageArrive, PageCrash DEF Next, Finished
<1>. QED  BY <1>1, <1>2, InvAlways, GateInvAlways, ScopeInvAlways,
             HistoryInvAlways, RowsInvAlways, CaseInvAlways, PTL DEF Spec

-----------------------------------------------------------------------------
(* The page, at the step that answers it. *)

\* The page is about the review r asked for, and that review is in the queue.
LEMMA PageOf ==
  ASSUME Inv, PageInv, NEW r \in Req, DetailAudit(r)
  PROVE  /\ ToCaseView(r).reviewRef = call[r].review
         /\ ToCaseView(r).caseRef = Target(r).case
         /\ ToCaseView(r).tier = Target(r).tier
         /\ ToCaseView(r).transcriptPending = (mem[r].body = None)
         /\ ToCaseView(r).transcript = ToTranscriptEntries(mem[r].body)
         /\ ToCaseView(r).decided = (mem[r].result = "decided")
         /\ ToCaseView(r).allegations = mem[r].package
         /\ ToCaseView(r).draft = mem[r].draft
         /\ ToCaseView(r).verifiedFindings = FlattenVerifiedFindings(mem[r].draft)
         /\ ToCaseView(r).audit =
              {ToAuditEntry(a) : a \in AuditFor(Target(r).case)}
         /\ ToCaseView(r).caseHistory = ToCaseHistory(AuditFor(Target(r).case))
         /\ ToCaseView(r).draftConfirmedAt =
              DraftConfirmedAt(AuditFor(Target(r).case))
         /\ call[r].review \in Req /\ Target(r) \in Review
         /\ pc[r] = "audit_for" /\ ReadSoFar(r)
<1>1. pc[r] = "audit_for"
  BY DEF DetailAudit
<1>2. Is(r, {"review_detail"}) /\ Target(r) # None /\ ReadSoFar(r)
  BY <1>1 DEF PageInv, ReadersAlone, ReadersInv, Reading
<1>3. call[r].review \in Req
  BY <1>2, CallFields DEF Is, Inv, TypeOK, Call
<1>4. Target(r) \in Review
  BY <1>2, <1>3 DEF Target, Inv, TypeOK
<1>. QED  BY <1>1, <1>2, <1>3, <1>4 DEF ToCaseView, PageRows, Target

\* The console's lock is never looser than the server's: a page that offers
\* the decision, or shows one, is about a call whose transcript is stored, and
\* lists the turns of the delivery that is kept, or none if its body has none.
THEOREM LockNeverLooser == Spec => GatesAgree
<1>1. ASSUME Inv, PageInv, NEW r \in Req, DetailAudit(r)
      PROVE  LET p == ToCaseView(r)
             IN TranscriptStatusBanner(p) # "Decision locked" =>
                  /\ HasTranscript(reviews[p.reviewRef].conv)
                  /\ p.transcript = ToTranscriptEntries(
                       transcripts[reviews[p.reviewRef].conv])
                  /\ CaseSidePanel(p).transcript =
                       IF p.transcript # {} THEN "turns" ELSE "none is stored"
  <2> DEFINE p == ToCaseView(r)
             kept == transcripts[reviews[p.reviewRef].conv]
  <2>1. /\ p.reviewRef = call[r].review /\ ReadSoFar(r)
        /\ pc[r] = "audit_for" /\ p.transcriptPending = (mem[r].body = None)
        /\ p.transcript = ToTranscriptEntries(mem[r].body)
        /\ p.decided = (mem[r].result = "decided")
    BY <1>1, PageOf
  <2> HIDE DEF p
  <2>2. ASSUME TranscriptStatusBanner(p) # "Decision locked"
        PROVE  mem[r].body # None
    BY <2>1, <2>2 DEF TranscriptStatusBanner, ReadSoFar
  <2>3. mem[r].body # None => mem[r].body = kept
    BY <2>1 DEF ReadSoFar, Target
  <2>4. mem[r].body # None =>
          CaseSidePanel(p).transcript =
            IF p.transcript # {} THEN "turns" ELSE "none is stored"
    BY <2>1 DEF CaseSidePanel
  <2>5. TranscriptStatusBanner(p) # "Decision locked" =>
          /\ HasTranscript(reviews[p.reviewRef].conv)
          /\ p.transcript = ToTranscriptEntries(kept)
          /\ CaseSidePanel(p).transcript =
               IF p.transcript # {} THEN "turns" ELSE "none is stored"
    BY <2>1, <2>2, <2>3, <2>4 DEF HasTranscript
  <2>. QED  BY <2>5 DEF p
<1>2. Inv /\ PageInv =>
        [\A r \in Req : DetailAudit(r) =>
           LET p == ToCaseView(r)
           IN TranscriptStatusBanner(p) # "Decision locked" =>
                /\ HasTranscript(reviews[p.reviewRef].conv)
                /\ p.transcript = ToTranscriptEntries(
                     transcripts[reviews[p.reviewRef].conv])
                /\ CaseSidePanel(p).transcript =
                     IF p.transcript # {} THEN "turns"
                     ELSE "none is stored"]_vars
  BY <1>1
<1>. QED  BY <1>2, InvAlways, PageInvAlways, PTL DEF GatesAgree

\* Every fact shown as verified is a record finding, of a check on this case
\* that is in the activity table of the same page.
THEOREM FactsAreTraced == Spec => FactsTraced
<1>1. ASSUME Inv, CaseInv, PageInv, NEW r \in Req, DetailAudit(r)
      PROVE  LET p == ToCaseView(r)
             IN \A f \in VerifiedFactsCard(p).facts :
                  /\ f[2] = "record" /\ call[f[1]].case = p.caseRef
                  /\ \E e \in CaseSidePanel(p).audit :
                       e.by = f[1] /\ e.tool \in EvidenceTools
  <2> DEFINE p == ToCaseView(r)
             rows == AuditFor(Target(r).case)
  <2>1. /\ p.caseRef = Target(r).case /\ ReadSoFar(r) /\ pc[r] = "audit_for"
        /\ p.verifiedFindings = FlattenVerifiedFindings(mem[r].draft)
        /\ p.audit = {ToAuditEntry(a) : a \in rows}
    BY <1>1, PageOf
  <2> HIDE DEF p
  <2>2. ASSUME NEW f \in VerifiedFactsCard(p).facts
        PROVE  /\ f[2] = "record" /\ call[f[1]].case = p.caseRef
               /\ \E e \in CaseSidePanel(p).audit :
                    e.by = f[1] /\ e.tool \in EvidenceTools
    <3>1. PICK d \in drafts : d.id = mem[r].draft /\ f \in d.evidence
      BY <2>1, <2>2 DEF VerifiedFactsCard, FlattenVerifiedFindings
    <3>2. d.id \in Req
      BY <1>1 DEF Inv, TypeOK, Draft
    <3>3. call[d.id].case = Target(r).case
      BY <1>1, <2>1, <3>1, <3>2, ConstantsAssumption
         DEF ReadSoFar, PageInv, DraftsInv
    <3>4. f[2] = "record" /\ call[f[1]].case = call[d.id].case
      BY <1>1, <3>1 DEF CaseInv, EvidenceReal, FromRecords, SameScope
    <3>5. PICK a \in rows : a.by = f[1] /\ a.action \in EvidenceTools
      BY <1>1, <3>1, <3>3 DEF PageInv, DraftsInv, Sourced, AuditFor
    <3>6. /\ ToAuditEntry(a) \in p.audit
          /\ ToAuditEntry(a).by = f[1] /\ ToAuditEntry(a).tool = a.action
      BY <2>1, <3>5 DEF ToAuditEntry
    <3>7. CaseSidePanel(p).audit = p.audit
      BY DEF CaseSidePanel
    <3>. QED  BY <2>1, <3>3, <3>4, <3>5, <3>6, <3>7
  <2>. QED  BY <2>2 DEF p
<1>2. Inv /\ CaseInv /\ PageInv =>
        [\A r \in Req : DetailAudit(r) =>
           LET p == ToCaseView(r)
           IN \A f \in VerifiedFactsCard(p).facts :
                /\ f[2] = "record" /\ call[f[1]].case = p.caseRef
                /\ \E e \in CaseSidePanel(p).audit :
                     e.by = f[1] /\ e.tool \in EvidenceTools]_vars
  BY <1>1
<1>. QED  BY <1>2, InvAlways, CaseInvAlways, PageInvAlways, PTL
          DEF FactsTraced

\* An answer about a case, refused or not, has its row in the case's trail.
LEMMA AnsweredRow ==
  ASSUME Inv, RowsInv, PageInv, NEW q \in Req, pc[q] = "done",
         mem[q].case # None, mem[q].result \notin {"not_found", "raised"}
  PROVE  \E a \in AuditFor(mem[q].case) :
           /\ a.by = q /\ a.result = mem[q].result
           /\ a.action = call[q].tool
<1>1. ~Unrecorded(q)
  BY DEF PageInv, ReadersAlone, Unrecorded
<1>2. PICK a \in audit : a.by = q
  BY <1>1 DEF RowsInv, RowThere
<1>. QED  BY <1>2 DEF RowsInv, RowFaithful, AuditFor

\* The milestone of a row is in the history, its refusal in the activity.
LEMMA RowShown ==
  ASSUME NEW rows, NEW a \in rows
  PROVE  /\ HistoryActions(a) # "none" =>
              [by |-> a.by, event |-> HistoryActions(a)] \in ToCaseHistory(rows)
         /\ a.result \in Refusals =>
              ToAuditEntry(a).by = a.by /\ "refused" \in ToAuditEntry(a).badges
<1>1. HistoryActions(a) # "none" =>
        [by |-> a.by, event |-> HistoryActions(a)] \in ToCaseHistory(rows)
  BY DEF ToCaseHistory
<1>2. ASSUME a.result \in Refusals
      PROVE  "refused" \in ToAuditEntry(a).badges
  <2>1. Statuses(a) = {a.result}
    BY <1>2 DEF Statuses, Refusals
  <2>2. DOMAIN AuditResultMap = {"verified", "already_bound", "queued",
                                 "drafted", "discrepancy", "stored", "duplicate"}
    BY DEF AuditResultMap
  <2>3. MapAuditResult(a.result) = "refused"
    BY <1>2, <2>2 DEF MapAuditResult, Refusals
  <2>. QED  BY <2>1, <2>3 DEF ToAuditEntry
<1>. QED  BY <1>1, <1>2 DEF ToAuditEntry

\* A page asked for after the service had answered somebody about its case
\* shows what was answered: the verification, the allegation, the latest
\* draft and its confirmation, the tier, the decision, every refusal.
THEOREM PageIsUpToDate == Spec => PageKeepsUp
<1>1. ASSUME Inv, GateInv, HistoryInv, RowsInv, CaseInv, PageInv,
             NEW r \in Req, DetailAudit(r), NEW q \in before[r],
             mem[q].case = ToCaseView(r).caseRef
      PROVE  Shows(ToCaseView(r), q)
  <2> DEFINE p == ToCaseView(r)
             rows == AuditFor(Target(r).case)
  <2>1. /\ p.reviewRef = call[r].review /\ p.caseRef = Target(r).case
        /\ p.tier = Target(r).tier
        /\ p.decided = (mem[r].result = "decided")
        /\ p.allegations = mem[r].package /\ p.draft = mem[r].draft
        /\ p.audit = {ToAuditEntry(a) : a \in rows}
        /\ p.caseHistory = ToCaseHistory(rows)
        /\ p.draftConfirmedAt = DraftConfirmedAt(rows)
        /\ call[r].review \in Req /\ Target(r) \in Review
        /\ pc[r] = "audit_for" /\ ReadSoFar(r)
    BY <1>1, PageOf
  <2> HIDE DEF p
  <2>2. q \in Req /\ pc[q] = "done"
    BY <1>1 DEF HistoryInv, BeforeDone
  <2>3. mem[q].case = Target(r).case /\ mem[q].case # None
    BY <1>1, <2>1, ConstantsAssumption DEF Review, p
  <2>4. mem[q].result \notin {"not_found", "raised"} =>
          \E a \in rows : /\ a.by = q /\ a.result = mem[q].result
                          /\ a.action = call[q].tool
    BY <1>1, <2>2, <2>3, AnsweredRow
  <2>5. AnswersTrue /\ TierTold /\ ReadersAlone
    BY <1>1 DEF PageInv
  <2>6. ASSUME mem[q].result = "queued"
        PROVE  [by |-> q, event |-> "Sent to review"] \in p.caseHistory
    <3>1. call[q].tool = "send_to_review"
      BY <2>2, <2>5, <2>6 DEF AnswersTrue, Is
    <3>2. PICK a \in rows : /\ a.by = q /\ a.result = "queued"
                            /\ a.action = "send_to_review"
      BY <2>4, <2>6, <3>1
    <3>3. HistoryActions(a) = "Sent to review"
      BY <3>2 DEF HistoryActions
    <3>. QED  BY <2>1, <3>2, <3>3, RowShown
  <2>7. ASSUME mem[q].result = "verified"
        PROVE  [by |-> q, event |-> "Caller verified"] \in p.caseHistory
    <3>1. call[q].tool = "verify_session"
      BY <2>2, <2>5, <2>7 DEF AnswersTrue, Is
    <3>2. PICK a \in rows : /\ a.by = q /\ a.result = "verified"
                            /\ a.action = "verify_session"
      BY <2>4, <2>7, <3>1
    <3>3. HistoryActions(a) = "Caller verified"
      BY <3>2 DEF HistoryActions
    <3>. QED  BY <2>1, <3>2, <3>3, RowShown
  <2>8. ASSUME mem[q].result = "allegation"
        PROVE  q \in p.allegations
    BY <1>1, <2>1, <2>3, <2>8 DEF ReadSoFar, ToldOfCase
  <2>9. ASSUME mem[q].result = "drafted"
        PROVE  p.draft # None /\ p.draftConfirmedAt /\ p.draft \notin before[q]
    <3>1. call[q].tool = "draft_complaint"
      BY <2>2, <2>5, <2>9 DEF AnswersTrue, Is
    <3>2. DraftConfirmedAt(rows)
      BY <2>4, <2>9, <3>1 DEF DraftConfirmedAt
    <3>. QED  BY <1>1, <2>1, <2>3, <2>9, <3>2 DEF ReadSoFar, ToldOfCase
  <2>10. ASSUME mem[q].result \in {"decided", "already_decided"},
                call[q].review = p.reviewRef
         PROVE  /\ p.decided
                /\ [by |-> q, event |-> "Decision"] \in p.caseHistory
    <3>1. Is(q, {"decide"})
      BY <2>2, <2>3, <2>5, <2>10 DEF AnswersTrue, ReadersAlone, Is
    <3>2. p.decided
      BY <1>1, <2>1, <2>10, <3>1 DEF ReadSoFar, ToldDecided
    <3>3. PICK a \in rows : a.by = q /\ a.action = "decide"
      BY <2>4, <2>10, <3>1 DEF Is
    <3>4. HistoryActions(a) = "Decision"
      BY <3>3 DEF HistoryActions
    <3>. QED  BY <2>1, <3>2, <3>3, <3>4, RowShown
  <2>11. ASSUME mem[q].result \in Refusals
         PROVE  \E e \in p.audit : e.by = q /\ "refused" \in e.badges
    <3>1. PICK a \in rows : a.by = q /\ a.result = mem[q].result
      BY <2>4, <2>11 DEF Refusals
    <3>. QED  BY <2>1, <2>11, <3>1, RowShown
  <2>12. ASSUME q = p.reviewRef, mem[q].tier = 2
         PROVE  p.tier = 2
    <3>1. reviews[q] = Target(r) /\ q \in ReviewRefs
      BY <2>1, <2>2, <2>12, NoneAssumption DEF Target, ReviewRefs
    <3>. QED  BY <2>1, <2>2, <2>5, <2>12, <3>1 DEF TierTold
  <2>13. TranscriptStatusBanner(p) = "Decision recorded" <=> p.decided
    BY <2>1 DEF TranscriptStatusBanner
  <2>14. p.tier = 2 => TierLabel(p) = "TIER 2 - MANDATORY QUALIFIED"
    BY DEF TierLabel
  <2>15. /\ CaseSidePanel(p).history = p.caseHistory
         /\ AllegationsCard(p).statements = p.allegations
         /\ AgentActivityCard(p).refusals =
              {e \in p.audit : "refused" \in e.badges}
    BY DEF CaseSidePanel, AllegationsCard, AgentActivityCard
  <2>16. p.draft # None =>
           /\ ComplaintDraftCard(p).draft = p.draft
           /\ ComplaintDraftCard(p).confirmedAt = p.draftConfirmedAt
    BY DEF ComplaintDraftCard
  <2>17. mem[q].result = "drafted" =>
           /\ ComplaintDraftCard(p).draft # None
           /\ ComplaintDraftCard(p).confirmedAt
           /\ ComplaintDraftCard(p).draft \notin before[q]
    BY <2>9, <2>16
  <2>18. mem[q].result \in Refusals =>
           \E e \in AgentActivityCard(p).refusals : e.by = q
    BY <2>11, <2>15
  <2>19. Shows(p, q)
    BY <2>6, <2>7, <2>8, <2>10, <2>12, <2>13, <2>14, <2>15, <2>17, <2>18
       DEF Shows
  <2>. QED  BY <2>19 DEF p
<1>2. Inv /\ GateInv /\ HistoryInv /\ RowsInv /\ CaseInv /\ PageInv =>
        [\A r \in Req : DetailAudit(r) =>
           \A q \in before[r] :
             mem[q].case = ToCaseView(r).caseRef
             => Shows(ToCaseView(r), q)]_vars
  BY <1>1
<1>. QED  BY <1>2, InvAlways, GateInvAlways, HistoryInvAlways, RowsInvAlways,
             CaseInvAlways, PageInvAlways, PTL DEF PageKeepsUp
=============================================================================

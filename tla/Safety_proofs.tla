--------------------------- MODULE Safety_proofs ---------------------------
(***************************************************************************)
(* The safety theorems of ControlPlane: the human gate, the scope of a     *)
(* call, and what an answered request means for the requests after it.     *)
(***************************************************************************)
EXTENDS ControlPlane_proofs

-----------------------------------------------------------------------------
(***************************************************************************)
(* What a step of one handler may touch: its own program counter and       *)
(* memory, and the one table its Store operation writes.  The safety       *)
(* theorems of ControlPlane rest on these lemmas, so that each of them     *)
(* looks only at the few actions that write what it is about.              *)
(***************************************************************************)

\* The handler r moves on, and nothing but its own state says so.
Moves(r) ==
  /\ \E l \in PcLabel : pc' = [pc EXCEPT ![r] = l]
  /\ \E m \in Memory : mem' = [mem EXCEPT ![r] = m]
  /\ UNCHANGED <<call, before, crashes>>

LEMMA MovesFacts ==
  ASSUME Inv, NEW r \in Req, Moves(r)
  PROVE  /\ \A q \in Req : q # r => pc'[q] = pc[q] /\ mem'[q] = mem[q]
         /\ call' = call /\ before' = before
BY DEF Moves, Inv, TypeOK

\* Every step of a handler is a step of that handler only.
LEMMA ServeMoves ==
  ASSUME Inv, Inv', NEW r \in Req, Serve(r)
  PROVE  Moves(r)
<1>1. ASSUME NEW l, NEW m, Go(r, l, m)
      PROVE  Moves(r)
  <2>1. pc'[r] = l /\ mem'[r] = m
    BY <1>1 DEF Go, Inv, TypeOK
  <2>2. l \in PcLabel /\ m \in Memory
    BY <2>1 DEF Inv, TypeOK, PcLabel
  <2>. QED  BY <1>1, <2>2 DEF Go, Moves
<1>2. ASSUME NEW s, NEW k, Answer(r, s, k)
      PROVE  Moves(r)
  BY <1>1, <1>2 DEF Answer
<1>3. ASSUME CallStep(r)
      PROVE  Moves(r)
  <2>1. CASE VerifyRead(r) \/ BindCall(r) \/ FailAttempt(r) \/ FailRead(r)
             \/ LockCall(r)
    BY <1>1, <1>2, <2>1
       DEF VerifyRead, BindCall, FailAttempt, FailRead, LockCall
  <2>2. CASE TransferRead(r) \/ SetConsent(r) \/ RefusePeriod(r)
             \/ OutOfScope(r) \/ RecordsDown(r)
    BY <1>1, <1>2, <2>2
       DEF TransferRead, SetConsent, RefusePeriod, OutOfScope, RecordsDown
  <2>3. CASE RunCheck(r) \/ CheckRaises(r) \/ RunAllegation(r)
             \/ StoreAllegation(r)
    BY <1>1, <1>2, <2>3
       DEF RunCheck, CheckRaises, RunAllegation, StoreAllegation, Ruled
  <2>4. CASE DraftScoped(r) \/ DraftAllegations(r) \/ DraftEvidence(r)
             \/ StoreDraft(r)
    BY <1>1, <1>2, <2>4
       DEF DraftScoped, DraftAllegations, DraftEvidence, StoreDraft
  <2>5. CASE QueueScoped(r) \/ QueueActive(r) \/ QueueFloor(r)
             \/ QueuePackage(r) \/ StoreReview(r)
    BY <1>1, <1>2, <2>5
       DEF QueueScoped, QueueActive, QueueFloor, QueuePackage, StoreReview
  <2>. QED  BY <1>3, <2>1, <2>2, <2>3, <2>4, <2>5 DEF CallStep
<1>4. ASSUME DeskStep(r)
      PROVE  Moves(r)
  <2>1. CASE ReviewMissing(r) \/ DecideRead(r) \/ DecideUnlock(r)
             \/ StoreDecision(r)
    BY <1>1, <1>2, <2>1
       DEF ReviewMissing, DecideRead, DecideUnlock, StoreDecision
  <2>2. CASE DetailReview(r) \/ DetailTranscript(r)
             \/ DetailAllegations(r) \/ DetailDraft(r) \/ DetailAudit(r)
             \/ StoreTranscript(r)
    BY <1>1, <1>2, <2>2
       DEF DetailReview, DetailTranscript, DetailAllegations,
       DetailDraft, DetailAudit, StoreTranscript
  <2>. QED  BY <1>4, <2>1, <2>2 DEF DeskStep
<1>. QED  BY <1>1, <1>3, <1>4 DEF Serve, Audit

\* Each table is written by the operations that name it, and no other.
LEMMA ServeWrites ==
  ASSUME NEW r \in Req, Serve(r)
  PROVE  /\ \/ UNCHANGED sessions
            \/ BindCall(r) \/ FailAttempt(r) \/ LockCall(r) \/ SetConsent(r)
         /\ UNCHANGED allegations \/ StoreAllegation(r)
         /\ UNCHANGED drafts \/ StoreDraft(r)
         /\ UNCHANGED reviews \/ StoreReview(r) \/ StoreDecision(r)
         /\ UNCHANGED transcripts \/ StoreTranscript(r)
         /\ UNCHANGED audit \/ Audit(r)
BY DEF Serve, CallStep, DeskStep, VerifyRead, BindCall, FailAttempt, FailRead,
       LockCall, TransferRead, SetConsent, RefusePeriod, OutOfScope,
       RecordsDown, RunCheck, CheckRaises, RunAllegation, StoreAllegation, DraftScoped,
       DraftAllegations, DraftEvidence, StoreDraft, QueueScoped, QueueActive,
       QueueFloor, QueuePackage, StoreReview, ReviewMissing, DecideRead,
       DecideUnlock, StoreDecision, DetailReview, DetailTranscript,
       DetailAllegations, DetailDraft, DetailAudit, StoreTranscript, Audit, db

\* Where a handler goes after Go and Answer.
LEMMA Lands ==
  ASSUME Inv, NEW r \in Req
  PROVE  /\ \A l, m : Go(r, l, m) => pc'[r] = l /\ mem'[r] = m
         /\ \A s, k : Answer(r, s, k) =>
              /\ pc'[r] = "audit"
              /\ mem'[r].result = s /\ mem'[r].worker = mem[r].worker
<1>1. \A l, m : Go(r, l, m) => pc'[r] = l /\ mem'[r] = m
  BY DEF Go, Inv, TypeOK
<1>2. mem[r] \in Memory
  BY DEF Inv, TypeOK
<1>3. ASSUME NEW s, NEW k, Answer(r, s, k)
      PROVE  /\ pc'[r] = "audit"
             /\ mem'[r].result = s /\ mem'[r].worker = mem[r].worker
  BY <1>1, <1>2, <1>3 DEF Answer, Memory
<1>. QED  BY <1>1, <1>3

(***************************************************************************)
(* The steps that lead to each label where a handler is about to write, or *)
(* has read what it will write, and the steps out of the two labels after  *)
(* the answer is settled.                                                  *)
(***************************************************************************)
CalleeEdges(r) ==
  /\ pc[r] \in Label /\ pc'[r] \in Label \cup {"done"}
  /\ pc'[r] = "bind" => VerifyRead(r)
  /\ pc'[r] = "fail_read" => FailAttempt(r)
  /\ pc'[r] \in {"draft_allegations", "active_review"} =>
       DraftScoped(r) \/ QueueScoped(r)
  /\ pc'[r] = "draft_evidence" => DraftAllegations(r)
  /\ pc'[r] = "create_draft" => DraftEvidence(r)
  /\ pc'[r] = "floor" => QueueActive(r)
  /\ pc'[r] = "package" => QueueFloor(r)
  /\ pc'[r] = "create_review" => QueuePackage(r)
  /\ pc'[r] = "add_allegation" => Audit(r)
  /\ pc'[r] = "has_transcript" => DecideRead(r)
  /\ pc'[r] = "decide" => DecideUnlock(r)
  /\ pc[r] = "audit" => Audit(r)
  /\ pc[r] = "add_allegation" => StoreAllegation(r)

LEMMA ServeEdges ==
  ASSUME Inv, NEW r \in Req, Serve(r)
  PROVE  CalleeEdges(r)
<1>1. /\ \A l, m : Go(r, l, m) => pc'[r] = l
      /\ \A s, k : Answer(r, s, k) => pc'[r] = "audit"
  BY Lands
<1>2. CASE VerifyRead(r) \/ BindCall(r) \/ FailAttempt(r) \/ FailRead(r)
           \/ LockCall(r)
  BY <1>1, <1>2 DEF VerifyRead, BindCall, FailAttempt, FailRead, LockCall, At,
     Label, CalleeEdges
<1>3. CASE TransferRead(r) \/ SetConsent(r) \/ RefusePeriod(r)
           \/ OutOfScope(r) \/ RecordsDown(r)
  BY <1>1, <1>3 DEF TransferRead, SetConsent, RefusePeriod, OutOfScope,
     RecordsDown, At, Label, CalleeEdges
<1>4. CASE RunCheck(r) \/ CheckRaises(r) \/ RunAllegation(r)
           \/ StoreAllegation(r)
  BY <1>1, <1>4 DEF RunCheck, CheckRaises, RunAllegation, StoreAllegation,
     Ruled, At, Label, CalleeEdges
<1>5. CASE DraftScoped(r) \/ DraftAllegations(r) \/ DraftEvidence(r)
           \/ StoreDraft(r)
  BY <1>1, <1>5 DEF DraftScoped, DraftAllegations, DraftEvidence, StoreDraft,
     At, Label, CalleeEdges
<1>6. CASE QueueScoped(r) \/ QueueActive(r) \/ QueueFloor(r)
           \/ QueuePackage(r) \/ StoreReview(r)
  BY <1>1, <1>6 DEF QueueScoped, QueueActive, QueueFloor, QueuePackage,
     StoreReview, At, Label, CalleeEdges
<1>7. CASE ReviewMissing(r) \/ DecideRead(r) \/ DecideUnlock(r)
           \/ StoreDecision(r)
  BY <1>1, <1>7 DEF ReviewMissing, DecideRead, DecideUnlock, StoreDecision,
     At, Label, CalleeEdges
<1>8. CASE DetailReview(r) \/ DetailTranscript(r)
             \/ DetailAllegations(r) \/ DetailDraft(r) \/ DetailAudit(r)
           \/ StoreTranscript(r) \/ Audit(r)
  BY <1>1, <1>8 DEF DetailReview, DetailTranscript, DetailAllegations,
     DetailDraft, DetailAudit,
     StoreTranscript, Audit, At, Label, CalleeEdges
<1>. QED  BY <1>2, <1>3, <1>4, <1>5, <1>6, <1>7, <1>8
          DEF Serve, CallStep, DeskStep

\* The steps that settle an answer the safety properties speak of, and the
\* only steps that give a handler the records of a worker.
CalleeResults(r) ==
  /\ mem'[r].result = "verified" =>
       mem[r].result = "verified" \/ BindCall(r)
  /\ mem'[r].result = "verification_failed" =>
       mem[r].result = "verification_failed" \/ FailRead(r)
  /\ mem'[r].result = "decided" =>
       mem[r].result = "decided" \/ StoreDecision(r) \/ DetailReview(r)
  /\ mem'[r].result = "allegation" =>
       mem[r].result = "allegation" \/ RunAllegation(r)
  /\ mem'[r].result = "verification_locked" =>
       \/ mem[r].result = "verification_locked"
       \/ LockCall(r)
       \/ VerifyRead(r) /\ sessions[call[r].conv].locked
  /\ mem'[r].worker = mem[r].worker
     \/ /\ RunCheck(r) \/ RunAllegation(r)
        /\ mem'[r].worker = sessions[call[r].conv].worker

LEMMA ServeResults ==
  ASSUME Inv, NEW r \in Req, Serve(r)
  PROVE  CalleeResults(r)
<1>1. /\ \A l, m : Go(r, l, m) => mem'[r] = m
      /\ \A s, k : Answer(r, s, k) =>
           mem'[r].result = s /\ mem'[r].worker = mem[r].worker
  BY Lands
<1>2. mem[r] \in Memory
  BY DEF Inv, TypeOK
<1>3. CASE VerifyRead(r) \/ BindCall(r) \/ FailAttempt(r) \/ FailRead(r)
           \/ LockCall(r)
  BY <1>1, <1>3
     DEF VerifyRead, BindCall, FailAttempt, FailRead, LockCall, CalleeResults
<1>4. CASE TransferRead(r) \/ SetConsent(r) \/ RefusePeriod(r)
           \/ OutOfScope(r) \/ RecordsDown(r)
  <2>1. ASSUME NEW s, NEW k, mem'[r] = [mem[r] EXCEPT !.result = s, !.case = k]
        PROVE  mem'[r].result = s /\ mem'[r].worker = mem[r].worker
    BY <1>2, <2>1 DEF Memory
  <2>2. CASE TransferRead(r)
    <3>1. PICK k : \/ Answer(r, "callback_without_consent", k)
                   \/ Answer(r, "transfer", k)
                   \/ Go(r, "set_consent",
                         [mem[r] EXCEPT !.result = "callback", !.case = k])
      BY <2>2 DEF TransferRead
    <3>2. /\ mem'[r].result \in {"callback_without_consent", "transfer",
                                 "callback"}
          /\ mem'[r].worker = mem[r].worker
      BY <1>1, <2>1, <3>1
    <3>. QED  BY <3>2 DEF CalleeResults
  <2>3. CASE ~TransferRead(r)
    BY <1>1, <1>4, <2>3 DEF SetConsent, RefusePeriod, OutOfScope, RecordsDown,
       CalleeResults
  <2>. QED  BY <2>2, <2>3
<1>5. CASE RunCheck(r) \/ RunAllegation(r)
  <2>1. ASSUME NEW s, NEW o, Ruled(r, s, o)
        PROVE  /\ mem'[r].result = s
               /\ mem'[r].worker = sessions[call[r].conv].worker
    BY <1>1, <1>2, <2>1 DEF Ruled, Memory
  <2>. QED  BY <1>5, <2>1 DEF RunCheck, RunAllegation, CalleeResults
<1>6. CASE DraftScoped(r) \/ DraftAllegations(r) \/ DraftEvidence(r)
           \/ StoreDraft(r)
  <2>1. ASSUME NEW e, mem'[r] = [mem[r] EXCEPT !.evidence = e]
        PROVE  mem'[r].result = mem[r].result /\ mem'[r].worker = mem[r].worker
    BY <1>2, <2>1 DEF Memory
  <2>2. ASSUME NEW p, mem'[r] = [mem[r] EXCEPT !.package = p]
        PROVE  mem'[r].result = mem[r].result /\ mem'[r].worker = mem[r].worker
    BY <1>2, <2>2 DEF Memory
  <2>. QED  BY <1>1, <1>6, <2>1, <2>2
            DEF DraftScoped, DraftAllegations, DraftEvidence, StoreDraft,
            CalleeResults
<1>7. CASE QueueScoped(r) \/ QueueActive(r) \/ QueueFloor(r)
           \/ QueuePackage(r) \/ StoreReview(r)
  BY <1>1, <1>2, <1>7 DEF QueueScoped, QueueActive, QueueFloor, QueuePackage,
     StoreReview, CalleeResults, Memory
<1>8. CASE CheckRaises(r) \/ ReviewMissing(r) \/ DecideRead(r) \/ DecideUnlock(r)
           \/ StoreDecision(r)
  BY <1>1, <1>2, <1>8 DEF CheckRaises, ReviewMissing, DecideRead, DecideUnlock,
     StoreDecision, CalleeResults, Memory
<1>9. CASE DetailReview(r) \/ DetailTranscript(r) \/ DetailAllegations(r)
           \/ DetailDraft(r) \/ DetailAudit(r)
  <2>1. CASE DetailDraft(r)
    <3>1. ASSUME NEW d, mem'[r] = [mem[r] EXCEPT !.draft = d]
          PROVE  mem'[r].result = mem[r].result /\ mem'[r].worker = mem[r].worker
      BY <1>2, <3>1 DEF Memory
    <3>. QED  BY <1>1, <2>1, <3>1 DEF DetailDraft, CalleeResults
  <2>2. CASE ~DetailDraft(r)
    BY <1>1, <1>2, <1>9, <2>2 DEF DetailReview, DetailTranscript,
       DetailAllegations, DetailAudit, CalleeResults, Memory
  <2>. QED  BY <2>1, <2>2
<1>10. CASE StoreTranscript(r) \/ Audit(r) \/ StoreAllegation(r)
  BY <1>1, <1>2, <1>10 DEF StoreTranscript, Audit, StoreAllegation,
     CalleeResults, Memory
<1>. QED  BY <1>3, <1>4, <1>5, <1>6, <1>7, <1>8, <1>9, <1>10
          DEF Serve, CallStep, DeskStep

-----------------------------------------------------------------------------

(***************************************************************************)
(* The human gate.  DecisionNeedsTranscript is not inductive alone: a      *)
(* handler that has seen the transcript and not yet stored its decision    *)
(* must still find the review it read, on the same call.                   *)
(***************************************************************************)

\* A review is created by its own request, which then creates no other.
ReviewsFresh ==
  \A v \in Req :
    reviews[v] # None => pc[v] \in {"audit", "add_allegation", "done", "lost"}

\* The review a decision is about, once its handler found it.
Target(r) == reviews[call[r].review]

\* A handler about to decide has seen the transcript.
Unlocked ==
  \A r \in Req : pc[r] = "decide" => transcripts[Target(r).conv] # None

GateInv == ReviewsFresh /\ Unlocked /\ DecisionNeedsTranscript

\* No step takes a review or a transcript away or moves a review to another
\* call; a decision, once made, is never withdrawn.
LEMMA ReviewsStable ==
  ASSUME Inv, GateInv, NEW r \in Req, Serve(r)
  PROVE  /\ \A v \in Req : reviews[v] # None =>
              /\ reviews'[v] # None
              /\ reviews'[v].conv = reviews[v].conv
              /\ reviews'[v].case = reviews[v].case
              /\ reviews[v].decision # None => reviews'[v].decision # None
         /\ \A c \in Conv : transcripts[c] # None =>
              transcripts'[c] = transcripts[c]
<1>1. CASE StoreReview(r)
  <2>1. reviews[r] = None /\ pc[r] = "create_review"
    BY <1>1 DEF StoreReview, GateInv, ReviewsFresh
  <2>. QED  BY <1>1, <2>1 DEF StoreReview, CreateReview, Inv, TypeOK
<1>2. CASE StoreDecision(r)
  <2> DEFINE v == call[r].review
             it == [reviews[v] EXCEPT !.decision = call[r].decision,
                                      !.decidedBy = r]
  <2>1. /\ reviews[v] \in Review /\ v \in Req /\ call[r].decision \in Decision
    BY <1>2, CallFields DEF StoreDecision, Inv, ShapeOK, Shape
  <2>2. reviews' = [reviews EXCEPT ![v] = it]
    BY <1>2, <2>1 DEF StoreDecision, Decide, Inv, TypeOK
  <2>3. it \in Review
    BY <2>1 DEF Review
  <2>4. it # None /\ it.conv = reviews[v].conv /\ it.case = reviews[v].case
        /\ it.decision # None
    BY <2>1, <2>3, ConstantsAssumption, NoneAssumption DEF Review
  <2> HIDE DEF it
  <2>5. UNCHANGED transcripts
    BY <1>2 DEF StoreDecision
  <2>. QED  BY <2>1, <2>2, <2>4, <2>5 DEF Inv, TypeOK
<1>3. CASE UNCHANGED reviews
  BY <1>3, ServeWrites DEF StoreTranscript, SaveTranscript, HasTranscript,
     Inv, TypeOK
<1>. QED  BY <1>1, <1>2, <1>3, ServeWrites

LEMMA GateServe ==
  ASSUME Inv, Inv', GateInv, NEW r \in Req, Serve(r)
  PROVE  GateInv'
<1>1. Moves(r) /\ CalleeEdges(r)
  BY ServeMoves, ServeEdges
<1>2. /\ \A q \in Req : q # r => pc'[q] = pc[q]
      /\ call' = call
  BY <1>1, MovesFacts
<1>3. ReviewsFresh'
  <2>1. ASSUME NEW v \in Req, reviews'[v] # None
        PROVE  pc'[v] \in {"audit", "add_allegation", "done", "lost"}
    <3>1. CASE reviews[v] # None /\ v # r
      BY <1>2, <3>1 DEF GateInv, ReviewsFresh
    <3>2. CASE reviews[v] # None /\ v = r
      <4>1. pc[r] \in {"audit", "add_allegation"}
        BY <1>1, <3>2 DEF GateInv, ReviewsFresh, CalleeEdges, Label
      <4>2. Audit(r) \/ StoreAllegation(r)
        BY <1>1, <4>1 DEF CalleeEdges
      <4>. QED  BY <3>2, <4>2, Lands DEF Audit, StoreAllegation
    <3>3. CASE reviews[v] = None
      <4>1. StoreReview(r) /\ v = r
        <5>1. StoreReview(r) \/ StoreDecision(r)
          BY <2>1, <3>3, ServeWrites
        <5>2. CASE StoreDecision(r)
          <6>1. v = call[r].review
            BY <2>1, <3>3, <5>2 DEF StoreDecision, Decide, Inv, TypeOK
          <6>2. reviews[call[r].review] \in Review
            BY <5>2 DEF StoreDecision, Inv, ShapeOK, Shape
          <6>. QED  BY <3>3, <6>1, <6>2, NoneAssumption
        <5>3. CASE StoreReview(r)
          BY <2>1, <3>3, <5>3 DEF StoreReview, CreateReview, Inv, TypeOK
        <5>. QED  BY <5>1, <5>2, <5>3
      <4>. QED  BY <4>1, Lands DEF StoreReview
    <3>. QED  BY <3>1, <3>2, <3>3
  <2>. QED  BY <2>1 DEF ReviewsFresh
<1>4. Unlocked'
  <2>1. ASSUME NEW q \in Req, pc'[q] = "decide"
        PROVE  /\ Target(q) \in Review /\ transcripts[Target(q).conv] # None
               /\ call[q].review \in Req
    <3>1. CASE q # r
      BY <1>2, <2>1, <3>1, CallFields
         DEF GateInv, Unlocked, Inv, ShapeOK, Shape, Target
    <3>2. CASE q = r
      <4>1. DecideUnlock(r)
        BY <1>1, <2>1, <3>2 DEF CalleeEdges
      <4>2. Target(r) \in Review /\ call[r].review \in Req
        BY <4>1, CallFields DEF DecideUnlock, Inv, ShapeOK, Shape, Target
      <4>3. HasTranscript(Target(r).conv)
        BY <2>1, <3>2, <4>1, Lands DEF DecideUnlock, Target
      <4>. QED  BY <3>2, <4>2, <4>3 DEF HasTranscript
    <3>. QED  BY <3>1, <3>2
  <2>2. ASSUME NEW q \in Req, pc'[q] = "decide"
        PROVE  transcripts'[Target(q)'.conv] # None
    <3>1. /\ Target(q) \in Review /\ transcripts[Target(q).conv] # None
          /\ call[q].review \in Req
      BY <2>1, <2>2
    <3>2. Target(q)'.conv = Target(q).conv /\ Target(q).conv \in Conv
      BY <1>2, <3>1, ReviewsStable, NoneAssumption DEF Target, Review
    <3>. QED  BY <3>1, <3>2, ReviewsStable
  <2>. QED  BY <2>2 DEF Unlocked
<1>5. DecisionNeedsTranscript'
  <2>1. ASSUME NEW v \in Req, reviews'[v] # None, reviews'[v].decision # None
        PROVE  transcripts'[reviews'[v].conv] # None
    <3>1. CASE StoreReview(r)
      <4>1. v # r
        <5>1. pc[r] = "create_review"
          BY <3>1 DEF StoreReview
        <5>2. reviews'[r].decision = None
          BY <3>1 DEF StoreReview, CreateReview, Inv, TypeOK
        <5>. QED  BY <2>1, <5>2
      <4>2. reviews'[v] = reviews[v] /\ transcripts' = transcripts
        BY <3>1, <4>1 DEF StoreReview, CreateReview, Inv, TypeOK
      <4>. QED  BY <2>1, <4>2
                DEF GateInv, DecisionNeedsTranscript, ReviewRefs
    <3>2. CASE StoreDecision(r)
      <4>1. /\ transcripts[Target(r).conv] # None
            /\ Target(r) \in Review /\ call[r].review \in Req
        BY <3>2, CallFields DEF StoreDecision, GateInv, Unlocked, Inv,
           ShapeOK, Shape, Target
      <4>2. CASE v = call[r].review
        <5>1. reviews'[v].conv = Target(r).conv
          BY <4>1, <4>2, ReviewsStable, NoneAssumption DEF Target
        <5>. QED  BY <3>2, <4>1, <5>1 DEF StoreDecision
      <4>3. CASE v # call[r].review
        <5>1. reviews'[v] = reviews[v] /\ transcripts' = transcripts
          BY <3>2, <4>3 DEF StoreDecision, Decide, Inv, TypeOK
        <5>. QED  BY <2>1, <5>1
                  DEF GateInv, DecisionNeedsTranscript, ReviewRefs
      <4>. QED  BY <4>2, <4>3
    <3>3. CASE UNCHANGED reviews
      <4>1. reviews[v] \in Review
        BY <2>1, <3>3 DEF Inv, TypeOK
      <4>2. transcripts[reviews[v].conv] # None
        BY <2>1, <3>3 DEF GateInv, DecisionNeedsTranscript, ReviewRefs
      <4>. QED  BY <3>3, <4>1, <4>2, ReviewsStable DEF Review
    <3>. QED  BY <3>1, <3>2, <3>3, ServeWrites
  <2>. QED  BY <2>1 DEF DecisionNeedsTranscript, ReviewRefs
<1>. QED  BY <1>3, <1>4, <1>5 DEF GateInv

LEMMA GateInvAlways == Spec => []GateInv
<1>1. Init => GateInv
  <2>1. Init => /\ \A r \in Req : pc[r] = "idle"
                /\ \A v \in Req : reviews[v] = None
    BY DEF Init, InitStore, InitRequests
  <2>. QED  BY <2>1 DEF GateInv, ReviewsFresh, Unlocked,
            DecisionNeedsTranscript, ReviewRefs
<1>2. Inv /\ Inv' /\ GateInv /\ [Next]_vars => GateInv'
  <2> SUFFICES ASSUME Inv, Inv', GateInv, [Next]_vars
               PROVE  GateInv'
    OBVIOUS
  <2>1. ASSUME NEW r \in Req, Arrive(r)
        PROVE  GateInv'
    <3>1. PICK k \in Calls : /\ call' = [call EXCEPT ![r] = k]
                             /\ pc' = [pc EXCEPT ![r] = FirstLabel(k.tool)]
      BY <2>1 DEF Arrive
    <3>2. FirstLabel(k.tool) # "decide"
      BY DEF FirstLabel
    <3>3. /\ pc[r] = "idle" /\ UNCHANGED <<reviews, transcripts>>
          /\ \A q \in Req : q # r => pc'[q] = pc[q] /\ call'[q] = call[q]
          /\ pc'[r] # "decide"
      BY <2>1, <3>1, <3>2 DEF Arrive, db, Inv, TypeOK
    <3>4. reviews[r] = None
      BY <3>3 DEF GateInv, ReviewsFresh
    <3>. QED  BY <3>3, <3>4 DEF GateInv, ReviewsFresh, Unlocked, Target,
              DecisionNeedsTranscript, ReviewRefs
  <2>2. CASE Crash
    <3>1. /\ UNCHANGED <<reviews, transcripts, call>>
          /\ \A q \in Req : pc'[q] = pc[q] \/ pc'[q] = "lost"
      BY <2>2 DEF Crash, db, InFlight
    <3>. QED  BY <3>1 DEF GateInv, ReviewsFresh, Unlocked, Target,
              DecisionNeedsTranscript, ReviewRefs
  <2>3. CASE UNCHANGED vars
    BY <2>3 DEF vars, db, requestVars, GateInv, ReviewsFresh, Unlocked,
       Target, DecisionNeedsTranscript, ReviewRefs
  <2>. QED  BY <2>1, <2>2, <2>3, GateServe DEF Next, Finished
<1>. QED  BY <1>1, <1>2, InvAlways, PTL DEF Spec

\* The human gate: however many requests race and whenever the process
\* dies, no review is decided before the transcript of its call is stored.
THEOREM NoBlindDecision == Spec => []DecisionNeedsTranscript
<1>1. GateInv => DecisionNeedsTranscript
  BY DEF GateInv
<1>. QED  BY <1>1, GateInvAlways, PTL

-----------------------------------------------------------------------------
(***************************************************************************)
(* Scope.  A call is bound only to a worker who proved who they are, so a  *)
(* handler that passed the scope check works on a case whose own worker    *)
(* proved it, and keeps that fact while other calls change the session.    *)
(***************************************************************************)

Owned(r) == \E w \in Worker :
              CaseOf[w] = call[r].case /\ Proved(call[r].conv, w)

Filed(r) == \/ r \in ReviewRefs
            \/ \E d \in drafts : d.id = r
            \/ \E a \in allegations : a.id = r

\* The labels of a handler that passed the scope check and has yet to file.
Filing == {"draft_allegations", "draft_evidence", "create_draft",
           "active_review", "floor", "package", "create_review",
           "add_allegation"}

IdleBlank == \A r \in Req : pc[r] = "idle" =>
               call[r] = None /\ mem[r] = NoMemory /\ ~Filed(r)

Matched == \A r \in Req : pc[r] = "bind" => Match(call[r])

Cleared == \A r \in Req :
             pc[r] \in Filing \/ mem[r].result = "allegation" => Owned(r)

ScopeInv == /\ IdleBlank /\ Matched /\ Cleared
            /\ BoundByCredentials /\ OwnRecordsOnly /\ CaseworkProved

\* Only the last step of a filing handler files.
LEMMA FiledBy ==
  ASSUME Inv, NEW r \in Req, Serve(r), NEW q \in Req, Filed(q)'
  PROVE  Filed(q) \/ (q = r /\ pc[r] \in Filing)
<1>1. CASE q \in ReviewRefs'
  <2>1. CASE StoreReview(r)
    BY <1>1, <2>1 DEF StoreReview, CreateReview, ReviewRefs, Filed, Filing,
       Inv, TypeOK
  <2>2. CASE StoreDecision(r)
    <3>1. reviews[call[r].review] \in Review
      BY <2>2 DEF StoreDecision, Inv, ShapeOK, Shape
    <3>. QED  BY <1>1, <2>2, <3>1, NoneAssumption
              DEF StoreDecision, Decide, ReviewRefs, Filed, Inv, TypeOK
  <2>3. CASE UNCHANGED reviews
    BY <1>1, <2>3 DEF ReviewRefs, Filed
  <2>. QED  BY <2>1, <2>2, <2>3, ServeWrites
<1>2. CASE \E d \in drafts' : d.id = q
  BY <1>2, ServeWrites DEF StoreDraft, CreateDraft, Filed, Filing
<1>3. CASE \E a \in allegations' : a.id = q
  BY <1>3, ServeWrites DEF StoreAllegation, AddAllegation, Filed, Filing
<1>. QED  BY <1>1, <1>2, <1>3 DEF Filed

\* In scope: the worker the call is bound to owns the case and proved it.
LEMMA ScopedWorker ==
  ASSUME Inv, ScopeInv, NEW r \in Req, pc[r] = "scoped", InScope(r)
  PROVE  LET w == sessions[call[r].conv].worker
         IN /\ w \in Worker /\ CaseOf[w] = call[r].case
            /\ Proved(call[r].conv, w)
<1>1. call[r].conv \in Conv
  BY ScopedCall
<1>. QED  BY <1>1 DEF InScope, ScopeInv, BoundByCredentials

LEMMA BindProves ==
  ASSUME Inv, ScopeInv, NEW r \in Req, BindCall(r)
  PROVE  /\ call[r].worker \in Worker /\ call[r].conv \in Conv
         /\ CaseOf[call[r].worker] = call[r].case
         /\ Proved(call[r].conv, call[r].worker)
<1>1. call[r] \in VerifyCall /\ Match(call[r])
  BY DEF BindCall, Inv, ShapeOK, Shape, ScopeInv, Matched
<1>2. call[r] # None
  BY <1>1, CallsAssumption DEF Call
<1>. QED  BY <1>1, <1>2, CallFields DEF Match, Proved, Verifies, Is

LEMMA BoundServe ==
  ASSUME Inv, ScopeInv, NEW r \in Req, Serve(r), call' = call
  PROVE  BoundByCredentials'
<1>1. \A c, w : Proved(c, w)' <=> Proved(c, w)
  BY DEF Proved, Verifies, Is
<1>2. CASE BindCall(r)
  <2> DEFINE c == call[r].conv
             s == [sessions[c] EXCEPT !.worker = call[r].worker,
                     !.case = call[r].case, !.verified = TRUE]
  <2>1. sessions' = [sessions EXCEPT ![c] = s] /\ sessions[c] \in Session
    BY <1>2, BindProves DEF BindCall, Bind, Inv, TypeOK
  <2>2. s.worker = call[r].worker /\ s.case = call[r].case
    BY <2>1 DEF Session
  <2> HIDE DEF s
  <2>. QED  BY <1>1, <1>2, <2>1, <2>2, BindProves
            DEF ScopeInv, BoundByCredentials, Inv, TypeOK
<1>3. CASE FailAttempt(r) \/ LockCall(r) \/ SetConsent(r)
  <2>1. call[r].conv \in Conv
    BY <1>3, CallFields
       DEF FailAttempt, LockCall, SetConsent, Inv, ShapeOK, Shape
  <2>2. \A c \in Conv : /\ sessions'[c].verified = sessions[c].verified
                        /\ sessions'[c].worker = sessions[c].worker
                        /\ sessions'[c].case = sessions[c].case
    <3>1. \A c \in Conv : sessions[c] \in Session
      BY DEF Inv, TypeOK
    <3>2. CASE FailAttempt(r)
      BY <2>1, <3>1, <3>2
         DEF FailAttempt, CountFailure, Session, Inv, TypeOK
    <3>3. CASE LockCall(r)
      BY <2>1, <3>1, <3>3 DEF LockCall, LockSession, Session, Inv, TypeOK
    <3>4. CASE SetConsent(r)
      BY <2>1, <3>1, <3>4
         DEF SetConsent, SetCallbackConsent, Session, Inv, TypeOK
    <3>. QED  BY <1>3, <3>2, <3>3, <3>4
  <2>. QED  BY <1>1, <2>2 DEF ScopeInv, BoundByCredentials
<1>4. CASE UNCHANGED sessions
  BY <1>1, <1>4 DEF ScopeInv, BoundByCredentials
<1>. QED  BY <1>2, <1>3, <1>4, ServeWrites

LEMMA ScopeServe ==
  ASSUME Inv, Inv', ScopeInv, NEW r \in Req, Serve(r)
  PROVE  ScopeInv'
<1>1. Moves(r) /\ CalleeEdges(r) /\ CalleeResults(r)
  BY ServeMoves, ServeEdges, ServeResults
<1>2. /\ \A q \in Req : q # r => pc'[q] = pc[q] /\ mem'[q] = mem[q]
      /\ call' = call
  BY <1>1, MovesFacts
<1>3. \A q \in Req : Owned(q)' <=> Owned(q)
  BY <1>2 DEF Owned, Proved, Verifies, Is
<1>4. IdleBlank'
  <2>1. ASSUME NEW q \in Req, pc'[q] = "idle"
        PROVE  call'[q] = None /\ mem'[q] = NoMemory /\ ~Filed(q)'
    <3>1. q # r
      BY <1>1, <2>1 DEF CalleeEdges, Label
    <3>. QED  BY <1>2, <2>1, <3>1, FiledBy DEF ScopeInv, IdleBlank
  <2>. QED  BY <2>1 DEF IdleBlank
<1>5. Matched'
  <2>1. ASSUME pc'[r] = "bind"
        PROVE  Match(call[r])
    <3>1. VerifyRead(r)
      BY <1>1, <2>1 DEF CalleeEdges
    <3>. QED  BY <2>1, <3>1, Lands DEF VerifyRead
  <2>. QED  BY <1>2, <2>1 DEF ScopeInv, Matched, Match
<1>6. Cleared'
  <2>1. ASSUME pc'[r] \in Filing
        PROVE  Owned(r)
    <3>1. CASE pc[r] \in Filing \/ mem[r].result = "allegation"
      BY <3>1 DEF ScopeInv, Cleared
    <3>2. CASE DraftScoped(r) \/ QueueScoped(r)
      <4>1. pc[r] = "scoped" /\ InScope(r)
        BY <3>2 DEF DraftScoped, QueueScoped, At
      <4>. QED  BY <4>1, ScopedWorker DEF Owned
    <3>3. CASE Audit(r)
      <4>1. mem[r].result = "allegation"
        BY <2>1, <3>3, Lands DEF Audit, Filing
      <4>. QED  BY <3>1, <4>1
    <3>. QED  BY <1>1, <2>1, <3>1, <3>2, <3>3
              DEF CalleeEdges, Filing, DraftAllegations, DraftEvidence,
              QueueActive, QueueFloor, QueuePackage
  <2>2. ASSUME mem'[r].result = "allegation"
        PROVE  Owned(r)
    <3>1. CASE mem[r].result = "allegation"
      BY <3>1 DEF ScopeInv, Cleared
    <3>2. CASE RunAllegation(r)
      <4>1. pc[r] = "scoped" /\ InScope(r)
        BY <3>2 DEF RunAllegation, At
      <4>. QED  BY <4>1, ScopedWorker DEF Owned
    <3>. QED  BY <1>1, <2>2, <3>1, <3>2 DEF CalleeResults
  <2>. QED  BY <1>2, <1>3, <2>1, <2>2 DEF ScopeInv, Cleared
<1>7. OwnRecordsOnly'
  <2>1. CASE mem'[r].worker = mem[r].worker
    BY <1>2, <2>1 DEF ScopeInv, OwnRecordsOnly
  <2>2. CASE /\ RunCheck(r) \/ RunAllegation(r)
             /\ mem'[r].worker = sessions[call[r].conv].worker
    <3>1. pc[r] = "scoped" /\ InScope(r)
      BY <2>2 DEF RunCheck, RunAllegation, At
    <3>. QED  BY <1>2, <2>2, <3>1, ScopedWorker DEF ScopeInv, OwnRecordsOnly
  <2>. QED  BY <1>1, <2>1, <2>2 DEF CalleeResults
<1>8. CaseworkProved'
  <2>1. ASSUME NEW q \in Req, Filed(q)'
        PROVE  Owned(q)'
    BY <1>3, <2>1, FiledBy
       DEF ScopeInv, Cleared, CaseworkProved, Filed, Owned
  <2>. QED  BY <2>1 DEF CaseworkProved, Filed, Owned
<1>. QED  BY <1>2, <1>4, <1>5, <1>6, <1>7, <1>8, BoundServe DEF ScopeInv

LEMMA ScopeInvAlways == Spec => []ScopeInv
<1>1. Init => ScopeInv
  <2> SUFFICES ASSUME Init
               PROVE  ScopeInv
    OBVIOUS
  <2>1. /\ \A r \in Req : pc[r] = "idle" /\ mem[r] = NoMemory
                          /\ call[r] = None /\ ~Filed(r)
    BY DEF Init, InitStore, InitRequests, Filed, ReviewRefs
  <2>2. NoMemory.worker = None /\ NoMemory.result = "none"
    BY DEF NoMemory
  <2>3. BoundByCredentials
    <3>1. ASSUME NEW c \in Conv, sessions[c].verified
          PROVE  /\ Bound[c] \in Worker /\ sessions[c].worker = Bound[c]
                 /\ sessions[c].case = CaseOf[Bound[c]]
      <4>1. Bound[c] # None
        BY <3>1 DEF Init, InitStore, NoSession
      <4>2. sessions[c] = [NoSession EXCEPT !.worker = Bound[c],
                             !.case = CaseOf[Bound[c]], !.verified = TRUE]
        BY <4>1 DEF Init, InitStore
      <4>. QED  BY <4>1, <4>2, ConstantsAssumption DEF NoSession
    <3>. QED  BY <3>1 DEF BoundByCredentials, Proved
  <2>4. OwnRecordsOnly /\ CaseworkProved
    BY <2>1, <2>2 DEF OwnRecordsOnly, CaseworkProved, Filed
  <2>. QED  BY <2>1, <2>2, <2>3, <2>4
            DEF ScopeInv, IdleBlank, Matched, Cleared, Filing
<1>2. Inv /\ Inv' /\ ScopeInv /\ [Next]_vars => ScopeInv'
  <2> SUFFICES ASSUME Inv, Inv', ScopeInv, [Next]_vars
               PROVE  ScopeInv'
    OBVIOUS
  <2>1. ASSUME NEW r \in Req, Arrive(r)
        PROVE  ScopeInv'
    <3>1. PICK k \in Calls : /\ call' = [call EXCEPT ![r] = k]
                             /\ pc' = [pc EXCEPT ![r] = FirstLabel(k.tool)]
      BY <2>1 DEF Arrive
    <3>2. FirstLabel(k.tool) \notin Filing \cup {"bind", "idle"}
      BY DEF FirstLabel, Filing
    <3>3. /\ pc[r] = "idle" /\ UNCHANGED <<mem, db>>
          /\ \A q \in Req : q # r => pc'[q] = pc[q] /\ call'[q] = call[q]
          /\ pc'[r] \notin Filing \cup {"bind", "idle"}
      BY <2>1, <3>1, <3>2 DEF Arrive, Inv, TypeOK
    <3>4. call[r] = None /\ mem[r] = NoMemory /\ ~Filed(r)
      BY <3>3 DEF ScopeInv, IdleBlank
    <3>5. \A c, w : Proved(c, w) => Proved(c, w)'
      BY <3>3, <3>4 DEF Proved, Verifies, Is
    <3>6. \A q \in Req : q # r => (Owned(q) => Owned(q)')
      BY <3>3, <3>5 DEF Owned
    <3>7. \A q \in Req : Filed(q)' <=> Filed(q)
      BY <3>3 DEF Filed, ReviewRefs, db
    <3>8. NoMemory.worker = None /\ NoMemory.result = "none"
      BY DEF NoMemory
    <3>9. IdleBlank' /\ Matched' /\ Cleared'
      BY <3>3, <3>4, <3>6, <3>7, <3>8
         DEF ScopeInv, IdleBlank, Matched, Cleared, Match
    <3>10. BoundByCredentials'
      BY <3>3, <3>5 DEF ScopeInv, BoundByCredentials, db
    <3>11. OwnRecordsOnly'
      BY <3>3, <3>4, <3>8 DEF ScopeInv, OwnRecordsOnly
    <3>12. CaseworkProved'
      <4>1. ASSUME NEW q \in Req, Filed(q)'
            PROVE  Owned(q)'
        BY <3>4, <3>6, <3>7, <4>1
           DEF ScopeInv, CaseworkProved, Filed, Owned
      <4>. QED  BY <4>1 DEF CaseworkProved, Filed, Owned
    <3>. QED  BY <3>9, <3>10, <3>11, <3>12 DEF ScopeInv
  <2>2. CASE Crash
    <3>1. /\ UNCHANGED <<db, call>>
          /\ \A q \in Req : \/ pc'[q] = pc[q] /\ mem'[q] = mem[q]
                            \/ pc'[q] = "lost" /\ mem'[q] = NoMemory
      BY <2>2 DEF Crash, InFlight
    <3>2. NoMemory.worker = None /\ NoMemory.result = "none"
      BY DEF NoMemory
    <3>3. \A q \in Req : (Owned(q)' <=> Owned(q)) /\ (Filed(q)' <=> Filed(q))
      BY <3>1 DEF Owned, Filed, Proved, Verifies, Is, ReviewRefs, db
    <3>4. IdleBlank' /\ Matched' /\ Cleared'
      BY <3>1, <3>2, <3>3
         DEF ScopeInv, IdleBlank, Matched, Cleared, Match, Filing
    <3>5. BoundByCredentials' /\ OwnRecordsOnly'
      BY <3>1, <3>2 DEF ScopeInv, BoundByCredentials, OwnRecordsOnly, Proved,
         Verifies, Is, db
    <3>6. CaseworkProved'
      BY <3>1, <3>3 DEF ScopeInv, CaseworkProved, Filed, Owned
    <3>. QED  BY <3>4, <3>5, <3>6 DEF ScopeInv
  <2>3. CASE UNCHANGED vars
    BY <2>3 DEF vars, db, requestVars, ScopeInv, IdleBlank, Matched, Cleared,
       BoundByCredentials, OwnRecordsOnly, CaseworkProved, Filed, Owned,
       Proved, Verifies, Is, ReviewRefs, Match
  <2>. QED  BY <2>1, <2>2, <2>3, ScopeServe DEF Next, Finished
<1>. QED  BY <1>1, <1>2, InvAlways, PTL DEF Spec

\* A bound call is bound to a worker who gave that worker's own credentials
\* on that call, whatever verify_session threads raced to bind it.
THEOREM OnlyTheWorkerIsBound == Spec => []BoundByCredentials
<1>1. ScopeInv => BoundByCredentials
  BY DEF ScopeInv
<1>. QED  BY <1>1, ScopeInvAlways, PTL

\* The records a check reads are those of the worker whose case was asked
\* about, even if the call is bound again before the check is answered.
THEOREM NoForeignRecords == Spec => []OwnRecordsOnly
<1>1. ScopeInv => OwnRecordsOnly
  BY DEF ScopeInv
<1>. QED  BY <1>1, ScopeInvAlways, PTL

\* A review, a draft or an allegation is filed only for a case whose worker
\* was verified on the call that filed it.
THEOREM NoUnprovedCasework == Spec => []CaseworkProved
<1>1. ScopeInv => CaseworkProved
  BY DEF ScopeInv
<1>. QED  BY <1>1, ScopeInvAlways, PTL

-----------------------------------------------------------------------------
(***************************************************************************)
(* What a client was told binds the service: a decided review, a verified  *)
(* call and a locked call stay so for every request sent after the answer. *)
(***************************************************************************)

\* A request sent after others were answered is not idle, and they are done.
BeforeDone ==
  \A r \in Req : /\ \A q \in before[r] : q \in Req /\ pc[q] = "done"
                 /\ pc[r] = "idle" => before[r] = {}

(***************************************************************************)
(* An answer is given only once the table says so ...                      *)
(***************************************************************************)
DecidedTold ==
  \A d \in Req : (Is(d, {"decide"}) /\ mem[d].result = "decided") =>
    Target(d) # None /\ Target(d).decision # None

VerifiedTold ==
  \A q \in Req : (Is(q, {"verify_session"}) /\ mem[q].result = "verified") =>
    sessions[call[q].conv].verified

LockedTold ==
  \A q \in Req :
    (Is(q, {"verify_session"}) /\ mem[q].result = "verification_locked") =>
      sessions[call[q].conv].locked

(***************************************************************************)
(* ... so a handler that starts after that answer reads it in its first    *)
(* Store operation and never gets further.                                 *)
(***************************************************************************)
Stopped(r, first) == pc[r] \in {first, "audit", "done", "lost"}

DecideLate ==
  \A e \in Req : \A d \in before[e] :
    (SameReview(d, e) /\ mem[d].result = "decided")
    => Stopped(e, "review") /\ mem[e].result # "decided"

VerifyLate ==
  \A r \in Req : \A q \in before[r] :
    (/\ Is(q, {"verify_session"}) /\ Verifies(r, call[q].conv)
     /\ mem[q].result = "verified")
    => Stopped(r, "session") /\ mem[r].result # "verified"

LockLate ==
  \A r \in Req : \A q \in before[r] :
    (/\ Is(q, {"verify_session"}) /\ Verifies(r, call[q].conv)
     /\ mem[q].result = "verification_locked")
    => /\ Stopped(r, "session")
       /\ mem[r].result \in {"none", "verification_locked"}

HistoryInv == /\ BeforeDone
              /\ DecidedTold /\ VerifiedTold /\ LockedTold
              /\ DecideLate /\ VerifyLate /\ LockLate

-----------------------------------------------------------------------------
(* Sessions never lose a flag. *)

LEMMA SessionsStable ==
  ASSUME Inv, NEW r \in Req, Serve(r), NEW c \in Conv
  PROVE  /\ sessions[c].verified => sessions'[c].verified
         /\ sessions[c].locked => sessions'[c].locked
<1>1. sessions[c] \in Session
  BY DEF Inv, TypeOK
<1>2. CASE BindCall(r)
  BY <1>1, <1>2 DEF BindCall, Bind, Session, Inv, TypeOK
<1>3. CASE FailAttempt(r)
  BY <1>1, <1>3 DEF FailAttempt, CountFailure, Session, Inv, TypeOK
<1>4. CASE LockCall(r)
  BY <1>1, <1>4 DEF LockCall, LockSession, Session, Inv, TypeOK
<1>5. CASE SetConsent(r)
  BY <1>1, <1>5 DEF SetConsent, SetCallbackConsent, Session, Inv, TypeOK
<1>. QED  BY <1>1, <1>2, <1>3, <1>4, <1>5, ServeWrites

\* A step out of the label "audit" ends the request, unless it was an
\* allegation, which no verification or decision is.
LEMMA AuditEnds ==
  ASSUME Inv, NEW r \in Req, Serve(r), pc[r] = "audit",
         Is(r, {"verify_session", "decide"})
  PROVE  pc'[r] = "done" /\ mem'[r] = mem[r]
<1>1. Audit(r)
  BY ServeEdges DEF CalleeEdges
<1>2. mem[r].result # "allegation"
  BY <1>1, CallFields DEF Audit, Inv, ShapeOK, Shape, Is
<1>. QED  BY <1>1, <1>2, Lands DEF Audit

\* The first step of a verification on a call that is locked or verified.
LEMMA VerifyRefused ==
  ASSUME Inv, NEW r \in Req, Serve(r), pc[r] = "session",
         Is(r, {"verify_session"})
  PROVE  /\ sessions[call[r].conv].locked =>
              pc'[r] = "audit" /\ mem'[r].result = "verification_locked"
         /\ sessions[call[r].conv].verified =>
              pc'[r] = "audit" /\ mem'[r].result # "verified"
<1>1. VerifyRead(r)
  BY DEF Serve, CallStep, DeskStep, Is, BindCall, FailAttempt, FailRead,
     LockCall, TransferRead, SetConsent, RefusePeriod, OutOfScope,
     RecordsDown, RunCheck, CheckRaises, RunAllegation, StoreAllegation, DraftScoped,
     DraftAllegations, DraftEvidence, StoreDraft, QueueScoped, QueueActive,
     QueueFloor, QueuePackage, StoreReview, ReviewMissing, DecideRead,
     DecideUnlock, StoreDecision, DetailReview, DetailTranscript, DetailAllegations,
     DetailDraft, DetailAudit,
     StoreTranscript, Audit, At
<1>. QED  BY <1>1, Lands DEF VerifyRead

\* The first step of a decision on a review that is decided.
LEMMA DecideRefused ==
  ASSUME Inv, NEW r \in Req, Serve(r), pc[r] = "review", Is(r, {"decide"}),
         Target(r) # None, Target(r).decision # None
  PROVE  pc'[r] \in {"audit", "done"} /\ mem'[r].result # "decided"
<1>1. ReviewMissing(r) \/ DecideRead(r)
  BY DEF Serve, CallStep, DeskStep, Is, VerifyRead, BindCall, FailAttempt,
     FailRead, LockCall, TransferRead, SetConsent, RefusePeriod, OutOfScope,
     RecordsDown, RunCheck, CheckRaises, RunAllegation, StoreAllegation, DraftScoped,
     DraftAllegations, DraftEvidence, StoreDraft, QueueScoped, QueueActive,
     QueueFloor, QueuePackage, StoreReview, DecideUnlock, StoreDecision,
     DetailReview, DetailTranscript, DetailAllegations,
     DetailDraft, DetailAudit,
     StoreTranscript, Audit, At
<1>2. CASE DecideRead(r)
  BY <1>2, Lands DEF DecideRead, Target
<1>3. CASE ReviewMissing(r)
  <2>1. mem[r] \in Memory
    BY DEF Inv, TypeOK
  <2>. QED  BY <1>3, <2>1, Lands DEF ReviewMissing, Memory
<1>. QED  BY <1>1, <1>2, <1>3

-----------------------------------------------------------------------------
LEMMA ToldServe ==
  ASSUME Inv, Inv', GateInv, HistoryInv, NEW r \in Req, Serve(r)
  PROVE  DecidedTold' /\ VerifiedTold' /\ LockedTold'
<1>1. CalleeResults(r) /\ Moves(r)
  BY ServeResults, ServeMoves
<1>2. /\ \A q \in Req : q # r => mem'[q] = mem[q]
      /\ call' = call
  BY <1>1, MovesFacts
<1>3. DecidedTold'
  <2>1. ASSUME NEW d \in Req, Is(d, {"decide"}), mem'[d].result = "decided"
        PROVE  Target(d)' # None /\ Target(d)'.decision # None
    <3>1. CASE mem[d].result = "decided"
      <4>1. Target(d) # None /\ Target(d).decision # None
        BY <2>1, <3>1 DEF HistoryInv, DecidedTold
      <4>2. call[d].review \in Req
        BY <2>1, CallFields DEF Is, Inv, TypeOK, Call
      <4>. QED  BY <1>2, <4>1, <4>2, ReviewsStable DEF Target
    <3>2. CASE mem[d].result # "decided"
      <4>1. d = r /\ (StoreDecision(r) \/ DetailReview(r))
        BY <1>1, <1>2, <2>1, <3>2 DEF CalleeResults
      <4>2. StoreDecision(r)
        BY <2>1, <4>1 DEF DetailReview, At, Is
      <4>3. /\ call[r].review \in Req /\ call[r].decision \in Decision
            /\ Target(r) \in Review
        BY <4>2, CallFields DEF StoreDecision, Inv, ShapeOK, Shape, Target
      <4>4. reviews'[call[r].review].decision = call[r].decision
        BY <4>2, <4>3
           DEF StoreDecision, Decide, Target, Review, Inv, TypeOK
      <4>5. reviews'[call[r].review] # None
        BY <4>3, ReviewsStable, NoneAssumption DEF Target
      <4>. QED  BY <1>2, <4>1, <4>3, <4>4, <4>5, ConstantsAssumption
                DEF Target
    <3>. QED  BY <3>1, <3>2
  <2>. QED  BY <1>2, <2>1 DEF DecidedTold, Is
<1>4. \A q \in Req : Is(q, {"verify_session"}) => call[q].conv \in Conv
  BY CallFields DEF Is, Inv, TypeOK, Call
<1>5. VerifiedTold'
  <2>1. ASSUME NEW q \in Req, Is(q, {"verify_session"}),
               mem'[q].result = "verified"
        PROVE  sessions'[call[q].conv].verified
    <3>1. CASE mem[q].result = "verified"
      BY <1>4, <2>1, <3>1, SessionsStable DEF HistoryInv, VerifiedTold
    <3>2. CASE mem[q].result # "verified"
      <4>1. q = r /\ BindCall(r)
        BY <1>1, <1>2, <2>1, <3>2 DEF CalleeResults
      <4>2. sessions[call[r].conv] \in Session
        BY <1>4, <2>1, <4>1 DEF Inv, TypeOK
      <4>. QED  BY <1>4, <2>1, <4>1, <4>2
                DEF BindCall, Bind, Session, Inv, TypeOK
    <3>. QED  BY <3>1, <3>2
  <2>. QED  BY <1>2, <2>1 DEF VerifiedTold, Is
<1>6. LockedTold'
  <2>1. ASSUME NEW q \in Req, Is(q, {"verify_session"}),
               mem'[q].result = "verification_locked"
        PROVE  sessions'[call[q].conv].locked
    <3>1. CASE mem[q].result = "verification_locked"
      BY <1>4, <2>1, <3>1, SessionsStable DEF HistoryInv, LockedTold
    <3>2. CASE mem[q].result # "verification_locked"
      <4>1. /\ q = r
            /\ LockCall(r) \/ (VerifyRead(r) /\ sessions[call[r].conv].locked)
        BY <1>1, <1>2, <2>1, <3>2 DEF CalleeResults
      <4>2. sessions[call[r].conv] \in Session
        BY <1>4, <2>1, <4>1 DEF Inv, TypeOK
      <4>3. CASE LockCall(r)
        BY <1>4, <2>1, <4>1, <4>2, <4>3
           DEF LockCall, LockSession, Session, Inv, TypeOK
      <4>4. CASE sessions[call[r].conv].locked
        BY <1>4, <2>1, <4>1, <4>4, SessionsStable
      <4>. QED  BY <4>1, <4>3, <4>4
    <3>. QED  BY <3>1, <3>2
  <2>. QED  BY <1>2, <2>1 DEF LockedTold, Is
<1>. QED  BY <1>3, <1>5, <1>6

LEMMA LateServe ==
  ASSUME Inv, Inv', GateInv, HistoryInv, NEW r \in Req, Serve(r)
  PROVE  BeforeDone' /\ DecideLate' /\ VerifyLate' /\ LockLate'
<1>1. CalleeEdges(r) /\ Moves(r)
  BY ServeEdges, ServeMoves
<1>2. /\ \A q \in Req : q # r => mem'[q] = mem[q] /\ pc'[q] = pc[q]
      /\ call' = call /\ before' = before
      /\ pc[r] \in Label /\ pc'[r] \in Label \cup {"done"}
  BY <1>1, MovesFacts DEF CalleeEdges
<1>3. BeforeDone'
  BY <1>2 DEF HistoryInv, BeforeDone, Label
\* An answered request is not the one that moves.
<1>4. \A e \in Req : \A d \in before[e] :
        d \in Req /\ d # r /\ mem'[d] = mem[d]
  BY <1>2 DEF HistoryInv, BeforeDone, Label
<1>5. DecideLate'
  <2>1. ASSUME NEW e \in Req, NEW d \in before[e], SameReview(d, e),
               mem[d].result = "decided"
        PROVE  pc'[e] \in {"review", "audit", "done", "lost"}
               /\ mem'[e].result # "decided"
    <3>1. /\ pc[e] \in {"review", "audit", "done", "lost"}
          /\ mem[e].result # "decided"
      BY <2>1 DEF HistoryInv, DecideLate, Stopped
    <3>2. CASE e # r
      BY <1>2, <3>1, <3>2
    <3>3. CASE e = r /\ pc[r] = "review"
      <4>1. Target(d) # None /\ Target(d).decision # None
        BY <1>4, <2>1 DEF HistoryInv, DecidedTold, SameReview
      <4>. QED  BY <2>1, <3>3, <4>1, DecideRefused DEF SameReview, Target
    <3>4. CASE e = r /\ pc[r] = "audit"
      BY <2>1, <3>1, <3>4, AuditEnds DEF SameReview, Is
    <3>. QED  BY <1>2, <3>1, <3>2, <3>3, <3>4 DEF Label
  <2>. QED  BY <1>2, <1>4, <2>1 DEF DecideLate, SameReview, Is, Stopped
<1>6. VerifyLate'
  <2>1. ASSUME NEW e \in Req, NEW d \in before[e],
               Is(d, {"verify_session"}), Verifies(e, call[d].conv),
               mem[d].result = "verified"
        PROVE  pc'[e] \in {"session", "audit", "done", "lost"}
               /\ mem'[e].result # "verified"
    <3>1. /\ pc[e] \in {"session", "audit", "done", "lost"}
          /\ mem[e].result # "verified"
      BY <2>1 DEF HistoryInv, VerifyLate, Stopped
    <3>2. CASE e # r
      BY <1>2, <3>1, <3>2
    <3>3. CASE e = r /\ pc[r] = "session"
      <4>1. sessions[call[e].conv].verified
        BY <1>4, <2>1 DEF HistoryInv, VerifiedTold, Verifies
      <4>. QED  BY <2>1, <3>3, <4>1, VerifyRefused DEF Verifies
    <3>4. CASE e = r /\ pc[r] = "audit"
      BY <2>1, <3>1, <3>4, AuditEnds DEF Verifies, Is
    <3>. QED  BY <1>2, <3>1, <3>2, <3>3, <3>4 DEF Label
  <2>. QED  BY <1>2, <1>4, <2>1 DEF VerifyLate, Verifies, Is, Stopped
<1>7. LockLate'
  <2>1. ASSUME NEW e \in Req, NEW d \in before[e],
               Is(d, {"verify_session"}), Verifies(e, call[d].conv),
               mem[d].result = "verification_locked"
        PROVE  pc'[e] \in {"session", "audit", "done", "lost"}
               /\ mem'[e].result \in {"none", "verification_locked"}
    <3>1. /\ pc[e] \in {"session", "audit", "done", "lost"}
          /\ mem[e].result \in {"none", "verification_locked"}
      BY <2>1 DEF HistoryInv, LockLate, Stopped
    <3>2. CASE e # r
      BY <1>2, <3>1, <3>2
    <3>3. CASE e = r /\ pc[r] = "session"
      <4>1. sessions[call[e].conv].locked
        BY <1>4, <2>1 DEF HistoryInv, LockedTold, Verifies
      <4>. QED  BY <2>1, <3>3, <4>1, VerifyRefused DEF Verifies
    <3>4. CASE e = r /\ pc[r] = "audit"
      BY <2>1, <3>1, <3>4, AuditEnds DEF Verifies, Is
    <3>. QED  BY <1>2, <3>1, <3>2, <3>3, <3>4 DEF Label
  <2>. QED  BY <1>2, <1>4, <2>1 DEF LockLate, Verifies, Is, Stopped
<1>. QED  BY <1>3, <1>4, <1>5, <1>6, <1>7

LEMMA HistoryInvAlways == Spec => []HistoryInv
<1>1. Init => HistoryInv
  <2>1. Init => /\ \A r \in Req : /\ pc[r] = "idle" /\ before[r] = {}
                                  /\ call[r] = None
    BY DEF Init, InitRequests
  <2>. QED  BY <2>1 DEF HistoryInv, BeforeDone, DecidedTold, VerifiedTold,
            LockedTold, DecideLate, VerifyLate, LockLate, Is
<1>2. Inv /\ Inv' /\ GateInv /\ ScopeInv /\ HistoryInv /\ [Next]_vars
        => HistoryInv'
  <2> SUFFICES ASSUME Inv, Inv', GateInv, ScopeInv, HistoryInv, [Next]_vars
               PROVE  HistoryInv'
    OBVIOUS
  <2>1. ASSUME NEW r \in Req, Serve(r)
        PROVE  HistoryInv'
    BY <2>1, ToldServe, LateServe DEF HistoryInv
  <2>2. ASSUME NEW r \in Req, Arrive(r)
        PROVE  HistoryInv'
    <3>1. PICK k \in Calls : /\ call' = [call EXCEPT ![r] = k]
                             /\ pc' = [pc EXCEPT ![r] = FirstLabel(k.tool)]
      BY <2>2 DEF Arrive
    <3>2. /\ FirstLabel(k.tool) \in {"session", "review", "save_transcript",
                                     "scoped"}
          /\ k.tool = "decide" => FirstLabel(k.tool) = "review"
          /\ k.tool = "verify_session" => FirstLabel(k.tool) = "session"
      BY DEF FirstLabel
    <3>3. /\ pc[r] = "idle" /\ mem' = mem /\ UNCHANGED db
          /\ call'[r] = k /\ pc'[r] = FirstLabel(k.tool)
          /\ \A q \in Req : q # r => pc'[q] = pc[q] /\ call'[q] = call[q]
          /\ \A q \in Req : q # r => before'[q] = before[q]
          /\ before'[r] = {q \in Req : pc[q] = "done"}
      BY <2>2, <3>1 DEF Arrive, Inv, TypeOK
    <3>4. /\ call[r] = None /\ mem[r].result = "none" /\ before[r] = {}
      BY <3>3 DEF ScopeInv, IdleBlank, NoMemory, HistoryInv, BeforeDone
    <3>5. \A q \in Req : \A d \in before'[q] : d # r /\ d \in Req
      BY <3>3 DEF HistoryInv, BeforeDone
    <3>6. BeforeDone'
      BY <3>2, <3>3, <3>5 DEF HistoryInv, BeforeDone
    <3>7. DecidedTold' /\ VerifiedTold' /\ LockedTold'
      BY <3>3, <3>4
         DEF HistoryInv, DecidedTold, VerifiedTold, LockedTold, Is, Target, db
    <3>8. DecideLate'
      BY <3>2, <3>3, <3>4, <3>5
         DEF HistoryInv, DecideLate, SameReview, Is, Stopped
    <3>9. VerifyLate' /\ LockLate'
      BY <3>2, <3>3, <3>4, <3>5
         DEF HistoryInv, VerifyLate, LockLate, Verifies, Is, Stopped
    <3>. QED  BY <3>6, <3>7, <3>8, <3>9 DEF HistoryInv
  <2>3. CASE Crash
    <3>1. /\ UNCHANGED <<db, call, before>>
          /\ \A q \in Req : \/ pc'[q] = pc[q] /\ mem'[q] = mem[q]
                            \/ /\ pc[q] \in Label
                               /\ pc'[q] = "lost" /\ mem'[q].result = "none"
      BY <2>3 DEF Crash, InFlight, NoMemory
    <3>2. BeforeDone'
      BY <3>1 DEF HistoryInv, BeforeDone, Label
    <3>3. DecidedTold' /\ VerifiedTold' /\ LockedTold'
      BY <3>1
         DEF HistoryInv, DecidedTold, VerifiedTold, LockedTold, Is, Target, db
    <3>4. \A e \in Req : \A d \in before[e] : d \in Req /\ mem'[d] = mem[d]
      BY <3>1 DEF HistoryInv, BeforeDone, Label
    <3>5. DecideLate'
      BY <3>1, <3>4 DEF HistoryInv, DecideLate, SameReview, Is, Stopped
    <3>6. VerifyLate' /\ LockLate'
      BY <3>1, <3>4
         DEF HistoryInv, VerifyLate, LockLate, Verifies, Is, Stopped
    <3>. QED  BY <3>2, <3>3, <3>5, <3>6 DEF HistoryInv
  <2>4. CASE UNCHANGED vars
    BY <2>4 DEF vars, db, requestVars, HistoryInv, BeforeDone, DecidedTold,
       VerifiedTold, LockedTold, DecideLate, VerifyLate, LockLate, Is,
       Verifies, SameReview, Stopped, Target
  <2>. QED  BY <2>1, <2>2, <2>3, <2>4 DEF Next, Finished
<1>. QED  BY <1>1, <1>2, InvAlways, GateInvAlways, ScopeInvAlways, PTL
          DEF Spec

\* Once a specialist was told a review is decided, no later request decides
\* it again.
THEOREM DecidedOnce == Spec => []DecideOnce
<1>1. HistoryInv => DecideOnce
  BY DEF HistoryInv, DecideLate, DecideOnce
<1>. QED  BY <1>1, HistoryInvAlways, PTL

\* Once a client was told a call is verified, no later verify_session binds
\* that call again.
THEOREM BoundOnce == Spec => []BindOnce
<1>1. HistoryInv => BindOnce
  BY DEF HistoryInv, VerifyLate, BindOnce
<1>. QED  BY <1>1, HistoryInvAlways, PTL

\* Once a client was told a call is locked, every later verify_session on it
\* is refused.
THEOREM LockedForGood == Spec => []LockoutHolds
<1>1. HistoryInv => LockoutHolds
  BY DEF HistoryInv, LockLate, LockoutHolds
<1>. QED  BY <1>1, HistoryInvAlways, PTL

-----------------------------------------------------------------------------
(***************************************************************************)
(* Two refused attempts lock a call.  fail_attempt counts and reads the    *)
(* count in separate statements, so the argument is about pairs: of two    *)
(* requests that have counted a failure, whichever reads last reads two.   *)
(***************************************************************************)

\* p has counted a failed attempt on call c, and was not yet locked out.
Failing(p, c) == /\ Verifies(p, c)
                 /\ pc[p] = "fail_read" \/ mem[p].result = "verification_failed"

FailuresCounted ==
  \A c \in Conv : \A p \in Req : Failing(p, c) =>
    /\ sessions[c].attempts >= 1
    /\ \A q \in Req : q # p /\ Failing(q, c) => sessions[c].attempts >= 2

\* At most one attempt on a call is answered as merely failed.
OneMerelyFailed ==
  \A c \in Conv : \A p, q \in Req :
    (/\ p # q /\ Verifies(p, c) /\ Verifies(q, c)
     /\ mem[p].result = "verification_failed")
    => mem[q].result # "verification_failed"

LockoutInv == FailuresCounted /\ OneMerelyFailed

-----------------------------------------------------------------------------
\* The count of a call never falls, and fail_attempt's UPDATE raises it.
LEMMA AttemptsGrow ==
  ASSUME Inv, NEW r \in Req, Serve(r), NEW c \in Conv
  PROVE  /\ sessions[c].attempts \in Nat /\ sessions'[c].attempts \in Nat
         /\ sessions'[c].attempts >= sessions[c].attempts
         /\ FailAttempt(r) /\ call[r].conv = c =>
              sessions'[c].attempts = sessions[c].attempts + 1
<1>1. sessions[c] \in Session /\ sessions[c].attempts \in Nat
  BY DEF Inv, TypeOK, Session
<1>2. CASE FailAttempt(r)
  BY <1>1, <1>2 DEF FailAttempt, CountFailure, Session, Inv, TypeOK
<1>3. CASE BindCall(r)
  BY <1>1, <1>3 DEF BindCall, FailAttempt, Bind, Session, Inv, TypeOK
<1>4. CASE LockCall(r)
  BY <1>1, <1>4 DEF LockCall, FailAttempt, LockSession, Session, Inv, TypeOK
<1>5. CASE SetConsent(r)
  BY <1>1, <1>5
     DEF SetConsent, FailAttempt, SetCallbackConsent, Session, Inv, TypeOK
<1>. QED  BY <1>1, <1>2, <1>3, <1>4, <1>5, ServeWrites

\* Only the request that moves can start to fail: by its UPDATE it enters
\* the state, and by its SELECT it only stays in it.
LEMMA FailingServe ==
  ASSUME Inv, Inv', NEW r \in Req, Serve(r), NEW p \in Req, NEW c,
         Failing(p, c)', ~Failing(p, c)
  PROVE  p = r /\ FailAttempt(r)
<1>1. CalleeEdges(r) /\ CalleeResults(r) /\ Moves(r)
  BY ServeEdges, ServeResults, ServeMoves
<1>2. call' = call /\ (p # r => pc'[p] = pc[p] /\ mem'[p] = mem[p])
  BY <1>1, MovesFacts
<1>3. p = r
  BY <1>2 DEF Failing, Verifies, Is
<1>4. CASE pc'[r] = "fail_read"
  BY <1>1, <1>3, <1>4 DEF CalleeEdges
<1>5. CASE mem'[r].result = "verification_failed"
  BY <1>1, <1>2, <1>3, <1>5
     DEF CalleeResults, FailRead, Failing, Verifies, Is
<1>. QED  BY <1>3, <1>4, <1>5 DEF Failing

LEMMA CountedServe ==
  ASSUME Inv, Inv', LockoutInv, NEW r \in Req, Serve(r)
  PROVE  FailuresCounted'
<1>1. SUFFICES ASSUME NEW c \in Conv, NEW p \in Req, Failing(p, c)'
               PROVE  /\ sessions'[c].attempts >= 1
                      /\ \A q \in Req : q # p /\ Failing(q, c)' =>
                           sessions'[c].attempts >= 2
  BY DEF FailuresCounted
<1>2. /\ sessions[c].attempts \in Nat /\ sessions'[c].attempts \in Nat
      /\ sessions'[c].attempts >= sessions[c].attempts
      /\ FailAttempt(r) /\ call[r].conv = c =>
           sessions'[c].attempts = sessions[c].attempts + 1
  BY AttemptsGrow
<1>3. call' = call
  BY ServeMoves DEF Moves
<1>4. \A q \in Req : Failing(q, c)' /\ ~Failing(q, c) =>
        /\ q = r
        /\ sessions'[c].attempts = sessions[c].attempts + 1
  BY <1>2, <1>3, FailingServe DEF Failing, Verifies
<1>5. CASE Failing(p, c)
  BY <1>2, <1>4, <1>5 DEF LockoutInv, FailuresCounted
<1>6. CASE ~Failing(p, c)
  BY <1>1, <1>2, <1>4, <1>6 DEF LockoutInv, FailuresCounted
<1>. QED  BY <1>5, <1>6

LEMMA OneFailedServe ==
  ASSUME Inv, Inv', LockoutInv, NEW r \in Req, Serve(r)
  PROVE  OneMerelyFailed'
<1>1. CalleeResults(r) /\ Moves(r)
  BY ServeResults, ServeMoves
<1>2. /\ call' = call
      /\ \A q \in Req : q # r => mem'[q] = mem[q]
  BY <1>1, MovesFacts
\* Whoever reads the count below two has no rival.
<1>3. ASSUME NEW c \in Conv, NEW q \in Req, q # r, Verifies(r, c),
             Verifies(q, c), mem[q].result = "verification_failed", FailRead(r)
      PROVE  mem'[r].result # "verification_failed"
  <2>1. Failing(r, c) /\ Failing(q, c)
    BY <1>3 DEF FailRead, Failing
  <2>2. AttemptsSpent(c) /\ call[r].conv = c
    BY <1>3, <2>1 DEF LockoutInv, FailuresCounted, AttemptsSpent, Verifies
  <2>3. Go(r, "lock", mem[r])
    BY <1>3, <2>2 DEF FailRead
  <2>4. mem'[r] = mem[r]
    BY <2>3, Lands
  <2>5. mem[r].result # "verification_failed"
    BY <1>3 DEF LockoutInv, OneMerelyFailed
  <2>. QED  BY <2>4, <2>5
<1>4. SUFFICES ASSUME NEW c \in Conv, NEW p \in Req, NEW q \in Req, p # q,
                      Verifies(p, c), Verifies(q, c),
                      mem'[p].result = "verification_failed",
                      mem'[q].result = "verification_failed"
               PROVE  FALSE
  BY <1>2 DEF OneMerelyFailed, Verifies, Is
<1>5. CASE p # r /\ q # r
  BY <1>2, <1>4, <1>5 DEF LockoutInv, OneMerelyFailed
<1>6. CASE p = r
  BY <1>1, <1>2, <1>3, <1>4, <1>6
     DEF CalleeResults, LockoutInv, OneMerelyFailed
<1>7. CASE q = r
  BY <1>1, <1>2, <1>3, <1>4, <1>7
     DEF CalleeResults, LockoutInv, OneMerelyFailed
<1>. QED  BY <1>5, <1>6, <1>7

LEMMA LockoutInvAlways == Spec => []LockoutInv
<1>1. Init => LockoutInv
  BY DEF Init, InitRequests, LockoutInv, FailuresCounted, OneMerelyFailed,
     Failing, Verifies, Is
<1>2. Inv /\ Inv' /\ ScopeInv /\ LockoutInv /\ [Next]_vars => LockoutInv'
  <2> SUFFICES ASSUME Inv, Inv', ScopeInv, LockoutInv, [Next]_vars
               PROVE  LockoutInv'
    OBVIOUS
  <2>1. ASSUME NEW r \in Req, Serve(r)
        PROVE  LockoutInv'
    BY <2>1, CountedServe, OneFailedServe DEF LockoutInv
  <2>2. ASSUME NEW r \in Req, Arrive(r)
        PROVE  LockoutInv'
    <3>1. /\ mem' = mem /\ sessions' = sessions
          /\ pc'[r] # "fail_read"
          /\ \A q \in Req : q # r => pc'[q] = pc[q] /\ call'[q] = call[q]
      BY <2>2 DEF Arrive, FirstLabel, Inv, TypeOK, db
    <3>2. mem[r].result = "none"
      BY <2>2 DEF Arrive, ScopeInv, IdleBlank, NoMemory
    <3>3. \A q \in Req, c \in Conv : Failing(q, c)' => q # r /\ Failing(q, c)
      BY <3>1, <3>2 DEF Failing, Verifies, Is
    <3>4. FailuresCounted'
      BY <3>1, <3>3 DEF LockoutInv, FailuresCounted
    <3>5. OneMerelyFailed'
      BY <3>1, <3>2 DEF LockoutInv, OneMerelyFailed, Verifies, Is
    <3>. QED  BY <3>4, <3>5 DEF LockoutInv
  <2>3. CASE Crash
    <3>1. /\ call' = call /\ sessions' = sessions
          /\ \A q \in Req : \/ pc'[q] = pc[q] /\ mem'[q] = mem[q]
                            \/ pc'[q] = "lost" /\ mem'[q].result = "none"
      BY <2>3 DEF Crash, InFlight, NoMemory, db
    <3>2. \A q \in Req, c \in Conv : Failing(q, c)' => Failing(q, c)
      BY <3>1 DEF Failing, Verifies, Is
    <3>3. FailuresCounted'
      BY <3>1, <3>2 DEF LockoutInv, FailuresCounted
    <3>4. OneMerelyFailed'
      BY <3>1 DEF LockoutInv, OneMerelyFailed, Verifies, Is
    <3>. QED  BY <3>3, <3>4 DEF LockoutInv
  <2>4. CASE UNCHANGED vars
    BY <2>4 DEF vars, db, requestVars, LockoutInv, FailuresCounted,
       OneMerelyFailed, Failing, Verifies, Is
  <2>. QED  BY <2>1, <2>2, <2>3, <2>4 DEF Next, Finished
<1>. QED  BY <1>1, <1>2, InvAlways, ScopeInvAlways, PTL DEF Spec

\* After two refused attempts have been answered, every later verify_session
\* on that call is refused, also when the two overlapped.
THEOREM TwoFailuresLockTheCall == Spec => []TwoFailuresLock
<1>1. Inv /\ HistoryInv /\ LockoutInv => TwoFailuresLock
  <2> SUFFICES ASSUME Inv, HistoryInv, LockoutInv, NEW r \in Req,
                      NEW p \in before[r], NEW q \in before[r], p # q,
                      Is(p, {"verify_session"}),
                      Verifies(q, call[p].conv), Verifies(r, call[p].conv),
                      {mem[p].result, mem[q].result}
                        \subseteq {"verification_failed", "verification_locked"}
               PROVE  mem[r].result \in {"none", "verification_locked"}
    BY DEF TwoFailuresLock
  <2>1. p \in Req /\ q \in Req
    BY DEF HistoryInv, BeforeDone
  <2>2. call[p].conv \in Conv
    BY <2>1, CallFields DEF Is, Inv, TypeOK, Call
  <2>3. CASE mem[p].result = "verification_locked"
    BY <2>3 DEF HistoryInv, LockLate
  <2>4. CASE mem[q].result = "verification_locked"
    BY <2>4 DEF HistoryInv, LockLate, Verifies
  <2>5. CASE /\ mem[p].result = "verification_failed"
             /\ mem[q].result = "verification_failed"
    BY <2>1, <2>2, <2>5 DEF LockoutInv, OneMerelyFailed, Verifies
  <2>. QED  BY <2>3, <2>4, <2>5
<1>. QED  BY <1>1, InvAlways, HistoryInvAlways, LockoutInvAlways, PTL
=============================================================================

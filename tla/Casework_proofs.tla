--------------------------- MODULE Casework_proofs ---------------------------
(***************************************************************************)
(* What was found, said and answered on a call reaches the casework: the   *)
(* audit trail, the evidence and allegations of a draft, the package and   *)
(* the tier of a review, and the transcript that is kept.                  *)
(***************************************************************************)
EXTENDS Safety_proofs

-----------------------------------------------------------------------------
(* What a step does to the handler's answer and its findings. *)

\* The labels of a handler whose answer is settled.
Settled == {"audit", "add_allegation", "done"}

MemoryEdges(r) ==
  /\ pc'[r] = "done" =>
       \/ Audit(r) \/ StoreAllegation(r) \/ DetailAudit(r)
       \/ ReviewMissing(r) /\ mem'[r].result = "not_found"
       \/ CheckRaises(r) /\ mem'[r].result = "raised"
  /\ pc'[r] = "audit_for" => DetailDraft(r)
  /\ pc[r] = "package" => QueuePackage(r)
  /\ pc[r] = "create_review" => StoreReview(r)
  /\ \/ mem'[r].findings = mem[r].findings /\ mem'[r].tier = mem[r].tier
     \/ RunCheck(r) \/ RunAllegation(r) \/ QueueFloor(r)
  /\ mem'[r].result = "stored" =>
       mem[r].result = "stored" \/ StoreTranscript(r)
  /\ mem'[r].result = "raised" =>
       mem[r].result = "raised" \/ CheckRaises(r)

LEMMA AnswerKeeps ==
  ASSUME Inv, NEW r \in Req, NEW s, NEW k, Answer(r, s, k)
  PROVE  /\ pc'[r] = "audit" /\ mem'[r].result = s /\ mem'[r].case = k
         /\ mem'[r].findings = mem[r].findings /\ mem'[r].tier = mem[r].tier
         /\ mem'[r].package = mem[r].package
<1>1. mem[r] \in Memory
  BY DEF Inv, TypeOK
<1>2. /\ pc'[r] = "audit"
      /\ mem'[r] = [mem[r] EXCEPT !.result = s, !.case = k]
  BY Lands DEF Answer
<1>. QED  BY <1>1, <1>2 DEF Memory

LEMMA RuledGives ==
  ASSUME Inv, NEW r \in Req, NEW s, NEW o, Ruled(r, s, o)
  PROVE  /\ pc'[r] = "audit" /\ mem'[r].result = s
         /\ mem'[r].case = call[r].case
<1>1. mem[r] \in Memory
  BY DEF Inv, TypeOK
<1>2. /\ pc'[r] = "audit"
      /\ mem'[r] = [mem[r] EXCEPT !.result = s,
                                  !.case = call[r].case,
                                  !.worker = sessions[call[r].conv].worker,
                                  !.tier = o.tier,
                                  !.findings = o.findings]
  BY Lands DEF Ruled
<1>. QED  BY <1>1, <1>2 DEF Memory

LEMMA ServeMemory ==
  ASSUME Inv, NEW r \in Req, Serve(r)
  PROVE  MemoryEdges(r)
<1>1. /\ \A l, m : Go(r, l, m) => pc'[r] = l /\ mem'[r] = m
      /\ \A s, k : Answer(r, s, k) =>
           /\ pc'[r] = "audit" /\ mem'[r].result = s
           /\ mem'[r].findings = mem[r].findings /\ mem'[r].tier = mem[r].tier
  BY Lands, AnswerKeeps
<1>2. mem[r] \in Memory
  BY DEF Inv, TypeOK
<1>3. CASE VerifyRead(r) \/ BindCall(r) \/ FailAttempt(r) \/ FailRead(r)
           \/ LockCall(r)
  BY <1>1, <1>3 DEF VerifyRead, BindCall, FailAttempt, FailRead, LockCall,
     At, MemoryEdges
<1>4. CASE TransferRead(r)
  <2>1. PICK k : \/ Answer(r, "callback_without_consent", k)
                 \/ Answer(r, "transfer", k)
                 \/ Go(r, "set_consent",
                       [mem[r] EXCEPT !.result = "callback", !.case = k])
    BY <1>4 DEF TransferRead
  <2>2. ASSUME mem'[r] = [mem[r] EXCEPT !.result = "callback", !.case = k]
        PROVE  /\ mem'[r].result = "callback"
               /\ mem'[r].findings = mem[r].findings
               /\ mem'[r].tier = mem[r].tier
    BY <1>2, <2>2 DEF Memory
  <2>3. /\ pc'[r] \in {"audit", "set_consent"}
        /\ mem'[r].result \notin {"stored", "raised"}
        /\ mem'[r].findings = mem[r].findings /\ mem'[r].tier = mem[r].tier
    BY <1>1, <2>1, <2>2
  <2>. QED  BY <1>4, <2>3 DEF TransferRead, At, MemoryEdges
<1>5. CASE SetConsent(r) \/ RefusePeriod(r) \/ OutOfScope(r)
           \/ RecordsDown(r)
  BY <1>1, <1>5 DEF SetConsent, RefusePeriod, OutOfScope, RecordsDown, At,
     MemoryEdges
<1>6. CASE RunCheck(r) \/ RunAllegation(r)
  <2>1. PICK s \in {"checked", "allegation", "out_of_scope"} :
          \E o : Ruled(r, s, o)
    BY <1>6 DEF RunCheck, RunAllegation
  <2>2. /\ pc'[r] = "audit" /\ pc[r] = "scoped"
        /\ mem'[r].result \notin {"stored", "raised"}
    BY <1>6, <2>1, RuledGives DEF RunCheck, RunAllegation, At
  <2>. QED  BY <1>6, <2>2 DEF MemoryEdges
<1>7. CASE DraftScoped(r) \/ StoreDraft(r) \/ QueueScoped(r)
           \/ QueueActive(r) \/ StoreReview(r)
  BY <1>1, <1>7 DEF DraftScoped, StoreDraft, QueueScoped, QueueActive,
     StoreReview, At, MemoryEdges
<1>8. CASE DraftAllegations(r) \/ DraftEvidence(r)
  BY <1>1, <1>2, <1>8 DEF DraftAllegations, DraftEvidence, MemoryEdges, Memory
<1>9. CASE QueueFloor(r) \/ QueuePackage(r)
  BY <1>1, <1>2, <1>9 DEF QueueFloor, QueuePackage, MemoryEdges, Memory
<1>10. CASE CheckRaises(r) \/ ReviewMissing(r) \/ DecideRead(r)
            \/ DecideUnlock(r) \/ StoreDecision(r)
  BY <1>1, <1>2, <1>10 DEF CheckRaises, ReviewMissing, DecideRead, DecideUnlock,
     StoreDecision, At, MemoryEdges, Memory
<1>11. CASE DetailReview(r) \/ DetailTranscript(r) \/ DetailAllegations(r)
            \/ DetailAudit(r)
  BY <1>1, <1>2, <1>11 DEF DetailReview, DetailTranscript,
     DetailAllegations, DetailAudit, At, MemoryEdges, Memory
<1>12. CASE DetailDraft(r)
  <2>1. ASSUME NEW d, mem'[r] = [mem[r] EXCEPT !.draft = d]
        PROVE  /\ mem'[r].result = mem[r].result
               /\ mem'[r].findings = mem[r].findings
               /\ mem'[r].tier = mem[r].tier
    BY <1>2, <2>1 DEF Memory
  <2>2. \/ Go(r, "audit_for", mem[r])
        \/ \E d : Go(r, "audit_for", [mem[r] EXCEPT !.draft = d])
    BY <1>12 DEF DetailDraft
  <2>3. /\ pc'[r] = "audit_for" /\ mem'[r].result = mem[r].result
        /\ mem'[r].findings = mem[r].findings /\ mem'[r].tier = mem[r].tier
    BY <1>1, <2>1, <2>2
  <2>. QED  BY <1>12, <2>3 DEF DetailDraft, MemoryEdges
<1>13. CASE StoreTranscript(r)
  <2>1. PICK s \in {"duplicate", "stored"} : Answer(r, s, None)
    BY <1>13 DEF StoreTranscript
  <2>. QED  BY <1>1, <1>13, <2>1 DEF StoreTranscript, MemoryEdges
<1>14. CASE Audit(r) \/ StoreAllegation(r)
  <2>1. mem'[r] = mem[r] /\ pc[r] \in {"audit", "add_allegation"}
        /\ pc'[r] \in {"add_allegation", "done"}
    BY <1>1, <1>14 DEF Audit, StoreAllegation
  <2>. QED  BY <1>14, <2>1 DEF MemoryEdges
<1>. QED  BY <1>3, <1>4, <1>5, <1>6, <1>7, <1>8, <1>9, <1>10, <1>11, <1>12,
             <1>13, <1>14 DEF Serve, CallStep, DeskStep

-----------------------------------------------------------------------------
(* The steps that are not a handler's. *)

LEMMA BlankMemory ==
  /\ NoMemory.result = "none" /\ NoMemory.tier = NoTier
  /\ NoMemory.findings = {} /\ NoMemory.case = None
BY DEF NoMemory

LEMMA ArriveFacts ==
  ASSUME Inv, ScopeInv, HistoryInv, NEW r \in Req, Arrive(r)
  PROVE  /\ pc[r] = "idle" /\ call[r] = None /\ mem[r] = NoMemory
         /\ before[r] = {} /\ ~Filed(r)
         /\ mem' = mem /\ UNCHANGED db
         /\ call'[r] \in Call
         /\ pc'[r] \in {"session", "review", "save_transcript", "scoped"}
         /\ before'[r] = {q \in Req : pc[q] = "done"}
         /\ \A q \in Req : q # r =>
              /\ pc'[q] = pc[q] /\ call'[q] = call[q] /\ before'[q] = before[q]
<1>1. PICK k \in Calls : /\ call' = [call EXCEPT ![r] = k]
                         /\ pc' = [pc EXCEPT ![r] = FirstLabel(k.tool)]
  BY DEF Arrive
<1>2. FirstLabel(k.tool) \in {"session", "review", "save_transcript",
                              "scoped"}
  BY DEF FirstLabel
<1>3. k \in Call
  BY CallsAssumption
<1>4. pc[r] = "idle"
  BY DEF Arrive
<1>5. call[r] = None /\ mem[r] = NoMemory /\ before[r] = {} /\ ~Filed(r)
  BY <1>4 DEF ScopeInv, IdleBlank, HistoryInv, BeforeDone
<1>6. /\ call'[r] = k /\ pc'[r] = FirstLabel(k.tool)
      /\ before'[r] = {q \in Req : pc[q] = "done"}
      /\ \A q \in Req : q # r =>
           /\ pc'[q] = pc[q] /\ call'[q] = call[q] /\ before'[q] = before[q]
  BY <1>1 DEF Arrive, Inv, TypeOK
<1>. QED  BY <1>2, <1>3, <1>4, <1>5, <1>6 DEF Arrive

LEMMA CrashFacts ==
  ASSUME Crash
  PROVE  /\ UNCHANGED <<db, call, before>>
         /\ \A q \in Req : \/ pc'[q] = pc[q] /\ mem'[q] = mem[q]
                           \/ /\ pc[q] \in Label
                              /\ pc'[q] = "lost" /\ mem'[q] = NoMemory
BY DEF Crash, InFlight

-----------------------------------------------------------------------------
(***************************************************************************)
(* The audit trail.  AuditTrail looks at answered requests only; that it   *)
(* holds of them follows from what each row says of the request that wrote *)
(* it (RowFaithful) and from which requests have written one (RowThere).   *)
(* The tables read back from the trail, so RowFaithful also says under     *)
(* which case and call a row with findings is filed.                       *)
(***************************************************************************)

\* A handler's findings and tier are settled with the case it was asked
\* about, and only then may its answer be "allegation"; an exception ends it.
Known(r) ==
  /\ mem[r].findings # {} => Is(r, EvidenceTools)
  /\ \/ mem[r].findings # {}
     \/ mem[r].tier # NoTier /\ pc[r] \notin {"package", "create_review"}
     => /\ pc[r] \in Settled /\ mem[r].case = call[r].case
        /\ Is(r, EvidenceTools \cup {"send_to_review"})
  /\ mem[r].result = "allegation" => pc[r] \in Settled
  /\ mem[r].result = "raised" =>
       pc[r] = "done" /\ mem[r].findings = {} /\ mem[r].tier = NoTier
  /\ pc[r] = "audit_for" => Is(r, {"review_detail"})

RuleKnown == \A r \in Req : Known(r)

RowFaithful ==
  \A a \in audit :
    /\ a.by \in Req /\ pc[a.by] \in {"add_allegation", "done", "lost"}
    /\ call[a.by] # None /\ a.action = call[a.by].tool
    /\ a.action # "decide" => a.conv = call[a.by].conv
    /\ a.findings # {} =>
         a.case = call[a.by].case /\ a.action \in EvidenceTools
    /\ pc[a.by] # "lost" =>
         /\ a.result = mem[a.by].result /\ a.case = mem[a.by].case
         /\ a.findings = mem[a.by].findings /\ a.tier = mem[a.by].tier

Unrecorded(r) == \/ Is(r, {"review_detail"})
                 \/ Is(r, {"decide"}) /\ mem[r].result = "not_found"
                 \/ Is(r, {"check"}) /\ mem[r].result = "raised"

RowThere ==
  /\ \A r \in Req : pc[r] \in {"add_allegation", "done"} =>
       Unrecorded(r) \/ \E a \in audit : a.by = r
  /\ \A g \in allegations : \E a \in audit : a.by = g.id

RowsInv == RuleKnown /\ RowFaithful /\ RowThere

LEMMA RuleKnownServe ==
  ASSUME Inv, Inv', RuleKnown, NEW r \in Req, Serve(r)
  PROVE  RuleKnown'
<1>1. /\ CalleeEdges(r) /\ CalleeResults(r) /\ MemoryEdges(r)
      /\ pc[r] \in Label
  BY ServeEdges, ServeResults, ServeMemory DEF CalleeEdges
<1>2. /\ \A q \in Req : q # r => pc'[q] = pc[q] /\ mem'[q] = mem[q]
      /\ call' = call
  BY ServeMoves, MovesFacts
<1>3. ASSUME pc[r] \in {"audit", "add_allegation"}
      PROVE  Known(r)'
  <2>1. mem'[r] = mem[r] /\ pc'[r] \in {"add_allegation", "done"}
    BY <1>1, <1>3, Lands DEF CalleeEdges, Audit, StoreAllegation
  <2>. QED  BY <1>2, <1>3, <2>1 DEF RuleKnown, Known, Settled, Is
<1>4. ASSUME pc[r] \notin {"audit", "add_allegation"}
      PROVE  Known(r)'
  <2>1. /\ mem[r].findings = {}
        /\ mem[r].result \notin {"allegation", "raised"}
        /\ pc[r] \notin {"package", "create_review"} => mem[r].tier = NoTier
    BY <1>1, <1>4 DEF RuleKnown, Known, Settled, Label
  <2>2. pc'[r] = "audit_for" => Is(r, {"review_detail"})
    <3>1. ASSUME DetailDraft(r)
          PROVE  call[r] # None /\ call[r].tool = "review_detail"
      <4>1. call[r] \in DetailCall
        BY <3>1 DEF DetailDraft, Inv, ShapeOK, Shape
      <4>. QED  BY <4>1, CallFields, CallsAssumption DEF Call
    <3>. QED  BY <1>1, <3>1 DEF MemoryEdges, Is
  <2>3. CASE RunCheck(r) \/ RunAllegation(r)
    <3>1. PICK s \in {"checked", "allegation", "out_of_scope"} :
            \E o : Ruled(r, s, o)
      BY <2>3 DEF RunCheck, RunAllegation
    <3>2. /\ pc'[r] = "audit" /\ mem'[r].case = call[r].case
          /\ mem'[r].result # "raised"
      BY <3>1, RuledGives
    <3>3. call[r].tool \in EvidenceTools /\ pc[r] = "scoped"
      BY <2>3 DEF RunCheck, RunAllegation, At, EvidenceTools
    <3>4. call[r] # None
      BY <3>3, CallsAssumption DEF Inv, ShapeOK, Shape, Call
    <3>. QED  BY <1>2, <3>2, <3>3, <3>4 DEF Known, Settled, Is
  <2>4. CASE QueueFloor(r)
    <3>1. mem[r] \in Memory
      BY DEF Inv, TypeOK
    <3>2. pc'[r] = "package" /\ mem'[r].findings = mem[r].findings
          /\ mem'[r].result = mem[r].result
      BY <2>4, <3>1, Lands DEF QueueFloor, Memory
    <3>. QED  BY <2>1, <3>2 DEF Known
  <2>5. CASE ~RunCheck(r) /\ ~RunAllegation(r) /\ ~QueueFloor(r)
    <3>1. /\ mem'[r].findings = {} /\ mem'[r].tier = mem[r].tier
          /\ mem'[r].result # "allegation"
          /\ mem'[r].result = "raised" => pc'[r] = "done" /\ pc[r] = "scoped"
      BY <1>1, <2>1, <2>5, Lands DEF MemoryEdges, CalleeResults, CheckRaises, At
    <3>2. CASE pc[r] = "package"
      <4>1. pc'[r] = "create_review" /\ mem'[r].result # "raised"
        BY <1>1, <3>1, <3>2, Lands DEF MemoryEdges, QueuePackage
      <4>. QED  BY <3>1, <4>1 DEF Known
    <3>3. CASE pc[r] = "create_review"
      <4>1. /\ pc'[r] = "audit" /\ mem'[r].case = call[r].case
            /\ mem'[r].result # "raised"
        BY <1>1, <3>3, AnswerKeeps DEF MemoryEdges, StoreReview
      <4>2. call[r] \in QueueCall
        BY <3>3 DEF Inv, ShapeOK, Shape
      <4>3. Is(r, EvidenceTools \cup {"send_to_review"})
        BY <4>2, CallFields, CallsAssumption DEF Is, Call
      <4>. QED  BY <1>2, <3>1, <4>1, <4>3 DEF Known, Settled, Is
    <3>4. CASE pc[r] \notin {"package", "create_review"}
      BY <1>2, <2>1, <2>2, <3>1, <3>4 DEF Known, Is
    <3>. QED  BY <3>2, <3>3, <3>4
  <2>. QED  BY <2>3, <2>4, <2>5
<1>5. Known(r)'
  BY <1>3, <1>4
<1>. QED  BY <1>2, <1>5 DEF RuleKnown, Known, Is

LEMMA RowFaithfulServe ==
  ASSUME Inv, Inv', RuleKnown, RowFaithful, NEW r \in Req, Serve(r)
  PROVE  RowFaithful'
<1>1. CalleeEdges(r) /\ pc[r] \in Label /\ pc'[r] \in Label \cup {"done"}
  BY ServeEdges DEF CalleeEdges
<1>2. /\ \A q \in Req : q # r => pc'[q] = pc[q] /\ mem'[q] = mem[q]
      /\ call' = call
  BY ServeMoves, MovesFacts
\* A row's own request moves only from writing it to its answer.
<1>3. ASSUME NEW a \in audit, a.by = r
      PROVE  pc[r] = "add_allegation" /\ mem'[r] = mem[r] /\ pc'[r] = "done"
  <2>1. pc[r] = "add_allegation"
    BY <1>1, <1>3 DEF RowFaithful, Label
  <2>2. StoreAllegation(r)
    BY <1>1, <2>1 DEF CalleeEdges
  <2>. QED  BY <2>1, <2>2, Lands DEF StoreAllegation
<1>4. ASSUME NEW a \in audit
      PROVE  /\ a.by \in Req /\ pc'[a.by] \in {"add_allegation", "done", "lost"}
             /\ call[a.by] # None /\ a.action = call[a.by].tool
             /\ a.action # "decide" => a.conv = call[a.by].conv
             /\ a.findings # {} =>
                  a.case = call[a.by].case /\ a.action \in EvidenceTools
             /\ pc'[a.by] # "lost" =>
                  /\ a.result = mem'[a.by].result /\ a.case = mem'[a.by].case
                  /\ a.findings = mem'[a.by].findings
                  /\ a.tier = mem'[a.by].tier
  BY <1>2, <1>3 DEF RowFaithful
<1>5. CASE Audit(r)
  <2> DEFINE row == [by |-> r, action |-> call[r].tool,
                     result |-> mem[r].result, conv |-> ConvOf(r),
                     case |-> mem[r].case, tier |-> mem[r].tier,
                     findings |-> mem[r].findings]
  <2>1. /\ audit' = audit \cup {row} /\ mem'[r] = mem[r]
        /\ pc'[r] \in {"add_allegation", "done"}
    BY <1>5, Lands DEF Audit, InsertAudit
  <2>2. call[r] # None
    BY <1>5, CallsAssumption DEF Audit, Inv, ShapeOK, Shape
  <2>3. row.findings # {} =>
          row.case = call[r].case /\ row.action \in EvidenceTools
    BY DEF RuleKnown, Known, Is
  <2>4. row.action # "decide" => row.conv = call[r].conv
    BY DEF ConvOf
  <2>. QED  BY <1>2, <1>4, <2>1, <2>2, <2>3, <2>4 DEF RowFaithful
<1>6. CASE UNCHANGED audit
  BY <1>2, <1>4, <1>6 DEF RowFaithful
<1>. QED  BY <1>5, <1>6, ServeWrites

LEMMA RowThereServe ==
  ASSUME Inv, Inv', RuleKnown, RowThere, NEW r \in Req, Serve(r)
  PROVE  RowThere'
<1>1. CalleeEdges(r) /\ MemoryEdges(r)
  BY ServeEdges, ServeMemory
<1>2. /\ \A q \in Req : q # r => pc'[q] = pc[q] /\ mem'[q] = mem[q]
      /\ call' = call
  BY ServeMoves, MovesFacts
<1>3. audit \subseteq audit'
  BY ServeWrites DEF Audit, InsertAudit
<1>4. Audit(r) => \E a \in audit' : a.by = r
  <2> DEFINE row == [by |-> r, action |-> call[r].tool,
                     result |-> mem[r].result, conv |-> ConvOf(r),
                     case |-> mem[r].case, tier |-> mem[r].tier,
                     findings |-> mem[r].findings]
  <2>1. Audit(r) => audit' = audit \cup {row}
    BY DEF Audit, InsertAudit
  <2>2. row.by = r
    OBVIOUS
  <2> HIDE DEF row
  <2>. QED  BY <2>1, <2>2
<1>5. StoreAllegation(r) => /\ pc[r] = "add_allegation" /\ mem'[r] = mem[r]
                            /\ \E a \in audit : a.by = r
  <2> SUFFICES ASSUME StoreAllegation(r)
               PROVE  /\ pc[r] = "add_allegation" /\ mem'[r] = mem[r]
                      /\ \E a \in audit : a.by = r
    OBVIOUS
  <2>1. pc[r] = "add_allegation" /\ mem'[r] = mem[r]
    BY Lands DEF StoreAllegation
  <2>2. call[r] \in CheckCall
    BY <2>1 DEF Inv, ShapeOK, Shape
  <2>3. ~Unrecorded(r)
    BY <2>1, <2>2, CallFields DEF Unrecorded, Is, RuleKnown, Known
  <2>. QED  BY <2>1, <2>3 DEF RowThere
<1>6. DetailAudit(r) => Is(r, {"review_detail"})
  BY DEF DetailAudit, RuleKnown, Known
<1>7. ReviewMissing(r) => Is(r, {"decide", "review_detail"})
  <2>1. ReviewMissing(r) => call[r] \in DecideCall \cup DetailCall
    BY DEF ReviewMissing, At, Inv, ShapeOK, Shape
  <2>. QED  BY <2>1, CallFields, CallsAssumption DEF Is, Call
<1>8. CheckRaises(r) => Is(r, {"check"})
  BY CallsAssumption DEF CheckRaises, At, Is, Inv, ShapeOK, Shape, Call
<1>9. ASSUME NEW q \in Req, pc'[q] \in {"add_allegation", "done"}
      PROVE  Unrecorded(q)' \/ \E a \in audit' : a.by = q
  <2>1. CASE q # r
    BY <1>2, <1>3, <1>9, <2>1 DEF RowThere, Unrecorded, Is
  <2>2. CASE q = r
    <3>1. \/ Audit(r) \/ StoreAllegation(r) \/ DetailAudit(r)
          \/ ReviewMissing(r) /\ mem'[r].result = "not_found"
          \/ CheckRaises(r) /\ mem'[r].result = "raised"
      BY <1>1, <1>9, <2>2 DEF CalleeEdges, MemoryEdges
    <3>. QED  BY <1>2, <1>3, <1>4, <1>5, <1>6, <1>7, <1>8, <2>2, <3>1
              DEF Unrecorded, Is
  <2>. QED  BY <2>1, <2>2
<1>10. ASSUME NEW g \in allegations'
      PROVE  \E a \in audit' : a.by = g.id
  <2>1. CASE g \in allegations
    BY <1>3, <2>1 DEF RowThere
  <2>2. CASE g \notin allegations
    <3>1. StoreAllegation(r) /\ g.id = r
      BY <1>10, <2>2, ServeWrites DEF StoreAllegation, AddAllegation
    <3>. QED  BY <1>3, <1>5, <3>1
  <2>. QED  BY <2>1, <2>2
<1>. QED  BY <1>9, <1>10 DEF RowThere

LEMMA RowsInvAlways == Spec => []RowsInv
<1>1. Init => RowsInv
  BY BlankMemory DEF Init, InitStore, InitRequests, RowsInv, RuleKnown,
     Known, RowFaithful, RowThere
<1>2. Inv /\ Inv' /\ ScopeInv /\ HistoryInv /\ RowsInv /\ [Next]_vars
        => RowsInv'
  <2> SUFFICES ASSUME Inv, Inv', ScopeInv, HistoryInv, RowsInv, [Next]_vars
               PROVE  RowsInv'
    OBVIOUS
  <2>1. ASSUME NEW r \in Req, Serve(r)
        PROVE  RowsInv'
    BY <2>1, RuleKnownServe, RowFaithfulServe, RowThereServe DEF RowsInv
  <2>2. ASSUME NEW r \in Req, Arrive(r)
        PROVE  RowsInv'
    <3>1. /\ pc[r] = "idle" /\ mem[r] = NoMemory /\ call[r] = None
          /\ mem' = mem /\ audit' = audit /\ allegations' = allegations
          /\ pc'[r] \in {"session", "review", "save_transcript", "scoped"}
          /\ \A q \in Req : q # r => pc'[q] = pc[q] /\ call'[q] = call[q]
      BY <2>2, ArriveFacts DEF db
    <3>2. RuleKnown'
      <4>1. Known(r)'
        BY <3>1, BlankMemory DEF Known
      <4>2. ASSUME NEW q \in Req, q # r
            PROVE  Known(q)'
        BY <3>1, <4>2 DEF RowsInv, RuleKnown, Known, Is
      <4>. QED  BY <4>1, <4>2 DEF RuleKnown
    <3>3. RowFaithful'
      <4>1. \A a \in audit : a.by # r
        BY <3>1 DEF RowsInv, RowFaithful
      <4>. QED  BY <3>1, <4>1 DEF RowsInv, RowFaithful
    <3>4. RowThere'
      BY <3>1 DEF RowsInv, RowThere, Unrecorded, Is
    <3>. QED  BY <3>2, <3>3, <3>4 DEF RowsInv
  <2>3. CASE Crash
    <3>1. /\ audit' = audit /\ allegations' = allegations /\ call' = call
          /\ \A q \in Req : \/ pc'[q] = pc[q] /\ mem'[q] = mem[q]
                            \/ /\ pc[q] \in Label
                               /\ pc'[q] = "lost" /\ mem'[q] = NoMemory
      BY <2>3, CrashFacts DEF db
    <3>2. RuleKnown'
      BY <3>1, BlankMemory DEF RowsInv, RuleKnown, Known, Is
    <3>3. RowFaithful'
      BY <3>1 DEF RowsInv, RowFaithful
    <3>4. RowThere'
      BY <3>1 DEF RowsInv, RowThere, Unrecorded, Is
    <3>. QED  BY <3>2, <3>3, <3>4 DEF RowsInv
  <2>4. CASE UNCHANGED vars
    BY <2>4 DEF vars, db, requestVars, RowsInv, RuleKnown, Known,
       RowFaithful, RowThere, Unrecorded, Is
  <2>. QED  BY <2>1, <2>2, <2>3, <2>4 DEF Next, Finished
<1>. QED  BY <1>1, <1>2, InvAlways, ScopeInvAlways, HistoryInvAlways, PTL
          DEF Spec

\* No request but a read, a decision on an unknown review or a check whose
\* rule raised is answered without the one audit row that says what was
\* answered, and no allegation is stored without one.
THEOREM NothingUnaudited == Spec => []AuditTrail
<1>1. RowsInv => AuditTrail
  <2> SUFFICES ASSUME RowsInv
               PROVE  AuditTrail
    OBVIOUS
  <2>1. ASSUME NEW r \in Req, pc[r] = "done", mem[r].result # "not_found",
               ~Is(r, {"review_detail"}),
               ~(Is(r, {"check"}) /\ mem[r].result = "raised")
        PROVE  /\ \E a \in audit : a.by = r
               /\ \A a \in audit : a.by = r =>
                    a.result = mem[r].result /\ a.action = call[r].tool
    BY <2>1 DEF RowsInv, RowThere, RowFaithful, Unrecorded
  <2>. QED  BY <2>1 DEF AuditTrail, RowsInv, RowThere
<1>. QED  BY <1>1, RowsInvAlways, PTL

-----------------------------------------------------------------------------
\* However often and however concurrently the post-call webhook is
\* delivered, and whenever the process dies, the delivery that was answered
\* "stored" is the one that is kept.
THEOREM FirstDeliveryStays == Spec => []FirstDeliveryKept
<1>1. Init => FirstDeliveryKept
  BY BlankMemory DEF Init, InitRequests, FirstDeliveryKept
<1>2. Inv /\ Inv' /\ ScopeInv /\ HistoryInv /\ FirstDeliveryKept /\ [Next]_vars
        => FirstDeliveryKept'
  <2> SUFFICES ASSUME Inv, Inv', ScopeInv, HistoryInv, FirstDeliveryKept,
                      [Next]_vars
               PROVE  FirstDeliveryKept'
    OBVIOUS
  <2>1. ASSUME NEW r \in Req, Serve(r)
        PROVE  FirstDeliveryKept'
    <3>1. MemoryEdges(r) /\ call' = call
          /\ \A q \in Req : q # r => mem'[q] = mem[q]
      BY <2>1, ServeMemory, ServeMoves, MovesFacts
    <3>2. \A c \in Conv : transcripts[c] # None => transcripts'[c] = transcripts[c]
      BY <2>1, ServeWrites
         DEF StoreTranscript, SaveTranscript, HasTranscript, Inv, TypeOK
    <3>3. ASSUME NEW q \in Req, Is(q, {"post_call"}), mem'[q].result = "stored"
          PROVE  transcripts'[call[q].conv] = q
      <4>0. call[q].conv \in Conv
        BY <3>3, CallFields DEF Is, Inv, TypeOK, Call
      <4>1. CASE mem[q].result = "stored"
        BY <3>2, <3>3, <4>0, <4>1, ConstantsAssumption DEF FirstDeliveryKept
      <4>2. CASE mem[q].result # "stored"
        <5>1. q = r /\ StoreTranscript(r)
          BY <3>1, <3>3, <4>2 DEF MemoryEdges
        <5>2. ~HasTranscript(call[r].conv)
          BY <3>3, <5>1, AnswerKeeps DEF StoreTranscript
        <5>. QED  BY <4>0, <5>1, <5>2
                  DEF StoreTranscript, SaveTranscript, Inv, TypeOK
      <4>. QED  BY <4>1, <4>2
    <3>. QED  BY <3>1, <3>3 DEF FirstDeliveryKept, Is
  <2>2. ASSUME NEW r \in Req, Arrive(r)
        PROVE  FirstDeliveryKept'
    BY <2>2, ArriveFacts, BlankMemory DEF FirstDeliveryKept, Is, db
  <2>3. CASE Crash
    BY <2>3, CrashFacts, BlankMemory DEF FirstDeliveryKept, Is, db
  <2>4. CASE UNCHANGED vars
    BY <2>4 DEF vars, db, requestVars, FirstDeliveryKept, Is
  <2>. QED  BY <2>1, <2>2, <2>3, <2>4 DEF Next, Finished
<1>. QED  BY <1>1, <1>2, InvAlways, ScopeInvAlways, HistoryInvAlways, PTL
          DEF Spec

-----------------------------------------------------------------------------
(***************************************************************************)
(* What was answered reaches the casework.  A handler of draft_complaint   *)
(* or send_to_review reads the trail and the allegations in its first      *)
(* Store operations after the scope check; what was answered before it was *)
(* sent is there to read, so it is in the handler's memory from then on    *)
(* and in the row it files.  Each invariant below says this of the labels  *)
(* between that read and the end of the handler.                           *)
(***************************************************************************)

\* An allegation the worker was told of is stored.
AllegationTold ==
  \A q \in Req : (pc[q] = "done" /\ mem[q].result = "allegation") =>
    q \in AllegationsOf(call[q].case)

PackageKept ==
  \A r \in Req : \A q \in before[r] :
    (mem[q].result = "allegation" /\ call[q].case = call[r].case) =>
      /\ pc[r] \in {"draft_evidence", "create_draft", "create_review"}
           => q \in mem[r].package
      /\ r \in ReviewRefs => q \in reviews[r].package
      /\ \A d \in drafts : d.id = r => q \in d.allegations

\* A finding of evidence e in a draft of r: e's check ran, on r's own call
\* and case, and found it in the records.
FromRecords(e, r) ==
  /\ e[2] = "record"
  /\ e[1] \in Req /\ pc[e[1]] \in {"add_allegation", "done", "lost"}
  /\ Is(e[1], EvidenceTools)
  /\ SameScope(e[1], r)
  /\ pc[e[1]] # "lost" => "record" \in mem[e[1]].findings

EvidenceReal ==
  /\ \A r \in Req : pc[r] = "create_draft" =>
       \A e \in mem[r].evidence : FromRecords(e, r)
  /\ \A d \in drafts : \A e \in d.evidence : FromRecords(e, d.id)

EvidenceKept ==
  \A r \in Req : \A q \in before[r] :
    (/\ Is(q, EvidenceTools) /\ SameScope(q, r)
     /\ "record" \in mem[q].findings) =>
      /\ pc[r] = "create_draft" => <<q, "record">> \in mem[r].evidence
      /\ \A d \in drafts : d.id = r => <<q, "record">> \in d.evidence

\* Tier t is no lower than the tier r asked for and any answered before.
AboveFloor(t, r) ==
  /\ t >= call[r].tier
  /\ \A q \in before[r] :
       (Is(q, EvidenceTools \cup {"send_to_review"}) /\ SameScope(q, r))
       => t >= mem[q].tier

TierKept ==
  \A r \in Req :
    /\ pc[r] \in {"package", "create_review"} => AboveFloor(mem[r].tier, r)
    /\ r \in ReviewRefs => AboveFloor(reviews[r].tier, r)

CaseInv == /\ AllegationTold /\ PackageKept
           /\ EvidenceReal /\ EvidenceKept /\ TierKept

\* The body of a review never changes after it is queued.
LEMMA ReviewBody ==
  ASSUME Inv, NEW r \in Req, Serve(r), NEW v \in Req, reviews'[v] # None
  PROVE  \/ /\ reviews[v] # None
            /\ reviews'[v].package = reviews[v].package
            /\ reviews'[v].tier = reviews[v].tier
         \/ /\ v = r /\ StoreReview(r)
            /\ reviews'[v].package = mem[r].package
            /\ reviews'[v].tier = mem[r].tier
<1>1. CASE StoreReview(r)
  BY <1>1 DEF StoreReview, CreateReview, Inv, TypeOK
<1>2. CASE StoreDecision(r)
  <2>1. reviews[call[r].review] \in Review
    BY <1>2 DEF StoreDecision, Inv, ShapeOK, Shape
  <2>2. reviews[v] # None
    BY <1>2, <2>1, NoneAssumption DEF StoreDecision, Decide, Inv, TypeOK
  <2>3. reviews[v] \in Review
    BY <2>2 DEF Inv, TypeOK
  <2>. QED  BY <1>2, <2>2, <2>3 DEF StoreDecision, Decide, Inv, TypeOK, Review
<1>3. CASE UNCHANGED reviews
  BY <1>3
<1>. QED  BY <1>1, <1>2, <1>3, ServeWrites

LEMMA DraftBody ==
  ASSUME NEW r \in Req, Serve(r), NEW d \in drafts'
  PROVE  \/ d \in drafts
         \/ /\ StoreDraft(r) /\ d.id = r
            /\ d.allegations = mem[r].package /\ d.evidence = mem[r].evidence
BY ServeWrites DEF StoreDraft, CreateDraft

\* The trail holds what a check that was answered found, under the case and
\* call it was asked about ...
LEMMA ToldRow ==
  ASSUME Inv, RowsInv, NEW q \in Req, pc[q] = "done",
         Is(q, EvidenceTools \cup {"send_to_review"}),
         mem[q].findings # {} \/ mem[q].tier # NoTier
  PROVE  \E a \in AuditFor(call[q].case) :
           /\ a.by = q /\ a.conv = call[q].conv /\ a.action = call[q].tool
           /\ a.findings = mem[q].findings /\ a.tier = mem[q].tier
<1>1. mem[q].case = call[q].case
  BY DEF RowsInv, RuleKnown, Known
<1>2. ~Unrecorded(q) /\ call[q].tool # "decide"
  BY DEF RowsInv, RuleKnown, Known, Unrecorded, Is, EvidenceTools
<1>3. PICK a \in audit : a.by = q
  BY <1>2 DEF RowsInv, RowThere
<1>. QED  BY <1>1, <1>2, <1>3 DEF RowsInv, RowFaithful, AuditFor

\* ... so a draft of the same case and call quotes it, ...
LEMMA ToldFinding ==
  ASSUME Inv, RowsInv, NEW q \in Req, pc[q] = "done",
         Is(q, EvidenceTools), "record" \in mem[q].findings
  PROVE  <<q, "record">> \in VerifiedFindings(call[q].case, call[q].conv)
<1>1. PICK a \in AuditFor(call[q].case) :
        /\ a.by = q /\ a.conv = call[q].conv /\ a.action = call[q].tool
        /\ a.findings = mem[q].findings
  BY ToldRow DEF Is
<1>2. a.action \in EvidenceActions
  BY <1>1 DEF Is, EvidenceTools, EvidenceActions
<1>. QED  BY <1>1, <1>2 DEF VerifiedFindings, Evidence, Finding

\* ... and a review of it starts from its tier.
LEMMA ToldTier ==
  ASSUME Inv, RowsInv, NEW q \in Req, pc[q] = "done",
         Is(q, EvidenceTools \cup {"send_to_review"}), mem[q].tier # NoTier
  PROVE  mem[q].tier \in TiersSeen(call[q].case, call[q].conv)
BY ToldRow DEF TiersSeen

\* What a draft quotes is what a check on its own call and case found.
LEMMA QuotedFinding ==
  ASSUME Inv, RowsInv, NEW r \in Req,
         NEW e \in VerifiedFindings(call[r].case, call[r].conv)
  PROVE  FromRecords(e, r)
<1>1. PICK a \in AuditFor(call[r].case) :
        /\ a.by = e[1] /\ a.conv = call[r].conv
        /\ a.action \in EvidenceActions /\ e[2] \in a.findings
  BY DEF VerifiedFindings
<1>2. e[2] = "record"
  BY DEF VerifiedFindings
<1>3. a \in audit /\ a.case = call[r].case
  BY <1>1 DEF AuditFor
<1>4. /\ a.case = call[e[1]].case /\ a.conv = call[e[1]].conv
      /\ Is(e[1], EvidenceTools)
  BY <1>1, <1>3
     DEF RowsInv, RowFaithful, EvidenceActions, EvidenceTools, Is
<1>. QED  BY <1>1, <1>2, <1>3, <1>4
          DEF RowsInv, RowFaithful, FromRecords, SameScope

\* Every answered request before r is above the floor r takes.
LEMMA FloorTaken ==
  ASSUME Inv, HistoryInv, RowsInv, NEW r \in Req, QueueFloor(r)
  PROVE  AboveFloor(mem'[r].tier, r)
<1> DEFINE seen == TiersSeen(call[r].case, call[r].conv)
           t == FinalTier(call[r].tier, seen)
<1>1. call[r].tier \in Tier
  BY DEF QueueFloor, Inv, ShapeOK, Shape
<1>2. seen \in SUBSET (Tier \cup {NoTier})
  BY DEF TiersSeen, AuditFor, Inv, TypeOK, AuditRow
<1> HIDE DEF seen
<1>3. t \in Tier /\ \A u \in seen \cup {call[r].tier} : u <= t
  BY <1>1, <1>2, FinalTierGreatest
<1>4. mem'[r].tier = t
  <2>1. mem[r] \in Memory
    BY DEF Inv, TypeOK
  <2>2. mem'[r] = [mem[r] EXCEPT !.tier = t]
    BY Lands DEF QueueFloor, seen
  <2> HIDE DEF t
  <2>. QED  BY <2>1, <2>2 DEF Memory
<1> HIDE DEF t
<1>5. ASSUME NEW q \in before[r],
             Is(q, EvidenceTools \cup {"send_to_review"}), SameScope(q, r)
      PROVE  t >= mem[q].tier
  <2>1. q \in Req /\ pc[q] = "done"
    BY DEF HistoryInv, BeforeDone
  <2>2. mem[q].tier \in Tier \cup {NoTier}
    BY <2>1 DEF Inv, TypeOK, Memory
  <2>3. CASE mem[q].tier = NoTier
    BY <1>3, <2>3 DEF Tier, NoTier
  <2>4. CASE mem[q].tier # NoTier
    <3>1. mem[q].tier \in seen
      BY <1>5, <2>1, <2>4, ToldTier DEF SameScope, seen
    <3>. QED  BY <1>3, <2>2, <2>4, <3>1 DEF Tier
  <2>. QED  BY <2>3, <2>4
<1>. QED  BY <1>1, <1>3, <1>4, <1>5 DEF AboveFloor, Tier

\* A request whose check is settled does not change what it found.
LEMMA FindingStays ==
  ASSUME Inv, Inv', NEW r \in Req, Serve(r), NEW x \in Req, NEW e,
         FromRecords(e, x)
  PROVE  FromRecords(e, x)'
<1>1. /\ \A q \in Req : q # r => pc'[q] = pc[q] /\ mem'[q] = mem[q]
      /\ call' = call
  BY ServeMoves, MovesFacts
<1>2. CASE e[1] = r
  <2>1. pc[r] = "add_allegation" /\ StoreAllegation(r)
    BY <1>2, ServeEdges DEF FromRecords, CalleeEdges, Label
  <2>2. pc'[r] = "done" /\ mem'[r] = mem[r]
    BY <2>1, Lands DEF StoreAllegation
  <2>. QED  BY <1>1, <1>2, <2>1, <2>2 DEF FromRecords, SameScope, Is
<1>3. CASE e[1] # r
  BY <1>1, <1>3 DEF FromRecords, SameScope, Is
<1>. QED  BY <1>2, <1>3

LEMMA CaseServe ==
  ASSUME Inv, Inv', HistoryInv, RowsInv, CaseInv, NEW r \in Req, Serve(r)
  PROVE  CaseInv'
<1>1. CalleeEdges(r) /\ CalleeResults(r) /\ MemoryEdges(r)
  BY ServeEdges, ServeResults, ServeMemory
<1>2. /\ \A q \in Req : q # r => pc'[q] = pc[q] /\ mem'[q] = mem[q]
      /\ call' = call /\ before' = before
  BY ServeMoves, MovesFacts
<1>3. mem[r] \in Memory
  BY DEF Inv, TypeOK
<1>4. \A x \in Req : \A q \in before[x] :
        q \in Req /\ pc[q] = "done" /\ mem'[q] = mem[q]
  BY <1>1, <1>2 DEF HistoryInv, BeforeDone, CalleeEdges, Label
<1>5. AllegationTold'
  <2>1. ASSUME NEW q \in Req, pc'[q] = "done", mem'[q].result = "allegation"
        PROVE  q \in AllegationsOf(call[q].case)'
    <3>1. CASE q = r
      <4>1. ~Audit(r) /\ ~DetailAudit(r) /\ mem'[r].result # "not_found"
        <5>1. Audit(r) => pc'[r] = "add_allegation"
          BY <2>1, <3>1, Lands DEF Audit
        <5>2. DetailAudit(r) => mem[r].result = "allegation" /\ pc[r] = "audit_for"
          BY <2>1, <3>1, Lands DEF DetailAudit
        <5>. QED  BY <2>1, <3>1, <5>1, <5>2
                  DEF RowsInv, RuleKnown, Known, Settled
      <4>2. StoreAllegation(r)
        BY <1>1, <2>1, <3>1, <4>1 DEF MemoryEdges
      <4>3. [id |-> r, case |-> call[r].case] \in allegations'
        BY <4>2 DEF StoreAllegation, AddAllegation
      <4>. QED  BY <1>2, <3>1, <4>3 DEF AllegationsOf
    <3>2. CASE q # r
      <4>1. q \in AllegationsOf(call[q].case)
        BY <1>2, <2>1, <3>2 DEF CaseInv, AllegationTold
      <4>2. allegations \subseteq allegations'
        BY ServeWrites DEF StoreAllegation, AddAllegation
      <4>. QED  BY <1>2, <4>1, <4>2 DEF AllegationsOf
    <3>. QED  BY <3>1, <3>2
  <2>. QED  BY <1>2, <2>1 DEF AllegationTold, AllegationsOf
<1>6. PackageKept'
  <2>1. ASSUME NEW x \in Req, NEW q \in before[x],
               mem[q].result = "allegation", call[q].case = call[x].case
        PROVE  /\ pc'[x] \in {"draft_evidence", "create_draft",
                              "create_review"} => q \in mem'[x].package
               /\ x \in ReviewRefs' => q \in reviews'[x].package
               /\ \A d \in drafts' : d.id = x => q \in d.allegations
    <3>1. /\ pc[x] \in {"draft_evidence", "create_draft", "create_review"}
               => q \in mem[x].package
          /\ x \in ReviewRefs => q \in reviews[x].package
          /\ \A d \in drafts : d.id = x => q \in d.allegations
      BY <2>1 DEF CaseInv, PackageKept
    <3>2. q \in AllegationsOf(call[x].case)
      BY <1>4, <2>1 DEF CaseInv, AllegationTold
    <3>3. ASSUME x = r, pc'[r] \in {"draft_evidence", "create_draft",
                                    "create_review"}
          PROVE  q \in mem'[r].package
      <4>1. CASE DraftAllegations(r) \/ QueuePackage(r)
        <5>1. mem'[r] = [mem[r] EXCEPT !.package = AllegationsOf(call[r].case)]
          BY <4>1, Lands DEF DraftAllegations, QueuePackage
        <5>. QED  BY <1>3, <3>2, <3>3, <5>1 DEF Memory
      <4>2. CASE DraftEvidence(r)
        <5>1. /\ pc[r] = "draft_evidence"
              /\ mem'[r] = [mem[r] EXCEPT !.evidence =
                   VerifiedFindings(call[r].case, call[r].conv)]
          BY <4>2, Lands DEF DraftEvidence
        <5>2. mem'[r].package = mem[r].package
          BY <1>3, <5>1 DEF Memory
        <5>. QED  BY <3>1, <3>3, <5>1, <5>2
      <4>. QED  BY <1>1, <3>3, <4>1, <4>2 DEF CalleeEdges
    <3>4. x \in ReviewRefs' => q \in reviews'[x].package
      BY <3>1, ReviewBody DEF ReviewRefs, StoreReview
    <3>5. \A d \in drafts' : d.id = x => q \in d.allegations
      BY <3>1, DraftBody DEF StoreDraft
    <3>. QED  BY <1>2, <3>1, <3>3, <3>4, <3>5
  <2>. QED  BY <1>2, <1>4, <2>1 DEF PackageKept
<1>7. EvidenceReal'
  <2>1. ASSUME NEW x \in Req, pc'[x] = "create_draft", NEW e \in mem'[x].evidence
        PROVE  FromRecords(e, x)'
    <3>1. CASE x = r
      <4>1. mem'[r] = [mem[r] EXCEPT !.evidence =
                         VerifiedFindings(call[r].case, call[r].conv)]
        BY <1>1, <2>1, <3>1, Lands DEF CalleeEdges, DraftEvidence
      <4>2. e \in VerifiedFindings(call[r].case, call[r].conv)
        BY <1>3, <2>1, <3>1, <4>1 DEF Memory
      <4>. QED  BY <3>1, <4>2, QuotedFinding, FindingStays
    <3>2. CASE x # r
      BY <1>2, <2>1, <3>2, FindingStays DEF CaseInv, EvidenceReal
    <3>. QED  BY <3>1, <3>2
  <2>2. ASSUME NEW d \in drafts', NEW e \in d.evidence
        PROVE  FromRecords(e, d.id)'
    <3>1. d.id \in Req
      BY DEF Inv, TypeOK, Draft
    <3>2. FromRecords(e, d.id)
      BY <2>2, DraftBody DEF StoreDraft, CaseInv, EvidenceReal
    <3>. QED  BY <3>1, <3>2, FindingStays
  <2>. QED  BY <2>1, <2>2 DEF EvidenceReal
<1>8. EvidenceKept'
  <2>1. ASSUME NEW x \in Req, NEW q \in before[x], Is(q, EvidenceTools),
               SameScope(q, x), "record" \in mem[q].findings
        PROVE  /\ pc'[x] = "create_draft" => <<q, "record">> \in mem'[x].evidence
               /\ \A d \in drafts' : d.id = x => <<q, "record">> \in d.evidence
    <3>1. /\ pc[x] = "create_draft" => <<q, "record">> \in mem[x].evidence
          /\ \A d \in drafts : d.id = x => <<q, "record">> \in d.evidence
      BY <2>1 DEF CaseInv, EvidenceKept
    <3>2. <<q, "record">> \in VerifiedFindings(call[x].case, call[x].conv)
      BY <1>4, <2>1, ToldFinding DEF SameScope
    <3>3. ASSUME x = r, pc'[r] = "create_draft"
          PROVE  <<q, "record">> \in mem'[r].evidence
      <4>1. mem'[r] = [mem[r] EXCEPT !.evidence =
                         VerifiedFindings(call[r].case, call[r].conv)]
        BY <1>1, <3>3, Lands DEF CalleeEdges, DraftEvidence
      <4>. QED  BY <1>3, <3>2, <3>3, <4>1 DEF Memory
    <3>4. \A d \in drafts' : d.id = x => <<q, "record">> \in d.evidence
      BY <3>1, DraftBody DEF StoreDraft
    <3>. QED  BY <1>2, <3>1, <3>3, <3>4
  <2>. QED  BY <1>2, <1>4, <2>1 DEF EvidenceKept, Is, SameScope
<1>9. TierKept'
  <2>1. ASSUME NEW x \in Req, NEW t, AboveFloor(t, x)
        PROVE  /\ t >= call'[x].tier
               /\ \A q \in before'[x] :
                    (Is(q, EvidenceTools \cup {"send_to_review"})
                       /\ SameScope(q, x))' => t >= mem'[q].tier
    BY <1>2, <1>4, <2>1 DEF AboveFloor, Is, SameScope
  <2>2. ASSUME NEW x \in Req, pc'[x] \in {"package", "create_review"}
        PROVE  AboveFloor(mem'[x].tier, x)
    <3>1. CASE x # r
      BY <1>2, <2>2, <3>1 DEF CaseInv, TierKept
    <3>2. CASE x = r /\ QueueFloor(r)
      BY <3>2, FloorTaken
    <3>3. CASE x = r /\ QueuePackage(r)
      <4>1. /\ pc[r] = "package"
            /\ mem'[r] = [mem[r] EXCEPT !.package = AllegationsOf(call[r].case)]
        BY <3>3, Lands DEF QueuePackage
      <4>2. mem'[r].tier = mem[r].tier
        BY <1>3, <4>1 DEF Memory
      <4>. QED  BY <3>3, <4>1, <4>2 DEF CaseInv, TierKept
    <3>. QED  BY <1>1, <2>2, <3>1, <3>2, <3>3 DEF CalleeEdges
  <2>3. ASSUME NEW x \in Req, x \in ReviewRefs'
        PROVE  AboveFloor(reviews'[x].tier, x)
    BY <2>3, ReviewBody DEF ReviewRefs, StoreReview, CaseInv, TierKept
  <2>. QED  BY <2>1, <2>2, <2>3 DEF TierKept, AboveFloor
<1>. QED  BY <1>5, <1>6, <1>7, <1>8, <1>9 DEF CaseInv

LEMMA CaseArrive ==
  ASSUME Inv, Inv', ScopeInv, HistoryInv, CaseInv, NEW r \in Req, Arrive(r)
  PROVE  CaseInv'
<1>1. /\ pc[r] = "idle" /\ ~Filed(r)
      /\ mem' = mem /\ UNCHANGED <<reviews, drafts, allegations>>
      /\ pc'[r] \in {"session", "review", "save_transcript", "scoped"}
      /\ \A q \in Req : q # r =>
           /\ pc'[q] = pc[q] /\ call'[q] = call[q] /\ before'[q] = before[q]
  BY ArriveFacts DEF db
<1>2. r \notin ReviewRefs /\ \A d \in drafts : d.id # r
  BY <1>1 DEF Filed
<1>3. \A x \in Req : \A q \in before[x] : q # r /\ q \in Req
  BY <1>1 DEF HistoryInv, BeforeDone
<1>4. AllegationTold'
  BY <1>1 DEF CaseInv, AllegationTold, AllegationsOf
<1>5. PackageKept'
  BY <1>1, <1>2, <1>3 DEF CaseInv, PackageKept, ReviewRefs
<1>6. \A x \in Req : \A e : (x # r /\ FromRecords(e, x)) => FromRecords(e, x)'
  BY <1>1 DEF FromRecords, SameScope, Is
<1>7. EvidenceReal'
  <2>1. \A d \in drafts : d.id \in Req /\ d.id # r
    BY <1>2 DEF Inv, TypeOK, Draft
  <2>. QED  BY <1>1, <1>6, <2>1 DEF CaseInv, EvidenceReal
<1>8. EvidenceKept'
  BY <1>1, <1>2, <1>3 DEF CaseInv, EvidenceKept, SameScope, Is
<1>9. TierKept'
  BY <1>1, <1>2, <1>3
     DEF CaseInv, TierKept, AboveFloor, SameScope, Is, ReviewRefs
<1>. QED  BY <1>4, <1>5, <1>7, <1>8, <1>9 DEF CaseInv

LEMMA CaseCrash ==
  ASSUME Inv, Inv', HistoryInv, CaseInv, Crash
  PROVE  CaseInv'
<1>1. /\ UNCHANGED <<reviews, drafts, allegations, call, before>>
      /\ \A q \in Req : \/ pc'[q] = pc[q] /\ mem'[q] = mem[q]
                        \/ /\ pc[q] \in Label
                           /\ pc'[q] = "lost" /\ mem'[q] = NoMemory
  BY CrashFacts DEF db
<1>2. \A x \in Req : \A q \in before[x] : mem'[q] = mem[q] /\ q \in Req
  BY <1>1 DEF HistoryInv, BeforeDone, Label
<1>3. AllegationTold'
  BY <1>1 DEF CaseInv, AllegationTold, AllegationsOf
<1>4. PackageKept'
  BY <1>1, <1>2 DEF CaseInv, PackageKept, ReviewRefs
<1>5. \A x \in Req : \A e : FromRecords(e, x) => FromRecords(e, x)'
  BY <1>1 DEF FromRecords, SameScope, Is
<1>6. EvidenceReal'
  <2>1. \A d \in drafts : d.id \in Req
    BY DEF Inv, TypeOK, Draft
  <2>. QED  BY <1>1, <1>5, <2>1 DEF CaseInv, EvidenceReal
<1>7. EvidenceKept'
  BY <1>1, <1>2 DEF CaseInv, EvidenceKept, SameScope, Is
<1>8. TierKept'
  BY <1>1, <1>2 DEF CaseInv, TierKept, AboveFloor, SameScope, Is, ReviewRefs
<1>. QED  BY <1>3, <1>4, <1>6, <1>7, <1>8 DEF CaseInv

LEMMA CaseInvAlways == Spec => []CaseInv
<1>1. Init => CaseInv
  BY DEF Init, InitStore, InitRequests, CaseInv, AllegationTold,
     PackageKept, EvidenceReal, EvidenceKept, TierKept, ReviewRefs
<1>2. /\ Inv /\ Inv' /\ ScopeInv /\ HistoryInv /\ RowsInv /\ CaseInv
      /\ [Next]_vars
      => CaseInv'
  <2> SUFFICES ASSUME Inv, Inv', ScopeInv, HistoryInv, RowsInv, CaseInv,
                      [Next]_vars
               PROVE  CaseInv'
    OBVIOUS
  <2>1. CASE UNCHANGED vars
    BY <2>1 DEF vars, db, requestVars, CaseInv, AllegationTold,
       AllegationsOf, PackageKept, EvidenceReal, EvidenceKept, FromRecords,
       TierKept, AboveFloor, SameScope, Is, ReviewRefs
  <2>. QED  BY <2>1, CaseServe, CaseArrive, CaseCrash DEF Next, Finished
<1>. QED  BY <1>1, <1>2, InvAlways, ScopeInvAlways, HistoryInvAlways,
             RowsInvAlways, PTL DEF Spec

\* The evidence of a draft is what this call's own checks found in the
\* records, for any number of checks, drafts and crashes in any order.
THEOREM EvidenceFromRecords == Spec => []EvidenceIsRecords
<1>1. CaseInv => EvidenceIsRecords
  BY DEF CaseInv, EvidenceReal, FromRecords, EvidenceIsRecords
<1>. QED  BY <1>1, CaseInvAlways, PTL

\* A draft leaves out no record finding the worker had been told of before
\* asking for it.
THEOREM NoFindingLeftOut == Spec => []EvidenceComplete
<1>1. Inv /\ CaseInv => EvidenceComplete
  <2> SUFFICES ASSUME Inv, CaseInv, NEW d \in drafts
               PROVE  \A q \in before[d.id] :
                        (/\ Is(q, EvidenceTools) /\ SameScope(q, d.id)
                         /\ "record" \in mem[q].findings)
                        => <<q, "record">> \in d.evidence
    BY DEF EvidenceComplete
  <2>1. d.id \in Req
    BY DEF Inv, TypeOK, Draft
  <2>. QED  BY <2>1 DEF CaseInv, EvidenceKept
<1>. QED  BY <1>1, InvAlways, CaseInvAlways, PTL

\* What a worker was told is recorded is in every draft and every review
\* package asked for afterwards.
THEOREM AllegationsReachReview == Spec => []AllegationsKept
<1>1. CaseInv => AllegationsKept
  BY DEF CaseInv, PackageKept, AllegationsKept
<1>. QED  BY <1>1, CaseInvAlways, PTL

\* A review is queued no lower than the tier asked for and than every tier
\* answered on its call and case before it was asked for.
THEOREM TierNeverBelowFloor == Spec => []TierFloor
<1>1. CaseInv => TierFloor
  BY DEF CaseInv, TierKept, AboveFloor, TierFloor, ReviewRefs
<1>. QED  BY <1>1, CaseInvAlways, PTL
=============================================================================

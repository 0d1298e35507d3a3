------------------------ MODULE ControlPlane_proofs ------------------------
(***************************************************************************)
(* Theorems about ControlPlane for every set of requests, calls, workers,  *)
(* cases and decisions, and any number of crashes.                         *)
(***************************************************************************)
EXTENDS ControlPlane, TLAPS

PcLabel == Label \cup {"idle", "done", "lost"}

(***************************************************************************)
(* Which call a thread at a given label carries, and what it knows of it:  *)
(* the handlers never leave their own code.                                *)
(***************************************************************************)
Shape(r) ==
  /\ pc[r] = "session" => call[r] \in VerifyCall \cup TransferCall
  /\ pc[r] \in {"bind", "fail_attempt", "fail_read", "lock"} =>
       call[r] \in VerifyCall
  /\ pc[r] = "set_consent" =>
       call[r] \in TransferCall /\ mem[r].result # "allegation"
  /\ pc[r] = "scoped" => call[r] \in CheckCall \cup DraftCall \cup QueueCall
  /\ pc[r] = "add_allegation" => call[r] \in CheckCall
  /\ pc[r] \in {"draft_allegations", "draft_evidence", "create_draft"} =>
       call[r] \in DraftCall
  /\ pc[r] \in {"active_review", "floor", "package", "create_review"} =>
       call[r] \in QueueCall /\ call[r].tier \in Tier
  /\ pc[r] \in {"package", "create_review"} => mem[r].tier \in Tier
  /\ pc[r] = "review" => call[r] \in DecideCall \cup DetailCall
  /\ pc[r] \in {"has_transcript", "decide"} =>
       /\ call[r] \in DecideCall
       /\ call[r].decision \in Decision
       /\ reviews[call[r].review] \in Review
  /\ pc[r] \in {"transcript", "allegations", "latest_draft"} =>
       call[r] \in DetailCall /\ reviews[call[r].review] \in Review
  /\ pc[r] = "save_transcript" => call[r] \in WebhookCall
  /\ pc[r] = "audit" =>
       /\ call[r] \in Call \ DetailCall
       /\ call[r] \in DecideCall => reviews[call[r].review] \in Review
       /\ mem[r].result = "allegation" => call[r] \in CheckCall

ShapeOK == \A r \in Req : Shape(r)

-----------------------------------------------------------------------------
(* What Go and Answer leave behind. *)

LEMMA GoFacts ==
  ASSUME TypeOK, NEW r \in Req, NEW l \in PcLabel, NEW m \in Memory,
         Go(r, l, m)
  PROVE  /\ pc' \in [Req -> PcLabel]
         /\ mem' \in [Req -> Memory]
         /\ pc'[r] = l
         /\ mem'[r] = m
         /\ \A q \in Req : q # r => pc'[q] = pc[q] /\ mem'[q] = mem[q]
         /\ call' = call /\ before' = before /\ crashes' = crashes
BY DEF TypeOK, Go, PcLabel

LEMMA AnswerFacts ==
  ASSUME TypeOK, NEW r \in Req, NEW s \in Result,
         NEW k \in Case \cup {None}, Answer(r, s, k)
  PROVE  /\ pc' \in [Req -> PcLabel]
         /\ mem' \in [Req -> Memory]
         /\ pc'[r] = "audit"
         /\ mem'[r] = [mem[r] EXCEPT !.result = s, !.case = k]
         /\ mem'[r].result = s
         /\ \A q \in Req : q # r => pc'[q] = pc[q] /\ mem'[q] = mem[q]
         /\ call' = call /\ before' = before /\ crashes' = crashes
<1> DEFINE m == [mem[r] EXCEPT !.result = s, !.case = k]
<1>0. mem[r] \in Memory
  BY DEF TypeOK
<1>1. m \in Memory /\ m.result = s
  BY <1>0 DEF Memory
<1>2. "audit" \in PcLabel
  BY DEF PcLabel, Label
<1>3. Go(r, "audit", m)
  BY DEF Answer
<1> HIDE DEF m
<1>4. /\ pc' \in [Req -> PcLabel]
      /\ mem' \in [Req -> Memory]
      /\ pc'[r] = "audit"
      /\ mem'[r] = m
      /\ \A q \in Req : q # r => pc'[q] = pc[q] /\ mem'[q] = mem[q]
      /\ call' = call /\ before' = before /\ crashes' = crashes
  BY <1>1, <1>2, <1>3, GoFacts
<1>. QED  BY <1>1, <1>4 DEF m

-----------------------------------------------------------------------------
(* A step of one handler preserves the invariant if the tables stay typed  *)
(* and the handler's own shape is kept: the other threads do not notice.   *)

TablesOK ==
  /\ sessions \in [Conv -> Session]
  /\ allegations \subseteq Allegation
  /\ drafts \subseteq Draft
  /\ reviews \in [Req -> Review \cup {None}]
  /\ transcripts \in [Conv -> Req \cup {None}]
  /\ audit \subseteq AuditRow

ReviewsKept == \A v \in Req : reviews[v] \in Review => reviews'[v] \in Review

Inv == TypeOK /\ ShapeOK

LEMMA StepInv ==
  ASSUME Inv, NEW r \in Req, NEW l \in PcLabel, NEW m \in Memory,
         Go(r, l, m), TablesOK', ReviewsKept, Shape(r)'
  PROVE  Inv'
<1>1. /\ pc' \in [Req -> PcLabel]
      /\ mem' \in [Req -> Memory]
      /\ \A q \in Req : q # r => pc'[q] = pc[q] /\ mem'[q] = mem[q]
      /\ call' = call /\ before' = before /\ crashes' = crashes
  BY GoFacts DEF Inv
<1>2. TypeOK'
  BY <1>1 DEF Inv, TypeOK, TablesOK, PcLabel
<1>3. ASSUME NEW q \in Req, q # r
      PROVE  Shape(q)'
  <2>1. Shape(q)
    BY DEF Inv, ShapeOK
  <2>2. pc'[q] = pc[q] /\ mem'[q] = mem[q] /\ call'[q] = call[q]
    BY <1>1, <1>3
  <2>3. \A v \in Req : reviews[v] \in Review => reviews'[v] \in Review
    BY DEF ReviewsKept
  <2>4. \A k \in DecideCall \cup DetailCall : k.review \in Req
    BY DEF DecideCall, DetailCall
  <2>. QED  BY <2>1, <2>2, <2>3, <2>4 DEF Shape
<1>. QED  BY <1>2, <1>3 DEF Inv, ShapeOK

LEMMA AnswerInv ==
  ASSUME Inv, NEW r \in Req, NEW s \in Result, NEW k \in Case \cup {None},
         Answer(r, s, k), TablesOK', ReviewsKept,
         call[r] \in Call \ DetailCall,
         call[r] \in DecideCall => reviews'[call[r].review] \in Review,
         s = "allegation" => call[r] \in CheckCall
  PROVE  Inv'
<1> DEFINE m == [mem[r] EXCEPT !.result = s, !.case = k]
<1>1. mem[r] \in Memory
  BY DEF Inv, TypeOK
<1>2. m \in Memory
  BY <1>1 DEF Memory
<1>3. Go(r, "audit", m)
  BY DEF Answer
<1>4. /\ pc'[r] = "audit" /\ mem'[r].result = s
      /\ call'[r] = call[r]
  BY AnswerFacts DEF Inv
<1>5. Shape(r)'
  BY <1>4 DEF Shape
<1>6. "audit" \in PcLabel
  BY DEF PcLabel, Label
<1> HIDE DEF m
<1>. QED  BY <1>2, <1>3, <1>5, <1>6, StepInv

\* A read leaves the tables as they were.
LEMMA ReadFrame ==
  ASSUME Inv, UNCHANGED db
  PROVE  TablesOK' /\ ReviewsKept
BY DEF Inv, TypeOK, TablesOK, ReviewsKept, db

\* The fields of each kind of call.
LEMMA CallFields ==
  /\ \A k \in VerifyCall :
       /\ k.tool = "verify_session" /\ k.conv \in Conv /\ k.case \in Case
       /\ k.worker \in Worker \cup {None} /\ k.pin \in BOOLEAN
  /\ \A k \in CheckCall :
       /\ k.tool \in {"check", "record_allegation"}
       /\ k.conv \in Conv /\ k.case \in Case
  /\ \A k \in DraftCall :
       k.tool = "draft_complaint" /\ k.conv \in Conv /\ k.case \in Case
  /\ \A k \in QueueCall :
       /\ k.tool = "send_to_review" /\ k.conv \in Conv /\ k.case \in Case
       /\ k.tier \in Tier \cup {NoTier}
  /\ \A k \in TransferCall :
       k.tool = "transfer_to_human" /\ k.conv \in Conv
  /\ \A k \in DecideCall :
       /\ k.tool = "decide" /\ k.review \in Req
       /\ k.decision \in Decision \cup {None}
  /\ \A k \in WebhookCall : k.tool = "post_call" /\ k.conv \in Conv
  /\ \A k \in DetailCall : k.tool = "review_detail" /\ k.review \in Req
BY DEF VerifyCall, CheckCall, DraftCall, QueueCall, TransferCall, DecideCall,
       WebhookCall, DetailCall

\* The kinds of call do not overlap; those below may be audited.
LEMMA CallKinds ==
  /\ VerifyCall \cup CheckCall \cup DraftCall \cup QueueCall
       \cup TransferCall \cup WebhookCall
       \subseteq Call \ (DetailCall \cup DecideCall)
  /\ DecideCall \subseteq Call \ DetailCall
BY CallFields DEF Call

-----------------------------------------------------------------------------
(* The steps of the handlers, one lemma each. *)

LEMMA VerifyReadInv ==
  ASSUME Inv, NEW r \in Req, VerifyRead(r)
  PROVE  Inv'
<1>1. call[r] \in VerifyCall /\ call[r].case \in Case
  BY CallFields DEF Inv, ShapeOK, Shape, VerifyRead, At
<1>2. TablesOK' /\ ReviewsKept
  BY ReadFrame DEF VerifyRead
<1>3. mem[r] \in Memory
  BY DEF Inv, TypeOK
<1>4. ASSUME NEW s \in Result, s # "allegation", Answer(r, s, call[r].case)
      PROVE  Inv'
  BY <1>1, <1>2, <1>4, CallKinds, AnswerInv
<1>5. ASSUME NEW l \in {"bind", "fail_attempt"}, Go(r, l, mem[r])
      PROVE  Inv'
  <2>1. l \in PcLabel
    BY DEF PcLabel, Label
  <2>2. pc'[r] = l /\ call' = call
    BY <1>3, <1>5, <2>1, GoFacts DEF Inv
  <2>3. Shape(r)'
    BY <1>1, <2>2 DEF Shape
  <2>. QED  BY <1>2, <1>3, <1>5, <2>1, <2>3, StepInv
<1>6. {"verification_locked", "already_bound", "already_verified",
       "dependency_unavailable"} \subseteq Result \ {"allegation"}
  BY DEF Result
<1>. QED  BY <1>4, <1>5, <1>6 DEF VerifyRead

LEMMA BindCallInv ==
  ASSUME Inv, NEW r \in Req, BindCall(r)
  PROVE  Inv'
<1>1. call[r] \in VerifyCall
  BY DEF Inv, ShapeOK, Shape, BindCall
<1>2. TablesOK' /\ ReviewsKept
  BY <1>1, CallFields
     DEF Inv, TypeOK, TablesOK, ReviewsKept, BindCall, Bind, Session
<1>3. "verified" \in Result
  BY DEF Result
<1>. QED  BY <1>1, <1>2, <1>3, CallFields, CallKinds, AnswerInv DEF BindCall

LEMMA FailAttemptInv ==
  ASSUME Inv, NEW r \in Req, FailAttempt(r)
  PROVE  Inv'
<1>1. call[r] \in VerifyCall
  BY DEF Inv, ShapeOK, Shape, FailAttempt
<1>2. TablesOK' /\ ReviewsKept
  <2> DEFINE c == call[r].conv
             s == [sessions[c] EXCEPT !.attempts = @ + 1]
  <2>1. c \in Conv /\ sessions[c] \in Session
    BY <1>1, CallFields DEF Inv, TypeOK
  <2>2. s \in Session
    BY <2>1 DEF Session
  <2>3. sessions' = [sessions EXCEPT ![c] = s]
    BY DEF FailAttempt, CountFailure
  <2> HIDE DEF c, s
  <2>. QED  BY <2>1, <2>2, <2>3
            DEF Inv, TypeOK, TablesOK, ReviewsKept, FailAttempt
<1>3. "fail_read" \in PcLabel /\ mem[r] \in Memory
  BY DEF PcLabel, Label, Inv, TypeOK
<1>4. pc'[r] = "fail_read" /\ call' = call
  BY <1>3, GoFacts DEF Inv, FailAttempt
<1>5. Shape(r)'
  BY <1>1, <1>4 DEF Shape
<1>. QED  BY <1>2, <1>3, <1>5, StepInv DEF FailAttempt

LEMMA FailReadInv ==
  ASSUME Inv, NEW r \in Req, FailRead(r)
  PROVE  Inv'
<1>1. call[r] \in VerifyCall
  BY DEF Inv, ShapeOK, Shape, FailRead
<1>2. TablesOK' /\ ReviewsKept
  BY ReadFrame DEF FailRead
<1>3. CASE Go(r, "lock", mem[r])
  <2>1. "lock" \in PcLabel /\ mem[r] \in Memory
    BY DEF PcLabel, Label, Inv, TypeOK
  <2>2. pc'[r] = "lock" /\ call' = call
    BY <1>3, <2>1, GoFacts DEF Inv
  <2>3. Shape(r)'
    BY <1>1, <2>2 DEF Shape
  <2>. QED  BY <1>2, <1>3, <2>1, <2>3, StepInv
<1>4. CASE Answer(r, "verification_failed", call[r].case)
  <2>1. "verification_failed" \in Result
    BY DEF Result
  <2>. QED  BY <1>1, <1>2, <1>4, <2>1, CallFields, CallKinds, AnswerInv
<1>. QED  BY <1>3, <1>4 DEF FailRead

LEMMA LockCallInv ==
  ASSUME Inv, NEW r \in Req, LockCall(r)
  PROVE  Inv'
<1>1. call[r] \in VerifyCall
  BY DEF Inv, ShapeOK, Shape, LockCall
<1>2. TablesOK' /\ ReviewsKept
  <2> DEFINE c == call[r].conv
             s == [sessions[c] EXCEPT !.locked = TRUE]
  <2>1. c \in Conv /\ sessions[c] \in Session
    BY <1>1, CallFields DEF Inv, TypeOK
  <2>2. s \in Session
    BY <2>1 DEF Session
  <2>3. sessions' = [sessions EXCEPT ![c] = s]
    BY DEF LockCall, LockSession
  <2> HIDE DEF c, s
  <2>. QED  BY <2>1, <2>2, <2>3
            DEF Inv, TypeOK, TablesOK, ReviewsKept, LockCall
<1>3. "verification_locked" \in Result
  BY DEF Result
<1>. QED  BY <1>1, <1>2, <1>3, CallFields, CallKinds, AnswerInv DEF LockCall

LEMMA TransferReadInv ==
  ASSUME Inv, NEW r \in Req, TransferRead(r)
  PROVE  Inv'
<1> DEFINE k == sessions[call[r].conv].case
           m == [mem[r] EXCEPT !.result = "callback", !.case = k]
<1>1. call[r] \in TransferCall
  BY CallFields DEF Inv, ShapeOK, Shape, TransferRead, At
<1>2. TablesOK' /\ ReviewsKept
  BY ReadFrame DEF TransferRead
<1>3. k \in Case \cup {None}
  BY <1>1, CallFields DEF Inv, TypeOK, Session
<1>4. {"callback", "callback_without_consent", "transfer"}
        \subseteq Result \ {"allegation"}
  BY DEF Result
<1>5. mem[r] \in Memory
  BY DEF Inv, TypeOK
<1>6. m \in Memory
  BY <1>3, <1>4, <1>5 DEF Memory
<1>7. m.result = "callback"
  BY <1>5 DEF Memory
<1>8. \/ Answer(r, "callback_without_consent", k)
      \/ Answer(r, "transfer", k)
      \/ Go(r, "set_consent", m)
  BY DEF TransferRead
<1> HIDE DEF k, m
<1>9. CASE Go(r, "set_consent", m)
  <2>1. "set_consent" \in PcLabel
    BY DEF PcLabel, Label
  <2>2. pc'[r] = "set_consent" /\ mem'[r] = m /\ call' = call
    BY <1>6, <1>9, <2>1, GoFacts DEF Inv
  <2>3. Shape(r)'
    BY <1>1, <1>7, <2>2 DEF Shape
  <2>. QED  BY <1>2, <1>6, <1>9, <2>1, <2>3, StepInv
<1>10. ASSUME NEW s \in Result \ {"allegation"}, Answer(r, s, k)
      PROVE  Inv'
  BY <1>1, <1>2, <1>3, <1>10, CallKinds, AnswerInv
<1>. QED  BY <1>4, <1>8, <1>9, <1>10

LEMMA SetConsentInv ==
  ASSUME Inv, NEW r \in Req, SetConsent(r)
  PROVE  Inv'
<1>1. call[r] \in TransferCall
  BY DEF Inv, ShapeOK, Shape, SetConsent
<1>2. TablesOK' /\ ReviewsKept
  <2> DEFINE c == call[r].conv
             s == [sessions[c] EXCEPT !.consent = TRUE]
  <2>1. c \in Conv /\ sessions[c] \in Session
    BY <1>1, CallFields DEF Inv, TypeOK
  <2>2. s \in Session
    BY <2>1 DEF Session
  <2>3. sessions' = [sessions EXCEPT ![c] = s]
    BY DEF SetConsent, SetCallbackConsent
  <2> HIDE DEF c, s
  <2>. QED  BY <2>1, <2>2, <2>3
            DEF Inv, TypeOK, TablesOK, ReviewsKept, SetConsent
<1>3. "audit" \in PcLabel /\ mem[r] \in Memory
  BY DEF PcLabel, Label, Inv, TypeOK
<1>4. pc'[r] = "audit" /\ mem'[r] = mem[r] /\ call' = call
  BY <1>3, GoFacts DEF Inv, SetConsent
<1>5. mem[r].result # "allegation"
  BY DEF Inv, ShapeOK, Shape, SetConsent
<1>6. Shape(r)'
  BY <1>1, <1>4, <1>5, CallKinds DEF Shape
<1>. QED  BY <1>2, <1>3, <1>6, StepInv DEF SetConsent

-----------------------------------------------------------------------------
(* A step that only refuses or answers, from a handler that reads.         *)

LEMMA RefusalInv ==
  ASSUME Inv, NEW r \in Req, NEW s \in Result, NEW k \in Case \cup {None},
         s # "allegation", Answer(r, s, k), UNCHANGED db,
         call[r] \in Call \ (DetailCall \cup DecideCall)
  PROVE  Inv'
BY ReadFrame, AnswerInv

\* A step that reads and goes on, to a label whose shape is met.
LEMMA ReadInv ==
  ASSUME Inv, NEW r \in Req, NEW l \in PcLabel, NEW m \in Memory,
         Go(r, l, m), UNCHANGED db, Shape(r)'
  PROVE  Inv'
BY ReadFrame, StepInv

LEMMA ScopedCall ==
  ASSUME Inv, NEW r \in Req, pc[r] = "scoped"
  PROVE  /\ call[r] \in CheckCall \cup DraftCall \cup QueueCall
         /\ call[r] \in Call \ (DetailCall \cup DecideCall)
         /\ call[r].case \in Case /\ call[r].conv \in Conv
         /\ call[r].tool \in {"check", "record_allegation"} =>
              call[r] \in CheckCall
         /\ call[r].tool = "draft_complaint" => call[r] \in DraftCall
         /\ call[r].tool = "send_to_review" => call[r] \in QueueCall
BY CallFields, CallKinds DEF Inv, ShapeOK, Shape

LEMMA RefusePeriodInv ==
  ASSUME Inv, NEW r \in Req, RefusePeriod(r)
  PROVE  Inv'
<1>1. "invalid_period" \in Result
  BY DEF Result
<1>. QED  BY <1>1, ScopedCall, RefusalInv DEF RefusePeriod, At

LEMMA OutOfScopeInv ==
  ASSUME Inv, NEW r \in Req, OutOfScope(r)
  PROVE  Inv'
<1>1. {"case_scope_violation", "session_not_verified"} \subseteq Result
  BY DEF Result
<1>. QED  BY <1>1, ScopedCall, RefusalInv DEF OutOfScope

LEMMA RecordsDownInv ==
  ASSUME Inv, NEW r \in Req, RecordsDown(r)
  PROVE  Inv'
<1>1. "dependency_unavailable" \in Result
  BY DEF Result
<1>. QED  BY <1>1, ScopedCall, RefusalInv DEF RecordsDown, At

LEMMA RuledInv ==
  ASSUME Inv, NEW r \in Req, NEW s \in Result, NEW t \in Tier,
         NEW f \in SUBSET Finding, Ruled(r, s, [tier |-> t, findings |-> f]),
         UNCHANGED db, call[r] \in CheckCall
  PROVE  Inv'
<1> DEFINE w == sessions[call[r].conv].worker
           m == [mem[r] EXCEPT !.result = s, !.case = call[r].case,
                               !.worker = w, !.tier = t, !.findings = f]
<1>1. mem[r] \in Memory
  BY DEF Inv, TypeOK
<1>2. w \in Worker \cup {None} /\ call[r].case \in Case
  BY CallFields DEF Inv, TypeOK, Session
<1>3. m \in Memory
  BY <1>1, <1>2 DEF Memory
<1>4. Go(r, "audit", m)
  BY DEF Ruled
<1>5. "audit" \in PcLabel
  BY DEF PcLabel, Label
<1> HIDE DEF m
<1>6. pc'[r] = "audit" /\ call' = call
  BY <1>3, <1>4, <1>5, GoFacts DEF Inv
<1>7. Shape(r)'
  BY <1>6, CallKinds DEF Shape
<1>. QED  BY <1>3, <1>4, <1>5, <1>7, ReadInv

LEMMA RunCheckInv ==
  ASSUME Inv, NEW r \in Req, RunCheck(r)
  PROVE  Inv'
<1>1. "checked" \in Result
  BY DEF Result
<1>2. PICK o \in Outcomes \ {None} : Ruled(r, "checked", o)
  BY DEF RunCheck
<1>3. /\ o.tier \in Tier /\ o.findings \in SUBSET Finding
      /\ o = [tier |-> o.tier, findings |-> o.findings]
  BY CallsAssumption DEF CheckOutcome, Finding
<1>4. call[r] \in CheckCall /\ UNCHANGED db
  BY ScopedCall DEF RunCheck, At
<1> HIDE DEF Ruled
<1>. QED  BY <1>1, <1>2, <1>3, <1>4, RuledInv

LEMMA CheckRaisesInv ==
  ASSUME Inv, NEW r \in Req, CheckRaises(r)
  PROVE  Inv'
<1> DEFINE m == [mem[r] EXCEPT !.result = "raised"]
<1>1. mem[r] \in Memory /\ "raised" \in Result
  BY DEF Inv, TypeOK, Result
<1>2. m \in Memory
  BY <1>1 DEF Memory
<1>3. Go(r, "done", m) /\ UNCHANGED db
  BY DEF CheckRaises
<1>4. "done" \in PcLabel
  BY DEF PcLabel
<1> HIDE DEF m
<1>5. pc'[r] = "done"
  BY <1>2, <1>3, <1>4, GoFacts DEF Inv
<1>6. Shape(r)'
  BY <1>5 DEF Shape
<1>. QED  BY <1>2, <1>3, <1>4, <1>6, ReadInv

LEMMA RunAllegationInv ==
  ASSUME Inv, NEW r \in Req, RunAllegation(r)
  PROVE  Inv'
<1>1. {"allegation", "out_of_scope"} \subseteq Result
  BY DEF Result
<1>2. call[r] \in CheckCall /\ UNCHANGED db
  BY ScopedCall DEF RunAllegation, At
<1>3. CASE \E f \in {{"statement"}, {"record", "statement"}} :
             Ruled(r, "allegation", [tier |-> 2, findings |-> f])
  BY <1>1, <1>2, <1>3, RuledInv DEF Finding, Tier
<1>4. CASE \E t \in 1 .. 2 :
             Ruled(r, "out_of_scope", [tier |-> t, findings |-> {}])
  BY <1>1, <1>2, <1>4, RuledInv DEF Tier
<1>. QED  BY <1>3, <1>4 DEF RunAllegation

LEMMA StoreAllegationInv ==
  ASSUME Inv, NEW r \in Req, StoreAllegation(r)
  PROVE  Inv'
<1>1. call[r] \in CheckCall
  BY DEF Inv, ShapeOK, Shape, StoreAllegation
<1>2. TablesOK' /\ ReviewsKept
  BY <1>1, CallFields DEF Inv, TypeOK, TablesOK, ReviewsKept,
     StoreAllegation, AddAllegation, Allegation
<1>3. "done" \in PcLabel /\ mem[r] \in Memory
  BY DEF PcLabel, Inv, TypeOK
<1>4. pc'[r] = "done"
  BY <1>3, GoFacts DEF Inv, StoreAllegation
<1>5. Shape(r)'
  BY <1>4 DEF Shape
<1>. QED  BY <1>2, <1>3, <1>5, StepInv DEF StoreAllegation

-----------------------------------------------------------------------------
(* draft_complaint *)

LEMMA DraftScopedInv ==
  ASSUME Inv, NEW r \in Req, DraftScoped(r)
  PROVE  Inv'
<1>1. call[r] \in DraftCall
  BY ScopedCall DEF DraftScoped, At
<1>2. CASE Go(r, "draft_allegations", mem[r])
  <2>1. "draft_allegations" \in PcLabel /\ mem[r] \in Memory
    BY DEF PcLabel, Label, Inv, TypeOK
  <2>2. pc'[r] = "draft_allegations" /\ call' = call
    BY <1>2, <2>1, GoFacts DEF Inv
  <2>3. Shape(r)'
    BY <1>1, <2>2 DEF Shape
  <2>. QED  BY <1>2, <2>1, <2>3, ReadInv DEF DraftScoped
<1>3. CASE Answer(r, "not_confirmed", call[r].case)
  <2>1. "not_confirmed" \in Result
    BY DEF Result
  <2>. QED  BY <1>3, <2>1, ScopedCall, RefusalInv DEF DraftScoped, At
<1>. QED  BY <1>2, <1>3 DEF DraftScoped

LEMMA DraftAllegationsInv ==
  ASSUME Inv, NEW r \in Req, DraftAllegations(r)
  PROVE  Inv'
<1> DEFINE m == [mem[r] EXCEPT !.package = AllegationsOf(call[r].case)]
<1>1. call[r] \in DraftCall
  BY DEF Inv, ShapeOK, Shape, DraftAllegations
<1>2. mem[r] \in Memory /\ AllegationsOf(call[r].case) \subseteq Req
  BY DEF Inv, TypeOK, AllegationsOf, Allegation
<1>3. m \in Memory
  BY <1>2 DEF Memory
<1>4. Go(r, "draft_evidence", m) /\ UNCHANGED db
  BY DEF DraftAllegations
<1>5. "draft_evidence" \in PcLabel
  BY DEF PcLabel, Label
<1> HIDE DEF m
<1>6. pc'[r] = "draft_evidence" /\ call' = call
  BY <1>3, <1>4, <1>5, GoFacts DEF Inv
<1>7. Shape(r)'
  BY <1>1, <1>6 DEF Shape
<1>. QED  BY <1>3, <1>4, <1>5, <1>7, ReadInv

LEMMA DraftEvidenceInv ==
  ASSUME Inv, NEW r \in Req, DraftEvidence(r)
  PROVE  Inv'
<1> DEFINE e == VerifiedFindings(call[r].case, call[r].conv)
           m == [mem[r] EXCEPT !.evidence = e]
<1>1. call[r] \in DraftCall
  BY DEF Inv, ShapeOK, Shape, DraftEvidence
<1>2. mem[r] \in Memory /\ e \subseteq Evidence
  BY DEF Inv, TypeOK, VerifiedFindings
<1>3. Go(r, "create_draft", m) /\ UNCHANGED db
  BY DEF DraftEvidence
<1> HIDE DEF e
<1>4. m \in Memory
  BY <1>2 DEF Memory
<1>5. "create_draft" \in PcLabel
  BY DEF PcLabel, Label
<1> HIDE DEF m
<1>6. pc'[r] = "create_draft" /\ call' = call
  BY <1>3, <1>4, <1>5, GoFacts DEF Inv
<1>7. Shape(r)'
  BY <1>1, <1>6 DEF Shape
<1>. QED  BY <1>3, <1>4, <1>5, <1>7, ReadInv

LEMMA StoreDraftInv ==
  ASSUME Inv, NEW r \in Req, StoreDraft(r)
  PROVE  Inv'
<1>1. call[r] \in DraftCall /\ call[r].case \in Case
  BY CallFields DEF Inv, ShapeOK, Shape, StoreDraft
<1>2. mem[r].package \subseteq Req /\ mem[r].evidence \subseteq Evidence
  BY DEF Inv, TypeOK, Memory
<1>3. TablesOK' /\ ReviewsKept
  BY <1>1, <1>2 DEF Inv, TypeOK, TablesOK, ReviewsKept, StoreDraft,
     CreateDraft, Draft
<1>4. "drafted" \in Result
  BY DEF Result
<1>. QED  BY <1>1, <1>3, <1>4, CallKinds, AnswerInv DEF StoreDraft

-----------------------------------------------------------------------------
(* send_to_review *)

LEMMA QueueScopedInv ==
  ASSUME Inv, NEW r \in Req, QueueScoped(r)
  PROVE  Inv'
<1>1. call[r] \in QueueCall
  BY ScopedCall DEF QueueScoped, At
<1>2. CASE call[r].tier # NoTier
  <2>1. Go(r, "active_review", mem[r]) /\ UNCHANGED db
    BY <1>2 DEF QueueScoped
  <2>2. "active_review" \in PcLabel /\ mem[r] \in Memory
    BY DEF PcLabel, Label, Inv, TypeOK
  <2>3. pc'[r] = "active_review" /\ call' = call
    BY <2>1, <2>2, GoFacts DEF Inv
  <2>4. call[r].tier \in Tier
    BY <1>1, <1>2, CallFields
  <2>5. Shape(r)'
    BY <1>1, <2>3, <2>4 DEF Shape
  <2>. QED  BY <2>1, <2>2, <2>5, ReadInv
<1>3. CASE call[r].tier = NoTier
  <2>1. "invalid_tier" \in Result
    BY DEF Result
  <2>. QED  BY <1>3, <2>1, ScopedCall, RefusalInv DEF QueueScoped, At
<1>. QED  BY <1>2, <1>3

LEMMA QueueActiveInv ==
  ASSUME Inv, NEW r \in Req, QueueActive(r)
  PROVE  Inv'
<1>1. call[r] \in QueueCall /\ call[r].tier \in Tier /\ call[r].case \in Case
  BY CallFields DEF Inv, ShapeOK, Shape, QueueActive
<1>2. CASE Go(r, "floor", mem[r])
  <2>1. "floor" \in PcLabel /\ mem[r] \in Memory
    BY DEF PcLabel, Label, Inv, TypeOK
  <2>2. pc'[r] = "floor" /\ call' = call
    BY <1>2, <2>1, GoFacts DEF Inv
  <2>3. Shape(r)'
    BY <1>1, <2>2 DEF Shape
  <2>. QED  BY <1>2, <2>1, <2>3, ReadInv DEF QueueActive
<1>3. CASE Answer(r, "already_queued", call[r].case)
  <2>1. "already_queued" \in Result
    BY DEF Result
  <2>. QED  BY <1>1, <1>3, <2>1, CallKinds, RefusalInv DEF QueueActive
<1>. QED  BY <1>2, <1>3 DEF QueueActive

(***************************************************************************)
(* FinalTier is the greatest of a set that holds a real tier, so it is one *)
(* of the three tiers, no lower than the one asked for and no lower than   *)
(* any seen.                                                               *)
(***************************************************************************)
LEMMA FinalTierGreatest ==
  ASSUME NEW t \in Tier, NEW seen \in SUBSET (Tier \cup {NoTier})
  PROVE  /\ FinalTier(t, seen) \in Tier
         /\ \A u \in seen \cup {t} : u <= FinalTier(t, seen)
<1> DEFINE S == seen \cup {t}
<1>1. S \subseteq {-1, 0, 1, 2} /\ t \in 0 .. 2
  BY DEF Tier, NoTier
<1>2. \E m \in S : \A u \in S : u <= m
  <2>1. CASE 2 \in S
    BY <1>1, <2>1
  <2>2. CASE 2 \notin S /\ 1 \in S
    BY <1>1, <2>2
  <2>3. CASE 2 \notin S /\ 1 \notin S
    <3>1. t = 0 /\ t \in S
      BY <1>1, <2>3
    <3>2. \A u \in S : u <= 0
      BY <1>1, <2>3
    <3>. QED  BY <3>1, <3>2
  <2>. QED  BY <2>1, <2>2, <2>3
<1>3. /\ FinalTier(t, seen) \in S
      /\ \A u \in S : u <= FinalTier(t, seen)
  BY <1>2 DEF FinalTier
<1> HIDE DEF S
<1>4. FinalTier(t, seen) \in {-1, 0, 1, 2} /\ t <= FinalTier(t, seen)
  BY <1>1, <1>3 DEF S
<1>5. FinalTier(t, seen) \in Tier
  BY <1>1, <1>4 DEF Tier
<1>. QED  BY <1>3, <1>5 DEF S

LEMMA QueueFloorInv ==
  ASSUME Inv, NEW r \in Req, QueueFloor(r)
  PROVE  Inv'
<1> DEFINE seen == TiersSeen(call[r].case, call[r].conv)
           t == FinalTier(call[r].tier, seen)
           m == [mem[r] EXCEPT !.tier = t]
<1>1. call[r] \in QueueCall /\ call[r].tier \in Tier
  BY DEF Inv, ShapeOK, Shape, QueueFloor
<1>2. seen \subseteq Tier \cup {NoTier}
  BY DEF Inv, TypeOK, TiersSeen, AuditFor, AuditRow
<1> HIDE DEF seen
<1>3. t \in Tier
  BY <1>1, <1>2, FinalTierGreatest
<1>4. mem[r] \in Memory
  BY DEF Inv, TypeOK
<1>5. Go(r, "package", m) /\ UNCHANGED db
  BY DEF QueueFloor, seen
<1> HIDE DEF t
<1>6. m \in Memory /\ m.tier = t
  BY <1>3, <1>4 DEF Memory
<1>7. "package" \in PcLabel
  BY DEF PcLabel, Label
<1> HIDE DEF m
<1>8. pc'[r] = "package" /\ mem'[r] = m /\ call' = call
  BY <1>5, <1>6, <1>7, GoFacts DEF Inv
<1>9. Shape(r)'
  BY <1>1, <1>3, <1>6, <1>8 DEF Shape
<1>. QED  BY <1>5, <1>6, <1>7, <1>9, ReadInv

LEMMA QueuePackageInv ==
  ASSUME Inv, NEW r \in Req, QueuePackage(r)
  PROVE  Inv'
<1> DEFINE m == [mem[r] EXCEPT !.package = AllegationsOf(call[r].case)]
<1>1. /\ call[r] \in QueueCall /\ call[r].tier \in Tier
      /\ mem[r].tier \in Tier
  BY DEF Inv, ShapeOK, Shape, QueuePackage
<1>2. mem[r] \in Memory /\ AllegationsOf(call[r].case) \subseteq Req
  BY DEF Inv, TypeOK, AllegationsOf, Allegation
<1>3. m \in Memory /\ m.tier = mem[r].tier
  BY <1>2 DEF Memory
<1>4. Go(r, "create_review", m) /\ UNCHANGED db
  BY DEF QueuePackage
<1>5. "create_review" \in PcLabel
  BY DEF PcLabel, Label
<1> HIDE DEF m
<1>6. pc'[r] = "create_review" /\ mem'[r] = m /\ call' = call
  BY <1>3, <1>4, <1>5, GoFacts DEF Inv
<1>7. Shape(r)'
  BY <1>1, <1>3, <1>6 DEF Shape
<1>. QED  BY <1>3, <1>4, <1>5, <1>7, ReadInv

LEMMA StoreReviewInv ==
  ASSUME Inv, NEW r \in Req, StoreReview(r)
  PROVE  Inv'
<1>1. /\ call[r] \in QueueCall /\ mem[r].tier \in Tier
      /\ call[r].case \in Case /\ call[r].conv \in Conv
  BY CallFields DEF Inv, ShapeOK, Shape, StoreReview
<1>2. mem[r].package \subseteq Req
  BY DEF Inv, TypeOK, Memory
<1> DEFINE v == [case |-> call[r].case, conv |-> call[r].conv,
                 tier |-> mem[r].tier, package |-> mem[r].package,
                 decision |-> None, decidedBy |-> None]
<1>3. v \in Review
  BY <1>1, <1>2 DEF Review
<1>4. reviews' = [reviews EXCEPT ![r] = v]
  BY DEF StoreReview, CreateReview
<1> HIDE DEF v
<1>5. TablesOK' /\ ReviewsKept
  BY <1>3, <1>4 DEF Inv, TypeOK, TablesOK, ReviewsKept, StoreReview
<1>6. "queued" \in Result
  BY DEF Result
<1>. QED  BY <1>1, <1>5, <1>6, CallKinds, AnswerInv DEF StoreReview

-----------------------------------------------------------------------------
(* The review desk *)

LEMMA ReviewMissingInv ==
  ASSUME Inv, NEW r \in Req, ReviewMissing(r)
  PROVE  Inv'
<1> DEFINE m == [mem[r] EXCEPT !.result = "not_found"]
<1>1. mem[r] \in Memory /\ "not_found" \in Result
  BY DEF Inv, TypeOK, Result
<1>2. m \in Memory
  BY <1>1 DEF Memory
<1>3. Go(r, "done", m) /\ UNCHANGED db
  BY DEF ReviewMissing
<1>4. "done" \in PcLabel
  BY DEF PcLabel
<1> HIDE DEF m
<1>5. pc'[r] = "done"
  BY <1>2, <1>3, <1>4, GoFacts DEF Inv
<1>6. Shape(r)'
  BY <1>5 DEF Shape
<1>. QED  BY <1>2, <1>3, <1>4, <1>6, ReadInv

\* A handler that refuses a decision: the review it is about exists.
LEMMA DecideRefusalInv ==
  ASSUME Inv, NEW r \in Req, NEW s \in Result \ {"allegation"},
         call[r] \in DecideCall, reviews[call[r].review] \in Review,
         Answer(r, s, reviews[call[r].review].case), UNCHANGED db
  PROVE  Inv'
<1>1. reviews[call[r].review].case \in Case
  BY DEF Review
<1>2. reviews'[call[r].review] \in Review
  BY DEF db
<1>. QED  BY <1>1, <1>2, ReadFrame, CallKinds, AnswerInv

LEMMA KnownReview ==
  ASSUME Inv, NEW r \in Req, pc[r] = "review", call[r].review \in ReviewRefs
  PROVE  reviews[call[r].review] \in Review
BY CallFields DEF Inv, TypeOK, ShapeOK, Shape, ReviewRefs

LEMMA DecideReadInv ==
  ASSUME Inv, NEW r \in Req, DecideRead(r)
  PROVE  Inv'
<1>1. call[r] \in DecideCall /\ UNCHANGED db
  BY CallFields DEF Inv, ShapeOK, Shape, DecideRead, At
<1>2. reviews[call[r].review] \in Review
  BY KnownReview DEF DecideRead, At
<1>3. {"already_decided", "invalid_decision"} \subseteq Result \ {"allegation"}
  BY DEF Result
<1>4. ASSUME NEW s \in {"already_decided", "invalid_decision"},
             Answer(r, s, reviews[call[r].review].case)
      PROVE  Inv'
  BY <1>1, <1>2, <1>3, <1>4, DecideRefusalInv
<1>5. CASE Go(r, "has_transcript", mem[r]) /\ call[r].decision # None
  <2>1. "has_transcript" \in PcLabel /\ mem[r] \in Memory
    BY DEF PcLabel, Label, Inv, TypeOK
  <2>2. /\ pc'[r] = "has_transcript" /\ call' = call /\ reviews' = reviews
    BY <1>1, <1>5, <2>1, GoFacts DEF Inv, db
  <2>3. call[r].decision \in Decision
    BY <1>1, <1>5, CallFields
  <2>4. Shape(r)'
    BY <1>1, <1>2, <2>2, <2>3 DEF Shape
  <2>. QED  BY <1>1, <1>5, <2>1, <2>4, ReadInv
<1>. QED  BY <1>4, <1>5 DEF DecideRead

LEMMA DecideUnlockInv ==
  ASSUME Inv, NEW r \in Req, DecideUnlock(r)
  PROVE  Inv'
<1>1. /\ call[r] \in DecideCall /\ call[r].decision \in Decision
      /\ reviews[call[r].review] \in Review
  BY DEF Inv, ShapeOK, Shape, DecideUnlock
<1>2. CASE Go(r, "decide", mem[r])
  <2>1. "decide" \in PcLabel /\ mem[r] \in Memory
    BY DEF PcLabel, Label, Inv, TypeOK
  <2>2. pc'[r] = "decide" /\ call' = call /\ reviews' = reviews
    BY <1>2, <2>1, GoFacts DEF Inv, DecideUnlock, db
  <2>3. Shape(r)'
    BY <1>1, <2>2 DEF Shape
  <2>. QED  BY <1>2, <2>1, <2>3, ReadInv DEF DecideUnlock
<1>3. CASE Answer(r, "transcript_pending", reviews[call[r].review].case)
  <2>1. "transcript_pending" \in Result \ {"allegation"}
    BY DEF Result
  <2>. QED  BY <1>1, <1>3, <2>1, DecideRefusalInv DEF DecideUnlock
<1>. QED  BY <1>2, <1>3 DEF DecideUnlock

LEMMA StoreDecisionInv ==
  ASSUME Inv, NEW r \in Req, StoreDecision(r)
  PROVE  Inv'
<1> DEFINE v == call[r].review
           it == [reviews[v] EXCEPT !.decision = call[r].decision,
                                    !.decidedBy = r]
<1>1. /\ call[r] \in DecideCall /\ call[r].decision \in Decision
      /\ reviews[v] \in Review /\ v \in Req
  BY CallFields DEF Inv, ShapeOK, Shape, StoreDecision
<1>2. it \in Review /\ reviews[v].case \in Case
  BY <1>1 DEF Review
<1>3. reviews' = [reviews EXCEPT ![v] = it]
  BY <1>1 DEF StoreDecision, Decide, Inv, TypeOK
<1>4. "decided" \in Result
  BY DEF Result
<1>5. Answer(r, "decided", reviews[v].case)
  BY DEF StoreDecision
<1> HIDE DEF it
<1>6. TablesOK' /\ ReviewsKept
  BY <1>1, <1>2, <1>3 DEF Inv, TypeOK, TablesOK, ReviewsKept, StoreDecision
<1>7. reviews'[v] \in Review
  BY <1>1, <1>6 DEF ReviewsKept
<1>. QED  BY <1>1, <1>2, <1>4, <1>5, <1>6, <1>7, CallKinds, AnswerInv

LEMMA DetailReviewInv ==
  ASSUME Inv, NEW r \in Req, DetailReview(r)
  PROVE  Inv'
<1> DEFINE s == IF reviews[call[r].review].decision = None
                THEN "undecided" ELSE "decided"
           m == [mem[r] EXCEPT !.result = s]
<1>1. call[r] \in DetailCall
  BY CallFields DEF Inv, ShapeOK, Shape, DetailReview, At
<1>2. reviews[call[r].review] \in Review
  BY KnownReview DEF DetailReview, At
<1>3. mem[r] \in Memory /\ s \in Result
  BY DEF Inv, TypeOK, Result
<1>4. Go(r, "transcript", m) /\ UNCHANGED db
  BY DEF DetailReview
<1> HIDE DEF s
<1>5. m \in Memory
  BY <1>3 DEF Memory
<1>6. "transcript" \in PcLabel
  BY DEF PcLabel, Label
<1> HIDE DEF m
<1>7. pc'[r] = "transcript" /\ call' = call /\ reviews' = reviews
  BY <1>4, <1>5, <1>6, GoFacts DEF Inv, db
<1>8. Shape(r)'
  BY <1>1, <1>2, <1>7 DEF Shape
<1>. QED  BY <1>4, <1>5, <1>6, <1>8, ReadInv

LEMMA DetailTranscriptInv ==
  ASSUME Inv, NEW r \in Req, DetailTranscript(r)
  PROVE  Inv'
<1> DEFINE b == transcripts[reviews[call[r].review].conv]
           m == [mem[r] EXCEPT !.body = b]
<1>1. call[r] \in DetailCall /\ reviews[call[r].review] \in Review
  BY DEF Inv, ShapeOK, Shape, DetailTranscript
<1>2. mem[r] \in Memory /\ b \in Req \cup {None}
  BY <1>1 DEF Inv, TypeOK, Review
<1>3. Go(r, "allegations", m) /\ UNCHANGED db
  BY DEF DetailTranscript
<1> HIDE DEF b
<1>4. m \in Memory
  BY <1>2 DEF Memory
<1>5. "allegations" \in PcLabel
  BY DEF PcLabel, Label
<1> HIDE DEF m
<1>6. pc'[r] = "allegations" /\ call' = call /\ reviews' = reviews
  BY <1>3, <1>4, <1>5, GoFacts DEF Inv, db
<1>7. Shape(r)'
  BY <1>1, <1>6 DEF Shape
<1>. QED  BY <1>3, <1>4, <1>5, <1>7, ReadInv

LEMMA DetailAllegationsInv ==
  ASSUME Inv, NEW r \in Req, DetailAllegations(r)
  PROVE  Inv'
<1> DEFINE p == AllegationsOf(reviews[call[r].review].case)
           m == [mem[r] EXCEPT !.package = p]
<1>1. call[r] \in DetailCall /\ reviews[call[r].review] \in Review
  BY DEF Inv, ShapeOK, Shape, DetailAllegations
<1>2. mem[r] \in Memory /\ p \subseteq Req
  BY DEF Inv, TypeOK, AllegationsOf, Allegation
<1>3. Go(r, "latest_draft", m) /\ UNCHANGED db
  BY DEF DetailAllegations
<1> HIDE DEF p
<1>4. m \in Memory
  BY <1>2 DEF Memory
<1>5. "latest_draft" \in PcLabel
  BY DEF PcLabel, Label
<1> HIDE DEF m
<1>6. pc'[r] = "latest_draft" /\ call' = call /\ reviews' = reviews
  BY <1>3, <1>4, <1>5, GoFacts DEF Inv, db
<1>7. Shape(r)'
  BY <1>1, <1>6 DEF Shape
<1>. QED  BY <1>3, <1>4, <1>5, <1>7, ReadInv

LEMMA DetailDraftInv ==
  ASSUME Inv, NEW r \in Req, DetailDraft(r)
  PROVE  Inv'
<1>1. call[r] \in DetailCall /\ reviews[call[r].review] \in Review
  BY DEF Inv, ShapeOK, Shape, DetailDraft
<1>2. PICK m \in Memory : Go(r, "audit_for", m) /\ UNCHANGED db
  <2>1. mem[r] \in Memory
    BY DEF Inv, TypeOK
  <2>2. ASSUME NEW d \in LatestDrafts(reviews[call[r].review].case)
        PROVE  [mem[r] EXCEPT !.draft = d.id] \in Memory
    BY <2>1 DEF Memory, LatestDrafts, Inv, TypeOK, Draft
  <2>. QED  BY <2>1, <2>2 DEF DetailDraft
<1>3. "audit_for" \in PcLabel
  BY DEF PcLabel, Label
<1>4. pc'[r] = "audit_for" /\ call' = call /\ reviews' = reviews
  BY <1>2, <1>3, GoFacts DEF Inv, db
<1>5. Shape(r)'
  BY <1>1, <1>4 DEF Shape
<1>. QED  BY <1>2, <1>3, <1>5, ReadInv

LEMMA DetailAuditInv ==
  ASSUME Inv, NEW r \in Req, DetailAudit(r)
  PROVE  Inv'
<1>1. mem[r] \in Memory /\ "done" \in PcLabel
  BY DEF Inv, TypeOK, PcLabel
<1>2. Go(r, "done", mem[r]) /\ UNCHANGED db
  BY DEF DetailAudit
<1>3. pc'[r] = "done"
  BY <1>1, <1>2, GoFacts DEF Inv
<1>4. Shape(r)'
  BY <1>3 DEF Shape
<1>. QED  BY <1>1, <1>2, <1>4, ReadInv

LEMMA StoreTranscriptInv ==
  ASSUME Inv, NEW r \in Req, StoreTranscript(r)
  PROVE  Inv'
<1>1. call[r] \in WebhookCall /\ call[r].conv \in Conv
  BY CallFields DEF Inv, ShapeOK, Shape, StoreTranscript
<1>2. TablesOK' /\ ReviewsKept
  BY <1>1 DEF Inv, TypeOK, TablesOK, ReviewsKept, StoreTranscript,
     SaveTranscript
<1>3. {"duplicate", "stored"} \subseteq Result
  BY DEF Result
<1>. QED  BY <1>1, <1>2, <1>3, CallKinds, AnswerInv DEF StoreTranscript

-----------------------------------------------------------------------------
(* What is common to every request *)

LEMMA AuditInv ==
  ASSUME Inv, NEW r \in Req, Audit(r)
  PROVE  Inv'
<1> DEFINE l == IF mem[r].result = "allegation"
                THEN "add_allegation" ELSE "done"
           row == [by |-> r, action |-> call[r].tool,
                   result |-> mem[r].result, conv |-> ConvOf(r),
                   case |-> mem[r].case, tier |-> mem[r].tier,
                   findings |-> mem[r].findings]
<1>1. /\ call[r] \in Call \ DetailCall
      /\ call[r] \in DecideCall => reviews[call[r].review] \in Review
      /\ mem[r].result = "allegation" => call[r] \in CheckCall
  BY DEF Inv, ShapeOK, Shape, Audit
<1>2. mem[r] \in Memory /\ l \in PcLabel
  BY DEF Inv, TypeOK, PcLabel, Label
<1>3. ConvOf(r) \in Conv /\ call[r].tool \in Tool
  BY <1>1, CallFields DEF ConvOf, Call, Review, Tool
<1>4. row \in AuditRow
  BY <1>2, <1>3 DEF AuditRow, Memory
<1>5. Go(r, l, mem[r]) /\ audit' = audit \cup {row}
  BY DEF Audit, InsertAudit
<1>6. pc'[r] = l /\ mem'[r] = mem[r] /\ call' = call
  BY <1>2, <1>5, GoFacts DEF Inv
<1>7. Shape(r)'
  BY <1>1, <1>6 DEF Shape
<1> HIDE DEF l, row
<1>8. TablesOK' /\ ReviewsKept
  BY <1>4, <1>5 DEF Inv, TypeOK, TablesOK, ReviewsKept, Audit
<1>. QED  BY <1>2, <1>5, <1>7, <1>8, StepInv

LEMMA ArriveInv ==
  ASSUME Inv, NEW r \in Req, Arrive(r)
  PROVE  Inv'
<1>1. PICK k \in Calls : /\ call' = [call EXCEPT ![r] = k]
                         /\ pc' = [pc EXCEPT ![r] = FirstLabel(k.tool)]
  BY DEF Arrive
<1>2. k \in Call
  BY CallsAssumption
<1>3. UNCHANGED mem /\ UNCHANGED db /\ UNCHANGED crashes
  BY DEF Arrive
<1>4. before' \in [Req -> SUBSET Req]
  BY DEF Arrive, Inv, TypeOK
<1>5. FirstLabel(k.tool) \in {"session", "review", "save_transcript", "scoped"}
  BY DEF FirstLabel
<1>6. FirstLabel(k.tool) \in Label
  BY <1>5 DEF Label
<1>7. TypeOK'
  BY <1>1, <1>2, <1>3, <1>4, <1>6 DEF Inv, TypeOK, db
<1>8. ASSUME NEW q \in Req
      PROVE  Shape(q)'
  <2>1. CASE q # r
    BY <1>1, <1>3, <2>1 DEF Inv, TypeOK, ShapeOK, Shape, db
  <2>2. CASE q = r
    <3>1. pc'[r] = FirstLabel(k.tool) /\ call'[r] = k
      BY <1>1 DEF Inv, TypeOK
    <3>2. /\ FirstLabel(k.tool) = "session" =>
               k \in VerifyCall \cup TransferCall
          /\ FirstLabel(k.tool) = "review" => k \in DecideCall \cup DetailCall
          /\ FirstLabel(k.tool) = "save_transcript" => k \in WebhookCall
          /\ FirstLabel(k.tool) = "scoped" =>
               k \in CheckCall \cup DraftCall \cup QueueCall
      BY <1>2, CallFields DEF FirstLabel, Call
    <3>. QED  BY <1>5, <2>2, <3>1, <3>2 DEF Shape
  <2>. QED  BY <2>1, <2>2
<1>. QED  BY <1>7, <1>8 DEF Inv, ShapeOK

LEMMA CrashInv ==
  ASSUME Inv, Crash
  PROVE  Inv'
<1>1. NoMemory \in Memory
  BY DEF NoMemory, Memory, Result
<1>2. TypeOK'
  BY <1>1 DEF Inv, TypeOK, Crash, db, InFlight
<1>3. ASSUME NEW q \in Req
      PROVE  Shape(q)'
  <2>1. /\ pc'[q] = IF pc[q] \in Label THEN "lost" ELSE pc[q]
        /\ pc[q] \in Label \cup {"idle", "done", "lost"}
    BY DEF Crash, InFlight, Inv, TypeOK
  <2>2. pc'[q] \in {"idle", "done", "lost"}
    BY <2>1
  <2>. QED  BY <2>2 DEF Shape
<1>. QED  BY <1>2, <1>3 DEF Inv, ShapeOK

-----------------------------------------------------------------------------
(* Type correctness *)

LEMMA InitInv == Init => Inv
<1> SUFFICES ASSUME Init
             PROVE  Inv
  OBVIOUS
<1>1. NoMemory \in Memory
  BY DEF NoMemory, Memory, Result
<1>2. NoSession \in Session
  BY DEF NoSession, Session
<1>3. ASSUME NEW c \in Conv, Bound[c] # None
      PROVE  [NoSession EXCEPT !.worker = Bound[c],
                               !.case = CaseOf[Bound[c]],
                               !.verified = TRUE] \in Session
  <2>1. Bound[c] \in Worker /\ CaseOf[Bound[c]] \in Case
    BY <1>3, ConstantsAssumption
  <2>. QED  BY <1>2, <2>1 DEF NoSession, Session
<1>4. sessions \in [Conv -> Session]
  BY <1>2, <1>3 DEF Init, InitStore
<1>5. TypeOK
  BY <1>1, <1>4 DEF Init, InitStore, InitRequests, TypeOK
<1>6. ShapeOK
  BY DEF Init, InitRequests, ShapeOK, Shape
<1>. QED  BY <1>5, <1>6 DEF Inv

LEMMA NextInv == Inv /\ [Next]_vars => Inv'
<1> SUFFICES ASSUME Inv, [Next]_vars
             PROVE  Inv'
  OBVIOUS
<1>1. ASSUME NEW r \in Req, CallStep(r)
      PROVE  Inv'
  BY <1>1, VerifyReadInv, BindCallInv, FailAttemptInv, FailReadInv,
     LockCallInv, TransferReadInv, SetConsentInv, RefusePeriodInv,
     OutOfScopeInv, RecordsDownInv, RunCheckInv, CheckRaisesInv,
     RunAllegationInv, StoreAllegationInv, DraftScopedInv, DraftAllegationsInv,
     DraftEvidenceInv, StoreDraftInv, QueueScopedInv, QueueActiveInv,
     QueueFloorInv, QueuePackageInv, StoreReviewInv
  DEF CallStep
<1>2. ASSUME NEW r \in Req, DeskStep(r)
      PROVE  Inv'
  BY <1>2, ReviewMissingInv, DecideReadInv, DecideUnlockInv,
     StoreDecisionInv, DetailReviewInv, DetailTranscriptInv,
     DetailAllegationsInv, DetailDraftInv, DetailAuditInv,
     StoreTranscriptInv
  DEF DeskStep
<1>3. CASE UNCHANGED vars
  BY <1>3 DEF Inv, TypeOK, ShapeOK, Shape, vars, requestVars, db
<1>. QED  BY <1>1, <1>2, <1>3, AuditInv, ArriveInv, CrashInv
          DEF Next, Serve, Finished

LEMMA InvAlways == Spec => []Inv
BY InitInv, NextInv, PTL DEF Spec

\* Every reachable state has its variables in their types.
THEOREM TypeCorrect == Spec => []TypeOK
<1>1. Inv => TypeOK
  BY DEF Inv
<1>. QED  BY <1>1, InvAlways, PTL
=============================================================================

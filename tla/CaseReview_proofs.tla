-------------------------- MODULE CaseReview_proofs --------------------------
(***************************************************************************)
(* The case screen says and does what the server allows, for any number of *)
(* reviews, clicks, and requests in flight, answered in any order.         *)
(*                                                                         *)
(* What is shown is about what is in flight as much as about the screen:   *)
(* an answer was true when the server gave it, and stays true, because a   *)
(* transcript is never taken away and a decision never replaced.  That the *)
(* server is so, is the gate it keeps, the one ControlPlane implements.    *)
(***************************************************************************)
EXTENDS CaseReview, Integers, TLAPS

\* The types the argument needs; that fetches and submits are bags is not
\* one of them.
Typed ==
  /\ url \in Ref /\ selected \in Decision \cup {None}
  /\ data \in View \cup {None}
  /\ submission \in Submission
  /\ BagToSet(fetches) \subseteq Fetch
  /\ BagToSet(submits) \subseteq Submit
  /\ ready \in [Ref -> BOOLEAN]
  /\ ruling \in [Ref -> Decision \cup {None}]

\* What is in flight, or on the screen, still is what the server has.
ViewTrue(v) == v.ready => ready[v.ref]
SubmitTrue(s) == /\ ready[s.ref]
                 /\ s.verdict = "recorded" => ruling[s.ref] = s.decision

AnswersTrue == /\ \A f \in BagToSet(fetches) : f.view # None => ViewTrue(f.view)
               /\ \A s \in BagToSet(submits) : SubmitTrue(s)
               /\ data # None => ViewTrue(data)

\* RecordedIsReal, and the decision is one.
Recorded == submission.status = "succeeded" =>
              /\ submission.ref \in Ref /\ submission.decision \in Decision
              /\ ruling[submission.ref] = submission.decision

ScreenInv == Typed /\ AnswersTrue /\ Recorded

-----------------------------------------------------------------------------
(* Requests in flight. *)

LEMMA SentBag ==
  ASSUME NEW B, NEW e
  PROVE  BagToSet(Sent(B, e)) = BagToSet(B) \cup {e}
BY DEF Sent, BagToSet, SetToBag, (+)

LEMMA GoneBag ==
  ASSUME NEW B, NEW e
  PROVE  BagToSet(Gone(B, e)) \subseteq BagToSet(B)
<1> DEFINE L == [x \in DOMAIN B |-> IF x \in DOMAIN SetToBag({e})
                                     THEN B[x] - SetToBag({e})[x] ELSE B[x]]
<1>1. Gone(B, e) = [x \in {d \in DOMAIN L : L[d] > 0} |-> L[x]]
  BY DEF Gone, (-)
<1>2. DOMAIN L = DOMAIN B
  OBVIOUS
<1> HIDE DEF L
<1>. QED  BY <1>1, <1>2 DEF BagToSet

-----------------------------------------------------------------------------
(* The parts of a step. *)

\* The server only adds: transcripts and decisions stay.
ServerGrows == \A r \in Ref : /\ ready[r] => ready'[r]
                              /\ ruling[r] # None => ruling'[r] = ruling[r]

\* What was true of the server stays true.
LEMMA TruthStays ==
  ASSUME Typed, ServerGrows
  PROVE  /\ \A v \in View : ViewTrue(v) => ViewTrue(v)'
         /\ \A s \in Submit : SubmitTrue(s) => SubmitTrue(s)'
<1>1. ASSUME NEW v \in View, ViewTrue(v)
      PROVE  ViewTrue(v)'
  BY <1>1 DEF View, ViewTrue, ServerGrows
<1>2. ASSUME NEW s \in Submit, SubmitTrue(s)
      PROVE  SubmitTrue(s)'
  <2>1. s.ref \in Ref /\ s.decision \in Decision
    BY DEF Submit
  <2>. QED  BY <1>2, <2>1, ScreenAssumption DEF SubmitTrue, ServerGrows
<1>. QED  BY <1>1, <1>2

LEMMA FetchPendingKeeps ==
  ASSUME ScreenInv, NEW r \in Ref, FetchPending(r),
         UNCHANGED url, selected' \in Decision \cup {None}
  PROVE  ScreenInv'
<1> DEFINE f == [ref |-> r, view |-> None]
<1>1. f \in Fetch /\ f.view = None
  BY DEF Fetch
<1>2. BagToSet(fetches') = BagToSet(fetches) \cup {f}
  BY SentBag DEF FetchPending
<1>3. NoSubmission \in Submission /\ NoSubmission.status = "idle"
  BY DEF NoSubmission, Submission
<1>4. /\ submission' \in {submission, NoSubmission}
      /\ UNCHANGED <<data, submits, ready, ruling>>
  BY DEF FetchPending, server
<1> HIDE DEF f
<1>5. Typed'
  BY <1>1, <1>2, <1>3, <1>4 DEF ScreenInv, Typed
<1>6. AnswersTrue'
  BY <1>1, <1>2, <1>4 DEF ScreenInv, AnswersTrue, ViewTrue, SubmitTrue
<1>7. Recorded'
  BY <1>3, <1>4 DEF ScreenInv, Recorded
<1>. QED  BY <1>5, <1>6, <1>7 DEF ScreenInv

LEMMA PanelTyped ==
  ASSUME Typed, FormStays
  PROVE  selected' \in Decision \cup {None}
BY DEF FormStays, Typed

LEMMA SettleKeeps ==
  ASSUME ScreenInv, Settle
  PROVE  ScreenInv'
<1>1. ASSUME NEW f \in BagToSet(fetches), FetchFulfilled(f) \/ FetchRejected(f)
      PROVE  ScreenInv'
  <2>1. /\ UNCHANGED <<url, submission, submits, ready, ruling>>
        /\ fetches' = Gone(fetches, f)
        /\ selected' \in Decision \cup {None}
    BY <1>1, PanelTyped
       DEF FetchFulfilled, FetchRejected, server, PanelStays, ScreenInv
  <2>2. BagToSet(fetches') \subseteq BagToSet(fetches)
    BY <2>1, GoneBag
  <2>3. f \in Fetch
    BY DEF ScreenInv, Typed
  <2>4. data' = None \/ (data' = f.view /\ f.view # None)
    BY <1>1 DEF FetchFulfilled, FetchRejected
  <2>5. data' \in View \cup {None}
    BY <2>3, <2>4 DEF Fetch
  <2>6. Typed'
    BY <2>1, <2>2, <2>5 DEF ScreenInv, Typed
  <2>7. AnswersTrue'
    BY <2>1, <2>2, <2>4 DEF ScreenInv, AnswersTrue, ViewTrue, SubmitTrue
  <2>8. Recorded'
    BY <2>1 DEF ScreenInv, Recorded
  <2>. QED  BY <2>6, <2>7, <2>8 DEF ScreenInv
<1>2. ASSUME NEW s \in BagToSet(submits), SubmitFulfilled(s) \/ SubmitRejected(s)
      PROVE  ScreenInv'
  <2>1. /\ UNCHANGED <<url, data, fetches, ready, ruling>>
        /\ submits' = Gone(submits, s)
        /\ selected' \in Decision \cup {None}
    BY <1>2, PanelTyped DEF SubmitFulfilled, SubmitRejected, slice, server,
       PanelStays, ScreenInv
  <2>2. BagToSet(submits') \subseteq BagToSet(submits)
    BY <2>1, GoneBag
  <2>3. s \in Submit /\ SubmitTrue(s)
    BY DEF ScreenInv, Typed, AnswersTrue
  <2>4. submission' \in Submission /\ Recorded'
    <3>1. CASE SubmitFulfilled(s)
      <4>1. /\ s.verdict = "recorded"
            /\ submission' = [status |-> "succeeded", ref |-> s.ref,
                              decision |-> s.decision, error |-> None]
        BY <3>1 DEF SubmitFulfilled
      <4>2. s.ref \in Ref /\ s.decision \in Decision
        BY <2>3 DEF Submit
      <4>. QED  BY <2>1, <2>3, <4>1, <4>2
                DEF Submission, SubmitTrue, Recorded
    <3>2. CASE SubmitRejected(s)
      <4>1. PICK e \in SubmitErrors(s) :
              submission' = [submission EXCEPT !.status = "failed", !.error = e]
        BY <3>2 DEF SubmitRejected
      <4>2. e \in SubmitError
        BY DEF SubmitErrors, SubmitError
      <4>3. submission \in Submission
        BY DEF ScreenInv, Typed
      <4>. QED  BY <4>1, <4>2, <4>3 DEF Submission, Recorded
    <3>. QED  BY <1>2, <3>1, <3>2
  <2>5. Typed'
    BY <2>1, <2>2, <2>4 DEF ScreenInv, Typed
  <2>6. AnswersTrue'
    BY <2>1, <2>2 DEF ScreenInv, AnswersTrue, ViewTrue, SubmitTrue
  <2>. QED  BY <2>4, <2>5, <2>6 DEF ScreenInv
<1>. QED  BY <1>1, <1>2 DEF Settle

\* What the specialist does to the form and to the error, and the link.
LEMMA FormKeeps ==
  ASSUME ScreenInv,
         \/ \E r \in Ref : Navigate(r)
         \/ DismissError \/ Cancel
         \/ \E d \in Decision : Pick(d)
  PROVE  ScreenInv'
<1>1. /\ UNCHANGED <<data, fetches, submits, ready, ruling>>
      /\ url' \in Ref
      /\ submission' = submission \/ DismissSubmission
      /\ selected' \in Decision \cup {None}
  BY PanelTyped DEF Navigate, DismissError, Cancel, Pick, slice, screen,
     server, PanelStays, ScreenInv, Typed
<1>2. submission \in Submission
  BY DEF ScreenInv, Typed
<1>3. /\ submission' \in Submission
      /\ submission' = submission \/ submission'.status = "idle"
  BY <1>1, <1>2 DEF DismissSubmission, Submission
<1>. QED  BY <1>1, <1>3
          DEF ScreenInv, Typed, AnswersTrue, ViewTrue, SubmitTrue, Recorded

LEMMA ConfirmKeeps ==
  ASSUME ScreenInv, Confirm
  PROVE  ScreenInv'
<1> DEFINE s == [ref |-> url, decision |-> selected, verdict |-> "sent"]
<1>1. /\ UNCHANGED <<url, data, fetches, ready, ruling>>
      /\ submission' = [submission EXCEPT !.status = "submitting",
                                          !.ref = url, !.error = None]
      /\ BagToSet(submits') = BagToSet(submits) \cup {s}
      /\ selected' \in Decision \cup {None}
  BY SentBag, PanelTyped
     DEF Confirm, SubmitPending, slice, server, PanelStays, ScreenInv
<1>2. s \in Submit
  BY DEF Confirm, ScreenInv, Typed, Submit
\* The lock is open on the screen, so the transcript is there.
<1>3. SubmitTrue(s)
  BY DEF Confirm, Mounted, Disabled, ScreenInv, AnswersTrue, ViewTrue,
     SubmitTrue
<1>4. submission' \in Submission /\ submission'.status = "submitting"
  <2>1. submission \in Submission /\ url \in Ref
    BY DEF ScreenInv, Typed
  <2>. QED  BY <1>1, <2>1 DEF Submission
<1> HIDE DEF s
<1>. QED  BY <1>1, <1>2, <1>3, <1>4
          DEF ScreenInv, Typed, AnswersTrue, ViewTrue, SubmitTrue, Recorded

LEMMA AnswerKeeps ==
  ASSUME ScreenInv, NEW f \in BagToSet(fetches), Answer(f)
  PROVE  ScreenInv'
<1> DEFINE v == [ref |-> f.ref, ready |-> ready[f.ref],
                 decision |-> ruling[f.ref]]
           g == [f EXCEPT !.view = v]
<1>1. f \in Fetch
  BY DEF ScreenInv, Typed
<1>2. v \in View /\ ViewTrue(v)
  BY <1>1 DEF ScreenInv, Typed, Fetch, View, ViewTrue
<1>3. g \in Fetch /\ g.view = v
  <2> HIDE DEF v
  <2>. QED  BY <1>1, <1>2 DEF Fetch
<1>4. BagToSet(fetches') \subseteq BagToSet(fetches) \cup {g}
  BY SentBag, GoneBag DEF Answer
<1>5. UNCHANGED <<url, data, submission, selected, submits, ready, ruling>>
  BY DEF Answer, Client, screen, slice, server
<1> HIDE DEF v, g
<1>. QED  BY <1>2, <1>3, <1>4, <1>5
          DEF ScreenInv, Typed, AnswersTrue, ViewTrue, SubmitTrue, Recorded

\* The server's other steps.
LEMMA GrowsKeeps ==
  ASSUME ScreenInv, ServerGrows,
         ready' \in [Ref -> BOOLEAN],
         ruling' \in [Ref -> Decision \cup {None}],
         UNCHANGED <<url, data, submission, selected, fetches>>,
         \A s \in BagToSet(submits') :
           s \in BagToSet(submits) \/ (s \in Submit /\ SubmitTrue(s)')
  PROVE  ScreenInv'
<1>1. /\ \A v \in View : ViewTrue(v) => ViewTrue(v)'
      /\ \A s \in Submit : SubmitTrue(s) => SubmitTrue(s)'
  BY TruthStays DEF ScreenInv
<1>2. Typed'
  BY DEF ScreenInv, Typed
<1>3. AnswersTrue'
  <2>1. \A f \in BagToSet(fetches) : f \in Fetch
    BY DEF ScreenInv, Typed
  <2>2. \A f \in BagToSet(fetches) : f.view # None => f.view \in View
    BY <2>1 DEF Fetch
  <2>3. data # None => data \in View
    BY DEF ScreenInv, Typed
  <2>4. \A s \in BagToSet(submits) : s \in Submit
    BY DEF ScreenInv, Typed
  <2>. QED  BY <1>1, <2>2, <2>3, <2>4 DEF ScreenInv, AnswersTrue
<1>4. Recorded'
  BY ScreenAssumption DEF ScreenInv, Recorded, ServerGrows
<1>. QED  BY <1>2, <1>3, <1>4 DEF ScreenInv

LEMMA DecideKeeps ==
  ASSUME ScreenInv, NEW s \in BagToSet(submits), Decide(s)
  PROVE  ScreenInv'
<1>1. s \in Submit /\ ready[s.ref] /\ s.ref \in Ref /\ s.decision \in Decision
  BY DEF ScreenInv, Typed, AnswersTrue, SubmitTrue, Submit
<1>2. UNCHANGED <<url, data, submission, selected, fetches, ready>>
  BY DEF Decide, Client, screen, slice
<1>3. \/ ruling' = ruling
      \/ /\ ruling' = [ruling EXCEPT ![s.ref] = s.decision]
         /\ ruling[s.ref] = None
  BY DEF Decide
<1>4. ServerGrows /\ ruling' \in [Ref -> Decision \cup {None}]
      /\ ready' \in [Ref -> BOOLEAN]
  BY <1>1, <1>2, <1>3 DEF ServerGrows, ScreenInv, Typed
<1>5. PICK v \in {"recorded", "transcript_pending", "already_decided"} :
        /\ submits' = Sent(Gone(submits, s), [s EXCEPT !.verdict = v])
        /\ v = "recorded" => ruling' = [ruling EXCEPT ![s.ref] = s.decision]
  BY DEF Decide
<1>6. PICK t \in Submit : t = [s EXCEPT !.verdict = v]
  BY <1>1 DEF Submit
<1>7. t.ref = s.ref /\ t.decision = s.decision /\ t.verdict = v
  BY <1>1, <1>6 DEF Submit
<1>8. BagToSet(submits') \subseteq BagToSet(submits) \cup {t}
  BY <1>5, <1>6, SentBag, GoneBag
<1>9. SubmitTrue(t)'
  BY <1>1, <1>2, <1>5, <1>7 DEF SubmitTrue, ScreenInv, Typed
<1>10. \A x \in BagToSet(submits') :
         x \in BagToSet(submits) \/ (x \in Submit /\ SubmitTrue(x)')
  BY <1>8, <1>9
<1>. QED  BY <1>2, <1>4, <1>10, GrowsKeeps

LEMMA ServerKeeps ==
  ASSUME ScreenInv, NEW r \in Ref,
         \/ StoreTranscript(r)
         \/ \E d \in Decision : OtherDecides(r, d)
  PROVE  ScreenInv'
<1>1. UNCHANGED <<url, data, submission, selected, fetches, submits>>
  BY DEF StoreTranscript, OtherDecides, Client, screen, slice
<1>2. \/ ready' = [ready EXCEPT ![r] = TRUE] /\ ruling' = ruling
      \/ /\ ready' = ready /\ ruling[r] = None
         /\ \E d \in Decision : ruling' = [ruling EXCEPT ![r] = d]
  BY DEF StoreTranscript, OtherDecides
<1>3. ServerGrows /\ ruling' \in [Ref -> Decision \cup {None}]
      /\ ready' \in [Ref -> BOOLEAN]
  BY <1>2 DEF ServerGrows, ScreenInv, Typed
<1>. QED  BY <1>1, <1>3, GrowsKeeps

-----------------------------------------------------------------------------
LEMMA ScreenInvInit == Init => ScreenInv
<1> SUFFICES ASSUME Init PROVE ScreenInv
  OBVIOUS
<1>1. BagToSet(fetches) = {} /\ BagToSet(submits) = {}
  BY DEF Init, EmptyBag, SetToBag, BagToSet
<1>2. submission \in Submission /\ submission.status = "idle"
  BY DEF Init, NoSubmission, Submission
<1>. QED  BY <1>1, <1>2
          DEF Init, ScreenInv, Typed, AnswersTrue, Recorded

LEMMA ScreenInvStep == ScreenInv /\ [Next]_vars => ScreenInv'
<1> SUFFICES ASSUME ScreenInv, [Next]_vars PROVE ScreenInv'
  OBVIOUS
<1>0. url \in Ref
  BY DEF ScreenInv, Typed
<1>1. CASE Settle
  BY <1>1, SettleKeeps
<1>2. CASE ScreenEffect \/ TryAgain
  <2>1. FetchPending(url) /\ UNCHANGED url /\ FormStays
    BY <1>2 DEF ScreenEffect, TryAgain, PanelStays
  <2>. QED  BY <1>0, <2>1, PanelTyped, FetchPendingKeeps DEF ScreenInv
<1>3. CASE PanelEffect
  <2>1. UNCHANGED url /\ FormStays
    BY <1>3 DEF PanelEffect
  <2>2. selected' \in Decision \cup {None}
    BY <2>1, PanelTyped DEF ScreenInv
  <2>3. CASE FetchPending(url)
    BY <1>0, <2>1, <2>2, <2>3, FetchPendingKeeps
  <2>4. CASE UNCHANGED <<screen, fetches, submits, server>>
    BY <2>1, <2>2, <2>4 DEF screen, slice, server, ScreenInv, Typed,
       AnswersTrue, ViewTrue, SubmitTrue, Recorded
  <2>. QED  BY <1>3, <2>3, <2>4 DEF PanelEffect
<1>4. CASE \/ \E r \in Ref : Navigate(r)
           \/ DismissError \/ Cancel
           \/ \E d \in Decision : Pick(d)
  BY <1>4, FormKeeps
<1>5. CASE Confirm
  BY <1>5, ConfirmKeeps
<1>6. ASSUME NEW f \in BagToSet(fetches), Answer(f) PROVE ScreenInv'
  BY <1>6, AnswerKeeps
<1>7. ASSUME NEW s \in BagToSet(submits), Decide(s) PROVE ScreenInv'
  BY <1>7, DecideKeeps
<1>8. ASSUME NEW r \in Ref,
             StoreTranscript(r) \/ \E d \in Decision : OtherDecides(r, d)
      PROVE  ScreenInv'
  BY <1>8, ServerKeeps
<1>9. CASE UNCHANGED vars
  BY <1>9 DEF vars, screen, slice, server, ScreenInv, Typed,
     AnswersTrue, ViewTrue, SubmitTrue, Recorded
<1>. QED  BY <1>1, <1>2, <1>3, <1>4, <1>5, <1>6, <1>7, <1>8, <1>9 DEF Next

LEMMA ScreenInvAlways == Spec => []ScreenInv
BY ScreenInvInit, ScreenInvStep, PTL DEF Spec

\* The screen says a decision is recorded only for the review, and only with
\* the decision, that the server recorded: submitDecision.fulfilled reads the
\* reference of its own request, so a late answer cannot speak for another.
THEOREM RecordedByServer == Spec => []RecordedIsReal
<1>1. ScreenInv => RecordedIsReal
  BY ScreenAssumption DEF ScreenInv, Recorded, RecordedIsReal
<1>. QED  BY <1>1, ScreenInvAlways, PTL

\* No decision leaves the screen for a review whose transcript is not stored:
\* the panel is unlocked by an answer, and the server never takes back what it
\* answered.
THEOREM LockRespected == Spec => []NoLockedSubmit
<1>1. ScreenInv => NoLockedSubmit
  BY DEF ScreenInv, AnswersTrue, SubmitTrue, NoLockedSubmit
<1>. QED  BY <1>1, ScreenInvAlways, PTL

-----------------------------------------------------------------------------
(***************************************************************************)
(* The rest of TypeOK.  A page in error keeps no case: that is why a       *)
(* refresh, which keeps the status of a case it has, never leaves "failed" *)
(* standing beside an error it has cleared.                                *)
(***************************************************************************)
Status == {"idle", "loading", "succeeded", "failed"}
Notice == {None} \cup (BOOLEAN \X {"idle", "submitting", "succeeded", "failed"})

ScreenOK ==
  /\ currentRef \in Ref \cup {None} /\ status \in Status
  /\ error \in LoadError \cup {None}
  /\ status = "succeeded" => data # None
  /\ status = "failed" <=> error # None
  /\ status = "failed" => data = None
  /\ submission.status = "failed" <=> submission.error # None
  /\ noticed \in Notice
  /\ moves \in 0 .. MaxMoves

BagsOK == IsABag(fetches) /\ IsABag(submits)

LEMMA SentIsABag ==
  ASSUME NEW B, NEW e, IsABag(B)
  PROVE  IsABag(Sent(B, e))
<1>. DEFINE C == B (+) SetToBag({e})
<1>1. DOMAIN SetToBag({e}) = {e} /\ SetToBag({e})[e] = 1
  BY DEF SetToBag
<1>2. DOMAIN C = DOMAIN B \cup {e}
  BY <1>1 DEF (+)
<1>3. \A x \in DOMAIN C : C[x] = (IF x \in DOMAIN B THEN B[x] ELSE 0)
                                 + (IF x \in {e} THEN SetToBag({e})[x] ELSE 0)
  BY <1>1 DEF (+)
<1>4. \A x \in DOMAIN B : B[x] \in Nat /\ B[x] > 0
  BY DEF IsABag
<1>5. C = [x \in DOMAIN C |-> C[x]]
  BY DEF (+)
<1>. HIDE DEF C
<1>6. ASSUME NEW x \in DOMAIN C PROVE C[x] \in {n \in Nat : n > 0}
  <2>1. CASE x = e
    BY <1>1, <1>3, <1>4, <2>1
  <2>2. CASE x # e
    BY <1>2, <1>3, <1>4, <2>2
  <2>. QED  BY <2>1, <2>2
<1>. QED  BY <1>5, <1>6 DEF C, Sent, IsABag

LEMMA GoneIsABag ==
  ASSUME NEW B, NEW e, IsABag(B)
  PROVE  IsABag(Gone(B, e))
<1>. DEFINE L == [x \in DOMAIN B |-> IF x \in DOMAIN SetToBag({e})
                                     THEN B[x] - SetToBag({e})[x] ELSE B[x]]
            C == B (-) SetToBag({e})
<1>1. DOMAIN SetToBag({e}) = {e} /\ SetToBag({e})[e] = 1
  BY DEF SetToBag
<1>2. C = [x \in {d \in DOMAIN L : L[d] > 0} |-> L[x]]
  BY DEF (-)
<1>3. \A x \in DOMAIN C : x \in DOMAIN B /\ C[x] = L[x] /\ L[x] > 0
  BY <1>2
<1>4. \A x \in DOMAIN B : B[x] \in Nat
  BY DEF IsABag
<1>5. \A x \in DOMAIN B : L[x] \in Int
  BY <1>1, <1>4
<1>6. C = [x \in DOMAIN C |-> C[x]]
  BY <1>2
<1>. HIDE DEF C, L
<1>7. \A x \in DOMAIN C : C[x] \in {n \in Nat : n > 0}
  BY <1>3, <1>5
<1>. QED  BY <1>6, <1>7 DEF C, Gone, IsABag

\* Requests are sent, answered and settled one at a time.
Moved(B, C) == \/ C = B
               \/ \E e : C = Sent(B, e) \/ C = Gone(B, e)
               \/ \E e, f : C = Sent(Gone(B, e), f)

LEMMA MovedIsABag ==
  ASSUME NEW B, NEW C, IsABag(B), Moved(B, C)
  PROVE  IsABag(C)
BY SentIsABag, GoneIsABag DEF Moved

LEMMA BagsStep ==
  ASSUME BagsOK, [Next]_vars
  PROVE  BagsOK'
<1>1. Moved(fetches, fetches') /\ Moved(submits, submits')
  <2>1. CASE Settle
    BY <2>1 DEF Settle, FetchFulfilled, FetchRejected, SubmitFulfilled,
       SubmitRejected, Moved
  <2>2. CASE ScreenEffect \/ PanelEffect \/ TryAgain
    BY <2>2 DEF ScreenEffect, PanelEffect, TryAgain, FetchPending, Moved
  <2>3. CASE Confirm
    BY <2>3 DEF Confirm, SubmitPending, Moved
  <2>4. CASE \/ DismissError \/ Cancel \/ UNCHANGED vars
             \/ \E r \in Ref : Navigate(r) \/ StoreTranscript(r)
             \/ \E d \in Decision :
                  Pick(d) \/ (\E r \in Ref : OtherDecides(r, d))
    BY <2>4 DEF DismissError, Cancel, Navigate, StoreTranscript, Pick,
       OtherDecides, vars, Moved
  <2>5. ASSUME NEW f, Answer(f) PROVE Moved(fetches, fetches') /\ Moved(submits, submits')
    BY <2>5 DEF Answer, Moved
  <2>6. ASSUME NEW s, Decide(s) PROVE Moved(fetches, fetches') /\ Moved(submits, submits')
    BY <2>6 DEF Decide, Moved
  <2>. QED  BY <2>1, <2>2, <2>3, <2>4, <2>5, <2>6 DEF Next
<1>. QED  BY <1>1, MovedIsABag DEF BagsOK

\* The panel's own state goes with the panel.
LEMMA PanelOK ==
  ASSUME ScreenOK, PanelStays
  PROVE  noticed' \in Notice
BY DEF PanelStays, ScreenOK, Notice

LEMMA ClicksOK ==
  ASSUME ScreenOK, Clicks
  PROVE  moves' \in 0 .. MaxMoves
BY ScreenAssumption DEF Clicks, ScreenOK

\* Where the panel and the clicks are in order, a fetch that is sent leaves
\* the rest so.
LEMMA FetchPendingOK ==
  ASSUME ScreenOK, NEW r \in Ref, FetchPending(r),
         noticed' \in Notice, moves' \in 0 .. MaxMoves
  PROVE  ScreenOK'
<1>1. /\ currentRef' = r /\ error' = None /\ data' = data
      /\ status' = IF data # None /\ data.ref = r THEN status ELSE "loading"
  BY DEF FetchPending
<1>2. submission' = submission \/ submission' = NoSubmission
  BY DEF FetchPending
<1>3. status' \in Status /\ status' # "failed" /\ (status' = "succeeded" => data' # None)
  BY <1>1 DEF ScreenOK, Status
<1>. QED  BY <1>1, <1>2, <1>3 DEF ScreenOK, NoSubmission

LEMMA SettleOK ==
  ASSUME ScreenInv, ScreenOK, Settle
  PROVE  ScreenOK'
<1>1. ASSUME NEW f \in BagToSet(fetches), FetchFulfilled(f) \/ FetchRejected(f)
      PROVE  ScreenOK'
  <2>1. f.ref \in Ref
    BY DEF ScreenInv, Typed, Fetch
  <2>2. noticed' \in Notice
    BY <1>1, PanelOK DEF FetchFulfilled, FetchRejected
  <2>3. None \notin LoadError
    BY ErrorAssumption
  <2>. QED  BY <1>1, <2>1, <2>2, <2>3
            DEF FetchFulfilled, FetchRejected, ScreenOK, Status
<1>2. ASSUME NEW s \in BagToSet(submits), SubmitFulfilled(s) \/ SubmitRejected(s)
      PROVE  ScreenOK'
  <2>1. /\ UNCHANGED <<currentRef, status, data, error, moves>>
        /\ noticed' \in Notice
    BY <1>2, PanelOK DEF SubmitFulfilled, SubmitRejected, slice
  <2>2. submission'.status = "failed" <=> submission'.error # None
    <3>1. CASE SubmitFulfilled(s)
      BY <3>1 DEF SubmitFulfilled
    <3>2. CASE SubmitRejected(s)
      <4>1. PICK e \in SubmitErrors(s) :
              submission' = [submission EXCEPT !.status = "failed", !.error = e]
        BY <3>2 DEF SubmitRejected
      <4>2. e # None
        BY ErrorAssumption DEF SubmitErrors, SubmitError
      <4>3. submission \in Submission
        BY DEF ScreenInv, Typed
      <4>. QED  BY <4>1, <4>2, <4>3 DEF Submission
    <3>. QED  BY <1>2, <3>1, <3>2
  <2>. QED  BY <2>1, <2>2 DEF ScreenOK
<1>. QED  BY <1>1, <1>2 DEF Settle

\* What the specialist clicks, and the link.
LEMMA ClickOK ==
  ASSUME ScreenInv, ScreenOK,
         \/ \E r \in Ref : Navigate(r)
         \/ Confirm \/ DismissError \/ Cancel
         \/ \E d \in Decision : Pick(d)
  PROVE  ScreenOK'
<1>1. UNCHANGED <<currentRef, status, data, error>>
  BY DEF Navigate, Confirm, SubmitPending, DismissError, Cancel, Pick, screen,
     slice
<1>2. noticed' \in Notice
  <2>1. PanelStays \/ UNCHANGED noticed
    BY DEF Navigate, Confirm, DismissError, Cancel, Pick
  <2>. QED  BY <2>1, PanelOK DEF ScreenOK
<1>3. moves' \in 0 .. MaxMoves
  <2>1. Clicks \/ UNCHANGED moves
    BY DEF Navigate, Confirm, DismissError, Cancel, Pick
  <2>. QED  BY <2>1, ClicksOK DEF ScreenOK
<1>4. submission \in Submission
  BY DEF ScreenInv, Typed
<1>5. \/ submission' = submission \/ DismissSubmission
      \/ submission' = [submission EXCEPT !.status = "submitting",
                                          !.ref = url, !.error = None]
  BY DEF Navigate, Confirm, SubmitPending, DismissError, Cancel, Pick, screen
<1>6. submission'.status = "failed" <=> submission'.error # None
  BY <1>4, <1>5 DEF DismissSubmission, Submission, ScreenOK
<1>. QED  BY <1>1, <1>2, <1>3, <1>6 DEF ScreenOK

LEMMA ScreenOKStep == ScreenInv /\ ScreenOK /\ [Next]_vars => ScreenOK'
<1> SUFFICES ASSUME ScreenInv, ScreenOK, [Next]_vars PROVE ScreenOK'
  OBVIOUS
<1>1. CASE Settle
  BY <1>1, SettleOK
<1>2. CASE ScreenEffect \/ TryAgain
  <2>1. url \in Ref /\ FetchPending(url) /\ noticed' \in Notice
    BY <1>2, PanelOK DEF ScreenEffect, TryAgain, ScreenInv, Typed
  <2>2. moves' \in 0 .. MaxMoves
    BY <1>2, ClicksOK DEF ScreenEffect, TryAgain, ScreenOK
  <2>. QED  BY <2>1, <2>2, FetchPendingOK
<1>3. CASE PanelEffect
  <2>1. url \in Ref /\ submission.status \in {"idle", "submitting", "succeeded", "failed"}
    BY DEF ScreenInv, Typed, Submission
  <2>2. noticed' \in Notice /\ moves' \in 0 .. MaxMoves
    BY <1>3, <2>1 DEF PanelEffect, PanelDeps, Owns, Notice, ScreenOK
  <2>3. CASE FetchPending(url)
    BY <2>1, <2>2, <2>3, FetchPendingOK
  <2>4. CASE UNCHANGED screen
    BY <2>2, <2>4 DEF ScreenOK, screen, slice
  <2>. QED  BY <1>3, <2>3, <2>4 DEF PanelEffect
<1>4. CASE \/ \E r \in Ref : Navigate(r)
           \/ Confirm \/ DismissError \/ Cancel
           \/ \E d \in Decision : Pick(d)
  BY <1>4, ClickOK
<1>5. CASE UNCHANGED Client \/ UNCHANGED vars
  BY <1>5 DEF Client, vars, screen, slice, ScreenOK
<1>6. \/ Settle \/ ScreenEffect \/ TryAgain \/ PanelEffect
      \/ \E r \in Ref : Navigate(r)
      \/ Confirm \/ DismissError \/ Cancel
      \/ \E d \in Decision : Pick(d)
      \/ UNCHANGED Client \/ UNCHANGED vars
  BY DEF Next, Answer, Decide, StoreTranscript, OtherDecides
<1>. QED  BY <1>1, <1>2, <1>3, <1>4, <1>5, <1>6

\* What the screen shows, what is in flight and what the server has keep their
\* types; an error is shown exactly when a load or a submit has failed, and a
\* loaded page has a case.
THEOREM ScreenTyped == Spec => []TypeOK
<1>1. Init => ScreenOK /\ BagsOK
  <2> SUFFICES ASSUME Init PROVE ScreenOK /\ BagsOK
    OBVIOUS
  <2>1. IsABag(EmptyBag)
    BY DEF EmptyBag, SetToBag, IsABag
  <2>. QED  BY <2>1, ScreenAssumption
            DEF Init, ScreenOK, BagsOK, Status, Notice, NoSubmission
<1>2. ScreenInv /\ ScreenOK /\ BagsOK => TypeOK
  BY DEF ScreenInv, Typed, ScreenOK, BagsOK, TypeOK, Status, Notice
<1>. QED  BY <1>1, <1>2, ScreenInvAlways, ScreenOKStep, BagsStep, PTL DEF Spec

-----------------------------------------------------------------------------
(* The server of the screen and the human gate of the service. *)

\* The queue the screen's reviews are in: each is the item of its own call.
Queue == [r \in Ref |-> [about |-> r, channel |-> r, priority |-> None,
                         verdict |-> ruling[r]]]

Stored == {r \in Ref : ready[r]}

Gate == INSTANCE HumanGate
        WITH Item <- Ref, Topic <- Ref, Channel <- Ref, Priority <- {None},
             Verdict <- Decision, Nil <- None, item <- Queue, readable <- Stored

\* One verdict more in the queue, where the transcript is stored.
LEMMA RulingIsRule ==
  ASSUME Typed, NEW r \in Ref, NEW d \in Decision, ready[r], ruling[r] = None,
         ruling' = [ruling EXCEPT ![r] = d], UNCHANGED ready
  PROVE  Gate!Rule(r)
<1>1. Queue[r] # None /\ Queue[r].verdict = None /\ Queue[r].channel = r
  <2>1. Queue[r] = [about |-> r, channel |-> r, priority |-> None,
                    verdict |-> None]
    BY DEF Queue
  <2>2. Queue[r] \in Entry
    BY <2>1 DEF Entry
  <2>. QED  BY <2>1, <2>2, EntryAssumption
<1>2. r \in Stored /\ UNCHANGED Stored
  BY DEF Stored
<1>3. Queue' = [Queue EXCEPT ![r].verdict = d]
  BY DEF Queue, Typed
<1>. QED  BY <1>1, <1>2, <1>3 DEF Gate!Rule, Gate!IsOpen

\* Whatever the screen does, and whoever else decides, the queue changes only
\* as the gate lets it: a transcript more, or a verdict on an open item whose
\* transcript is stored (what module ControlPlane proves of the service is
\* what the screen counts on).
THEOREM ServerKeepsGate == Spec => [][Gate!GateNext]_(Gate!gateVars)
<1>1. ScreenInv /\ [Next]_vars => Gate!GateNext \/ UNCHANGED Gate!gateVars
  <2> SUFFICES ASSUME ScreenInv, [Next]_vars
               PROVE  Gate!GateNext \/ UNCHANGED Gate!gateVars
    OBVIOUS
  <2>1. UNCHANGED server => UNCHANGED Gate!gateVars
    BY DEF server, Gate!gateVars, Queue, Stored
  <2>2. ASSUME NEW r \in Ref, NEW d \in Decision, ready[r], ruling[r] = None,
               ruling' = [ruling EXCEPT ![r] = d], UNCHANGED ready
        PROVE  Gate!GateNext
    BY <2>2, RulingIsRule DEF Gate!GateNext, ScreenInv
  <2>3. ASSUME NEW r \in Ref, StoreTranscript(r)
        PROVE  Gate!GateNext
    <3>1. ready' = [ready EXCEPT ![r] = TRUE] /\ UNCHANGED ruling
      BY <2>3 DEF StoreTranscript
    <3>2. Stored' = Stored \cup {r} /\ UNCHANGED Queue
      BY <3>1 DEF Stored, Queue, ScreenInv, Typed
    <3>. QED  BY <3>2 DEF Gate!Publish, Gate!GateNext
  <2>4. ASSUME NEW s \in BagToSet(submits), Decide(s)
        PROVE  Gate!GateNext \/ UNCHANGED server
    <3>1. s.ref \in Ref /\ s.decision \in Decision
      BY DEF ScreenInv, Typed, Submit
    <3>. QED  BY <2>2, <2>4, <3>1 DEF Decide, server
  <2>5. ASSUME NEW r \in Ref, NEW d \in Decision, OtherDecides(r, d)
        PROVE  Gate!GateNext
    BY <2>2, <2>5 DEF OtherDecides
  <2>6. CASE Settle
    BY <2>1, <2>6 DEF Settle, FetchFulfilled, FetchRejected, SubmitFulfilled,
       SubmitRejected
  <2>7. CASE ScreenEffect \/ PanelEffect \/ TryAgain
    BY <2>1, <2>7 DEF ScreenEffect, PanelEffect, TryAgain, FetchPending
  <2>8. CASE \/ Confirm \/ DismissError \/ Cancel \/ UNCHANGED vars
             \/ \E r \in Ref : Navigate(r)
             \/ \E d \in Decision : Pick(d)
             \/ \E f \in BagToSet(fetches) : Answer(f)
    BY <2>1, <2>8 DEF Confirm, SubmitPending, DismissError, Cancel, vars,
       Navigate, Pick, Answer
  <2>. QED  BY <2>1, <2>3, <2>4, <2>5, <2>6, <2>7, <2>8 DEF Next
<1>. QED  BY <1>1, ScreenInvAlways, PTL DEF Spec
=============================================================================

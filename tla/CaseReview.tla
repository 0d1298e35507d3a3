----------------------------- MODULE CaseReview -----------------------------
(***************************************************************************)
(* The specialist's case screen (web/src/features/specialist): the case    *)
(* slice of the Redux store, CaseReviewScreen and its DecisionPanel, the   *)
(* HTTP requests they have in flight and the server that answers them.     *)
(*                                                                         *)
(* JavaScript runs one callback at a time, so a reducer is one step; but   *)
(* requests are answered in any order, none is aborted when the specialist *)
(* moves on, and a React effect runs some time after the change it is for. *)
(***************************************************************************)
EXTENDS Naturals, Bags

CONSTANTS
  Ref,       \* review references a link may carry
  Decision,  \* DECISION_CODE
  None,      \* null
  MaxMoves   \* bound on the specialist's clicks that start something

ASSUME ScreenAssumption == /\ None \notin Ref \cup Decision
                           /\ MaxMoves \in Nat

VARIABLES
  url,         \* the review in the address bar
  currentRef, status, data, error,  \* the case slice
  submission,  \* the decision slice
  selected,    \* the option picked in DecisionPanel, None: none, or unmounted
  noticed,     \* what DecisionPanel's effect last ran for, None: unmounted
  fetches,     \* GET /review/{ref} in flight, a bag
  submits,     \* POST /review/{ref}/decision in flight, a bag
  ready,       \* server: the transcript of the review's call is stored
  ruling,      \* server: the review's decision
  moves

slice == <<currentRef, status, data, error>>
screen == <<slice, submission>>
server == <<ready, ruling>>
vars == <<url, screen, selected, noticed, fetches, submits, server, moves>>

View == [ref : Ref, ready : BOOLEAN, decision : Decision \cup {None}]
Fetch == [ref : Ref, view : View \cup {None}]
Submit == [ref : Ref, decision : Decision,
           verdict : {"sent", "recorded", "transcript_pending",
                      "already_decided"}]

\* What classify and submissionMessage tell apart, as far as the screen
\* behaves differently: the other kinds (401 and 403, no answer, a late one,
\* an unreadable one) are a sentence each.
LoadError   == {"not-found", "other"}
SubmitError == {"transcript_pending", "already_decided", "other"}

\* null is no kind of error, and no item of the review queue.
ASSUME ErrorAssumption == None \notin LoadError \cup SubmitError

Entry == [about : Ref, channel : Ref, priority : {None},
          verdict : Decision \cup {None}]

ASSUME EntryAssumption == None \notin Entry

Submission == [status : {"idle", "submitting", "succeeded", "failed"},
               ref : Ref \cup {None}, decision : Decision \cup {None},
               error : SubmitError \cup {None}]

NoSubmission == [status |-> "idle", ref |-> None, decision |-> None,
                 error |-> None]

Init ==
  /\ url \in Ref
  /\ currentRef = None /\ status = "idle" /\ data = None /\ error = None
  /\ submission = NoSubmission
  /\ noticed = None /\ selected = None
  /\ fetches = EmptyBag /\ submits = EmptyBag
  /\ ready \in [Ref -> BOOLEAN]
  /\ ruling = [r \in Ref |-> None]
  /\ moves = 0

Sent(bag, m) == bag (+) SetToBag({m})
Gone(bag, m) == bag (-) SetToBag({m})

-----------------------------------------------------------------------------
(* What the screen shows. *)

\* The case pack and its decision panel are on the screen.
Mounted == status = "succeeded" /\ data # None /\ data.ref = url

\* The full-page error, of whichever load failed last.
Broken == status = "failed" /\ currentRef = url

Owns == submission.ref = url

\* Mutant: the transcript lock is forgotten.
DisabledUnlocked == \/ data.decision # None
                    \/ Owns /\ submission.status = "submitting"

Disabled == \/ ~data.ready
            \/ data.decision # None
            \/ Owns /\ submission.status = "submitting"

\* The option the panel shows: the recorded decision before the one picked.
ShownOption == IF data.decision # None THEN data.decision ELSE selected

\* The panel's own state goes with the panel.
FormStays == selected' = IF Mounted' THEN selected ELSE None
PanelStays == /\ noticed' = IF Mounted' THEN noticed ELSE None
              /\ FormStays

-----------------------------------------------------------------------------
(* fetchReviewCase *)

\* pending: a refresh of the case on the screen keeps it there.
FetchPending(r) ==
  /\ status' = IF data # None /\ data.ref = r THEN status ELSE "loading"
  /\ currentRef' = r
  /\ error' = None
  /\ submission' = IF submission.ref = r THEN submission ELSE NoSubmission
  /\ fetches' = Sent(fetches, [ref |-> r, view |-> None])
  /\ UNCHANGED <<data, submits, server>>

\* Mutant: the slice keeps the reference it asked for last.
FetchFulfilledAsAsked(f) ==
  /\ BagIn(f, fetches) /\ f.view # None
  /\ fetches' = Gone(fetches, f)
  /\ status' = "succeeded"
  /\ data' = f.view /\ error' = None
  /\ UNCHANGED <<currentRef, url, submission, submits, server, moves>>
  /\ PanelStays

FetchFulfilled(f) ==
  /\ BagIn(f, fetches) /\ f.view # None
  /\ fetches' = Gone(fetches, f)
  /\ status' = "succeeded"
  /\ data' = f.view /\ error' = None
  /\ currentRef' = f.ref
  /\ UNCHANGED <<url, submission, submits, server, moves>>
  /\ PanelStays

\* Mutant: the status is left as it was.
FetchRejectedQuiet(f) ==
  /\ BagIn(f, fetches)
  /\ fetches' = Gone(fetches, f)
  /\ data' = None
  /\ error' \in LoadError
  /\ UNCHANGED <<url, currentRef, status, submission, submits, server, moves>>
  /\ PanelStays

\* A load may fail on the way there, on the server or on the way back; a link
\* to a review that does not exist is one whose loads all fail, not found.
FetchRejected(f) ==
  /\ BagIn(f, fetches)
  /\ fetches' = Gone(fetches, f)
  /\ status' = "failed"
  /\ data' = None
  /\ error' \in LoadError
  /\ UNCHANGED <<url, currentRef, submission, submits, server, moves>>
  /\ PanelStays

\* CaseReviewScreen's effect on [caseRef, currentRef].
ScreenEffect ==
  /\ url # currentRef
  /\ FetchPending(url)
  /\ UNCHANGED <<url, moves>>
  /\ PanelStays

-----------------------------------------------------------------------------
(* submitDecision *)

SubmitPending(r, d) ==
  /\ submission' = [submission EXCEPT !.status = "submitting", !.ref = r,
                                      !.error = None]
  /\ submits' = Sent(submits, [ref |-> r, decision |-> d, verdict |-> "sent"])
  /\ UNCHANGED <<slice, fetches, server>>

\* Mutant: the outcome is taken to be that of the panel's own submit.
SubmitFulfilledHere(s) ==
  /\ BagIn(s, submits) /\ s.verdict = "recorded"
  /\ submits' = Gone(submits, s)
  /\ submission' = [submission EXCEPT !.status = "succeeded", !.error = None,
                                      !.decision = s.decision]
  /\ UNCHANGED <<url, slice, fetches, server, moves>>
  /\ PanelStays

SubmitFulfilled(s) ==
  /\ BagIn(s, submits) /\ s.verdict = "recorded"
  /\ submits' = Gone(submits, s)
  /\ submission' = [status |-> "succeeded", ref |-> s.ref,
                    decision |-> s.decision, error |-> None]
  /\ UNCHANGED <<url, slice, fetches, server, moves>>
  /\ PanelStays

\* Refused by the server, or failed on the way, recorded or not.
SubmitErrors(s) ==
  {"other"} \cup ({s.verdict} \cap {"transcript_pending", "already_decided"})

\* Mutant: the end of the request is not noticed.
SubmitRejectedQuiet(s) ==
  /\ BagIn(s, submits)
  /\ submits' = Gone(submits, s)
  /\ UNCHANGED <<url, screen, fetches, server, moves>>
  /\ PanelStays

SubmitRejected(s) ==
  /\ BagIn(s, submits)
  /\ submits' = Gone(submits, s)
  /\ \E e \in SubmitErrors(s) :
       submission' = [submission EXCEPT !.status = "failed", !.error = e]
  /\ UNCHANGED <<url, slice, fetches, server, moves>>
  /\ PanelStays

PanelDeps == <<Owns, submission.status>>

\* Mutant: no refetch after a recorded decision.
PanelEffectQuiet ==
  /\ Mounted /\ noticed # PanelDeps
  /\ noticed' = PanelDeps
  /\ UNCHANGED <<url, moves, selected, screen, fetches, submits, server>>

\* DecisionPanel's effect on [ownsSubmission, status, reviewRef].
PanelEffect ==
  /\ Mounted /\ noticed # PanelDeps
  /\ noticed' = PanelDeps
  /\ IF Owns /\ submission.status = "succeeded" THEN FetchPending(url)
     ELSE UNCHANGED <<screen, fetches, submits, server>>
  /\ UNCHANGED <<url, moves>>
  /\ FormStays

-----------------------------------------------------------------------------
(* The specialist. *)

Clicks == moves < MaxMoves /\ moves' = moves + 1

\* A link of the review queue.
Navigate(r) ==
  /\ Clicks
  /\ r # url /\ url' = r
  /\ UNCHANGED <<screen, fetches, submits, server>>
  /\ PanelStays

TryAgain ==
  /\ Clicks
  /\ Broken /\ error # "not-found"
  /\ FetchPending(url)
  /\ UNCHANGED url
  /\ PanelStays

\* The thunk's condition blocks a submit while the slice shows one in flight.
Confirm ==
  /\ Clicks
  /\ Mounted /\ ~Disabled /\ selected # None
  /\ submission.status # "submitting"
  /\ SubmitPending(url, selected)
  /\ UNCHANGED url
  /\ PanelStays

\* Picking an option starts nothing, so it is not counted.
Pick(d) ==
  /\ Mounted /\ ~Disabled /\ selected # d
  /\ selected' = d
  /\ UNCHANGED <<url, screen, noticed, fetches, submits, server, moves>>

DismissSubmission ==
  submission' = IF submission.status = "failed"
                THEN [submission EXCEPT !.status = "idle", !.error = None]
                ELSE submission

DismissError ==
  /\ Mounted /\ Owns /\ submission.status = "failed" /\ ShownOption # None
  /\ DismissSubmission
  /\ UNCHANGED <<url, slice, fetches, submits, server, moves>>
  /\ PanelStays

Cancel ==
  /\ Mounted /\ selected # None /\ data.decision = None
  /\ Owns => submission.status \notin {"submitting", "succeeded"}
  /\ selected' = None
  /\ IF Owns THEN DismissSubmission ELSE UNCHANGED submission
  /\ UNCHANGED <<url, slice, noticed, fetches, submits, server, moves>>

-----------------------------------------------------------------------------
(* The server, as ControlPlane gives it: a review is decided once, after    *)
(* its transcript is stored.                                               *)

Client == <<url, screen, selected, noticed, moves>>

Answer(f) ==
  /\ BagIn(f, fetches) /\ f.view = None
  /\ fetches' = Sent(Gone(fetches, f),
       [f EXCEPT !.view = [ref |-> f.ref, ready |-> ready[f.ref],
                           decision |-> ruling[f.ref]]])
  /\ UNCHANGED <<Client, submits, server>>

Decide(s) ==
  /\ BagIn(s, submits) /\ s.verdict = "sent"
  /\ IF ready[s.ref] /\ ruling[s.ref] = None
     THEN /\ ruling' = [ruling EXCEPT ![s.ref] = s.decision]
          /\ submits' = Sent(Gone(submits, s),
                             [s EXCEPT !.verdict = "recorded"])
     ELSE /\ submits' = Sent(Gone(submits, s),
                             [s EXCEPT !.verdict = IF ruling[s.ref] = None
                                                   THEN "transcript_pending"
                                                   ELSE "already_decided"])
          /\ UNCHANGED ruling
  /\ UNCHANGED <<Client, fetches, ready>>

\* The post-call webhook.
StoreTranscript(r) ==
  /\ ~ready[r]
  /\ ready' = [ready EXCEPT ![r] = TRUE]
  /\ UNCHANGED <<Client, fetches, submits, ruling>>

\* Another specialist decides.
OtherDecides(r, d) ==
  /\ ready[r] /\ ruling[r] = None
  /\ ruling' = [ruling EXCEPT ![r] = d]
  /\ UNCHANGED <<Client, fetches, submits, ready>>

-----------------------------------------------------------------------------
Settle == \/ \E f \in BagToSet(fetches) : FetchFulfilled(f) \/ FetchRejected(f)
          \/ \E s \in BagToSet(submits) : SubmitFulfilled(s) \/ SubmitRejected(s)

Next ==
  \/ Settle \/ ScreenEffect \/ PanelEffect
  \/ \E r \in Ref : Navigate(r) \/ StoreTranscript(r)
  \/ TryAgain \/ Confirm \/ DismissError \/ Cancel
  \/ \E d \in Decision : Pick(d) \/ (\E r \in Ref : OtherDecides(r, d))
  \/ \E f \in BagToSet(fetches) : Answer(f)
  \/ \E s \in BagToSet(submits) : Decide(s)

Spec == Init /\ [][Next]_vars

\* React runs the effects it scheduled, and every request settles: axios
\* gives up after DEFAULT_TIMEOUT_MS.  The specialist owes nothing.
FairSpec == /\ Spec
            /\ WF_vars(Settle) /\ WF_vars(ScreenEffect) /\ WF_vars(PanelEffect)

-----------------------------------------------------------------------------
TypeOK ==
  /\ url \in Ref /\ currentRef \in Ref \cup {None}
  /\ status \in {"idle", "loading", "succeeded", "failed"}
  /\ data \in View \cup {None}
  /\ error \in LoadError \cup {None}
  /\ status = "succeeded" => data # None
  /\ status = "failed" <=> error # None
  /\ submission \in Submission
  /\ submission.status = "failed" <=> submission.error # None
  /\ selected \in Decision \cup {None}
  /\ noticed \in {None} \cup (BOOLEAN \X {"idle", "submitting", "succeeded",
                                          "failed"})
  /\ IsABag(fetches) /\ BagToSet(fetches) \subseteq Fetch
  /\ IsABag(submits) /\ BagToSet(submits) \subseteq Submit
  /\ ready \in [Ref -> BOOLEAN]
  /\ ruling \in [Ref -> Decision \cup {None}]
  /\ moves \in 0 .. MaxMoves

\* The screen says a decision is recorded only for the review, and only with
\* the decision, that the server recorded, whatever answers arrive late from
\* cases the specialist has left.
RecordedIsReal ==
  submission.status = "succeeded" =>
    submission.ref # None /\ ruling[submission.ref] = submission.decision

\* No decision leaves the screen for a review whose transcript is not stored,
\* although the screen knows the lock only from the last answer it got.
NoLockedSubmit == \A s \in BagToSet(submits) : ready[s.ref]

\* When the specialist stays on a case, the screen does not load for ever: it
\* settles on that case or on the full-page error, in whatever order answers
\* come in.  It never settles on another case, but the error may be another
\* case's, of a load that failed last: the slice does not keep whose it is,
\* and if it was a 404 the page offers no retry.
Settles == \A r \in Ref : <>[](url = r) => <>[](url = r /\ (Mounted \/ Broken))

\* A decision just reported as recorded gets onto the screen as the case's
\* decision, unless the specialist leaves, the refetch fails or the report is
\* replaced.  An older answer that comes later still may take it off again.
Reported(r) == Mounted /\ url = r /\ Owns /\ submission.status = "succeeded"

DecisionSeen ==
  \A r \in Ref :
    (Reported(r) /\ noticed # PanelDeps)
      ~> \/ Mounted /\ url = r /\ data.decision # None
         \/ ~Reported(r)

\* A panel that says "Recording..." stops saying so, whichever submits of
\* other cases end meanwhile and however they end.
Recording(r) == Mounted /\ url = r /\ Owns /\ submission.status = "submitting"
SubmitSettles == \A r \in Ref : Recording(r) ~> ~Recording(r)

(***************************************************************************)
(* "Block duplicate submits while one is already in flight."               *)
(* (caseSlice.ts, line 146)                                                *)
(***************************************************************************)
OneSubmitInFlight ==
  \A r \in Ref : BagCardinality([s \in {t \in BagToSet(submits) : t.ref = r}
                                   |-> submits[s]]) <= 1
=============================================================================

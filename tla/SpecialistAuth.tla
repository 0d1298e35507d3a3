--------------------------- MODULE SpecialistAuth ---------------------------
(***************************************************************************)
(* The reviewer's sign-in (web/src/features/specialist): the auth slice,   *)
(* its copy in sessionStorage, the queue slice whose fetch doubles as the  *)
(* check of a token, the screens that wait for the queue and for a case,   *)
(* the interceptors of the HTTP client and the server's bearer check.      *)
(*                                                                         *)
(* A step is one task of the browser: an answer's interceptor, the thunk   *)
(* that awaits it and their reducers run in one.  Requests are answered in *)
(* any order, with the bearer they were sent with, whatever has happened   *)
(* to the session since.                                                   *)
(***************************************************************************)
EXTENDS Naturals, Bags

CONSTANTS
  Token,
  None,     \* null
  MaxMoves  \* bound on what the reviewer and the operator do

ASSUME SignInAssumption == None \notin Token /\ MaxMoves \in Nat

VARIABLES
  auth,      \* the auth slice
  stored,    \* the token in sessionStorage
  queue,     \* the status of the queue slice
  items,     \* there are items in it
  route,     \* /specialist, or the page of a case
  case,      \* the status of the case slice
  requests,  \* in flight to /review, a bag
  accepted,  \* server: REVIEWER_TOKEN
  moves,
  refused, signedOut  \* history, for the properties

told == <<refused, signedOut>>
area == <<queue, items, route, case>>
vars == <<auth, stored, area, requests, accepted, moves, told>>

Auth == [token : Token \cup {None}, pendingToken : Token \cup {None},
         verifying : BOOLEAN, error : {"none", "incorrect", "failed"}]

\* "verify" and "queue" fetch the queue, for the sign-in and for the list;
\* "case" fetches a case, "decision" decides one.
Request == [kind : {"verify", "queue", "case", "decision"}, bearer : Token,
            answer : {"none", "ok", "unauthorised"}]

SignedOut == [token |-> None, pendingToken |-> None, verifying |-> FALSE,
              error |-> "none"]

SignedInAs(t) == [SignedOut EXCEPT !.token = t]

Init ==
  /\ stored \in Token \cup {None} /\ auth = SignedInAs(stored)
  /\ queue = "idle" /\ items = FALSE /\ case = "idle"
  /\ route \in {"index", "case"}
  /\ requests = EmptyBag
  /\ accepted \in Token
  /\ moves = 0
  /\ refused = {} /\ signedOut = FALSE

-----------------------------------------------------------------------------
(* The auth slice's reducers, of a state a, and what they store. *)

VerifyPending(a, t) == [a EXCEPT !.pendingToken = t, !.verifying = TRUE,
                                 !.error = "none"]

\* Mutant: the thunk promotes the token it was called with.
VerifyFulfilledAsAsked(a, t) == [SignedInAs(t) EXCEPT !.error = a.error]

\* Mutant: the pending token is not cleared.
VerifyFulfilledHeld(a, t) ==
  [a EXCEPT !.token = IF a.pendingToken = None THEN @ ELSE a.pendingToken,
            !.verifying = FALSE]

VerifyFulfilled(a, t) ==
  [a EXCEPT !.token = IF a.pendingToken = None THEN @ ELSE a.pendingToken,
            !.pendingToken = None, !.verifying = FALSE]

VerifyRejected(a) == [a EXCEPT !.pendingToken = None, !.verifying = FALSE,
                               !.error = IF @ = "none" THEN "failed" ELSE @]

BearerOf(a) == IF a.token # None THEN a.token ELSE a.pendingToken

\* The 401 handler, which dispatches reviewerTokenRejected.
TokenRejected(a) ==
  IF BearerOf(a) = None THEN a ELSE [SignedOut EXCEPT !.error = "incorrect"]

\* Mutant: a rejected token is left in storage.
StoreOnRejectForgotten == UNCHANGED stored

StoreOnReject == stored' = IF BearerOf(auth) = None THEN stored ELSE None

-----------------------------------------------------------------------------
(* The screens. *)

\* The layout shows the queue and the case, not the sign-in.
Shown == auth.token # None /\ ~auth.verifying

\* ReviewQueue: with items there, a failed refresh leaves the list as it is.
QueueScreen == CASE queue = "idle" \/ (queue = "loading" /\ ~items) -> "loading"
                 [] queue = "failed" /\ ~items -> "error"
                 [] queue = "succeeded" /\ ~items -> "empty"
                 [] OTHER -> "list"

\* SpecialistIndex, while it has no case to go to.
IndexScreen == CASE queue = "failed" -> "error"
                 [] queue = "succeeded" -> "empty"
                 [] OTHER -> "loading"

Clicks == moves < MaxMoves /\ moves' = moves + 1

\* The request interceptor attaches what the bearer is now.
Send(kind, a) == requests' = requests (+) SetToBag({[kind |-> kind,
                                 bearer |-> BearerOf(a), answer |-> "none"]})

Submit(t) ==
  /\ Clicks
  /\ auth.token = None /\ ~auth.verifying
  /\ auth' = VerifyPending(auth, t)
  /\ Send("verify", auth')
  /\ queue' = "loading"
  /\ refused' = refused \ {t} /\ signedOut' = FALSE
  /\ UNCHANGED <<stored, items, route, case, accepted>>

SignOut ==
  /\ Clicks
  /\ auth.token # None
  /\ auth' = SignedOut /\ stored' = None
  /\ signedOut' = TRUE
  /\ UNCHANGED <<area, requests, accepted, refused>>

\* ReviewQueue's effect when nothing was fetched yet.
QueueEffect ==
  /\ Shown /\ queue = "idle"
  /\ queue' = "loading" /\ Send("queue", auth)
  /\ UNCHANGED <<auth, stored, items, route, case, accepted, moves, told>>

\* "Refresh", disabled while it refreshes, and "Try again".
Refresh ==
  /\ Clicks
  /\ Shown /\ queue # "loading"
  /\ queue' = "loading" /\ Send("queue", auth)
  /\ UNCHANGED <<auth, stored, items, route, case, accepted, told>>

\* SpecialistIndex goes to the first case of the list.
IndexEffect ==
  /\ Shown /\ route = "index" /\ queue = "succeeded" /\ items
  /\ route' = "case"
  /\ UNCHANGED <<auth, stored, queue, items, case, requests, accepted, moves>>
  /\ UNCHANGED told

\* CaseReviewScreen's effect; that the answer is the case's is another
\* matter, see CaseReview.
CaseEffect ==
  /\ Shown /\ route = "case" /\ case = "idle"
  /\ case' = "loading" /\ Send("case", auth)
  /\ UNCHANGED <<auth, stored, queue, items, route, accepted, moves, told>>

\* Another case of the list, or the "Try again" of this one.
OpenCase ==
  /\ Clicks
  /\ Shown
  /\ QueueScreen = "list" \/ (route = "case" /\ case = "failed")
  /\ route' = "case" /\ case' = "loading" /\ Send("case", auth)
  /\ UNCHANGED <<auth, stored, queue, items, accepted, told>>

Decide ==
  /\ Clicks
  /\ Shown /\ route = "case" /\ case = "succeeded"
  /\ Send("decision", auth)
  /\ UNCHANGED <<auth, stored, area, accepted, told>>

\* The link of the top bar.
ToIndex ==
  /\ Clicks
  /\ route = "case" /\ route' = "index"
  /\ UNCHANGED <<auth, stored, queue, items, case, requests, accepted, told>>

\* The tab is reloaded: the store starts over from sessionStorage.
Reload ==
  /\ Clicks
  /\ auth' = SignedInAs(stored)
  /\ queue' = "idle" /\ items' = FALSE /\ case' = "idle"
  /\ requests' = EmptyBag
  /\ UNCHANGED <<stored, route, accepted, told>>

-----------------------------------------------------------------------------
(* The server. *)

\* The service is restarted with another token.
Rotate(t) ==
  /\ Clicks
  /\ t # accepted /\ accepted' = t
  /\ UNCHANGED <<auth, stored, area, requests, told>>

Answer(q) ==
  /\ q.answer = "none"
  /\ requests' = (requests (-) SetToBag({q})) (+) SetToBag({[q EXCEPT
       !.answer = IF q.bearer = accepted THEN "ok" ELSE "unauthorised"]})
  /\ UNCHANGED <<auth, stored, area, accepted, moves, told>>

-----------------------------------------------------------------------------
(* A request settles: the response interceptor, fetchReviewQueue, and then  *)
(* the verification that waits for it.                                     *)

SettleQueue(q, status) ==
  IF q.kind \in {"case", "decision"} THEN UNCHANGED <<queue, items>>
  ELSE /\ queue' = status
       /\ IF status = "failed" THEN UNCHANGED items ELSE items' \in BOOLEAN

\* Mutant: a case that cannot be loaded without a session is left loading.
SettleCaseSignedIn(q, status) ==
  case' = IF q.kind = "case" /\ BearerOf(auth) # None THEN status ELSE case

SettleCase(q, status) == case' = IF q.kind = "case" THEN status ELSE case

Settled(q, a) ==
  /\ requests' = requests (-) SetToBag({q})
  /\ auth' = a
  /\ UNCHANGED <<route, accepted, moves, signedOut>>

Succeed(q) ==
  /\ q.answer = "ok"
  /\ LET a == IF q.kind = "verify" THEN VerifyFulfilled(auth, q.bearer)
              ELSE auth
     IN /\ Settled(q, a)
        /\ stored' = IF a.token = auth.token THEN stored ELSE a.token
  /\ SettleQueue(q, "succeeded") /\ SettleCase(q, "succeeded")
  /\ UNCHANGED refused

Refuse(q) ==
  /\ q.answer = "unauthorised"
  /\ LET a == TokenRejected(auth)
     IN Settled(q, IF q.kind = "verify" THEN VerifyRejected(a) ELSE a)
  /\ StoreOnReject
  /\ SettleQueue(q, "failed") /\ SettleCase(q, "failed")
  /\ refused' = refused \cup {q.bearer}

\* A timeout, a lost connection, an unreadable or another error answer.
Fail(q) ==
  /\ Settled(q, IF q.kind = "verify" THEN VerifyRejected(auth) ELSE auth)
  /\ SettleQueue(q, "failed") /\ SettleCase(q, "failed")
  /\ UNCHANGED <<stored, refused>>

Settle == \E q \in BagToSet(requests) : Succeed(q) \/ Refuse(q) \/ Fail(q)

Next ==
  \/ \E t \in Token : Submit(t) \/ Rotate(t)
  \/ SignOut \/ QueueEffect \/ IndexEffect \/ CaseEffect
  \/ Refresh \/ OpenCase \/ Decide \/ ToIndex \/ Reload
  \/ \E q \in BagToSet(requests) : Answer(q)
  \/ Settle

Spec == Init /\ [][Next]_vars

\* React runs the effects it scheduled, and axios gives up after
\* DEFAULT_TIMEOUT_MS.  Neither people nor the server owe anything.
FairSpec == /\ Spec
            /\ WF_vars(Settle) /\ WF_vars(QueueEffect)
            /\ WF_vars(IndexEffect) /\ WF_vars(CaseEffect)

-----------------------------------------------------------------------------
\* The modal is busy exactly while a token is being verified, nobody is
\* signed in then, and storage holds who is signed in.
TypeOK ==
  /\ auth \in Auth
  /\ auth.verifying <=> auth.pendingToken # None
  /\ auth.verifying => auth.token = None
  /\ stored = auth.token
  /\ queue \in {"idle", "loading", "succeeded", "failed"} /\ items \in BOOLEAN
  /\ route \in {"index", "case"}
  /\ case \in {"idle", "loading", "succeeded", "failed"}
  /\ IsABag(requests) /\ BagToSet(requests) \subseteq Request
  /\ accepted \in Token
  /\ moves \in 0 .. MaxMoves
  /\ refused \subseteq Token
  /\ signedOut \in BOOLEAN

\* A token the console was told is not accepted no longer signs it in, not
\* by a reload and not by the end of another verification, until the reviewer
\* enters it again.
RejectedTokenGone == auth.token \notin refused

\* Signed out is signed out: no answer that is still on its way, and no
\* reload, signs the reviewer in again.
SignedOutStays == signedOut => auth.token = None

\* Nothing spins for good: not the sign-in, whichever request settles it,
\* nor, of a reviewer who stays signed in, the panel of the queue; nor the
\* page beside it, although the index fetches nothing itself and waits for the
\* panel's fetch, and the page of a case may find a fetch that an earlier
\* session started.
Spins(part) ==
  CASE part = "sign-in" -> auth.verifying
    [] part = "panel"   -> Shown /\ QueueScreen = "loading"
    [] part = "page"    -> Shown /\ IF route = "index" THEN IndexScreen = "loading"
                                    ELSE case \in {"idle", "loading"}

NothingSpins ==
  \A part \in {"sign-in", "panel", "page"} : Spins(part) ~> ~Spins(part)

\* What specialistAuthSlice.ts says of the token: set only after the server
\* confirms it.  The end of one verification may promote a token that was
\* entered after it, see the run unconfirmed.
TokenConfirmed ==
  [][auth.token = None /\ auth'.token # None =>
       \E q \in BagToSet(requests) :
         q.answer = "ok" /\ q.bearer = auth'.token]_auth
=============================================================================

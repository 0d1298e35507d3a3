------------------------ MODULE SpecialistAuth_proofs ------------------------
(***************************************************************************)
(* A refused token is gone and signed out stays so, for any number of      *)
(* tokens, requests in flight and moves.  Neither is inductive: what a     *)
(* late answer may promote is the pending token, so the invariant speaks   *)
(* of that one too.                                                        *)
(***************************************************************************)
EXTENDS SpecialistAuth, Integers, TLAPS

\* The token being verified is not refused, and nothing is being verified of
\* a reviewer who signed out.
PendingSound == /\ auth.pendingToken \notin refused
                /\ signedOut => auth.pendingToken = None

AuthInv == TypeOK /\ PendingSound /\ RejectedTokenGone /\ SignedOutStays

-----------------------------------------------------------------------------
(* Bags of requests. *)

\* A request that is sent joins those in flight.
LEMMA PutRequest ==
  ASSUME NEW B, NEW S, NEW e \in S, IsABag(B), BagToSet(B) \subseteq S
  PROVE  /\ IsABag(B (+) SetToBag({e}))
         /\ BagToSet(B (+) SetToBag({e})) \subseteq S
<1>. DEFINE C == B (+) SetToBag({e})
<1>1. DOMAIN SetToBag({e}) = {e} /\ SetToBag({e})[e] = 1
  BY DEF SetToBag
<1>2. DOMAIN C = DOMAIN B \cup {e}
  BY <1>1 DEF (+)
<1>3. \A x \in DOMAIN C : C[x] = (IF x \in DOMAIN B THEN B[x] ELSE 0)
                                 + (IF x \in {e} THEN SetToBag({e})[x] ELSE 0)
  BY <1>1 DEF (+)
<1>4. \A x \in DOMAIN B : B[x] \in Nat /\ B[x] > 0
  BY DEF IsABag
<1>5. ASSUME NEW x \in DOMAIN C
      PROVE  C[x] \in Nat /\ C[x] > 0
  <2>. HIDE DEF C
  <2>1. CASE x = e
    BY <1>1, <1>3, <1>4, <2>1
  <2>2. CASE x # e
    BY <1>2, <1>3, <1>4, <2>2
  <2>. QED  BY <2>1, <2>2
<1>6. C = [x \in DOMAIN C |-> C[x]]
  BY DEF (+)
<1>7. IsABag(C)
  <2>. HIDE DEF C
  <2>1. \A x \in DOMAIN C : C[x] \in {n \in Nat : n > 0}
    BY <1>5
  <2>. QED  BY <2>1, <1>6 DEF IsABag
<1>. QED  BY <1>2, <1>7 DEF BagToSet

\* One that settles leaves the others.
LEMMA TakeRequest ==
  ASSUME NEW B, NEW S, NEW e, IsABag(B), BagToSet(B) \subseteq S
  PROVE  /\ IsABag(B (-) SetToBag({e}))
         /\ BagToSet(B (-) SetToBag({e})) \subseteq S
<1>. DEFINE L == [x \in DOMAIN B |-> IF x \in DOMAIN SetToBag({e})
                                     THEN B[x] - SetToBag({e})[x] ELSE B[x]]
            C == B (-) SetToBag({e})
<1>1. DOMAIN SetToBag({e}) = {e} /\ SetToBag({e})[e] = 1
  BY DEF SetToBag
<1>2. C = [x \in {d \in DOMAIN L : L[d] > 0} |-> L[x]]
  BY DEF (-)
<1>3. DOMAIN C \subseteq DOMAIN B /\ \A x \in DOMAIN C : C[x] = L[x] /\ L[x] > 0
  BY <1>2
<1>4. \A x \in DOMAIN B : B[x] \in Nat
  BY DEF IsABag
<1>5. \A x \in DOMAIN C : L[x] \in Int
  BY <1>1, <1>3, <1>4
<1>6. \A x \in DOMAIN C : C[x] \in Nat /\ C[x] > 0
  <2>. HIDE DEF C, L
  <2>. QED  BY <1>3, <1>5
<1>7. C = [x \in DOMAIN C |-> C[x]]
  BY <1>2
<1>8. IsABag(C)
  <2>. HIDE DEF C
  <2>1. \A x \in DOMAIN C : C[x] \in {n \in Nat : n > 0}
    BY <1>6
  <2>. QED  BY <2>1, <1>7 DEF IsABag
<1>. QED  BY <1>3, <1>8 DEF BagToSet

\* What the console sends is a request, with the bearer it has.
LEMMA SendTyped ==
  ASSUME NEW kind \in {"verify", "queue", "case", "decision"}, NEW a,
         BearerOf(a) \in Token, IsABag(requests), BagToSet(requests) \subseteq Request,
         Send(kind, a)
  PROVE  IsABag(requests') /\ BagToSet(requests') \subseteq Request
<1>. DEFINE q == [kind |-> kind, bearer |-> BearerOf(a), answer |-> "none"]
<1>1. q \in Request
  BY DEF Request
<1>. HIDE DEF q
<1>. QED  BY <1>1, PutRequest DEF Send, q

-----------------------------------------------------------------------------
(* The steps. *)

LEMMA InitInv == Init => AuthInv
<1>. SUFFICES ASSUME Init PROVE AuthInv
  OBVIOUS
<1>1. IsABag(EmptyBag) /\ BagToSet(EmptyBag) = {}
  BY DEF EmptyBag, SetToBag, IsABag, BagToSet
<1>2. auth \in Auth
  BY DEF Init, Auth, SignedInAs, SignedOut
<1>3. auth.token = stored /\ auth.pendingToken = None /\ auth.verifying = FALSE
  BY DEF Init, SignedInAs, SignedOut
<1>4. moves \in 0 .. MaxMoves
  BY SignInAssumption DEF Init
<1>5. TypeOK
  BY <1>1, <1>2, <1>3, <1>4 DEF Init, TypeOK
<1>. QED
  BY <1>3, <1>5 DEF Init, AuthInv, PendingSound, RejectedTokenGone, SignedOutStays

\* The steps of the reviewer and of the screens that do not settle a request.
LEMMA SubmitInv ==
  ASSUME AuthInv, NEW t \in Token, Submit(t)
  PROVE  AuthInv'
<1>. USE DEF AuthInv
<1>1. /\ auth' \in Auth /\ auth'.token = None /\ auth'.pendingToken = t
      /\ auth'.verifying
  BY DEF Submit, VerifyPending, TypeOK, Auth
<1>2. BearerOf(auth') \in Token
  BY <1>1 DEF BearerOf
<1>3. IsABag(requests') /\ BagToSet(requests') \subseteq Request
  BY <1>2, SendTyped DEF Submit, TypeOK
<1>4. moves' \in 0 .. MaxMoves
  BY SignInAssumption DEF Submit, Clicks, TypeOK
<1>5. /\ auth.token = None /\ queue' = "loading" /\ refused' = refused \ {t}
      /\ signedOut' = FALSE /\ UNCHANGED <<stored, items, route, case, accepted>>
  BY DEF Submit
<1>6. t # None
  BY SignInAssumption
<1>7. TypeOK'
  BY <1>1, <1>3, <1>4, <1>5, <1>6 DEF TypeOK
<1>. QED
  BY <1>1, <1>7, SignInAssumption
     DEF Submit, TypeOK, PendingSound, RejectedTokenGone, SignedOutStays

LEMMA QuietInv ==
  ASSUME AuthInv, QueueEffect \/ IndexEffect \/ CaseEffect \/ Refresh
                  \/ OpenCase \/ Decide \/ ToIndex
  PROVE  AuthInv'
<1>. USE DEF AuthInv
<1>1. UNCHANGED <<auth, stored, accepted, refused, signedOut>>
  BY DEF QueueEffect, IndexEffect, CaseEffect, Refresh, OpenCase, Decide,
         ToIndex, told
<1>2. Shown => BearerOf(auth) \in Token
  BY DEF Shown, BearerOf, TypeOK, Auth
<1>3. IsABag(requests') /\ BagToSet(requests') \subseteq Request
  <2>1. CASE QueueEffect \/ CaseEffect \/ Refresh \/ OpenCase \/ Decide
    BY <1>2, <2>1, SendTyped
       DEF QueueEffect, CaseEffect, Refresh, OpenCase, Decide, TypeOK
  <2>2. CASE IndexEffect \/ ToIndex
    BY <2>2 DEF IndexEffect, ToIndex, TypeOK
  <2>. QED  BY <2>1, <2>2
<1>4. moves' \in 0 .. MaxMoves
  BY SignInAssumption
     DEF QueueEffect, IndexEffect, CaseEffect, Refresh, OpenCase, Decide,
         ToIndex, Clicks, TypeOK
<1>5. /\ queue' \in {"idle", "loading", "succeeded", "failed"} /\ items' \in BOOLEAN
      /\ route' \in {"index", "case"}
      /\ case' \in {"idle", "loading", "succeeded", "failed"}
  BY DEF QueueEffect, IndexEffect, CaseEffect, Refresh, OpenCase, Decide,
         ToIndex, TypeOK, area
<1>6. TypeOK'
  BY <1>1, <1>3, <1>4, <1>5 DEF TypeOK
<1>. QED  BY <1>1, <1>6 DEF PendingSound, RejectedTokenGone, SignedOutStays

LEMMA SessionInv ==
  ASSUME AuthInv, SignOut \/ Reload \/ \E t \in Token : Rotate(t)
  PROVE  AuthInv'
<1>. USE DEF AuthInv
<1>1. CASE SignOut
  <2>1. auth' \in Auth /\ auth' = SignedOut
    BY <1>1 DEF SignOut, SignedOut, Auth
  <2>2. TypeOK'
    BY <1>1, <2>1, SignInAssumption DEF SignOut, SignedOut, Clicks, area, TypeOK
  <2>. QED
    BY <1>1, <2>1, <2>2, SignInAssumption
       DEF SignOut, SignedOut, TypeOK, PendingSound, RejectedTokenGone, SignedOutStays
<1>2. CASE Reload
  <2>1. auth' = SignedInAs(stored) /\ stored = auth.token /\ stored \in Token \cup {None}
    BY <1>2 DEF Reload, TypeOK, Auth
  <2>2. /\ auth' \in Auth /\ auth'.token = auth.token /\ auth'.pendingToken = None
        /\ auth'.verifying = FALSE
    BY <2>1 DEF SignedInAs, SignedOut, Auth
  <2>3. IsABag(EmptyBag) /\ BagToSet(EmptyBag) = {}
    BY DEF EmptyBag, SetToBag, IsABag, BagToSet
  <2>4. moves' \in 0 .. MaxMoves
    BY <1>2, SignInAssumption DEF Reload, Clicks, TypeOK
  <2>5. TypeOK'
    BY <1>2, <2>2, <2>3, <2>4 DEF Reload, told, TypeOK
  <2>. QED
    BY <1>2, <2>2, <2>5, SignInAssumption
       DEF Reload, told, TypeOK, PendingSound, RejectedTokenGone, SignedOutStays
<1>3. CASE \E t \in Token : Rotate(t)
  BY <1>3, SignInAssumption
     DEF Rotate, Clicks, area, told, TypeOK, PendingSound, RejectedTokenGone, SignedOutStays
<1>. QED  BY <1>1, <1>2, <1>3

LEMMA AnswerInv ==
  ASSUME AuthInv, NEW q \in BagToSet(requests), Answer(q)
  PROVE  AuthInv'
<1>. USE DEF AuthInv
<1>. DEFINE r == [q EXCEPT !.answer = IF q.bearer = accepted THEN "ok"
                                      ELSE "unauthorised"]
            B == requests (-) SetToBag({q})
<1>1. q \in Request /\ r \in Request
  BY DEF TypeOK, Request
<1>2. IsABag(B) /\ BagToSet(B) \subseteq Request
  BY TakeRequest DEF TypeOK
<1>3. requests' = B (+) SetToBag({r})
  BY DEF Answer
<1>. HIDE DEF B, r
<1>4. IsABag(requests') /\ BagToSet(requests') \subseteq Request
  BY <1>1, <1>2, <1>3, PutRequest
<1>5. TypeOK'
  BY <1>4 DEF Answer, area, told, TypeOK
<1>. QED
  BY <1>5 DEF Answer, told, PendingSound, RejectedTokenGone, SignedOutStays

-----------------------------------------------------------------------------
(* An answer settles. *)

\* What all the ways to settle have in common.
LEMMA SettledTyped ==
  ASSUME AuthInv, NEW q \in BagToSet(requests), NEW a, Settled(q, a),
         NEW s \in {"succeeded", "failed"}, SettleQueue(q, s), SettleCase(q, s)
  PROVE  /\ q \in Request
         /\ IsABag(requests') /\ BagToSet(requests') \subseteq Request
         /\ queue' \in {"idle", "loading", "succeeded", "failed"}
         /\ items' \in BOOLEAN /\ route' \in {"index", "case"}
         /\ case' \in {"idle", "loading", "succeeded", "failed"}
         /\ accepted' \in Token /\ moves' \in 0 .. MaxMoves
         /\ signedOut' \in BOOLEAN
<1>. USE DEF AuthInv, TypeOK
<1>1. q \in Request
  OBVIOUS
<1>2. IsABag(requests') /\ BagToSet(requests') \subseteq Request
  BY TakeRequest DEF Settled
<1>. QED  BY <1>1, <1>2 DEF Settled, SettleQueue, SettleCase

LEMMA SucceedInv ==
  ASSUME AuthInv, NEW q \in BagToSet(requests), Succeed(q)
  PROVE  AuthInv'
<1>. USE DEF AuthInv
<1>. DEFINE a == IF q.kind = "verify" THEN VerifyFulfilled(auth, q.bearer) ELSE auth
<1>1. /\ Settled(q, a) /\ SettleQueue(q, "succeeded") /\ SettleCase(q, "succeeded")
      /\ stored' = (IF a.token = auth.token THEN stored ELSE a.token)
      /\ refused' = refused
  BY DEF Succeed
<1>2. auth \in Auth /\ stored = auth.token /\ refused \subseteq Token
  BY DEF TypeOK
<1>3. /\ a \in Auth /\ a.token \in {auth.token, auth.pendingToken}
      /\ a.pendingToken \in {None, auth.pendingToken}
      /\ a.verifying <=> a.pendingToken # None
      /\ a.verifying => a.token = None
      /\ a.token = None \/ a.token \notin refused
      /\ signedOut => a.token = None /\ a.pendingToken = None
  BY <1>2 DEF VerifyFulfilled, Auth, TypeOK, PendingSound, RejectedTokenGone, SignedOutStays
<1>. HIDE DEF a
<1>4. auth' = a /\ signedOut' = signedOut
  BY <1>1 DEF Settled
<1>5. TypeOK'
  BY <1>1, <1>2, <1>3, <1>4, SettledTyped DEF TypeOK
<1>. QED
  BY <1>1, <1>2, <1>3, <1>4, <1>5, SignInAssumption
     DEF PendingSound, RejectedTokenGone, SignedOutStays

LEMMA RefuseInv ==
  ASSUME AuthInv, NEW q \in BagToSet(requests), Refuse(q)
  PROVE  AuthInv'
<1>. USE DEF AuthInv
<1>. DEFINE b == TokenRejected(auth)
            a == IF q.kind = "verify" THEN VerifyRejected(b) ELSE b
<1>1. /\ Settled(q, a) /\ SettleQueue(q, "failed") /\ SettleCase(q, "failed")
      /\ StoreOnReject /\ refused' = refused \cup {q.bearer}
  BY DEF Refuse
<1>2. auth \in Auth /\ stored = auth.token /\ refused \subseteq Token
  BY DEF TypeOK
<1>3. b \in Auth /\ b.token = None /\ b.pendingToken = None /\ ~b.verifying
  BY <1>2 DEF TokenRejected, BearerOf, SignedOut, Auth, TypeOK
<1>4. a \in Auth /\ a.token = None /\ a.pendingToken = None /\ ~a.verifying
  BY <1>3 DEF VerifyRejected, Auth
<1>5. stored' = None
  BY <1>1, <1>2 DEF StoreOnReject, BearerOf
<1>. HIDE DEF a, b
<1>6. auth' = a /\ signedOut' = signedOut
  BY <1>1 DEF Settled
<1>7. q.bearer \in Token
  BY DEF TypeOK, Request
<1>8. TypeOK'
  BY <1>1, <1>2, <1>4, <1>5, <1>6, <1>7, SettledTyped DEF TypeOK
<1>. QED
  BY <1>4, <1>6, <1>8, SignInAssumption
     DEF TypeOK, PendingSound, RejectedTokenGone, SignedOutStays

LEMMA FailInv ==
  ASSUME AuthInv, NEW q \in BagToSet(requests), Fail(q)
  PROVE  AuthInv'
<1>. USE DEF AuthInv
<1>. DEFINE a == IF q.kind = "verify" THEN VerifyRejected(auth) ELSE auth
<1>1. /\ Settled(q, a) /\ SettleQueue(q, "failed") /\ SettleCase(q, "failed")
      /\ UNCHANGED <<stored, refused>>
  BY DEF Fail
<1>2. auth \in Auth /\ stored = auth.token /\ refused \subseteq Token
  BY DEF TypeOK
<1>3. /\ a \in Auth /\ a.token = auth.token
      /\ a.pendingToken \in {None, auth.pendingToken}
      /\ a.verifying <=> a.pendingToken # None
      /\ a.verifying => a.token = None
  BY <1>2 DEF VerifyRejected, Auth, TypeOK
<1>. HIDE DEF a
<1>4. auth' = a /\ signedOut' = signedOut
  BY <1>1 DEF Settled
<1>5. TypeOK'
  BY <1>1, <1>2, <1>3, <1>4, SettledTyped DEF TypeOK
<1>. QED
  BY <1>1, <1>2, <1>3, <1>4, <1>5, SignInAssumption
     DEF PendingSound, RejectedTokenGone, SignedOutStays

-----------------------------------------------------------------------------
LEMMA Inductive == AuthInv /\ [Next]_vars => AuthInv'
<1>. SUFFICES ASSUME AuthInv, [Next]_vars PROVE AuthInv'
  OBVIOUS
<1>1. CASE Next
  BY <1>1, SubmitInv, QuietInv, SessionInv, AnswerInv, SucceedInv, RefuseInv,
     FailInv DEF Next, Settle
<1>2. CASE UNCHANGED vars
  BY <1>2 DEF vars, area, told, AuthInv, TypeOK, PendingSound, RejectedTokenGone,
              SignedOutStays
<1>. QED  BY <1>1, <1>2

\* The modal is busy exactly while a token is pending, and storage holds who
\* is signed in.
THEOREM AuthTyped == Spec => []TypeOK
<1>1. AuthInv => TypeOK
  BY DEF AuthInv
<1>. QED  BY <1>1, InitInv, Inductive, PTL DEF Spec

\* A token that was refused does not sign the console in again, whatever is
\* still in flight.
THEOREM RefusedIsGone == Spec => []RejectedTokenGone
<1>1. AuthInv => RejectedTokenGone
  BY DEF AuthInv
<1>. QED  BY <1>1, InitInv, Inductive, PTL DEF Spec

\* No late answer and no reload signs in a reviewer who signed out.
THEOREM SignedOutForGood == Spec => []SignedOutStays
<1>1. AuthInv => SignedOutStays
  BY DEF AuthInv
<1>. QED  BY <1>1, InitInv, Inductive, PTL DEF Spec
=============================================================================

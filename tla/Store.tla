------------------------------- MODULE Store -------------------------------
(***************************************************************************)
(* The pilot database of app/store.py: six tables behind one SQLite        *)
(* connection.  Every Store method that touches the database is one        *)
(* statement, committed on its own while the RLock is held, so it is       *)
(* atomic; nothing groups two methods into one transaction.  Each method   *)
(* is an operator here: a write constrains the primed table it updates, a  *)
(* read is an expression over the current tables.                          *)
(*                                                                         *)
(* A row is named after the HTTP request that inserted it: a request       *)
(* inserts at most one row in each table, so the request stands for the    *)
(* autoincrement id, for review_ref or draft_ref, and for the time stamp.  *)
(***************************************************************************)
EXTENDS Integers, FiniteSets

CONSTANTS
  Req,       \* HTTP requests, each served once by a thread of the pool
  Conv,      \* conversation ids, one per phone call
  Worker,    \* worker ids known to the contract adapter
  Case,      \* case references
  Decision,  \* registry.DECISIONS
  CaseOf,    \* the case_ref in each worker's contract
  Bound,     \* the worker a conversation was bound to before the process
             \* under study started, or None
  None       \* SQL NULL, Python None

Tier   == 0 .. 2     \* rules.Tier, by its TIER_ORDER
NoTier == -1         \* no "tier" key in an audit row's detail

ASSUME ConstantsAssumption ==
  /\ CaseOf \in [Worker -> Case]
  /\ Bound \in [Conv -> Worker \cup {None}]
  /\ None \notin Req \cup Conv \cup Worker \cup Case \cup Decision

(***************************************************************************)
(* What a finding rests on: the records, or the caller's word              *)
(* (Finding.verified True and False).                                      *)
(***************************************************************************)
Finding == {"record", "statement"}

VARIABLES
  sessions,     \* call_session
  allegations,  \* allegation
  drafts,       \* draft
  reviews,      \* review_item, by review_ref
  transcripts,  \* transcript: the delivery whose body is kept, by call
  audit         \* audit_event

db == <<sessions, allegations, drafts, reviews, transcripts, audit>>

Session == [worker   : Worker \cup {None},
            case     : Case \cup {None},
            verified : BOOLEAN,
            attempts : Nat,
            locked   : BOOLEAN,
            consent  : BOOLEAN]

Allegation == [id : Req, case : Case]

Evidence == Req \X Finding     \* <<the check's audit row, a finding of it>>

Draft == [id : Req, case : Case,
          allegations : SUBSET Req, evidence : SUBSET Evidence]

Review == [case : Case, conv : Conv, tier : Tier, package : SUBSET Req,
           decision : Decision \cup {None}, decidedBy : Req \cup {None}]

ASSUME NoneAssumption == None \notin Review

NoSession == [worker |-> None, case |-> None, verified |-> FALSE,
              attempts |-> 0, locked |-> FALSE, consent |-> FALSE]

\* The tables the process opens: empty but for calls bound earlier.
InitStore ==
  /\ sessions = [c \in Conv |->
       IF Bound[c] = None THEN NoSession
       ELSE [NoSession EXCEPT !.worker = Bound[c],
                              !.case = CaseOf[Bound[c]],
                              !.verified = TRUE]]
  /\ allegations = {}
  /\ drafts = {}
  /\ reviews = [v \in Req |-> None]
  /\ transcripts = [c \in Conv |-> None]
  /\ audit = {}

-----------------------------------------------------------------------------
(* Sessions.  start_session inserts a row of defaults if there is none; a   *)
(* missing row and a row of defaults are the same value, NoSession, because *)
(* every reader treats them alike.                                          *)

\* Mutant: the flag is not set.
BindUnverified(c, w, k) ==
  sessions' = [sessions EXCEPT ![c].worker = w, ![c].case = k]

Bind(c, w, k) ==
  sessions' = [sessions EXCEPT ![c].worker = w,
                               ![c].case = k,
                               ![c].verified = TRUE]

\* Mutants: a third attempt is allowed; the lock is not written.
AttemptsSpentAtThree(c) == sessions[c].attempts > 2
LockSessionForgotten(c) == UNCHANGED sessions

\* fail_attempt is three statements; the lock is released between them.
CountFailure(c) == sessions' = [sessions EXCEPT ![c].attempts = @ + 1]
AttemptsSpent(c) == sessions[c].attempts >= 2

LockSession(c) == sessions' = [sessions EXCEPT ![c].locked = TRUE]

SetCallbackConsent(c) == sessions' = [sessions EXCEPT ![c].consent = TRUE]

-----------------------------------------------------------------------------
(* Allegations and drafts.                                                 *)

\* Mutant: one allegation per case, the latest.
AddAllegationUpsert(r, k) ==
  allegations' = {a \in allegations : a.case # k} \cup {[id |-> r, case |-> k]}

AddAllegation(r, k) ==
  allegations' = allegations \cup {[id |-> r, case |-> k]}

AllegationsOf(k) == {a.id : a \in {b \in allegations : b.case = k}}

CreateDraft(r, k, statements, evidence) ==
  drafts' = drafts \cup {[id |-> r, case |-> k,
                          allegations |-> statements,
                          evidence |-> evidence]}

-----------------------------------------------------------------------------
(* Reviews.                                                                *)

ReviewRefs == {v \in Req : reviews[v] # None}

OpenReviews(k, c) ==
  {v \in ReviewRefs : /\ reviews[v].case = k
                      /\ reviews[v].conv = c
                      /\ reviews[v].decision = None}

\* Mutant: IS NOT NULL for IS NULL.
ActiveReviewDecided(k, c) ==
  \E v \in ReviewRefs : /\ reviews[v].case = k
                        /\ reviews[v].conv = c
                        /\ reviews[v].decision # None

ActiveReview(k, c) == OpenReviews(k, c) # {}

CreateReview(r, k, c, tier, package) ==
  reviews' = [reviews EXCEPT ![r] =
    [case |-> k, conv |-> c, tier |-> tier, package |-> package,
     decision |-> None, decidedBy |-> None]]

\* Mutant: the decision column is left out of the UPDATE.
DecideBlank(v, r, d) == reviews' = [reviews EXCEPT ![v].decidedBy = r]

\* An unconditional UPDATE: no WHERE decision IS NULL.
Decide(v, r, d) ==
  reviews' = [reviews EXCEPT ![v].decision = d, ![v].decidedBy = r]

-----------------------------------------------------------------------------
(* Transcripts: INSERT OR IGNORE, the row count tells which it was.        *)

HasTranscript(c) == transcripts[c] # None

\* Mutant: INSERT OR REPLACE.
SaveTranscriptReplace(r, c) == transcripts' = [transcripts EXCEPT ![c] = r]

SaveTranscript(r, c) ==
  transcripts' = IF HasTranscript(c) THEN transcripts
                 ELSE [transcripts EXCEPT ![c] = r]

-----------------------------------------------------------------------------
(* The audit table; triggers refuse UPDATE and DELETE.                     *)

\* Mutant: one row per case.
InsertAuditUpsert(row) ==
  audit' = {a \in audit : a.case # row.case} \cup {row}

InsertAudit(row) == audit' = audit \cup {row}

AuditFor(k) == {a \in audit : a.case = k}
=============================================================================

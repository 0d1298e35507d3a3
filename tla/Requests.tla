------------------------------ MODULE Requests ------------------------------
(***************************************************************************)
(* The thread pool that serves the endpoints of app/main.py.  FastAPI runs *)
(* each synchronous endpoint in a thread of its own, so between any two    *)
(* Store operations of one request any operation of another may happen.    *)
(* A request is idle until a client sends it, then at the label of its     *)
(* next Store operation, then done (its answer is sent) or lost (the       *)
(* process died while serving it; systemd starts a new one on the same     *)
(* database file).                                                         *)
(***************************************************************************)
EXTENDS Store

CONSTANTS
  Calls,      \* the calls clients may make
  Outcomes,   \* what the pure rules may do: CheckOutcome, or None: raise
  MaxCrashes  \* bound on the number of process crashes

Tool == {"verify_session", "check", "record_allegation", "draft_complaint",
         "send_to_review", "transfer_to_human", "decide", "post_call",
         "review_detail"}

(***************************************************************************)
(* The bodies the endpoints accept, after normalisation.  "check" stands   *)
(* for check_wage, check_payment_timing and check_settlement, which differ *)
(* only in the rule they run.  pin says whether the one-time code is the   *)
(* worker's; period whether it matches PERIOD; a worker, tier or decision  *)
(* of None or NoTier is one the service does not know; turns whether the   *)
(* body of a delivery holds turns the console can list.                    *)
(***************************************************************************)
VerifyCall   == [tool : {"verify_session"}, conv : Conv, case : Case,
                 worker : Worker \cup {None}, pin : BOOLEAN]
CheckCall    == [tool : {"check", "record_allegation"}, conv : Conv,
                 case : Case, period : BOOLEAN]
DraftCall    == [tool : {"draft_complaint"}, conv : Conv, case : Case,
                 confirmed : BOOLEAN]
QueueCall    == [tool : {"send_to_review"}, conv : Conv, case : Case,
                 tier : Tier \cup {NoTier}]
TransferCall == [tool : {"transfer_to_human"}, conv : Conv,
                 callback : BOOLEAN, consent : BOOLEAN]
DecideCall   == [tool : {"decide"}, review : Req,
                 decision : Decision \cup {None}]
WebhookCall  == [tool : {"post_call"}, conv : Conv, turns : BOOLEAN]
DetailCall   == [tool : {"review_detail"}, review : Req]

Call == VerifyCall \cup CheckCall \cup DraftCall \cup QueueCall
        \cup TransferCall \cup DecideCall \cup WebhookCall \cup DetailCall

CheckOutcome == [tier : Tier, findings : {{}, {"record"}}]

ASSUME CallsAssumption ==
  /\ Calls \subseteq Call
  /\ Outcomes \subseteq CheckOutcome \cup {None}
  /\ MaxCrashes \in Nat
  /\ None \notin Call

VARIABLES
  call,    \* the call each request carries, None before it is sent
  pc,      \* the Store operation each request performs next
  mem,     \* the local variables of each request's handler
  before,  \* history: the requests answered before this one was sent
  crashes  \* number of crashes so far

requestVars == <<call, pc, mem, before, crashes>>

\* Labels a verify_session, transfer_to_human, ... thread may be at.
Label == {"session", "bind", "fail_attempt", "fail_read", "lock",
          "set_consent", "scoped", "add_allegation", "draft_allegations",
          "draft_evidence", "create_draft", "active_review", "floor",
          "package", "create_review", "review", "has_transcript",
          "decide", "transcript", "allegations", "latest_draft",
          "audit_for", "save_transcript", "audit"}

Result == {"none", "session_not_verified", "case_scope_violation",
           "dependency_unavailable", "invalid_period",
           "verification_locked", "verification_failed", "already_bound",
           "already_verified", "verified", "checked", "allegation",
           "out_of_scope", "not_confirmed", "drafted", "invalid_tier",
           "already_queued", "queued", "callback_without_consent",
           "callback", "transfer", "not_found", "already_decided",
           "invalid_decision", "transcript_pending", "decided", "stored",
           "duplicate", "undecided", "raised"}

\* result and case are what the audit row will say ("raised": an exception
\* left the handler); the rest is what the handler has read so far, body the
\* delivery whose transcript it has in hand.
Memory == [result : Result, case : Case \cup {None},
           worker : Worker \cup {None}, tier : Tier \cup {NoTier},
           findings : SUBSET Finding, package : SUBSET Req,
           evidence : SUBSET Evidence, body : Req \cup {None},
           draft : Req \cup {None}]

NoMemory == [result |-> "none", case |-> None, worker |-> None,
             tier |-> NoTier, findings |-> {}, package |-> {},
             evidence |-> {}, body |-> None, draft |-> None]

AuditRow == [by : Req, action : Tool, result : Result, conv : Conv,
             case : Case \cup {None}, tier : Tier \cup {NoTier},
             findings : SUBSET Finding]

InitRequests ==
  /\ call = [r \in Req |-> None]
  /\ pc = [r \in Req |-> "idle"]
  /\ mem = [r \in Req |-> NoMemory]
  /\ before = [r \in Req |-> {}]
  /\ crashes = 0

InFlight(r) == pc[r] \in Label

-----------------------------------------------------------------------------
(* Steps of a handler. *)

At(r, label, tools) == pc[r] = label /\ call[r].tool \in tools

\* Continue at label with local variables m.
Go(r, label, m) ==
  /\ pc' = [pc EXCEPT ![r] = label]
  /\ mem' = [mem EXCEPT ![r] = m]
  /\ UNCHANGED <<call, before, crashes>>

\* Audit the result for case k, then answer it (service._refuse and the
\* audit-and-return of every handler).
Answer(r, result, k) ==
  Go(r, "audit", [mem[r] EXCEPT !.result = result, !.case = k])

\* The first Store operation each endpoint performs.
FirstLabel(tool) ==
  CASE tool \in {"verify_session", "transfer_to_human"} -> "session"
    [] tool \in {"decide", "review_detail"}             -> "review"
    [] tool = "post_call"                               -> "save_transcript"
    [] OTHER                                            -> "scoped"

Arrive(r) ==
  /\ pc[r] = "idle"
  /\ \E k \in Calls :
       /\ call' = [call EXCEPT ![r] = k]
       /\ pc' = [pc EXCEPT ![r] = FirstLabel(k.tool)]
  /\ before' = [before EXCEPT ![r] = {q \in Req : pc[q] = "done"}]
  /\ UNCHANGED <<mem, crashes>>
  /\ UNCHANGED db

\* The call an audit row is about; a decision is audited under the
\* conversation of the review it decides.
ConvOf(r) == IF call[r].tool = "decide" THEN reviews[call[r].review].conv
             ELSE call[r].conv

\* record_allegation writes the allegation after its audit row; every other
\* handler answers once the row is written.
Audit(r) ==
  /\ pc[r] = "audit"
  /\ InsertAudit([by |-> r, action |-> call[r].tool,
                  result |-> mem[r].result, conv |-> ConvOf(r),
                  case |-> mem[r].case, tier |-> mem[r].tier,
                  findings |-> mem[r].findings])
  /\ Go(r, IF mem[r].result = "allegation" THEN "add_allegation" ELSE "done",
        mem[r])
  /\ UNCHANGED <<sessions, allegations, drafts, reviews, transcripts>>

\* The process dies: every thread is gone, every committed row stays.
Crash ==
  /\ crashes < MaxCrashes
  /\ \E r \in Req : InFlight(r)
  /\ crashes' = crashes + 1
  /\ pc' = [r \in Req |-> IF InFlight(r) THEN "lost" ELSE pc[r]]
  /\ mem' = [r \in Req |-> IF InFlight(r) THEN NoMemory ELSE mem[r]]
  /\ UNCHANGED <<call, before>>
  /\ UNCHANGED db
=============================================================================

# RBE-Mohre in TLA+

A voice agent takes wage complaints. A hosted agent (ElevenLabs) talks to the
worker and calls the tools of a FastAPI service; a person decides every case.
This directory holds TLA+ models of that service, of its rules and of the two
browser consoles, the TLC runs that check them and the TLAPS proofs about them.

Paths below are relative to the repository; `service.py`, `store.py`, `rules.py`
and `main.py` are under `app/`.

    tlc -workers 2 -config <run>.cfg <Module>     tlapm <Module>_proofs.tla

## 1. Inventory

| Component | State it keeps | Operations | Modelled in |
|---|---|---|---|
| Store, `app/store.py` | SQLite: sessions, allegations, drafts, reviews, transcripts, audit; one connection, one lock, a commit per write | one method per statement; `fail_attempt` is three writes with a read in between | `Store` |
| Agent tools, `app/service.py` | none of its own; locals of the request | `verify_session`, `check_wage`, `check_payment_timing`, `check_settlement`, `record_allegation`, `draft_complaint`, `send_to_review`, `transfer_to_human` | `Requests`, `CallTools` |
| Specialist desk, `service.py`, `main.py` | as above | `decide`, `review_detail`, post-call webhook; lists (`queue`, `audit`) | `ReviewDesk`, `HumanGate` |
| Rules, `app/rules.py`, `data/rules.json` | none | scope, wage, timing, gratuity and settlement, allegation | `Rules`; for the service, which tier and findings come back |
| HTTP edge, `app/main.py`, `app/registry.py` | rate-limiter windows | routes, body validation, bearer checks, signed URL | routes as requests; the reviewer bearer check in `SpecialistAuth` |
| Adapters, signature, normalise, quality, settings | none | lookups, HMAC check, string rewriting, offline metric | adapters by outcome and fields; others not |
| Voice call console, `web/.../features/caller`, `services/voice` | Redux slice, `voiceAgent`'s generation and conversation, SDK sessions, route, leave dialog | `startCall`, `endCall`, mute, SDK callbacks, navigation | `VoiceCall` |
| Case review console, `web/.../features/specialist` | case slice, decision slice, the panel's form, effects, requests in flight | open, retry, pick, decide, cancel, refetch; the page's cards | `CaseReview`, `CasePage` |
| Sign-in and queue console | auth slice, its copy in sessionStorage, queue slice, route, requests in flight | verify, sign out, refresh, open, 401 interceptor, reload; the server's reviewer bearer check | `SpecialistAuth` |
| Layout, UI kit, agent configuration, deployment | none that matters | | `Restart=on-failure` as a crash |

How they interact. The agent calls a tool: a route of `main.py` runs the
service method in a worker thread, the method calls the store several times,
each call taking the one lock, and ends with an audit row. The webhook stores a
transcript in the same way, and may be redelivered. The specialist's console
reads and decides reviews over the same API. Nothing spans two store calls: no
transaction, no lock held across them. In the browser every callback runs to its
end, but answers of the server, callbacks of the SDK, React effects and the
user's clicks come in any order.

What is hard is therefore the same on both sides: a value is read, other things
happen, and it is used. On the server the "other things" are requests of the
same call, the same case or the same review, and the death of the process; in
the browser they are answers for a screen the user has left and sessions the
service has given up on. The rules are hard at their boundaries instead: the
first and fifth year, the cap, half fils, the due date on which the law changes.
`PROJECT.json` lists each such place with the line it bites at and the property
about it.

What makes each component correct:

- *tools*: a call only reaches the records of the worker verified on it;
  lockout is final; what a caller was told (a binding, an allegation, a
  finding, a tier) is reflected in what is filed later; every answer has its
  audit row;
- *desk*: one open review per call and case; decided once; never before the
  transcript is stored; the first delivery is kept;
- *rules*: no number for whom they do not cover; the resolution in force on the
  due date; what is said to be missing is exactly what is missing; gratuity
  never falls with service;
- *page*: a page asked for after an answer shows that answer; a fact shown as
  verified is traceable on the same page; the page offers the decision only
  where the service takes it;
- *voice call*: a session that is up is always one the application can close;
  what the screen shows is the last call's; an attempt to connect ends, and a
  screen whose call is over is left;
- *sign-in*: a token the server refused does not come back by itself; signed out
  stays signed out; no spinner stays; who is signed in was confirmed by the
  server;
- *case review*: no decision is shown as recorded that was not; the lock and the
  duplicate check hold; the screen stops loading, on the case in the address bar
  or on an error page, and never on another case; the panel settles on an outcome.

## 2. The service

### Modules

    Store                tables; one operator per statement or read
      Requests           a request: its call, its label, its locals; Arrive, Audit, Crash
        CallTools        the steps of the agent's tools
        ReviewDesk       the steps of decide, review_detail and the webhook
          ControlPlane   (EXTENDS both) Next, Spec, FairSpec, the properties
            CasePage               the page review_detail's answer becomes
              MCControlPlane         instances for TLC
            ControlPlane_proofs    type correctness
              Safety_proofs          what a step leaves alone; gate, binding, scope;
                                     what was answered stays so
                Casework_proofs        what was found reaches the casework
                  Desk_proofs            the service implements HumanGate; the page
    HumanGate            abstract specification, INSTANCEd by ControlPlane
    Rules                the checks            MCRules: records at the boundaries
      Rules_proofs         of every record, month and wage
    VoiceCall, CaseReview, SpecialistAuth      the consoles
      VoiceCall_proofs, CaseReview_proofs, SpecialistAuth_proofs

`db` is the store's tables (`sessions`, `allegations`, `drafts`, `reviews`,
`transcripts`, `audit`). A request `r \in Req` has a call (`call[r]`), a control
point (`pc[r]`) and locals (`mem[r]`). A label names the store operation the
thread does next, so between any two of them every other request may run: this
is the interleaving FastAPI's thread pool and the store's lock give. `Arrive`
sends a request, from `Calls` and at any time; `Audit` writes the row every
handler ends with and answers; `Crash` kills the process, losing the requests
being served and keeping every committed row (systemd restarts it).

A handler is the sequence of its labels. `verify_session`, for example, is
`session` (read; refuse if locked, answer if already this worker's, otherwise
match the credentials) then `bind`, or `fail_attempt`, `fail_read` and `lock`,
then `audit`. `review_detail` is `review`, `transcript`, `allegations`,
`latest_draft`, `audit_for`: five reads, each of its own moment. `check` stands
for the three check tools, which differ only in what the rules compute; that is
`Outcomes` here (`None` when the rule raises, and the request is answered 500)
and `Rules` below.

`before[r]` is a history variable: the requests that had been answered when `r`
was sent. It lets a property say "after a client was told X" without claiming
anything of requests that overlap.

### Abstractions

Text, JSON, money and time are left out. An allegation, draft or review is
identified by the request that made it. A check's result is a tier and whether
it found something in the records; `Finding` keeps `"record"` apart from
`"statement"`, because only the first may become evidence. One-time codes are
"right" or "wrong". Bearer tokens, HMAC and body validation are not modelled:
the model takes the requests that pass them. Wall-clock order of rows is the
order in which requests were asked for and answered; two that overlap may get
either order.

### Abstract specification

`HumanGate` says what the service promises about human review: an item is
queued for a topic on a channel, at most one open at a time; it is ruled on
once, after the channel's transcript is readable. `KeepsGate` (run `desk`) says
that `ControlPlane` implements it under the mapping `Gate`, step by step, but for
a `RacingStep`: a step of a request that overlaps with one it contends with,
another decision of the same review or another `send_to_review` for the same call
and case. Those steps do break it; run `redecide` shows one of the ways. Every
other interleaving, of the webhook, drafts, checks and reads, keeps it.

### The page

`CasePage` is what `review_detail`'s answer becomes in the browser:
`ToCaseView` is `reviewApi.ts`'s mapping, and one operator per card is what the
card shows of it. The page is a function of what the handler had in hand when it
read the last of its five tables, so the module EXTENDS `ControlPlane` and its
properties are about the step `DetailAudit`: `PageKeepsUp`, `FactsTraced` and
`GatesAgree` join what a client was told, what was stored and what a person
sees. Rows are shown without their times and order.

## 3. The rules

`Rules` has one operator per function of `rules.py`, over records with amounts in
thousandths of a dirham and days as numbers, so that rounding to fils, due
dates over a year's end and leap days are what the code computes. `Gratuity` is
a set: `Decimal` divides before it multiplies, and where the exact amount is half
a fils and a quotient is not exact the result may fall on either side; elsewhere
it is one amount. `Raised` is the `LookupError` of `select_timing_rule`, which
`_run` does not catch (`CheckRaises` in `CallTools`). A step asks one tool about the worker's record, or gives
the contract an end date a day later (`ServeOn`), which is what lets
`GratuityGrows` be an action property. The properties are stated without the
module's own operators where that is possible: `TimingByLaw` has the calendar
and the two resolutions written out again, `GapCloses` corrects the record by the
amount found and asks the check again.

`NoNumberOutOfScope` speaks of the month a check was asked about:
`settlement_check` is given none, so a wage claim before a court does not stop it.

## 4. The consoles

`CaseReview`: the slice, `CaseReviewScreen`'s and `DecisionPanel`'s effects, the
option picked, and bags of the GETs and POSTs in flight. Requests are answered in
any order, may fail on either leg, and are not aborted. `noticed` is the
dependency list the panel's effect last ran for. The server is what `ControlPlane`
proves of it: a review is decided once and with its transcript stored. Another
specialist may decide meanwhile. Errors are kept by kind where the screen behaves
differently: a 404 offers no retry, a refusal by the lock is not one by a decision.

`VoiceCall`: one action per browser task, with the microtasks it leaves behind.
A call is one `startCall` thunk past its condition; `pc` says what it awaits (the
microphone, the signed URL, the end of the previous session, the import of the
SDK, the session). `generation` and `conversation` are `voiceAgent`'s own; the
SDK is external: a session comes up, fails, comes up late, ends, and delivers
turns, errors and disconnects; `disconnect` comes only after `startSession` has
resolved. The screen side is the route, the screen's redirect when its call ends
(`FollowEnd`), the blocker's dialog (`asking`) and `confirmLeave`, which waits for
`endCall` and then navigates wherever the worker is (`leaving`, `aside`). The
timer, the frozen duration, the mute and the error are kept by the call they
are about, since what could go wrong is that they are another call's.

`SpecialistAuth`: `auth` is the auth slice (`token`, `pendingToken`, `verifying`,
`error`), `stored` the copy in sessionStorage, `queue` and `items` the queue
slice, `route` and `case` the page beside it, `requests` a bag of what is in
flight under `/review`, each with the bearer the request interceptor gave it and,
once it is there, its answer. One action per browser task: settling a request
runs the response interceptor, the thunk that awaits it and their reducers. The
reducers are operators of an auth record, since a refused verification runs two of
them in a row (the 401 handler's, then `verify.rejected`). The server confirms a
bearer by comparing it with `REVIEWER_TOKEN`, which the operator may change by a
restart (`Rotate`). A reload empties the slices, drops what is in flight and starts
from `stored`. `refused` and `signedOut` are history: the tokens the console was
told are wrong and nobody has entered since, and whether the last thing the
reviewer did about the session was to leave it.

## 5. Runs

| Run | Asks | Instance and why it is enough |
|---|---|---|
| `tools` | who a call is bound to, what lockout guarantees; what is filed, from which findings, at which tier, with which audit rows; that the page keeps up with it | 3 requests, 2 calls, one verified (`FirstBound`), a crash: two failures and an attempt after them; a check, an allegation or a draft and what is filed or read after it; two calls on a case |
| `desk` | the decision lock, the refinement of `HumanGate`, deliveries, and pages read in the middle of it all | 4 requests: a check, a draft or a delivery, a review, a decision and a page in any interleaving, or two reviews, two decisions, two deliveries |
| `everytool` | that every request is answered; type invariant | 2 requests, every tool and every refusal, every check outcome, a crash, fairness |
| `rules` | the checks at their boundaries | 280 records: amounts around the wage with half fils, days around both deadlines in twelve months (a rule change, a leap day, 2100 without one, the calendar's end), service around one year, five years and the cap, every regime and claim |
| `casereview` | late and failing answers, delayed effects | 2 reviews, 2 decisions, 3 clicks (open another, come back, decide) |
| `voicecall` | sessions and screens out of step | 3 calls: one ending, one abandoned while connecting, one new |
| `signin` | sessions and requests out of step | 2 tokens, 5 moves: sign in, use, lose the session, sign in again and once more, with the requests of each session still in flight |
| `rebind`, `redecide`, `resubmit`, `bleed`, `unconfirmed` | statements of the documents, comments and tests that the code does not keep | the smallest instance that shows it |

`Req` is a symmetry set in `tools` and `rebind`, and but for `r1`, the review that
is decided and read, in `desk` and `redecide`; these check invariants and action
properties only. `HumanGate`'s items are `Req`, and it is symmetric in them and
has no liveness. The bounds are `Req`, `Conv`, `Worker`,
`Case`, `Calls`, `Outcomes`, `MaxCrashes`, `MaxMoves`, `MaxCalls`, `Records` and
`Periods`; nothing else is bounded. The service's runs check deadlock:
`Finished` is the one way to stop. The consoles' runs do not, since a user may
really stop and the system then waits; nor does `rules`, where a caller may ask
nothing more.

### Properties worth a word

- `BindOnce`, `LockoutHolds`, `TwoFailuresLock`, `DecideOnce` speak of requests of
  which one had been answered before the other was sent. For overlapping requests
  the same statements are false, and two of the findings are exactly that.
- `BoundByCredentials` and `OwnRecordsOnly` hold for overlapping requests too:
  whichever verification wins, the binding is one somebody proved, and the
  worker's records a tool reads are those of the case it was asked about.
- `TierFloor` counts tiers answered before the review was asked for. A check
  answered while the review is being built may have a higher tier.
- `AuditTrail` speaks of requests that were answered. A check whose rule raises
  (`CheckRaises`: no timing rule covers the month, or the due date is past 9999)
  is answered 500 and leaves no row, although "Every tool call, refusal, webhook
  and decision writes an `audit_event` row" (docs/architecture.md:111): the
  property names this exception, the only one among the tools. "Same transaction as the
  audit row" (docs/architecture.md:129) is not what the code does: review and
  audit row are two commits, and a crash between them leaves a review nobody
  audited.
- `EvidenceIsRecords` excuses a check lost in a crash: its audit row may exist
  while its answer was never sent.
- `PageKeepsUp` asks that what was answered is on the page, not that nothing else
  is: a refused draft is also shown as "Draft prepared", a clear check is counted
  among the refusals, and a drafted case shows the first confirmation's time under
  its latest draft. The webhook's row has no case, so "Transcript stored" is on no
  page; the model keeps that.
- `GatesAgree` is what makes a stale page safe: the transcript is read before the
  decision is offered and never goes away. The lock follows the stored row and
  the first tab the turns in its body, so a delivery without turns gives a page
  that says "Ready to decide" and "No transcript is stored for this case." at
  once. The property says exactly that; run `desk` delivers both kinds.
- `Settles` says that the screen stops loading and does not stay on another case.
  It allows an error page that is another case's: a failure that arrives late
  blanks the case on screen, and if it is a 404 no retry is offered.
- `GapCloses` leaves out the half-fils tie: where `Gratuity` may return either of
  two amounts, an offer a fils short of the larger may be found enough.
- `DecisionSeen` says a recorded decision is shown, not that it stays shown:
  an older GET that is answered later replaces it until the next refresh.
- `SubmitSettles` holds although `submitDecision.rejected` is not told whose
  failure it is: the failure of another case's submit also ends "Recording...".
- `MicHeld` says that the session that is up is the one the service can close.
  If a second start fails at the microphone or at the signed URL while an
  earlier session is live in the background, that session stays up until the
  next connect, the end of the call or the page: the property allows it.
- `CallIsLive` has no converse: `endCall.fulfilled` of a slow `endSession()`
  can end, on the screen, a later call that has connected.
- `ShownIsOwn` lets the error of an attempt stay until the next attempt is past
  the microphone, as the code does.
- `RejectedTokenGone` has no converse: a late 401 for an old bearer also drops a
  newer, confirmed token, since the handler looks at what the bearer is now.
- `NothingSpins` holds although a late 401 detaches a verification from the
  modal: whatever settles, verifying ends. An error page counts as settled.

### Fairness

Service: weak fairness of each request's thread (`Serve(r)`): an operation waits
only for a lock that is held for one statement. Nothing is assumed of clients
or crashes. `CaseReview`: requests settle (axios gives up after
`DEFAULT_TIMEOUT_MS`) and React runs scheduled effects. `VoiceCall`: the signed
URL is answered or times out, the import settles, the connect timer fires, React
runs the screen's redirect, and the SDK's `endSession()` settles; the last is an
assumption about the SDK. The microphone prompt and every click owe nothing.
`SpecialistAuth`: requests settle (`Settle`, by their answer or axios' timeout)
and the effects of the panel, the index and the page of a case run while they are
shown.

## 6. Findings

| Run | What the code does | What is said of it |
|---|---|---|
| `rebind` | two overlapping `verify_session` calls bind the call twice, to two workers | "One call, one worker, one case." (README.md:44) |
| `redecide` | two overlapping decisions are both stored and both answered ok | "each review item is decided exactly once" (docs/adr/D8:8) |
| `resubmit` | opening another case and returning lets the same decision be submitted while the first is in flight | "Block duplicate submits while one is already in flight." (caseSlice.ts:146) |
| `bleed` | turns of an earlier session enter the new call's transcript until `connect()` raises the generation | "The previous call's transcript must not bleed into the new session." (callSessionThunks.test.ts:234) |
| `unconfirmed` | a late 401 reopens the modal during a verification; another token entered then is signed in when the first verification succeeds | "VERIFIED bearer token - set only after the server confirms it" (specialistAuthSlice.ts:37) |

## 7. Theorems

The service's are about `Spec` of `ControlPlane`, for any number of requests,
calls, workers, cases and crashes, from the assumptions `ConstantsAssumption` and
`NoneAssumption` (`Store`) and `CallsAssumption` (`Requests`), and for `GateKept`
`EntryAssumption` (`ControlPlane`: `None` is no entry of the queue); the consoles'
are about their own `Spec`, for any number of calls (`MaxCallsAssumption`), of
reviews and clicks (`ScreenAssumption`; `ErrorAssumption` and `EntryAssumption` say
that `null` is neither an error nor an item), of tokens and moves
(`SignInAssumption`); those of `Rules` are about any records of the adapters' types
and any months that the edge's pattern lets through (`RulesAssumption`).
TLC evaluates each assumption in the runs of its module.

| Module | Theorem | Property |
|---|---|---|
| `ControlPlane_proofs` | `TypeCorrect` | `TypeOK` |
| `Safety_proofs` | `NoBlindDecision` | `DecisionNeedsTranscript` |
| | `OnlyTheWorkerIsBound` | `BoundByCredentials` |
| | `NoForeignRecords` | `OwnRecordsOnly` |
| | `NoUnprovedCasework` | `CaseworkProved` |
| | `DecidedOnce` | `DecideOnce` |
| | `BoundOnce` | `BindOnce` |
| | `LockedForGood` | `LockoutHolds` |
| | `TwoFailuresLockTheCall` | `TwoFailuresLock` |
| `Casework_proofs` | `NothingUnaudited` | `AuditTrail` |
| | `FirstDeliveryStays` | `FirstDeliveryKept` |
| | `EvidenceFromRecords` | `EvidenceIsRecords` |
| | `NoFindingLeftOut` | `EvidenceComplete` |
| | `AllegationsReachReview` | `AllegationsKept` |
| | `TierNeverBelowFloor` | `TierFloor` |
| `Desk_proofs` | `GateKept` | `KeepsGate` |
| | `LockNeverLooser` | `GatesAgree` |
| | `FactsAreTraced` | `FactsTraced` |
| | `PageIsUpToDate` | `PageKeepsUp` |
| `VoiceCall_proofs` | `CallIsTyped` | `TypeOK` |
| | `OneMicrophone` | `MicHeld` |
| | `ConnectedIsLive` | `CallIsLive` |
| | `OneStartCall` | `OneAttempt` |
| | `ShownIsTheLastCalls` | `ShownIsOwn` |
| `CaseReview_proofs` | `RecordedByServer` | `RecordedIsReal` |
| | `LockRespected` | `NoLockedSubmit` |
| | `ScreenTyped` | `TypeOK` |
| | `ServerKeepsGate` | (the server's steps are steps of `HumanGate`) |
| `SpecialistAuth_proofs` | `AuthTyped` | `TypeOK` |
| | `RefusedIsGone` | `RejectedTokenGone` |
| | `SignedOutForGood` | `SignedOutStays` |
| `Rules_proofs` | `ScopeComesFirst` | `NoNumberOutOfScope` |
| | `JudgedByItsOwnRule` | `TimingByLaw` |
| | `GapIsWhatIsMissing` | `GapCloses` |
| | `ServiceNeverCosts` | `GratuityGrows` |

`ControlPlane_proofs`. `TypeOK` is not inductive: a step reads fields of
`call[r]` that only some tools have, and locals that an earlier step must have
set. `Shape` relates a request's label to the kind of its call and to its
locals; `TypeOK /\ ShapeOK` is inductive, with one lemma per action.

`Safety_proofs`. First, what a step leaves alone: a step of `r` changes `pc` and
`mem` only at `r`, and at most one table; everything later rests on these lemmas,
one per group of actions. For the gate: a request that is about to store a decision has
seen the transcript, and neither reviews nor transcripts are ever taken away.
For scope: a request about to bind has matched its credentials (`Matched`), one
about to file something has passed the scope check (`Cleared`), a request that
has not started has blank locals (`IdleBlank`); with these
`BoundByCredentials`, `OwnRecordsOnly` and `CaseworkProved` are inductive
together. `Cleared` remembers a proof, not the session, because the session may
be bound again before the request files.

In the same module, what was answered stays so: three properties relate
two requests in real time. The argument has two halves: an answer that was given left its mark in a table
(`DecidedTold`, `VerifiedTold`, `LockedTold`), and a request sent after that
answer reads the mark first and stops there (`DecideLate`, `VerifyLate`,
`LockLate`). `BeforeDone` says that `before[r]` holds finished requests only,
so that nothing they did can change.

For the lockout, two answers of failure must show in the counter although the
counter and the lock are separate statements. `FailuresCounted` says that a
request that has counted a failure shows in the count, and that two of them make
it two; so of two, whichever reads the count last reads two, locks the call and
is answered as locked (`OneMerelyFailed`). With `LockLate`
every later request is refused.

`Casework_proofs`. Two invariants. `RowsInv` is about the audit rows: a handler's
findings and tier are settled before its row is written (`RuleKnown`), a row
agrees with the request that wrote it (`RowFaithful`), and the row is there once
the request is answered or its allegation stored (`RowThere`). `CaseInv` is about
what is derived from the rows: an allegation that was answered is stored
(`AllegationTold`), and from the read on, through a handler's locals, into the
stored draft or review, nothing answered before is dropped (`PackageKept`,
`EvidenceKept`, `TierKept`) and nothing else gets in (`EvidenceReal`). The
properties speak of the tables only; without the locals in between they are not
inductive.

`Desk_proofs`, the gate. A step that writes the review table maps to `Enqueue` or `Rule` of
`HumanGate` when the table is still as the handler saw it. `RaceInv` covers the
rest: a handler past its check that finds its review decided (`DecidersRace`), or
one open for its case and call (`QueuersRace`), was overlapped by the request
that wrote it, which is past its own write; so the step is a `RacingStep`. Every
other step leaves what the gate sees as it was, or publishes a first transcript.

`Desk_proofs`, the page. `review_detail` reads five tables at five moments, so the
properties relate what was answered before the page was asked for with locals read
since. `DraftsInv`, `AnswersTrue` and `TierTold` say that the tables hold what was
answered; `ReadersInv` carries that through the handler: once a table is read, what
was answered before (`ToldDecided`, `ToldOfCase`) is in the local (`ReadSoFar`), and
a later read only adds. That the page's latest draft is the one answered last needs
no finiteness of `Req`: a new draft is always among the latest, and the latest of a
page stays one as long as no newer is filed. `FactsTraced` holds because the draft
is read before the audit rows; in the other order it would not be provable, nor true.

`CaseReview_proofs`. Neither safety property is inductive: what matters is what is in
flight. `AnswersTrue` says that every answer, sent or shown, was true and still
is, since the server only adds (`ServerGrows`): a stored transcript stays, a
decision is not replaced. So an unlocked panel means a stored transcript however
old its answer is, and a late outcome of another case is still about that case.
For the types, `ScreenOK` adds that an error is there exactly when something failed
and that a loaded page has a case; bags stay bags because each handler sends, settles or
answers one request at a time (`Moved`). The server in this module is written from
the service's contract, so it is proved to be one: seen as a queue with an item for
each review, it takes only steps of `HumanGate` (`ServerKeepsGate`), the module the
service is proved to implement but for racing requests.

`VoiceCall_proofs`. `MicHeld` is not inductive: a session that comes up must not
find another one held, and a disconnect must not be ignored as one of an older
generation. `connect()` drops the conversation before it dials and both `connect()`
and `end()` start a generation, so a thunk whose generation is current finds no
conversation (`NoneBeside`), and the conversation that is there is of the current
generation (`HeldIsCurrent`). `OneAttempt` is needed for both: `Start` waits for
the status, and every other writer of the status is the running thunk or writes
only while a call is active. `Core` holds these parts; the screens and the
displayed fields are carried beside it (`UiOK`, `ShownOK`), and one lemma per
group of actions shows each is kept. `ShownIsOwn` rests on the calls being numbered:
only the last one runs or is connected, a generation belongs to one call, and what
an ending call still does finds its generation stale (`OwnInv`).

`SpecialistAuth_proofs`. What a late answer promotes is `pendingToken`, so the
invariant says of it what the properties say of `token` (`PendingSound`): it is
not refused, and there is none after a sign-out. A refusal drops the bearer it
finds, whichever it is; that is why both properties hold although the answers
come in any order. Two lemmas on bags (`PutRequest`, `TakeRequest`) carry the
type of what is in flight.

`Rules_proofs`. Every state property is a fact about any record, so the invariant is
only that the call is bound to one (`RecordsStay`); the rest is about the operators.
`LineOf` chooses the first line of a month: that there is one needs the well-ordering
of the naturals (`FirstLine`), and that paying more does not change which one is read
is `PaidMore`. The calendar is reduced to the days since March (`FirstOf`) and the
start of each year (`YearLength`, `LaterYear`), from which a due date is the day after
the month's last (`DueAfterLastDay`) and months lie among the rules in order
(`RuleOfMonth`), for any of the ten thousand years. Proving it for all of them made
the statement of `TimingByLaw` exact: the years 2100, 2200 and 2300 have no leap day,
and December 9999 is due on a day no `date` can hold. A rounded gratuity is within
half a fils of the exact one whichever way a half falls (`RoundedNear`); with one more
day worth 21 or 30 days' wage (`DayEarns`) it can neither fall nor jump.

Only model-checked: liveness (`EveryCallAnswered`, `Settles`, `DecisionSeen`,
`SubmitSettles`, `CallMovesOn`, `NothingSpins`), which is beyond the prover, and the
five statements that the code does not keep, which runs refute. Every other property
of the runs is a theorem.

## 8. Not modelled

- *Normalisation, signature, agent authentication*: string rewriting and
  cryptography.
- *Rate limiter, clock steps*: wall-clock time. `latest_draft` and
  `active_review` order by seconds; the model orders by real-time precedence.
- *Listing reads, pages, grounding metric, settings*: change nothing.
- *Of the rules*: the sentences spoken and the inputs echoed.
- *Of the page*: times, order of rows and text; the decision's note, which the
  panel collects and never sends.
- *Of the voice call*: `agentMode`, `agentStatus`, `signedUrlRequest`, which are
  display; `pagehide`, after which the page is gone.
- *Of the sign-in*: storage that is blocked, dismissing the error (no screen
  does), filtering and totals of the list.
- *Layout, UI kit, mock data, agent configuration, scripts*: rendering,
  configuration and I/O.

## 9. Plan

1. `SpecialistAuth` composed with `CaseReview`: a session lost while a decision is
   in flight.
2. The rate limiter as a small timed module, and wall-clock order of rows.

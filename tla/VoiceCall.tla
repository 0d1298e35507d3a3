------------------------------ MODULE VoiceCall ------------------------------
(***************************************************************************)
(* The worker's voice call (web/src/features/caller): the call slice of    *)
(* the Redux store with its startCall and endCall thunks, the voiceAgent   *)
(* service that holds the one live session, the screens, and, external,    *)
(* the ElevenLabs sessions themselves.                                     *)
(*                                                                         *)
(* A call is one startCall thunk that got past its condition; it opens at  *)
(* most one session, which has the call's number.  A step is one task of   *)
(* the browser's event loop with the microtasks it leaves behind, so       *)
(* everything between two awaits of something external is one action.      *)
(***************************************************************************)
EXTENDS Naturals

CONSTANT MaxCalls  \* bound on the calls started

ASSUME MaxCallsAssumption == MaxCalls \in Nat

VARIABLES
  screen,       \* the route shown
  watching,     \* the call the mounted ReadyScreen is waiting for, or 0
  asking,       \* where the link leads that "Leave this call?" is about
  aside,        \* the mounted call screen has confirmed leaving
  leaving,      \* where confirmLeave goes once each session is closed
  status, muted, error,
  startedAt,    \* the call whose start the timer runs from, 0: null
  duration,     \* the call whose duration is frozen, 0: null
  problem,      \* the session whose error is on the call screen, 0: null
  transcript,   \* the sessions whose turns are in the transcript
  generation, conversation,  \* of voiceAgent; 0: no conversation
  pc,           \* where each startCall thunk is
  gen,          \* the generation each connect() runs under
  session,      \* SDK: each call's session
  micMuted      \* SDK: the microphone of each session is muted

dialog == <<asking, aside, leaving>>
ui == <<screen, watching, dialog>>
outcome == <<status, muted, error, duration, problem>>
slice == <<outcome, startedAt, transcript>>
service == <<generation, conversation>>
thunks == <<pc, gen>>
sdk == <<session, micMuted>>
vars == <<ui, slice, service, thunks, sdk>>

Call == 1 .. MaxCalls

\* endSession() runs, awaited by endCall, by the next connect(), by nobody.
Closing == {"hangup", "replaced", "late"}

\* The sentences of callErrors, by what went wrong.  The SDK may ask for the
\* microphone too, and "dropped" is a call that was connected.
NoError == [call |-> 0, source |-> "none"]
MicrophoneError(c)  == [call |-> c, source |-> "microphone"]
ApiError(c)         == [call |-> c, source |-> "api"]
ConnectionError(c)  == [call |-> c, source |-> "connection"]
DroppedCallError(c) == [call |-> c, source |-> "dropped"]
CallError == {NoError} \cup
  [call : Call, source : {"microphone", "api", "connection", "dropped"}]

Route == {"ready", "call", "ended", "away"}
Nowhere == "no"

Init ==
  /\ screen = "ready" /\ watching = 0
  /\ asking = Nowhere /\ aside = FALSE
  /\ leaving = [c \in Call |-> Nowhere]
  /\ status = "idle" /\ muted = FALSE /\ error = NoError
  /\ startedAt = 0 /\ duration = 0 /\ problem = 0 /\ transcript = {}
  /\ generation = 0 /\ conversation = 0
  /\ pc = [c \in Call |-> "none"] /\ gen = [c \in Call |-> 0]
  /\ session = [c \in Call |-> "none"]
  /\ micMuted = [c \in Call |-> FALSE]

IsStartInProgress ==
  status \in {"requesting-microphone", "fetching-session", "connecting"}

IsCallActive == status \in {"connected", "ending"}

IsCurrent(c) == gen[c] = generation

\* The timer is frozen once, and what belongs to the call is cleared.
FinishCall(s, e) ==
  /\ status' = s /\ muted' = FALSE /\ error' = e /\ problem' = 0
  /\ duration' = IF duration = 0 THEN startedAt ELSE duration

\* A screen is left for another; the call screen is left at once when no call
\* is on.
GoTo(to) ==
  /\ screen' = IF to = "call" /\ ~IsCallActive THEN "ready" ELSE to
  /\ watching' = IF screen' = screen THEN watching ELSE 0
  /\ asking' = Nowhere /\ aside' = FALSE

-----------------------------------------------------------------------------
(* startCall *)

\* The error of the attempt before stays until this one gets on or ends.
StartPending ==
  /\ status' = "requesting-microphone"
  /\ transcript' = {} /\ startedAt' = 0 /\ duration' = 0 /\ problem' = 0
  /\ muted' = FALSE
  /\ UNCHANGED error

\* The button of ReadyScreen.
Start(c) ==
  /\ screen = "ready"
  /\ ~IsStartInProgress
  /\ pc[c] = "none" /\ \A d \in 1 .. c - 1 : pc[d] # "none"
  /\ StartPending
  /\ pc' = [pc EXCEPT ![c] = "mic"]
  /\ watching' = c
  /\ UNCHANGED <<screen, dialog, service, gen, sdk>>

\* startCall.rejected
Rejected(c, e) ==
  /\ status' = "failed" /\ muted' = FALSE /\ error' = e /\ problem' = 0
  /\ startedAt' = 0 /\ duration' = 0
  /\ pc' = [pc EXCEPT ![c] = "done"]
  /\ UNCHANGED <<ui, transcript>>

\* startCall.fulfilled; ReadyScreen moves on if it is still there.
Fulfilled(c) ==
  /\ status' = "connected" /\ error' = NoError
  /\ startedAt' = c /\ duration' = 0
  /\ pc' = [pc EXCEPT ![c] = "done"]
  /\ screen' = IF watching = c THEN "call" ELSE screen
  /\ watching' = 0
  /\ UNCHANGED <<dialog, muted, problem, transcript>>

\* Mutant: an attempt that gets on keeps the error of the one before.
StatusChangedKeepsError(s) ==
  /\ status' = s
  /\ UNCHANGED <<muted, error, duration, problem, startedAt, transcript>>

\* The attempt got past the step that failed before.
StatusChanged(s) ==
  /\ status' = s /\ error' = NoError
  /\ UNCHANGED <<muted, duration, problem, startedAt, transcript>>

MicGranted(c) ==
  /\ pc[c] = "mic"
  /\ pc' = [pc EXCEPT ![c] = "url"]
  /\ StatusChanged("fetching-session")
  /\ UNCHANGED <<ui, service, gen, sdk>>

MicRefused(c) ==
  /\ pc[c] = "mic"
  /\ Rejected(c, MicrophoneError(c))
  /\ UNCHANGED <<service, gen, sdk>>

UrlFailed(c) ==
  /\ pc[c] = "url"
  /\ Rejected(c, ApiError(c))
  /\ UNCHANGED <<service, gen, sdk>>

\* endCurrent(), up to its await.
EndCurrent(how) ==
  /\ conversation' = 0
  /\ session' = IF conversation = 0 THEN session
                ELSE [session EXCEPT ![conversation] = how]

\* The signed URL is there: connect(), up to its first real wait.
Connect(c) ==
  /\ pc[c] = "url"
  /\ StatusChanged("connecting")
  /\ generation' = generation + 1
  /\ gen' = [gen EXCEPT ![c] = generation + 1]
  /\ EndCurrent("replaced")
  /\ pc' = [pc EXCEPT ![c] = IF conversation = 0 THEN "loading" ELSE "closing"]
  /\ UNCHANGED <<ui, micMuted>>

\* import() of the SDK is done, then startSession is called.
Loaded(c) ==
  /\ pc[c] = "loading"
  /\ IF IsCurrent(c)
     THEN /\ pc' = [pc EXCEPT ![c] = "dialing"]
          /\ session' = [session EXCEPT ![c] = "dialing"]
          /\ UNCHANGED <<ui, slice>>
     ELSE Rejected(c, ConnectionError(c)) /\ UNCHANGED session
  /\ UNCHANGED <<service, gen, micMuted>>

LoadFailed(c) ==
  /\ pc[c] = "loading"
  /\ Rejected(c, ConnectionError(c))
  /\ UNCHANGED <<service, gen, sdk>>

\* startSession resolves in time.
SessionUp(c) ==
  /\ pc[c] = "dialing" /\ session[c] = "dialing"
  /\ IF IsCurrent(c)
     THEN /\ session' = [session EXCEPT ![c] = "live"]
          /\ conversation' = c
          /\ Fulfilled(c)
     ELSE /\ session' = [session EXCEPT ![c] = "late"]
          /\ Rejected(c, ConnectionError(c))
          /\ UNCHANGED conversation
  /\ UNCHANGED <<generation, gen, micMuted>>

\* Mutant: a session that comes up late is left alone.
SessionLateKept(c) ==
  /\ pc[c] = "done" /\ session[c] = "dialing"
  /\ session' = [session EXCEPT ![c] = "live"]
  /\ UNCHANGED <<ui, slice, service, thunks, micMuted>>

\* startSession resolves after the timeout: the session is closed at once.
SessionLate(c) ==
  /\ pc[c] = "done" /\ session[c] = "dialing"
  /\ session' = [session EXCEPT ![c] = "late"]
  /\ UNCHANGED <<ui, slice, service, thunks, micMuted>>

SessionFailed(c) ==
  /\ session[c] = "dialing"
  /\ session' = [session EXCEPT ![c] = "closed"]
  /\ IF pc[c] = "dialing"
     THEN Rejected(c, MicrophoneError(c)) \/ Rejected(c, ConnectionError(c))
     ELSE UNCHANGED <<ui, slice, pc>>
  /\ UNCHANGED <<service, gen, micMuted>>

Timeout(c) ==
  /\ pc[c] = "dialing"
  /\ Rejected(c, ConnectionError(c))
  /\ UNCHANGED <<service, gen, sdk>>

-----------------------------------------------------------------------------
(* endCall *)

\* endCall.pending and voiceAgent.end(), up to its await.
HangUp ==
  /\ generation' = generation + 1
  /\ EndCurrent("hangup")
  /\ IF conversation = 0 THEN FinishCall("ended", NoError)
     ELSE status' = "ending" /\ UNCHANGED <<muted, error, duration, problem>>
  /\ UNCHANGED <<startedAt, transcript, thunks, micMuted>>

\* The End button, or "Transfer".
End ==
  /\ screen = "call" /\ status = "connected"
  /\ HangUp
  /\ UNCHANGED ui

\* Mutant: the call is over whatever was started since.
EndFulfilledAlways == FinishCall("ended", NoError)

\* endCall.fulfilled
EndFulfilled ==
  IF IsCallActive THEN FinishCall("ended", NoError) ELSE UNCHANGED outcome

\* Mutant: it goes on only if the blocker still holds the way.
LeaveConfirmedBlocked(s) ==
  UNCHANGED <<screen, watching, asking, aside>>

\* The end of confirmLeave, wherever the worker is by now; on the screen of
\* a call that is on, the blocker stops it.
LeaveConfirmed(s) ==
  IF leaving[s] = Nowhere \/ (screen = "call" /\ status = "connected")
  THEN UNCHANGED <<screen, watching, asking, aside>>
  ELSE GoTo(leaving[s])

\* endSession() settles, well or not, and whoever awaits it goes on.
Closed(s) ==
  /\ session[s] \in Closing
  /\ session' = [session EXCEPT ![s] = "closed"]
  /\ IF session[s] = "hangup" THEN EndFulfilled ELSE UNCHANGED outcome
  /\ LeaveConfirmed(s) /\ leaving' = [leaving EXCEPT ![s] = Nowhere]
  /\ IF session[s] = "replaced"
     THEN pc' = [c \in Call |-> IF pc[c] = "closing" THEN "loading" ELSE pc[c]]
     ELSE UNCHANGED pc
  /\ UNCHANGED <<startedAt, transcript, service, gen, micMuted>>

-----------------------------------------------------------------------------
(* Callbacks of the SDK, ignored when their generation is over. *)

\* Mutant: a hang-up of the agent is taken for the end of our own endSession().
SessionDisconnectedOwn(s, reason) ==
  IF ~IsCallActive \/ (reason # "error" /\ status = "connected")
  THEN UNCHANGED outcome
  ELSE IF status = "connected" THEN FinishCall("failed", DroppedCallError(s))
  ELSE FinishCall("ended", NoError)

SessionDisconnected(s, reason) ==
  IF ~IsCallActive THEN UNCHANGED outcome
  ELSE IF reason = "error" /\ status = "connected"
  THEN FinishCall("failed", DroppedCallError(s))
  ELSE FinishCall("ended", NoError)

\* Mutant: the slice follows, the service keeps the dead conversation.
OnDisconnectKept(s, reason) ==
  /\ UNCHANGED conversation
  /\ IF IsCurrent(s) THEN SessionDisconnected(s, reason) ELSE UNCHANGED outcome

OnDisconnect(s, reason) ==
  IF IsCurrent(s) THEN conversation' = 0 /\ SessionDisconnected(s, reason)
  ELSE UNCHANGED <<conversation, outcome>>

\* The agent hangs up, or the socket drops.
Disconnect(s, reason) ==
  /\ session[s] = "live"
  /\ session' = [session EXCEPT ![s] = "closed"]
  /\ OnDisconnect(s, reason)
  /\ UNCHANGED <<ui, startedAt, transcript, generation, thunks, micMuted>>

\* Something the call survives.  The slice drops it when no call is on.
AgentErrorReported(s) ==
  /\ session[s] \in {"dialing", "live"} \cup Closing
  /\ IsCurrent(s) /\ IsCallActive
  /\ problem' = s
  /\ UNCHANGED <<status, muted, error, duration, startedAt, transcript>>
  /\ UNCHANGED <<ui, service, thunks, sdk>>

\* A finalised turn.  The slice drops it when no call is on.
Turn(s) ==
  /\ session[s] \in {"dialing", "live"} \cup Closing
  /\ IsCurrent(s) /\ status \notin {"idle", "ended", "failed"}
  /\ transcript' = transcript \cup {s}
  /\ UNCHANGED <<ui, outcome, startedAt, service, thunks, sdk>>

-----------------------------------------------------------------------------
(* The rest of the screens. *)

ToggleMute ==
  /\ screen = "call" /\ status # "ending"
  /\ muted' = ~muted
  /\ micMuted' = IF conversation = 0 THEN micMuted
                 ELSE [micMuted EXCEPT ![conversation] = ~muted]
  /\ UNCHANGED <<status, error, duration, problem, startedAt, transcript>>
  /\ UNCHANGED <<ui, service, thunks, session>>

\* The alert of the call screen, and the one of ReadyScreen.
AgentErrorDismissed ==
  /\ screen = "call" /\ problem # 0 /\ problem' = 0
  /\ UNCHANGED <<status, muted, error, duration, startedAt, transcript>>
  /\ UNCHANGED <<ui, service, thunks, sdk>>

CallErrorDismissed ==
  /\ screen = "ready" /\ error # NoError /\ error' = NoError
  /\ UNCHANGED <<status, muted, duration, problem, startedAt, transcript>>
  /\ UNCHANGED <<ui, service, thunks, sdk>>

\* InCallScreen's effect when its call is over.
FollowEnd ==
  /\ screen = "call" /\ status \in {"ended", "failed"} /\ ~aside
  /\ GoTo(IF status = "ended" THEN "ended" ELSE "ready")
  /\ UNCHANGED <<leaving, slice, service, thunks, sdk>>

\* A link, or Back and Forward; a live call blocks it.
Leave(to) ==
  /\ ~(screen = "call" /\ status = "connected")
  /\ GoTo(to) /\ screen' # screen
  /\ UNCHANGED <<leaving, slice, service, thunks, sdk>>

AskLeave(to) ==
  /\ screen = "call" /\ status = "connected" /\ asking = Nowhere
  /\ asking' = to
  /\ UNCHANGED <<screen, watching, aside, leaving>>
  /\ UNCHANGED <<slice, service, thunks, sdk>>

\* The dialog closes by itself when the call is no longer live.
Asked == asking # Nowhere /\ status = "connected"

CancelLeave ==
  /\ Asked
  /\ asking' = Nowhere /\ aside' = FALSE
  /\ UNCHANGED <<screen, watching, leaving, slice, service, thunks, sdk>>

\* "Yes, end the call"
ConfirmLeave ==
  /\ Asked
  /\ HangUp
  /\ IF conversation = 0 THEN GoTo(asking) /\ UNCHANGED leaving
     ELSE /\ leaving' = [leaving EXCEPT ![conversation] = asking]
          /\ asking' = Nowhere /\ aside' = TRUE
          /\ UNCHANGED <<screen, watching>>

-----------------------------------------------------------------------------
Next ==
  \/ \E c \in Call :
       \/ Start(c) \/ MicGranted(c) \/ MicRefused(c) \/ Connect(c)
       \/ UrlFailed(c) \/ Loaded(c) \/ LoadFailed(c) \/ SessionUp(c)
       \/ SessionLate(c) \/ SessionFailed(c) \/ Timeout(c) \/ Closed(c)
       \/ Disconnect(c, "error") \/ Disconnect(c, "agent") \/ Turn(c)
       \/ AgentErrorReported(c)
  \/ End \/ ToggleMute \/ FollowEnd \/ CancelLeave \/ ConfirmLeave
  \/ AgentErrorDismissed \/ CallErrorDismissed
  \/ \E to \in Route : Leave(to)
  \/ \E to \in Route \ {"call"} : AskLeave(to)

Spec == Init /\ [][Next]_vars

\* axios and the connect timer give up in bounded time, import() settles, the
\* SDK's endSession() is taken to settle, React runs its effects.  The worker
\* owes nothing, not even an answer to the microphone prompt.
FairSpec ==
  /\ Spec
  /\ WF_vars(\E c \in Call : Connect(c) \/ UrlFailed(c))
  /\ WF_vars(\E c \in Call : Loaded(c) \/ LoadFailed(c))
  /\ WF_vars(\E c \in Call : Timeout(c))
  /\ WF_vars(\E s \in Call : Closed(s))
  /\ WF_vars(FollowEnd)

-----------------------------------------------------------------------------
TypeOK ==
  /\ screen \in Route /\ watching \in 0 .. MaxCalls
  /\ asking \in Route \cup {Nowhere} /\ aside \in BOOLEAN
  /\ asking # Nowhere \/ aside => screen = "call"
  /\ leaving \in [Call -> Route \cup {Nowhere}]
  /\ status \in {"idle", "requesting-microphone", "fetching-session",
                 "connecting", "connected", "ending", "ended", "failed"}
  /\ muted \in BOOLEAN /\ transcript \subseteq Call
  /\ error \in CallError /\ startedAt \in 0 .. MaxCalls
  /\ duration \in 0 .. MaxCalls /\ problem \in 0 .. MaxCalls
  /\ generation \in Nat /\ conversation \in 0 .. MaxCalls
  /\ pc \in [Call -> {"none", "mic", "url", "closing", "loading", "dialing",
                      "done"}]
  /\ gen \in [Call -> Nat]
  /\ session \in [Call -> {"none", "dialing", "live", "closed"} \cup Closing]
  /\ micMuted \in [Call -> BOOLEAN]
  /\ conversation # 0 => session[conversation] = "live"

\* A session that is up is the one the service holds, and so the one End, the
\* next call or leaving the page closes: no microphone is left open, not by a
\* session that comes up after the timeout, not by one that was replaced.
MicHeld == \A s \in Call : session[s] = "live" => conversation = s

\* A screen that shows a call in progress has a live session behind it.
CallIsLive == status = "connected" => conversation # 0

\* The status tells whether a startCall thunk runs, and no two run at once,
\* although it is also written by the end of earlier calls.
Running == {c \in Call : pc[c] \notin {"none", "done"}}

OneAttempt ==
  /\ IsStartInProgress <=> Running # {}
  /\ \A c, d \in Running : c = d

\* What the screen shows is the last call's: the timer and the frozen
\* duration, the assistant's problem, the mute of its microphone, and the
\* error, which may be about the attempt before only until the next one gets
\* past the step that may fail at once.  An interruption is reported of a
\* call that ran.
Latest == IF \A c \in Call : pc[c] = "none" THEN 0
          ELSE CHOOSE c \in Call : /\ pc[c] # "none"
                                   /\ \A d \in c + 1 .. MaxCalls : pc[d] = "none"

ErrorIsCurrent ==
  error # NoError => \/ status = "failed" /\ error.call = Latest
                     \/ /\ status = "requesting-microphone"
                        /\ error.call = Latest - 1

ShownIsOwn ==
  /\ IsCallActive => startedAt = Latest /\ duration = 0
  /\ status = "ended" => duration = Latest
  /\ problem # 0 => IsCallActive /\ problem = Latest
  /\ status = "connected" => muted = micMuted[conversation]
  /\ ErrorIsCurrent
  /\ status = "failed" /\ error # NoError =>
       (error.source = "dropped" <=> duration = Latest)

\* Past the microphone prompt, an attempt ends: connected or failed.  A call
\* screen whose call is ending is left, for the ended screen, for Ready or
\* for where the worker was heading, although confirming to leave takes the
\* screen's own redirect out.
CallMovesOn ==
  /\ status \in {"fetching-session", "connecting"} ~> ~IsStartInProgress
  /\ (screen = "call" /\ status # "connected") ~> screen # "call"

(***************************************************************************)
(* "The previous call's transcript must not bleed into the new session."   *)
(* (callSessionThunks.test.ts, line 234)                                   *)
(***************************************************************************)
TranscriptIsOwn ==
  \A c, s \in Call : s \in transcript /\ pc[c] # "none" => c <= s
=============================================================================

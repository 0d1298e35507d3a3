-------------------------- MODULE VoiceCall_proofs --------------------------
(***************************************************************************)
(* The safety of the voice call for any number of calls: one startCall at  *)
(* a time, one microphone, and a screen that shows the last call only.     *)
(*                                                                         *)
(* The argument: Start waits for IsStartInProgress to be over, every other *)
(* writer of the status either belongs to the running thunk or writes only *)
(* while a call is active, so the status and the thunks agree.  connect()  *)
(* drops the conversation before it dials and end() starts a generation,   *)
(* so a thunk whose generation is current never finds one (NoneBeside), and *)
(* the conversation that there is belongs to the current generation        *)
(* (HeldIsCurrent): the disconnection of it is never ignored.  Calls start *)
(* in order, so what is current is also the last one's (OwnInv).           *)
(***************************************************************************)
EXTENDS VoiceCall, TLAPS

\* The thunks past connect()'s first statements.
Dialing(c) == pc[c] \in {"closing", "loading", "dialing"}

NoneBeside == \A c \in Call : Dialing(c) /\ IsCurrent(c) => conversation = 0

HeldIsCurrent == conversation # 0 => IsCurrent(conversation)

\* TypeOK by its parts.
UiOK ==
  /\ screen \in Route /\ watching \in 0 .. MaxCalls
  /\ asking \in Route \cup {Nowhere} /\ aside \in BOOLEAN
  /\ asking # Nowhere \/ aside => screen = "call"
  /\ leaving \in [Call -> Route \cup {Nowhere}]

Status == {"idle", "requesting-microphone", "fetching-session", "connecting",
           "connected", "ending", "ended", "failed"}

ShownOK ==
  /\ muted \in BOOLEAN /\ transcript \subseteq Call
  /\ error \in CallError /\ startedAt \in 0 .. MaxCalls
  /\ duration \in 0 .. MaxCalls /\ problem \in 0 .. MaxCalls
  /\ micMuted \in [Call -> BOOLEAN]

Thunk == {"none", "mic", "url", "closing", "loading", "dialing", "done"}
Session == {"none", "dialing", "live", "closed"} \cup Closing

CoreOK ==
  /\ status \in Status
  /\ generation \in Nat /\ conversation \in 0 .. MaxCalls
  /\ pc \in [Call -> Thunk] /\ gen \in [Call -> Nat]
  /\ session \in [Call -> Session]
  /\ conversation # 0 => session[conversation] = "live"

LEMMA TypeParts == TypeOK <=> UiOK /\ ShownOK /\ CoreOK
BY DEF TypeOK, UiOK, ShownOK, CoreOK, Status, Thunk, Session

Core == /\ CoreOK /\ MicHeld /\ CallIsLive /\ OneAttempt
        /\ NoneBeside /\ HeldIsCurrent

core == <<status, service, thunks, session>>

CallInv == UiOK /\ ShownOK /\ Core

-----------------------------------------------------------------------------
(* The screens: what is typed stays typed. *)

LEMMA NoCallTyped == 0 \in 0 .. MaxCalls
BY MaxCallsAssumption

LEMMA GoToTyped ==
  ASSUME UiOK, NEW to \in Route, GoTo(to),
         leaving' \in [Call -> Route \cup {Nowhere}]
  PROVE  UiOK'
<1>1. screen' \in Route /\ asking' = Nowhere /\ aside' = FALSE
  BY DEF GoTo, Route
<1>2. watching' \in 0 .. MaxCalls
  BY NoCallTyped DEF UiOK, GoTo
<1>. QED  BY <1>1, <1>2 DEF UiOK

LEMMA UiStays ==
  ASSUME UiOK, UNCHANGED ui
  PROVE  UiOK'
BY DEF UiOK, ui, dialog

LEMMA ErrorTyped ==
  ASSUME NEW c \in Call
  PROVE  {NoError, MicrophoneError(c), ApiError(c), ConnectionError(c),
          DroppedCallError(c)} \subseteq CallError
BY DEF CallError, NoError, MicrophoneError, ApiError, ConnectionError, DroppedCallError

LEMMA CallTyped ==
  ASSUME NEW c \in Call
  PROVE  c \in 0 .. MaxCalls /\ c # 0
BY MaxCallsAssumption DEF Call

\* Every way the shown part of the slice is written.
LEMMA RejectedTyped ==
  ASSUME UiOK, ShownOK, NEW c \in Call, NEW e \in CallError, Rejected(c, e),
         UNCHANGED micMuted
  PROVE  UiOK' /\ ShownOK'
<1>1. UiOK'
  BY UiStays DEF Rejected
<1>2. ShownOK'
  BY NoCallTyped DEF Rejected, ShownOK
<1>. QED  BY <1>1, <1>2

LEMMA FinishTyped ==
  ASSUME ShownOK, NEW e \in CallError, NEW s, FinishCall(s, e),
         UNCHANGED <<startedAt, transcript, micMuted>>
  PROVE  ShownOK'
BY NoCallTyped DEF FinishCall, ShownOK

LEMMA ShownStays ==
  ASSUME ShownOK, UNCHANGED <<outcome, startedAt, transcript, micMuted>>
  PROVE  ShownOK'
BY DEF ShownOK, outcome

-----------------------------------------------------------------------------
(* The core: the ways a step moves the thunks and the sessions. *)

LEMMA CoreStays ==
  ASSUME Core, UNCHANGED core
  PROVE  Core'
BY DEF Core, core, service, thunks, CoreOK, MicHeld, CallIsLive, OneAttempt,
       NoneBeside, HeldIsCurrent, IsStartInProgress, Running, Dialing, IsCurrent

\* The running thunk takes a step that opens and closes nothing.
LEMMA ThunkGoesOn ==
  ASSUME Core, NEW c \in Running, NEW at \in Thunk \ {"none", "done"},
         at \in {"closing", "loading", "dialing"} => Dialing(c),
         pc' = [pc EXCEPT ![c] = at], IsStartInProgress', status' \in Status,
         status' # "connected", UNCHANGED <<service, gen, session>>
  PROVE  Core'
<1>. USE DEF Core, CoreOK, service
<1>1. \A d \in Running : d = c
  BY DEF OneAttempt
<1>2. c \in Call /\ pc' \in [Call -> Thunk] /\ Running' = {c}
  BY <1>1 DEF Running, Thunk
<1>3. CoreOK' /\ MicHeld' /\ CallIsLive' /\ HeldIsCurrent'
  BY <1>2 DEF MicHeld, CallIsLive, HeldIsCurrent, IsCurrent
<1>4. OneAttempt'
  BY <1>2 DEF OneAttempt
<1>5. NoneBeside'
  BY <1>2 DEF NoneBeside, Dialing, IsCurrent
<1>. QED  BY <1>3, <1>4, <1>5

\* The running thunk fails.
LEMMA ThunkFails ==
  ASSUME Core, NEW c \in Running, NEW e, Rejected(c, e),
         UNCHANGED <<service, gen>>,
         session' \in [Call -> Session],
         \A s \in Call : session'[s] = "live" <=> session[s] = "live"
  PROVE  Core'
<1>. USE DEF Core, CoreOK, service
<1>1. \A d \in Running : d = c
  BY DEF OneAttempt
<1>2. /\ c \in Call /\ pc' \in [Call -> Thunk] /\ Running' = {}
      /\ pc' = [pc EXCEPT ![c] = "done"] /\ status' = "failed"
  BY <1>1 DEF Running, Thunk, Rejected
<1>3. CoreOK'
  BY <1>2, CallTyped DEF Status, Call
<1>4. MicHeld' /\ CallIsLive' /\ HeldIsCurrent'
  BY <1>2 DEF MicHeld, CallIsLive, HeldIsCurrent, IsCurrent
<1>5. OneAttempt'
  BY <1>2 DEF OneAttempt, IsStartInProgress
<1>6. NoneBeside'
  BY <1>2 DEF NoneBeside, Dialing, IsCurrent
<1>. QED  BY <1>3, <1>4, <1>5, <1>6

\* The slice or the sessions change, and no thunk starts or ends: no call is
\* on that was not, and no session is up that was not.
LEMMA NoThunkEnds ==
  ASSUME Core, UNCHANGED gen, pc' \in [Call -> Thunk], Running' = Running,
         \A c \in Call : Dialing(c)' <=> Dialing(c),
         status' \in Status, IsStartInProgress' <=> IsStartInProgress,
         conversation' \in {0, conversation},
         \/ generation' = generation
         \/ generation' = generation + 1 /\ conversation' = 0,
         session' \in [Call -> Session],
         \A s \in Call : session'[s] = "live"
                           <=> (session[s] = "live" /\ conversation' = s),
         status' = "connected" => status = "connected" /\ conversation' # 0
  PROVE  Core'
<1>. USE DEF Core, CoreOK
<1>1. CoreOK'
  BY MaxCallsAssumption DEF Call
<1>2. MicHeld' /\ CallIsLive'
  BY DEF MicHeld, CallIsLive
<1>3. OneAttempt'
  BY DEF OneAttempt
<1>4. HeldIsCurrent'
  BY DEF HeldIsCurrent, IsCurrent
<1>5. NoneBeside'
  BY DEF NoneBeside, IsCurrent
<1>. QED  BY <1>1, <1>2, <1>3, <1>4, <1>5

-----------------------------------------------------------------------------
(* The steps of startCall. *)

LEMMA InitInv == Init => CallInv
<1>. SUFFICES ASSUME Init PROVE CallInv
  OBVIOUS
<1>1. UiOK
  BY NoCallTyped DEF Init, UiOK, Route
<1>2. ShownOK
  BY NoCallTyped DEF Init, ShownOK, CallError
<1>3. CoreOK
  BY NoCallTyped DEF Init, CoreOK, Status, Thunk, Session
<1>4. MicHeld /\ CallIsLive /\ NoneBeside /\ HeldIsCurrent
  BY DEF Init, MicHeld, CallIsLive, NoneBeside, HeldIsCurrent
<1>5. OneAttempt
  BY DEF Init, OneAttempt, IsStartInProgress, Running
<1>. QED  BY <1>1, <1>2, <1>3, <1>4, <1>5 DEF CallInv, Core

LEMMA StartInv ==
  ASSUME CallInv, NEW c \in Call, Start(c)
  PROVE  CallInv'
<1>. USE DEF CallInv
<1>1. UiOK'
  BY CallTyped DEF Start, dialog, UiOK
<1>2. ShownOK'
  BY NoCallTyped DEF Start, StartPending, sdk, ShownOK
<1>3. Running = {} /\ status' = "requesting-microphone"
  BY DEF Start, StartPending, Core, OneAttempt
<1>4. pc' = [pc EXCEPT ![c] = "mic"] /\ UNCHANGED <<service, gen, session>>
  BY DEF Start, sdk
<1>5. CoreOK'
  BY <1>3, <1>4 DEF Core, CoreOK, Status, Thunk, service
<1>6. Running' = {c}
  BY <1>3, <1>4 DEF Core, CoreOK, Running
<1>7. MicHeld' /\ CallIsLive' /\ HeldIsCurrent'
  BY <1>3, <1>4 DEF Core, MicHeld, CallIsLive, HeldIsCurrent, IsCurrent, service
<1>8. OneAttempt'
  BY <1>3, <1>6 DEF OneAttempt, IsStartInProgress
<1>9. NoneBeside'
  BY <1>4 DEF Core, CoreOK, NoneBeside, Dialing, IsCurrent, service
<1>. QED  BY <1>1, <1>2, <1>5, <1>7, <1>8, <1>9 DEF Core

LEMMA IsRunning ==
  ASSUME NEW c \in Call, pc[c] \in {"mic", "url", "closing", "loading", "dialing"}
  PROVE  c \in Running
BY DEF Running

\* The attempt fails at one of its waits, or the session it opened does.
LEMMA AttemptFailsInv ==
  ASSUME CallInv, NEW c \in Call,
         MicRefused(c) \/ UrlFailed(c) \/ LoadFailed(c) \/ Timeout(c)
  PROVE  CallInv'
<1>. DEFINE Told == {MicrophoneError(c), ApiError(c), ConnectionError(c)}
<1>1. PICK e \in Told : Rejected(c, e)
  BY DEF MicRefused, UrlFailed, LoadFailed, Timeout
<1>2. e \in CallError
  BY <1>1, ErrorTyped
<1>3. c \in Running /\ UNCHANGED <<service, gen, session, micMuted>>
  BY IsRunning DEF MicRefused, UrlFailed, LoadFailed, Timeout, sdk
<1>4. UiOK' /\ ShownOK'
  BY <1>1, <1>2, <1>3, RejectedTyped DEF CallInv
<1>5. Core'
  BY <1>1, <1>3, ThunkFails DEF CallInv, Core, CoreOK
<1>. QED  BY <1>4, <1>5 DEF CallInv

LEMMA MicGrantedInv ==
  ASSUME CallInv, NEW c \in Call, MicGranted(c)
  PROVE  CallInv'
<1>1. UiOK'
  BY UiStays DEF MicGranted, CallInv
<1>2. ShownOK'
  BY DEF MicGranted, StatusChanged, CallInv, ShownOK, CallError, sdk
<1>3. c \in Running /\ status' = "fetching-session"
  BY IsRunning DEF MicGranted, StatusChanged
<1>4. Core'
  BY <1>3, ThunkGoesOn
     DEF MicGranted, CallInv, Thunk, Status, IsStartInProgress, sdk
<1>. QED  BY <1>1, <1>2, <1>4 DEF CallInv

LEMMA ConnectInv ==
  ASSUME CallInv, NEW c \in Call, Connect(c)
  PROVE  CallInv'
<1>. USE DEF CallInv, Core
<1>1. UiOK'
  BY UiStays DEF Connect
<1>2. ShownOK'
  BY DEF Connect, StatusChanged, ShownOK, CallError
<1>3. c \in Running /\ status' = "connecting" /\ \A d \in Running : d = c
  BY IsRunning DEF Connect, StatusChanged, OneAttempt
<1>4. /\ pc' \in [Call -> Thunk] /\ Running' = {c}
      /\ \A d \in Call : Dialing(d)' => d = c
  BY <1>3 DEF Connect, CoreOK, Running, Thunk, Dialing
<1>5. conversation' = 0 /\ generation' = generation + 1
      /\ gen' \in [Call -> Nat]
  BY DEF Connect, EndCurrent, CoreOK
<1>6. /\ session' \in [Call -> Session]
      /\ \A s \in Call : session'[s] # "live"
  BY DEF Connect, EndCurrent, CoreOK, Session, Closing, MicHeld, Call
<1>7. CoreOK'
  BY <1>3, <1>4, <1>5, <1>6, NoCallTyped DEF CoreOK, Status
<1>8. MicHeld' /\ CallIsLive' /\ HeldIsCurrent' /\ NoneBeside'
  BY <1>3, <1>5, <1>6 DEF MicHeld, CallIsLive, HeldIsCurrent, NoneBeside
<1>9. OneAttempt'
  BY <1>3, <1>4 DEF OneAttempt, IsStartInProgress
<1>. QED  BY <1>1, <1>2, <1>7, <1>8, <1>9

LEMMA LoadedInv ==
  ASSUME CallInv, NEW c \in Call, Loaded(c)
  PROVE  CallInv'
<1>. USE DEF CallInv
<1>1. c \in Running
  BY IsRunning DEF Loaded
<1>2. CASE ~IsCurrent(c)
  <2>1. /\ Rejected(c, ConnectionError(c)) /\ ConnectionError(c) \in CallError
        /\ UNCHANGED <<service, gen, session, micMuted>>
    BY <1>2, ErrorTyped DEF Loaded
  <2>2. UiOK' /\ ShownOK'
    BY <2>1, RejectedTyped
  <2>3. Core'
    BY <1>1, <2>1, ThunkFails DEF Core, CoreOK
  <2>. QED  BY <2>2, <2>3
<1>3. CASE IsCurrent(c)
  <2>. USE DEF Core, CoreOK
  <2>1. /\ pc' = [pc EXCEPT ![c] = "dialing"] /\ session' = [session EXCEPT ![c] = "dialing"]
        /\ UNCHANGED <<ui, slice, service, gen, micMuted>>
    BY <1>3 DEF Loaded
  <2>2. UiOK' /\ ShownOK'
    BY <2>1, UiStays, ShownStays DEF slice
  <2>3. conversation = 0 /\ \A s \in Call : session[s] # "live"
    BY <1>3, CallTyped DEF Loaded, NoneBeside, MicHeld, Dialing
  <2>4. Running' = Running /\ pc' \in [Call -> Thunk] /\ session' \in [Call -> Session]
    BY <2>1 DEF Loaded, Running, Thunk, Session
  <2>5. \A d \in Call : Dialing(d)' <=> Dialing(d)
    BY <2>1 DEF Loaded, Dialing
  <2>6. UNCHANGED <<status, generation, conversation, gen>>
    BY <2>1 DEF slice, outcome, service
  <2>7. IsStartInProgress' <=> IsStartInProgress
    BY <2>6 DEF IsStartInProgress
  <2>8. \A s \in Call : session'[s] # "live"
    BY <2>1, <2>3
  <2>9. status' = "connected" => FALSE
    BY <2>3, <2>6 DEF CallIsLive
  <2>10. Core'
    <3>. HIDE DEF Core
    <3>. QED  BY <2>3, <2>4, <2>5, <2>6, <2>7, <2>8, <2>9, NoThunkEnds DEF Core, CoreOK
  <2>. QED  BY <2>2, <2>10
<1>. QED  BY <1>2, <1>3

LEMMA SessionUpInv ==
  ASSUME CallInv, NEW c \in Call, SessionUp(c)
  PROVE  CallInv'
<1>. USE DEF CallInv
<1>1. c \in Running
  BY IsRunning DEF SessionUp
<1>2. CASE ~IsCurrent(c)
  <2>1. /\ Rejected(c, ConnectionError(c)) /\ ConnectionError(c) \in CallError
        /\ session' = [session EXCEPT ![c] = "late"] /\ session[c] = "dialing"
        /\ UNCHANGED <<service, gen, micMuted>>
    BY <1>2, ErrorTyped DEF SessionUp, service
  <2>2. UiOK' /\ ShownOK'
    BY <2>1, RejectedTyped
  <2>3. /\ session' \in [Call -> Session]
        /\ \A s \in Call : session'[s] = "live" <=> session[s] = "live"
    BY <2>1 DEF Core, CoreOK, Session, Closing
  <2>4. Core'
    BY <1>1, <2>1, <2>3, ThunkFails
  <2>. QED  BY <2>2, <2>4
<1>3. CASE IsCurrent(c)
  <2>. USE DEF Core, CoreOK
  <2>1. /\ session' = [session EXCEPT ![c] = "live"] /\ conversation' = c
        /\ Fulfilled(c) /\ UNCHANGED <<generation, gen, micMuted>>
        /\ pc[c] = "dialing"
    BY <1>3 DEF SessionUp
  <2>2. UiOK'
    BY <2>1, NoCallTyped DEF Fulfilled, dialog, UiOK, Route
  <2>3. ShownOK'
    BY <2>1, CallTyped, NoCallTyped DEF Fulfilled, ShownOK, CallError
  <2>4. conversation = 0 /\ \A s \in Call : session[s] # "live"
    BY <1>3, <2>1, CallTyped DEF NoneBeside, MicHeld, Dialing
  <2>5. Running' = {} /\ status' = "connected" /\ pc' \in [Call -> Thunk]
    BY <1>1, <2>1 DEF Fulfilled, OneAttempt, Running, Thunk
  <2>6. CoreOK'
    BY <2>1, <2>5, CallTyped DEF Session, Status
  <2>7. MicHeld' /\ CallIsLive' /\ HeldIsCurrent'
    BY <1>3, <2>1, <2>4, CallTyped DEF MicHeld, CallIsLive, HeldIsCurrent, IsCurrent
  <2>8. OneAttempt' /\ NoneBeside'
    BY <2>5 DEF OneAttempt, IsStartInProgress, NoneBeside, Dialing, Running
  <2>. QED  BY <2>2, <2>3, <2>6, <2>7, <2>8
<1>. QED  BY <1>2, <1>3

\* A session ends before anybody has it.
LEMMA NotHeldInv ==
  ASSUME CallInv, NEW c \in Call, SessionLate(c) \/ SessionFailed(c)
  PROVE  CallInv'
<1>. USE DEF CallInv
<1>1. /\ session[c] = "dialing" /\ UNCHANGED <<service, gen, micMuted>>
      /\ \E how \in {"late", "closed"} : session' = [session EXCEPT ![c] = how]
  BY DEF SessionLate, SessionFailed, thunks, sdk
<1>2. /\ session' \in [Call -> Session]
      /\ \A s \in Call : session'[s] = "live" <=> session[s] = "live"
  BY <1>1 DEF Core, CoreOK, Session, Closing
<1>3. CASE SessionFailed(c) /\ pc[c] = "dialing"
  <2>1. PICK e \in {MicrophoneError(c), ConnectionError(c)} : Rejected(c, e)
    BY <1>3 DEF SessionFailed
  <2>2. e \in CallError /\ c \in Running
    BY <1>3, <2>1, ErrorTyped, IsRunning
  <2>3. UiOK' /\ ShownOK'
    BY <1>1, <2>1, <2>2, RejectedTyped
  <2>4. Core'
    BY <1>1, <1>2, <2>1, <2>2, ThunkFails
  <2>. QED  BY <2>3, <2>4
<1>4. CASE UNCHANGED <<ui, slice, pc>>
  <2>1. UiOK' /\ ShownOK'
    BY <1>1, <1>4, UiStays, ShownStays DEF slice
  <2>2. /\ Running' = Running /\ (IsStartInProgress' <=> IsStartInProgress)
        /\ \A d \in Call : Dialing(d)' <=> Dialing(d)
    BY <1>4 DEF Running, Dialing, slice, outcome, IsStartInProgress
  <2>3. \A s \in Call : session[s] = "live" => conversation = s
    BY DEF Core, MicHeld
  <2>4. status = "connected" => conversation # 0
    BY DEF Core, CallIsLive
  <2>5. Core'
    BY <1>1, <1>2, <1>4, <2>2, <2>3, <2>4, NoThunkEnds
       DEF Core, CoreOK, slice, outcome, service
  <2>. QED  BY <2>1, <2>5
<1>5. \/ SessionFailed(c) /\ pc[c] = "dialing"
      \/ UNCHANGED <<ui, slice, pc>>
  BY DEF SessionLate, SessionFailed, thunks
<1>. QED  BY <1>3, <1>4, <1>5

-----------------------------------------------------------------------------
(* The end of a call. *)

LEMMA HangUpCore ==
  ASSUME Core, HangUp, status = "connected"
  PROVE  Core'
<1>. USE DEF Core
<1>1. conversation # 0 /\ conversation \in Call
  BY DEF CallIsLive, CoreOK, Call
<1>2. /\ session' = [session EXCEPT ![conversation] = "hangup"]
      /\ generation' = generation + 1 /\ conversation' = 0
      /\ status' = "ending" /\ UNCHANGED thunks
  BY <1>1 DEF HangUp, EndCurrent
<1>3. session' \in [Call -> Session] /\ \A s \in Call : session'[s] # "live"
  BY <1>1, <1>2 DEF CoreOK, Session, Closing, MicHeld
<1>4. /\ UNCHANGED gen /\ pc' \in [Call -> Thunk] /\ Running' = Running
      /\ \A d \in Call : Dialing(d)' <=> Dialing(d)
  BY <1>2 DEF thunks, CoreOK, Running, Dialing
<1>5. IsStartInProgress' <=> IsStartInProgress
  BY <1>2 DEF IsStartInProgress
<1>6. \A s \in Call : s # 0
  BY DEF Call
<1>. HIDE DEF Core
<1>. QED  BY <1>2, <1>3, <1>4, <1>5, <1>6, NoThunkEnds DEF Status

LEMMA HangUpInv ==
  ASSUME CallInv, End \/ ConfirmLeave
  PROVE  CallInv'
<1>. USE DEF CallInv
<1>1. HangUp /\ status = "connected"
  BY DEF End, ConfirmLeave, Asked
<1>2. Core'
  BY <1>1, HangUpCore
<1>3. conversation \in Call
  BY <1>1 DEF Core, CoreOK, CallIsLive, Call
<1>4. status' = "ending" /\ UNCHANGED <<muted, error, duration, problem>>
  BY <1>1, <1>3, CallTyped DEF HangUp
<1>5. ShownOK'
  BY <1>1, <1>4 DEF HangUp, ShownOK
<1>6. UiOK'
  <2>1. CASE End
    BY <2>1, UiStays DEF End
  <2>2. CASE ConfirmLeave
    BY <1>3, <2>2, CallTyped DEF ConfirmLeave, Asked, UiOK
  <2>. QED  BY <2>1, <2>2
<1>. QED  BY <1>2, <1>5, <1>6

\* endCall.fulfilled, and the callback, either leave the slice alone or end a
\* call that is on.
LEMMA EndsActive ==
  ASSUME ShownOK, NEW s \in Call,
         EndFulfilled \/ SessionDisconnected(s, "agent")
           \/ SessionDisconnected(s, "error") \/ UNCHANGED outcome,
         UNCHANGED <<startedAt, transcript, micMuted>>
  PROVE  /\ ShownOK'
         /\ \/ status' = status
            \/ IsCallActive /\ status' \in {"ended", "failed"}
<1>1. CASE UNCHANGED outcome
  BY <1>1, ShownStays DEF outcome
<1>2. CASE IsCallActive /\ \E to \in {"ended", "failed"}, e \in {NoError, DroppedCallError(s)} :
             FinishCall(to, e)
  <2>1. PICK to \in {"ended", "failed"}, e \in {NoError, DroppedCallError(s)} :
          FinishCall(to, e)
    BY <1>2
  <2>2. ShownOK'
    BY <2>1, ErrorTyped, FinishTyped
  <2>3. status' = to
    BY <2>1 DEF FinishCall
  <2>. QED  BY <1>2, <2>1, <2>2, <2>3
<1>. QED
  BY <1>1, <1>2 DEF EndFulfilled, SessionDisconnected

LEMMA ClosedInv ==
  ASSUME CallInv, NEW s \in Call, Closed(s)
  PROVE  CallInv'
<1>. USE DEF CallInv
<1>1. /\ session[s] \in Closing /\ session' = [session EXCEPT ![s] = "closed"]
      /\ EndFulfilled \/ UNCHANGED outcome
      /\ UNCHANGED <<startedAt, transcript, service, gen, micMuted>>
      /\ LeaveConfirmed(s) /\ leaving' = [leaving EXCEPT ![s] = Nowhere]
      /\ \/ UNCHANGED pc
         \/ pc' = [c \in Call |-> IF pc[c] = "closing" THEN "loading" ELSE pc[c]]
  BY DEF Closed
<1>2. /\ ShownOK'
      /\ \/ status' = status
         \/ IsCallActive /\ status' \in {"ended", "failed"}
  BY <1>1, EndsActive
<1>3. UiOK'
  <2>1. leaving' \in [Call -> Route \cup {Nowhere}]
    BY <1>1 DEF UiOK
  <2>2. CASE leaving[s] # Nowhere /\ GoTo(leaving[s])
    BY <2>1, <2>2, GoToTyped DEF UiOK
  <2>3. CASE UNCHANGED <<screen, watching, asking, aside>>
    BY <2>1, <2>3 DEF UiOK
  <2>. QED  BY <1>1, <2>2, <2>3 DEF LeaveConfirmed
<1>4. /\ session' \in [Call -> Session]
      /\ \A t \in Call : session'[t] = "live" <=> session[t] = "live"
  BY <1>1 DEF Core, CoreOK, Session, Closing
<1>5. /\ pc' \in [Call -> Thunk] /\ Running' = Running
      /\ \A d \in Call : Dialing(d)' <=> Dialing(d)
  BY <1>1 DEF Core, CoreOK, Thunk, Running, Dialing
<1>6. /\ status' \in Status /\ (IsStartInProgress' <=> IsStartInProgress)
      /\ status' = "connected" => status = "connected"
  BY <1>2 DEF Core, CoreOK, Status, IsStartInProgress, IsCallActive
<1>7. \A t \in Call : session[t] = "live" => conversation = t
  BY DEF Core, MicHeld
<1>8. status = "connected" => conversation # 0
  BY DEF Core, CallIsLive
<1>9. Core'
  BY <1>1, <1>4, <1>5, <1>6, <1>7, <1>8, NoThunkEnds DEF service
<1>. QED  BY <1>2, <1>3, <1>9

LEMMA DisconnectInv ==
  ASSUME CallInv, NEW s \in Call, Disconnect(s, "error") \/ Disconnect(s, "agent")
  PROVE  CallInv'
<1>. USE DEF CallInv
<1>1. /\ session[s] = "live" /\ session' = [session EXCEPT ![s] = "closed"]
      /\ UNCHANGED <<ui, startedAt, transcript, generation, thunks, micMuted>>
      /\ OnDisconnect(s, "error") \/ OnDisconnect(s, "agent")
  BY DEF Disconnect
<1>2. conversation = s /\ s # 0
  BY <1>1, CallTyped DEF Core, MicHeld
<1>3. IsCurrent(s)
  BY <1>2 DEF Core, HeldIsCurrent
<1>4. /\ conversation' = 0
      /\ SessionDisconnected(s, "error") \/ SessionDisconnected(s, "agent")
  BY <1>1, <1>3 DEF OnDisconnect
<1>5. /\ ShownOK'
      /\ \/ status' = status
         \/ IsCallActive /\ status' \in {"ended", "failed"}
  BY <1>1, <1>4, EndsActive
<1>6. status' # "connected"
  BY <1>4, <1>5 DEF SessionDisconnected, FinishCall, IsCallActive
<1>7. session' \in [Call -> Session] /\ \A t \in Call : session'[t] # "live"
  BY <1>1, <1>2 DEF Core, CoreOK, Session, MicHeld
<1>8. /\ UNCHANGED gen /\ pc' \in [Call -> Thunk] /\ Running' = Running
      /\ \A d \in Call : Dialing(d)' <=> Dialing(d)
  BY <1>1 DEF thunks, Core, CoreOK, Running, Dialing
<1>9. status' \in Status /\ (IsStartInProgress' <=> IsStartInProgress)
  BY <1>5 DEF Core, CoreOK, Status, IsStartInProgress, IsCallActive
<1>10. \A t \in Call : t # 0
  BY DEF Call
<1>11. Core'
  BY <1>1, <1>4, <1>6, <1>7, <1>8, <1>9, <1>10, NoThunkEnds
<1>12. UiOK'
  BY <1>1, UiStays
<1>. QED  BY <1>5, <1>11, <1>12

-----------------------------------------------------------------------------
(* Steps that move no thunk and no session. *)

LEMMA SpeakInv ==
  ASSUME CallInv, NEW s \in Call, Turn(s) \/ AgentErrorReported(s)
  PROVE  CallInv'
<1>1. UNCHANGED core /\ UNCHANGED ui
  BY DEF Turn, AgentErrorReported, core, outcome, sdk
<1>2. ShownOK'
  BY CallTyped DEF CallInv, ShownOK, Turn, AgentErrorReported, outcome, sdk
<1>. QED  BY <1>1, <1>2, CoreStays, UiStays DEF CallInv

LEMMA ButtonInv ==
  ASSUME CallInv, ToggleMute \/ AgentErrorDismissed \/ CallErrorDismissed
  PROVE  CallInv'
<1>1. UNCHANGED core /\ UNCHANGED ui
  BY DEF ToggleMute, AgentErrorDismissed, CallErrorDismissed, core, sdk
<1>2. CASE ToggleMute
  <2>1. muted' = ~muted /\ UNCHANGED <<error, duration, problem, startedAt, transcript>>
    BY <1>2 DEF ToggleMute
  <2>2. micMuted' \in [Call -> BOOLEAN]
    BY <1>2 DEF ToggleMute, CallInv, ShownOK
  <2>3. ShownOK'
    BY <2>1, <2>2 DEF CallInv, ShownOK
  <2>. QED  BY <1>1, <2>3, CoreStays, UiStays DEF CallInv
<1>3. CASE AgentErrorDismissed \/ CallErrorDismissed
  <2>1. ShownOK'
    BY <1>3, NoCallTyped
       DEF AgentErrorDismissed, CallErrorDismissed, CallInv, ShownOK, CallError, sdk
  <2>. QED  BY <1>1, <2>1, CoreStays, UiStays DEF CallInv
<1>. QED  BY <1>2, <1>3

LEMMA WalkInv ==
  ASSUME CallInv,
         \/ FollowEnd \/ CancelLeave \/ \E to \in Route : Leave(to)
         \/ \E to \in Route \ {"call"} : AskLeave(to)
  PROVE  CallInv'
<1>1. UNCHANGED <<slice, service, thunks, sdk>>
  BY DEF FollowEnd, CancelLeave, Leave, AskLeave
<1>2. UNCHANGED core /\ UNCHANGED <<outcome, startedAt, transcript, micMuted>>
  BY <1>1 DEF core, slice, outcome, sdk
<1>3. UiOK'
  <2>1. CASE FollowEnd \/ \E to \in Route : Leave(to)
    <3>1. PICK to \in Route : GoTo(to) /\ UNCHANGED leaving
      BY <2>1 DEF FollowEnd, Leave, Route
    <3>. QED  BY <3>1, GoToTyped DEF CallInv, UiOK
  <2>2. CASE CancelLeave \/ \E to \in Route \ {"call"} : AskLeave(to)
    BY <2>2 DEF CancelLeave, AskLeave, CallInv, UiOK
  <2>. QED  BY <2>1, <2>2
<1>. QED  BY <1>2, <1>3, CoreStays, ShownStays DEF CallInv

LEMMA StutterInv ==
  ASSUME CallInv, UNCHANGED vars
  PROVE  CallInv'
<1>1. UNCHANGED core /\ UNCHANGED ui
      /\ UNCHANGED <<outcome, startedAt, transcript, micMuted>>
  BY DEF vars, core, slice, outcome, sdk
<1>. QED  BY <1>1, CoreStays, UiStays, ShownStays DEF CallInv

LEMMA Inductive == CallInv /\ [Next]_vars => CallInv'
<1>. SUFFICES ASSUME CallInv, [Next]_vars PROVE CallInv'
  OBVIOUS
<1>1. ASSUME NEW c \in Call,
             \/ Start(c) \/ MicGranted(c) \/ MicRefused(c) \/ Connect(c)
             \/ UrlFailed(c) \/ Loaded(c) \/ LoadFailed(c) \/ SessionUp(c)
             \/ SessionLate(c) \/ SessionFailed(c) \/ Timeout(c) \/ Closed(c)
             \/ Disconnect(c, "error") \/ Disconnect(c, "agent") \/ Turn(c)
             \/ AgentErrorReported(c)
      PROVE  CallInv'
  BY <1>1, StartInv, AttemptFailsInv, MicGrantedInv, ConnectInv, LoadedInv,
     SessionUpInv, NotHeldInv, ClosedInv, DisconnectInv, SpeakInv
<1>2. CASE \/ End \/ ToggleMute \/ FollowEnd \/ CancelLeave \/ ConfirmLeave
           \/ AgentErrorDismissed \/ CallErrorDismissed
           \/ \E to \in Route : Leave(to)
           \/ \E to \in Route \ {"call"} : AskLeave(to)
  BY <1>2, HangUpInv, ButtonInv, WalkInv
<1>. QED  BY <1>1, <1>2, StutterInv DEF Next

LEMMA Invariance == Spec => []CallInv
BY InitInv, Inductive, PTL DEF Spec

-----------------------------------------------------------------------------
\* Every variable of the caller's console keeps its type, and a conversation
\* that the service holds is a session that is up.
THEOREM CallIsTyped == Spec => []TypeOK
<1>1. CallInv => TypeOK
  BY TypeParts DEF CallInv, Core
<1>. QED  BY <1>1, Invariance, PTL

\* However calls are started, timed out, replaced, dropped and ended, the only
\* session that is up is the one the service holds.
THEOREM OneMicrophone == Spec => []MicHeld
<1>1. CallInv => MicHeld
  BY DEF CallInv, Core
<1>. QED  BY <1>1, Invariance, PTL

\* The slice never says connected without a session behind it.
THEOREM ConnectedIsLive == Spec => []CallIsLive
<1>1. CallInv => CallIsLive
  BY DEF CallInv, Core
<1>. QED  BY <1>1, Invariance, PTL

\* One startCall runs at a time, and the status says when.
THEOREM OneStartCall == Spec => []OneAttempt
<1>1. CallInv => OneAttempt
  BY DEF CallInv, Core
<1>. QED  BY <1>1, Invariance, PTL

-----------------------------------------------------------------------------
(***************************************************************************)
(* What the screen shows is the last call's.  Calls are numbered in the    *)
(* order they are started, and only the last one runs (RunsLast) or is     *)
(* connected (HeldIsLast); a generation is one call's (GenerationsApart),  *)
(* so a callback that is not ignored is of the conversation that is held,  *)
(* and while a call is ending every callback is (EndingIsStale).           *)
(***************************************************************************)

\* The calls 1 .. n were started.
Counts(p, n) == n \in 0 .. MaxCalls /\ \A c \in Call : p[c] # "none" <=> c <= n

Counted == Counts(pc, Latest)

RunsLast == \A c \in Running : c = Latest

LatestIn(p) == IF \A c \in Call : p[c] = "none" THEN 0
               ELSE CHOOSE c \in Call :
                      /\ p[c] # "none"
                      /\ \A d \in c + 1 .. MaxCalls : p[d] = "none"

LEMMA CountsLatest ==
  ASSUME NEW p, NEW n, Counts(p, n)
  PROVE  LatestIn(p) = n
<1>. USE MaxCallsAssumption DEF Counts, Call
<1>1. CASE n = 0
  BY <1>1 DEF LatestIn
<1>2. CASE n # 0
  <2>. DEFINE Last(c) == p[c] # "none" /\ \A d \in c + 1 .. MaxCalls : p[d] = "none"
  <2>1. n \in Call /\ Last(n)
    BY <1>2
  <2>2. ASSUME NEW c \in Call, Last(c) PROVE c = n
    <3>1. c <= n
      BY <2>2
    <3>2. ~(c < n)
      BY <1>2, <2>2
    <3>. QED  BY <3>1, <3>2
  <2>3. LatestIn(p) = CHOOSE c \in Call : Last(c)
    BY <2>1 DEF LatestIn
  <2>. HIDE DEF Last
  <2>. QED  BY <2>1, <2>2, <2>3
<1>. QED  BY <1>1, <1>2

LEMMA LatestPc == Latest = LatestIn(pc) /\ Latest' = LatestIn(pc')
BY DEF Latest, LatestIn

\* No step but Start starts a thunk, and none goes back.
LEMMA PcMoves ==
  ASSUME CallInv, [Next]_vars, \A c \in Call : ~Start(c)
  PROVE  /\ pc' \in [Call -> Thunk]
         /\ \A c \in Call : /\ pc[c] = "none" <=> pc'[c] = "none"
                            /\ pc[c] = "done" => pc'[c] = "done"
<1>1. pc \in [Call -> Thunk]
  BY DEF CallInv, Core, CoreOK
<1>2. \/ pc' = pc
      \/ \E c \in Call, at \in Thunk \ {"none"} :
           pc' = [pc EXCEPT ![c] = at] /\ pc[c] \notin {"none", "done"}
      \/ pc' = [c \in Call |-> IF pc[c] = "closing" THEN "loading" ELSE pc[c]]
  <2>1. ASSUME NEW c \in Call,
               \/ MicGranted(c) \/ MicRefused(c) \/ Connect(c)
               \/ UrlFailed(c) \/ Loaded(c) \/ LoadFailed(c) \/ SessionUp(c)
               \/ Timeout(c)
        PROVE  \E at \in Thunk \ {"none"} :
                 pc' = [pc EXCEPT ![c] = at] /\ pc[c] \notin {"none", "done"}
    BY <2>1 DEF MicGranted, MicRefused, Connect, UrlFailed, Loaded, LoadFailed,
       SessionUp, Timeout, Rejected, Fulfilled, Thunk
  <2>2. ASSUME NEW c \in Call, SessionFailed(c)
        PROVE  \/ pc' = pc
               \/ pc' = [pc EXCEPT ![c] = "done"] /\ pc[c] = "dialing"
    BY <2>2 DEF SessionFailed, Rejected
  <2>3. ASSUME NEW c \in Call,
               SessionLate(c) \/ Disconnect(c, "error")
               \/ Disconnect(c, "agent") \/ Turn(c) \/ AgentErrorReported(c)
        PROVE  pc' = pc
    BY <2>3 DEF SessionLate, Disconnect, Turn, AgentErrorReported, thunks
  <2>4. ASSUME NEW c \in Call, Closed(c)
        PROVE  \/ pc' = pc
               \/ pc' = [d \in Call |-> IF pc[d] = "closing" THEN "loading" ELSE pc[d]]
    BY <2>4 DEF Closed
  <2>5. CASE \/ End \/ ToggleMute \/ FollowEnd \/ CancelLeave \/ ConfirmLeave
             \/ AgentErrorDismissed \/ CallErrorDismissed
             \/ \E to \in Route : Leave(to)
             \/ \E to \in Route \ {"call"} : AskLeave(to)
             \/ UNCHANGED vars
    BY <2>5 DEF End, HangUp, ToggleMute, FollowEnd, CancelLeave, ConfirmLeave,
       AgentErrorDismissed, CallErrorDismissed, Leave, AskLeave, vars, thunks
  <2>6. "done" \in Thunk \ {"none"}
    BY DEF Thunk
  <2>. QED  BY <2>1, <2>2, <2>3, <2>4, <2>5, <2>6 DEF Next
<1>. QED  BY <1>1, <1>2 DEF Thunk

LEMMA LatestStays ==
  ASSUME CallInv, Counted, RunsLast, [Next]_vars, \A c \in Call : ~Start(c)
  PROVE  Latest' = Latest /\ Counted' /\ RunsLast'
<1>1. Counts(pc', Latest)
  BY PcMoves DEF Counted, Counts
<1>2. Latest' = Latest
  BY <1>1, CountsLatest, LatestPc
<1>3. Running' \subseteq Running
  BY PcMoves DEF Running
<1>. QED  BY <1>1, <1>2, <1>3 DEF Counted, RunsLast

LEMMA LatestStarts ==
  ASSUME CallInv, Counted, NEW c \in Call, Start(c)
  PROVE  /\ c = Latest + 1 /\ Latest' = c
         /\ Counted' /\ RunsLast'
<1>1. pc' = [pc EXCEPT ![c] = "mic"] /\ pc \in [Call -> Thunk]
      /\ pc[c] = "none" /\ \A d \in 1 .. c - 1 : pc[d] # "none"
  BY DEF Start, CallInv, Core, CoreOK
<1>2. c = Latest + 1
  <2>1. ~(c <= Latest)
    BY <1>1 DEF Counted, Counts
  <2>2. CASE c = 1
    BY <2>1, <2>2, MaxCallsAssumption DEF Counted, Counts
  <2>3. CASE c # 1
    <3>1. c - 1 \in Call /\ c - 1 \in 1 .. c - 1
      BY <2>3, MaxCallsAssumption DEF Call
    <3>2. c - 1 <= Latest
      BY <1>1, <3>1 DEF Counted, Counts
    <3>. QED  BY <2>1, <3>2, MaxCallsAssumption DEF Counted, Counts, Call
  <2>. QED  BY <2>2, <2>3
<1>3. Counts(pc', c)
  BY <1>1, <1>2, MaxCallsAssumption DEF Counted, Counts, Call
<1>4. Latest' = c
  BY <1>3, CountsLatest, LatestPc
<1>5. Running = {}
  BY DEF Start, CallInv, Core, OneAttempt
<1>6. Running' = {c}
  BY <1>1, <1>5 DEF Running
<1>. QED  BY <1>2, <1>3, <1>4, <1>6 DEF Counted, RunsLast

-----------------------------------------------------------------------------
(* Generations and the conversation that is held. *)

\* A generation is one call's, and every session was opened under one.
GenerationsApart ==
  /\ \A c \in Call : gen[c] <= generation
  /\ \A c, d \in Call : gen[c] = gen[d] /\ gen[c] # 0 => c = d
  /\ \A c \in Call : session[c] # "none" \/ Dialing(c) => gen[c] # 0

\* The conversation that is held is of a call that has got through; a call
\* that is shown as connected is the last one.
HeldIsLast == /\ conversation # 0 => pc[conversation] = "done"
              /\ status = "connected" => conversation = Latest

EndingIsStale == status = "ending" => \A c \in Call : ~IsCurrent(c)

\* An attempt starts with the microphone on, on Ready.
StartsUnmuted == /\ IsStartInProgress => ~muted /\ screen # "call"
                 /\ \A c \in Call : micMuted[c] => pc[c] = "done"

OwnInv == /\ Counted /\ RunsLast /\ GenerationsApart /\ HeldIsLast
          /\ EndingIsStale /\ StartsUnmuted

\* What a step may do to generations and sessions.
LEMMA GenerationsKept ==
  ASSUME CallInv, GenerationsApart,
         generation' \in Nat, generation' >= generation, UNCHANGED gen,
         \A c \in Call : (session[c] = "none" /\ ~Dialing(c)) =>
                           (session'[c] = "none" /\ ~Dialing(c)')
  PROVE  GenerationsApart'
<1>1. generation \in Nat /\ gen \in [Call -> Nat]
  BY DEF CallInv, Core, CoreOK
<1>. QED  BY <1>1 DEF GenerationsApart

LEMMA GenerationsStep ==
  ASSUME CallInv, GenerationsApart, [Next]_vars
  PROVE  GenerationsApart'
<1>1. /\ generation \in Nat /\ gen \in [Call -> Nat] /\ pc \in [Call -> Thunk]
      /\ session \in [Call -> Session] /\ conversation \in 0 .. MaxCalls
      /\ conversation # 0 => session[conversation] = "live"
  BY DEF CallInv, Core, CoreOK
<1>2. ASSUME NEW c \in Call, Connect(c) PROVE GenerationsApart'
  <2>1. /\ gen' = [gen EXCEPT ![c] = generation + 1] /\ generation' = generation + 1
        /\ \A d \in Call : d # c => pc'[d] = pc[d]
        /\ \A d \in Call : session'[d] # "none" => session[d] # "none"
    BY <1>1, <1>2, CallTyped DEF Connect, EndCurrent
  <2>. QED  BY <1>1, <2>1 DEF GenerationsApart, Dialing
<1>3. ASSUME NEW c \in Call,
             \/ Start(c) \/ MicGranted(c) \/ MicRefused(c) \/ UrlFailed(c)
             \/ Loaded(c) \/ LoadFailed(c) \/ SessionUp(c) \/ SessionLate(c)
             \/ SessionFailed(c) \/ Timeout(c) \/ Closed(c)
             \/ Disconnect(c, "error") \/ Disconnect(c, "agent") \/ Turn(c)
             \/ AgentErrorReported(c)
      PROVE  /\ UNCHANGED <<gen, generation>>
             /\ \A d \in Call : (session[d] = "none" /\ ~Dialing(d)) =>
                                  (session'[d] = "none" /\ ~Dialing(d)')
  <2>1. CASE \/ Start(c) \/ MicGranted(c) \/ MicRefused(c) \/ UrlFailed(c)
             \/ LoadFailed(c) \/ Timeout(c) \/ Turn(c) \/ AgentErrorReported(c)
    BY <1>1, <2>1 DEF Start, MicGranted, MicRefused, UrlFailed, LoadFailed,
       Timeout, Turn, AgentErrorReported, Rejected, service, thunks, sdk, Dialing
  <2>2. CASE \/ Loaded(c) \/ SessionUp(c) \/ SessionLate(c) \/ SessionFailed(c)
    BY <1>1, <2>2 DEF Loaded, SessionUp, SessionLate, SessionFailed, Rejected,
       Fulfilled, service, thunks, Dialing
  <2>3. CASE Closed(c) \/ Disconnect(c, "error") \/ Disconnect(c, "agent")
    BY <1>1, <2>3 DEF Closed, Disconnect, Closing, service, thunks, Dialing
  <2>. QED  BY <1>3, <2>1, <2>2, <2>3
<1>4. CASE \/ ToggleMute \/ FollowEnd \/ CancelLeave
           \/ AgentErrorDismissed \/ CallErrorDismissed
           \/ \E to \in Route : Leave(to)
           \/ \E to \in Route \ {"call"} : AskLeave(to)
           \/ UNCHANGED vars
  <2>1. UNCHANGED <<gen, generation, session, pc>>
    BY <1>4 DEF ToggleMute, FollowEnd, CancelLeave, AgentErrorDismissed,
       CallErrorDismissed, Leave, AskLeave, vars, service, thunks, sdk
  <2>. QED  BY <1>1, <2>1, GenerationsKept DEF Dialing
<1>5. CASE End \/ ConfirmLeave
  <2>1. /\ UNCHANGED <<gen, pc>> /\ generation' = generation + 1
        /\ \A d \in Call : session'[d] # "none" => session[d] # "none"
    BY <1>1, <1>5 DEF End, ConfirmLeave, HangUp, EndCurrent, thunks, Call
  <2>. QED  BY <1>1, <2>1, GenerationsKept DEF Dialing
<1>6. ASSUME NEW c \in Call,
             /\ UNCHANGED <<gen, generation>>
             /\ \A d \in Call : (session[d] = "none" /\ ~Dialing(d)) =>
                                  (session'[d] = "none" /\ ~Dialing(d)')
      PROVE  GenerationsApart'
  BY <1>1, <1>6, GenerationsKept
<1>. QED  BY <1>2, <1>3, <1>4, <1>5, <1>6 DEF Next

\* Only Fulfilled shows a call as connected, and only HangUp as ending.
LEMMA CallsKept ==
  ASSUME CallInv, [Next]_vars,
         \A c \in Call : ~SessionUp(c), ~End, ~ConfirmLeave
  PROVE  /\ conversation' \in {0, conversation}
         /\ status' = "connected" => status = "connected"
         /\ status' = "ending" => status = "ending" /\ UNCHANGED <<gen, generation>>
<1>1. ASSUME NEW c \in Call,
             \/ Start(c) \/ MicGranted(c) \/ MicRefused(c) \/ UrlFailed(c)
             \/ LoadFailed(c) \/ Timeout(c) \/ Connect(c)
      PROVE  conversation' \in {0, conversation} /\ status' \notin {"connected", "ending"}
  BY <1>1 DEF Start, StartPending, MicGranted, MicRefused, UrlFailed,
     LoadFailed, Timeout, Connect, EndCurrent, StatusChanged, Rejected, service
<1>2. ASSUME NEW c \in Call,
             \/ Loaded(c) \/ SessionLate(c) \/ SessionFailed(c) \/ Turn(c)
             \/ AgentErrorReported(c)
      PROVE  /\ UNCHANGED <<service, gen>>
             /\ status' = status \/ status' = "failed"
  BY <1>2 DEF Loaded, SessionLate, SessionFailed, Turn, AgentErrorReported,
     Rejected, thunks, slice, outcome
<1>3. ASSUME NEW c \in Call,
             Closed(c) \/ Disconnect(c, "error") \/ Disconnect(c, "agent")
      PROVE  /\ UNCHANGED <<gen, generation>> /\ conversation' \in {0, conversation}
             /\ status' = status \/ status' \in {"ended", "failed"}
  BY <1>3 DEF Closed, EndFulfilled, Disconnect, OnDisconnect,
     SessionDisconnected, FinishCall, outcome, service, thunks
<1>4. CASE \/ ToggleMute \/ FollowEnd \/ CancelLeave
           \/ AgentErrorDismissed \/ CallErrorDismissed
           \/ \E to \in Route : Leave(to)
           \/ \E to \in Route \ {"call"} : AskLeave(to)
           \/ UNCHANGED vars
  BY <1>4 DEF ToggleMute, FollowEnd, CancelLeave, AgentErrorDismissed,
     CallErrorDismissed, Leave, AskLeave, vars, slice, outcome, service, thunks
<1>. QED  BY <1>1, <1>2, <1>3, <1>4 DEF Next, service

LEMMA HeldStep ==
  ASSUME CallInv, CallInv', Counted, RunsLast, HeldIsLast, [Next]_vars
  PROVE  HeldIsLast'
<1>1. /\ pc \in [Call -> Thunk] /\ conversation \in 0 .. MaxCalls
      /\ pc' \in [Call -> Thunk] /\ conversation' \in 0 .. MaxCalls
      /\ status' = "connected" => conversation' # 0
  BY DEF CallInv, Core, CoreOK, CallIsLive
<1>2. ASSUME NEW c \in Call, Start(c) PROVE HeldIsLast'
  BY <1>1, <1>2 DEF HeldIsLast, Start, StartPending, service, Call
<1>3. ASSUME NEW c \in Call, SessionUp(c), IsCurrent(c) PROVE HeldIsLast'
  <2>1. c = Latest /\ ~Start(c)
    BY <1>3, IsRunning DEF SessionUp, Start, RunsLast
  <2>2. \A d \in Call : ~Start(d)
    <3>1. status' # "requesting-microphone"
      BY <1>3 DEF SessionUp, Fulfilled
    <3>. QED  BY <3>1 DEF Start, StartPending
  <2>3. Latest' = Latest
    BY <2>2, LatestStays
  <2>. QED  BY <1>1, <1>3, <2>1, <2>3 DEF SessionUp, Fulfilled, HeldIsLast
<1>4. CASE \A c \in Call : ~Start(c) /\ ~(SessionUp(c) /\ IsCurrent(c))
  <2>1. Latest' = Latest /\ \A c \in Call : pc[c] = "done" => pc'[c] = "done"
    BY <1>4, LatestStays, PcMoves
  <2>2. /\ conversation' \in {0, conversation}
        /\ status' = "connected" => status = "connected"
    <3>1. CASE \E c \in Call : SessionUp(c)
      BY <1>4, <3>1 DEF SessionUp, Rejected
    <3>2. CASE End \/ ConfirmLeave
      BY <3>2 DEF End, ConfirmLeave, Asked, HangUp, EndCurrent, FinishCall
    <3>. QED  BY <3>1, <3>2, CallsKept
  <2>. QED  BY <1>1, <2>1, <2>2 DEF HeldIsLast, Call
<1>. QED  BY <1>2, <1>3, <1>4

LEMMA EndingStep ==
  ASSUME CallInv, GenerationsApart, EndingIsStale, [Next]_vars
  PROVE  EndingIsStale'
<1>1. generation \in Nat /\ gen \in [Call -> Nat]
  BY DEF CallInv, Core, CoreOK
<1>2. CASE End \/ ConfirmLeave
  <2>1. generation' = generation + 1 /\ UNCHANGED gen
    BY <1>2 DEF End, ConfirmLeave, HangUp, thunks
  <2>. QED  BY <1>1, <2>1 DEF GenerationsApart, EndingIsStale, IsCurrent
<1>3. CASE ~End /\ ~ConfirmLeave
  <2>1. status' = "ending" => status = "ending" /\ UNCHANGED <<gen, generation>>
    <3>1. CASE \E c \in Call : SessionUp(c)
      BY <3>1 DEF SessionUp, Fulfilled, Rejected
    <3>. QED  BY <1>3, <3>1, CallsKept
  <2>. QED  BY <2>1 DEF EndingIsStale, IsCurrent
<1>. QED  BY <1>2, <1>3

LEMMA UnmutedStep ==
  ASSUME CallInv, HeldIsLast, StartsUnmuted, [Next]_vars
  PROVE  StartsUnmuted'
<1>1. \A c \in Call : micMuted'[c] => pc'[c] = "done"
  <2>1. CASE ToggleMute
    <3>1. micMuted \in [Call -> BOOLEAN] /\ UNCHANGED pc
      BY <2>1 DEF CallInv, ShownOK, ToggleMute, thunks
    <3>. QED  BY <2>1, <3>1 DEF ToggleMute, StartsUnmuted, HeldIsLast
  <2>2. CASE ~ToggleMute
    <3>1. UNCHANGED micMuted
      BY <2>2 DEF Next, Start, MicGranted, MicRefused, Connect, UrlFailed,
         Loaded, LoadFailed, SessionUp, SessionLate, SessionFailed, Timeout,
         Closed, Disconnect, Turn, AgentErrorReported, End, HangUp, FollowEnd,
         CancelLeave, ConfirmLeave, AgentErrorDismissed, CallErrorDismissed,
         Leave, AskLeave, vars, sdk
    <3>2. CASE \E c \in Call : Start(c)
      BY <3>1, <3>2 DEF StartsUnmuted, Start, CallInv, Core, CoreOK
    <3>3. CASE \A c \in Call : ~Start(c)
      BY <3>1, <3>3, PcMoves DEF StartsUnmuted
    <3>. QED  BY <3>2, <3>3
  <2>. QED  BY <2>1, <2>2
<1>2. IsStartInProgress' => ~muted' /\ screen' # "call"
  <2>1. ASSUME NEW c \in Call,
               \/ Start(c) \/ MicGranted(c) \/ MicRefused(c) \/ UrlFailed(c)
               \/ LoadFailed(c) \/ Timeout(c) \/ Connect(c)
        PROVE  IsStartInProgress' => ~muted' /\ screen' # "call"
    BY <2>1, IsRunning DEF Start, StartPending, MicGranted, MicRefused, UrlFailed,
       LoadFailed, Timeout, Connect, StatusChanged, Rejected, ui,
       StartsUnmuted, CallInv, Core, OneAttempt
  <2>2. ASSUME NEW c \in Call,
               \/ Loaded(c) \/ SessionLate(c) \/ SessionFailed(c) \/ Turn(c)
               \/ AgentErrorReported(c) \/ SessionUp(c)
        PROVE  IsStartInProgress' => ~muted' /\ screen' # "call"
    <3>1. \/ status' \in {"failed", "connected"}
          \/ UNCHANGED <<status, muted, screen>>
      BY <2>2 DEF Loaded, SessionLate, SessionFailed, Turn, AgentErrorReported,
         SessionUp, Rejected, Fulfilled, slice, outcome, ui
    <3>. QED  BY <3>1 DEF StartsUnmuted, IsStartInProgress
  <2>3. ASSUME NEW to, GoTo(to), UNCHANGED <<status, muted>>
        PROVE  IsStartInProgress' => ~muted' /\ screen' # "call"
    BY <2>3 DEF GoTo, StartsUnmuted, IsStartInProgress, IsCallActive
  <2>4. ASSUME NEW c \in Call,
               Closed(c) \/ Disconnect(c, "error") \/ Disconnect(c, "agent")
        PROVE  IsStartInProgress' => ~muted' /\ screen' # "call"
    <3>1. \/ status' \in {"ended", "failed"}
          \/ /\ UNCHANGED <<status, muted>>
             /\ screen' = screen \/ \E to : GoTo(to)
      BY <2>4 DEF Closed, EndFulfilled, LeaveConfirmed, Disconnect,
         OnDisconnect, SessionDisconnected, FinishCall, outcome, ui
    <3>. QED  BY <2>3, <3>1 DEF StartsUnmuted, IsStartInProgress
  <2>5. CASE End \/ ConfirmLeave
    BY <2>5 DEF End, ConfirmLeave, HangUp, FinishCall, IsStartInProgress
  <2>6. CASE ToggleMute
    BY <2>6 DEF ToggleMute, StartsUnmuted, IsStartInProgress, ui
  <2>7. CASE \/ FollowEnd \/ CancelLeave
             \/ AgentErrorDismissed \/ CallErrorDismissed
             \/ \E to \in Route : Leave(to)
             \/ \E to \in Route \ {"call"} : AskLeave(to)
             \/ UNCHANGED vars
    <3>1. UNCHANGED <<status, muted>> /\ (screen' = screen \/ \E to : GoTo(to))
      BY <2>7 DEF FollowEnd, CancelLeave, AgentErrorDismissed,
         CallErrorDismissed, Leave, AskLeave, vars, slice, outcome, ui
    <3>. QED  BY <2>3, <3>1 DEF StartsUnmuted, IsStartInProgress
  <2>. QED  BY <2>1, <2>2, <2>4, <2>5, <2>6, <2>7 DEF Next
<1>. QED  BY <1>1, <1>2 DEF StartsUnmuted

-----------------------------------------------------------------------------
(* What is shown, by the ways the slice is written. *)

\* The parts of the slice ShownIsOwn speaks of are left alone, and so is the
\* mute of a call that is connected.
LEMMA OwnStays ==
  ASSUME ShownIsOwn, Latest' = Latest, UNCHANGED <<outcome, startedAt>>,
         status = "connected" =>
           micMuted'[conversation'] = micMuted[conversation]
  PROVE  ShownIsOwn'
BY DEF ShownIsOwn, ErrorIsCurrent, IsCallActive, outcome

\* The running attempt is rejected.
LEMMA OwnRejected ==
  ASSUME CallInv, OwnInv, NEW c \in Running, Latest' = Latest,
         NEW e \in {MicrophoneError(c), ApiError(c), ConnectionError(c)},
         Rejected(c, e)
  PROVE  ShownIsOwn'
<1>1. c = Latest /\ c \in Call /\ c # 0
  BY CallTyped DEF OwnInv, RunsLast, Running
<1>2. e.call = Latest /\ e.source # "dropped"
  BY <1>1 DEF MicrophoneError, ApiError, ConnectionError
<1>3. /\ status' = "failed" /\ error' = e /\ problem' = 0
      /\ startedAt' = 0 /\ duration' = 0
  BY DEF Rejected
<1>. QED  BY <1>1, <1>2, <1>3 DEF ShownIsOwn, ErrorIsCurrent, IsCallActive

\* It gets on.
LEMMA OwnChanged ==
  ASSUME CallInv, ShownIsOwn, IsStartInProgress, Latest' = Latest,
         NEW s \in {"fetching-session", "connecting"}, StatusChanged(s)
  PROVE  ShownIsOwn'
<1>1. problem' = 0 /\ error' = NoError /\ status' = s
  BY DEF StatusChanged, ShownIsOwn, IsStartInProgress, IsCallActive
<1>. QED  BY <1>1 DEF ShownIsOwn, ErrorIsCurrent, IsCallActive

\* A call that is on is over, and if it is said to have failed, it is the last.
LEMMA OwnFinished ==
  ASSUME CallInv, ShownIsOwn, IsCallActive, Latest' = Latest,
         UNCHANGED startedAt, NEW to, NEW e, FinishCall(to, e),
         \/ to = "ended" /\ e = NoError
         \/ to = "failed" /\ e = DroppedCallError(Latest)
  PROVE  ShownIsOwn'
<1>1. /\ status' = to /\ error' = e /\ problem' = 0
      /\ duration' = Latest
  BY DEF FinishCall, ShownIsOwn
<1>2. DroppedCallError(Latest).call = Latest
      /\ DroppedCallError(Latest).source = "dropped"
  BY DEF DroppedCallError
<1>. QED  BY <1>1, <1>2 DEF ShownIsOwn, ErrorIsCurrent, IsCallActive

LEMMA OwnStart ==
  ASSUME CallInv, OwnInv, ShownIsOwn, NEW c \in Call, Start(c)
  PROVE  ShownIsOwn'
<1>1. c = Latest + 1 /\ Latest' = c /\ Latest \in 0 .. MaxCalls
  BY LatestStarts DEF OwnInv, Counted, Counts
<1>2. /\ status' = "requesting-microphone" /\ problem' = 0 /\ error' = error
      /\ status # "requesting-microphone"
  BY DEF Start, StartPending, IsStartInProgress
<1>3. error # NoError => error.call = Latest
  BY <1>2 DEF ShownIsOwn, ErrorIsCurrent
<1>4. Latest' - 1 = Latest
  BY <1>1, MaxCallsAssumption
<1>. QED  BY <1>2, <1>3, <1>4 DEF ShownIsOwn, ErrorIsCurrent, IsCallActive

\* startCall.fulfilled
LEMMA OwnFulfilled ==
  ASSUME CallInv, OwnInv, ShownIsOwn, NEW c \in Call, Latest' = Latest,
         SessionUp(c), IsCurrent(c)
  PROVE  ShownIsOwn'
<1>1. c \in Running /\ c = Latest
  BY IsRunning DEF SessionUp, OwnInv, RunsLast
<1>2. IsStartInProgress
  BY <1>1 DEF CallInv, Core, OneAttempt
<1>3. problem = 0 /\ muted = FALSE
  BY <1>2 DEF ShownIsOwn, IsStartInProgress, IsCallActive, OwnInv,
     StartsUnmuted, CallInv, ShownOK
<1>4. micMuted[c] = FALSE
  BY DEF SessionUp, OwnInv, StartsUnmuted, CallInv, ShownOK
<1>. QED  BY <1>1, <1>3, <1>4
          DEF SessionUp, Fulfilled, ShownIsOwn, ErrorIsCurrent, IsCallActive

\* A callback that is not ignored while a call is connected is of the last
\* call; while it is ending, every callback is ignored.
LEMMA CallbackOfLast ==
  ASSUME CallInv, OwnInv, NEW s \in Call, IsCurrent(s), session[s] # "none",
         IsCallActive
  PROVE  s = Latest
<1>1. status = "connected"
  BY DEF OwnInv, EndingIsStale, IsCallActive
<1>2. conversation = Latest /\ conversation \in Call /\ IsCurrent(conversation)
  BY <1>1 DEF OwnInv, HeldIsLast, CallInv, Core, CoreOK, CallIsLive,
     HeldIsCurrent, Call
<1>. QED  BY <1>2 DEF IsCurrent, OwnInv, GenerationsApart

LEMMA OwnCallbacks ==
  ASSUME CallInv, OwnInv, ShownIsOwn, NEW s \in Call, Latest' = Latest,
         \/ Disconnect(s, "error") \/ Disconnect(s, "agent")
         \/ AgentErrorReported(s) \/ Closed(s)
  PROVE  ShownIsOwn'
<1>1. CASE Disconnect(s, "error") \/ Disconnect(s, "agent")
  <2>1. conversation = s /\ IsCurrent(s) /\ session[s] = "live"
    BY <1>1, CallTyped
       DEF Disconnect, CallInv, Core, MicHeld, HeldIsCurrent
  <2>2. UNCHANGED <<startedAt, micMuted>>
        /\ (SessionDisconnected(s, "error") \/ SessionDisconnected(s, "agent"))
    BY <1>1, <2>1 DEF Disconnect, OnDisconnect
  <2>3. CASE IsCallActive
    <3>1. s = Latest
      BY <2>1, <2>3, CallbackOfLast
    <3>2. \/ FinishCall("ended", NoError)
          \/ FinishCall("failed", DroppedCallError(Latest))
      BY <2>2, <2>3, <3>1 DEF SessionDisconnected
    <3>. QED  BY <2>2, <2>3, <3>2, OwnFinished
  <2>4. CASE ~IsCallActive
    BY <2>2, <2>4, OwnStays DEF SessionDisconnected, IsCallActive
  <2>. QED  BY <2>3, <2>4
<1>2. CASE AgentErrorReported(s)
  <2>1. s = Latest
    BY <1>2, CallbackOfLast DEF AgentErrorReported, Closing
  <2>2. /\ problem' = s /\ IsCallActive
        /\ UNCHANGED <<status, muted, error, duration, startedAt, conversation, micMuted>>
    BY <1>2 DEF AgentErrorReported, service, sdk
  <2>. QED  BY <2>1, <2>2 DEF ShownIsOwn, ErrorIsCurrent, IsCallActive
<1>3. CASE Closed(s)
  <2>1. UNCHANGED <<startedAt, conversation, micMuted>>
        /\ (EndFulfilled \/ UNCHANGED outcome)
    BY <1>3 DEF Closed, service
  <2>2. CASE IsCallActive /\ FinishCall("ended", NoError)
    BY <2>1, <2>2, OwnFinished
  <2>3. CASE UNCHANGED outcome
    BY <2>1, <2>3, OwnStays
  <2>. QED  BY <2>1, <2>2, <2>3 DEF EndFulfilled
<1>. QED  BY <1>1, <1>2, <1>3

LEMMA OwnButtons ==
  ASSUME CallInv, ShownIsOwn, Latest' = Latest,
         \/ ToggleMute \/ AgentErrorDismissed \/ CallErrorDismissed
         \/ End \/ ConfirmLeave
  PROVE  ShownIsOwn'
<1>1. CASE ToggleMute
  <2>1. /\ muted' = ~muted /\ UNCHANGED <<conversation>>
        /\ UNCHANGED <<status, error, duration, problem, startedAt>>
    BY <1>1 DEF ToggleMute, service
  <2>2. status = "connected" => micMuted'[conversation] = ~muted
    <3>1. SUFFICES ASSUME status = "connected"
                   PROVE  micMuted'[conversation] = ~muted
      OBVIOUS
    <3>2. conversation # 0 /\ conversation \in Call
      BY <3>1 DEF CallInv, Core, CoreOK, CallIsLive, Call
    <3>3. micMuted \in [Call -> BOOLEAN]
      BY DEF CallInv, ShownOK
    <3>4. micMuted' = [micMuted EXCEPT ![conversation] = ~muted]
      BY <1>1, <3>2 DEF ToggleMute
    <3>. QED  BY <3>2, <3>3, <3>4
  <2>. QED  BY <2>1, <2>2 DEF ShownIsOwn, ErrorIsCurrent, IsCallActive
<1>2. CASE AgentErrorDismissed \/ CallErrorDismissed
  BY <1>2 DEF AgentErrorDismissed, CallErrorDismissed, service, sdk,
     ShownIsOwn, ErrorIsCurrent, IsCallActive
<1>3. CASE End \/ ConfirmLeave
  <2>1. HangUp /\ status = "connected" /\ conversation # 0
    BY <1>3 DEF End, ConfirmLeave, Asked, CallInv, Core, CallIsLive
  <2>2. status' = "ending" /\ UNCHANGED <<error, duration, problem, startedAt>>
    BY <2>1 DEF HangUp
  <2>. QED  BY <2>1, <2>2 DEF ShownIsOwn, ErrorIsCurrent, IsCallActive
<1>. QED  BY <1>1, <1>2, <1>3

LEMMA OwnStep ==
  ASSUME CallInv, OwnInv, ShownIsOwn, [Next]_vars
  PROVE  ShownIsOwn'
<1>1. CASE \E c \in Call : Start(c)
  BY <1>1, OwnStart
<1>2. CASE \A c \in Call : ~Start(c)
  <2>1. Latest' = Latest
    BY <1>2, LatestStays DEF OwnInv
  <2>2. ASSUME NEW c \in Call,
               \/ MicRefused(c) \/ UrlFailed(c) \/ LoadFailed(c) \/ Timeout(c)
               \/ Loaded(c) /\ ~IsCurrent(c)
               \/ SessionUp(c) /\ ~IsCurrent(c)
               \/ SessionFailed(c) /\ pc[c] = "dialing"
        PROVE  ShownIsOwn'
    <3>1. c \in Running
      BY <2>2, IsRunning DEF MicRefused, UrlFailed, LoadFailed, Timeout,
         Loaded, SessionUp
    <3>2. \E e \in {MicrophoneError(c), ApiError(c), ConnectionError(c)} :
            Rejected(c, e)
      BY <2>2 DEF MicRefused, UrlFailed, LoadFailed, Timeout, Loaded,
         SessionUp, SessionFailed
    <3>. QED  BY <2>1, <3>1, <3>2, OwnRejected
  <2>3. ASSUME NEW c \in Call, MicGranted(c) \/ Connect(c)
        PROVE  ShownIsOwn'
    <3>1. c \in Running
      BY <2>3, IsRunning DEF MicGranted, Connect
    <3>2. IsStartInProgress
      BY <3>1 DEF CallInv, Core, OneAttempt
    <3>. QED  BY <2>1, <2>3, <3>2, OwnChanged DEF MicGranted, Connect
  <2>4. ASSUME NEW c \in Call, SessionUp(c), IsCurrent(c)
        PROVE  ShownIsOwn'
    BY <2>1, <2>4, OwnFulfilled
  <2>5. ASSUME NEW c \in Call,
               \/ Loaded(c) /\ IsCurrent(c)
               \/ SessionFailed(c) /\ pc[c] # "dialing"
               \/ SessionLate(c) \/ Turn(c)
        PROVE  ShownIsOwn'
    <3>1. UNCHANGED <<outcome, startedAt, conversation, micMuted>>
      BY <2>5 DEF Loaded, SessionLate, SessionFailed, Turn, slice, service, sdk
    <3>. QED  BY <2>1, <3>1, OwnStays
  <2>6. ASSUME NEW c \in Call,
               \/ Disconnect(c, "error") \/ Disconnect(c, "agent")
               \/ AgentErrorReported(c) \/ Closed(c)
        PROVE  ShownIsOwn'
    BY <2>1, <2>6, OwnCallbacks
  <2>7. CASE \/ ToggleMute \/ AgentErrorDismissed \/ CallErrorDismissed
             \/ End \/ ConfirmLeave
    BY <2>1, <2>7, OwnButtons
  <2>8. CASE \/ FollowEnd \/ CancelLeave
             \/ \E to \in Route : Leave(to)
             \/ \E to \in Route \ {"call"} : AskLeave(to)
             \/ UNCHANGED vars
    <3>1. UNCHANGED <<outcome, startedAt, conversation, micMuted>>
      BY <2>8 DEF FollowEnd, CancelLeave, Leave, AskLeave, vars, slice,
         service, sdk
    <3>. QED  BY <2>1, <3>1, OwnStays
  <2>. QED  BY <1>2, <2>2, <2>3, <2>4, <2>5, <2>6, <2>7, <2>8 DEF Next
<1>. QED  BY <1>1, <1>2

LEMMA OwnInit == Init => OwnInv /\ ShownIsOwn
<1>. SUFFICES ASSUME Init PROVE OwnInv /\ ShownIsOwn
  OBVIOUS
<1>1. Counts(pc, 0)
  BY NoCallTyped DEF Init, Counts, Call
<1>2. Latest = 0
  BY <1>1, CountsLatest, LatestPc
<1>3. Counted /\ RunsLast
  BY <1>1, <1>2 DEF Counted, RunsLast, Running, Init
<1>4. GenerationsApart /\ HeldIsLast /\ EndingIsStale /\ StartsUnmuted
  BY DEF Init, GenerationsApart, HeldIsLast, EndingIsStale, StartsUnmuted,
     Dialing, IsStartInProgress
<1>5. ShownIsOwn
  BY DEF Init, ShownIsOwn, ErrorIsCurrent, IsCallActive
<1>. QED  BY <1>3, <1>4, <1>5 DEF OwnInv

LEMMA OwnInvStep == CallInv /\ CallInv' /\ OwnInv /\ [Next]_vars => OwnInv'
<1>. SUFFICES ASSUME CallInv, CallInv', OwnInv, [Next]_vars PROVE OwnInv'
  OBVIOUS
<1>1. Counted' /\ RunsLast'
  BY LatestStarts, LatestStays DEF OwnInv
<1>. QED  BY <1>1, GenerationsStep, HeldStep, EndingStep, UnmutedStep DEF OwnInv

\* Timer, duration, mute, problem and error are the last call's: a callback or
\* an answer that is late is told apart by its generation.
THEOREM ShownIsTheLastCalls == Spec => []ShownIsOwn
<1>1. CallInv /\ OwnInv /\ ShownIsOwn /\ [Next]_vars => ShownIsOwn'
  BY OwnStep
<1>. QED  BY <1>1, OwnInit, OwnInvStep, Invariance, PTL DEF Spec
=============================================================================

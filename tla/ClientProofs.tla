----------------------------- MODULE ClientProofs -----------------------------
(***************************************************************************)
(* What the client keeps across its statuses, its API calls and its        *)
(* callbacks: forced transitions, exchanges and the half-sent message, the *)
(* status it has told, and what the server knows of it.                    *)
(***************************************************************************)
EXTENDS CoreProofs

\* The callback that tells a new registration; the session is set up after it.
Established == InCallback /\ status = "registered" /\ last = "registering"

(***************************************************************************)
(* Forced transitions.                                                     *)
(***************************************************************************)
\* No transition is pending in a callback after which the details of
\* server_state are set up anew.
Calm == InCallback /\ (~Registered \/ last = "registering") => ~TransitionForced

Finite == enableTime # Never /\ enableTimeUser # Never

\* A step that TransitionsKept allows.
KeptStep ==
    /\ TransitionForced /\ ~TransitionForced' =>
          status' = ForcedStatus \/ pc' = "down"
    /\ status = "suspended" /\ status' = "initial" /\ ~TransitionForced =>
          pc = "down" \/ (enableTime = 0 /\ enableTimeUser = 0)

\* A step of a machine that no forced transition interrupts.
LEMMA UnforcedKept ==
    ASSUME ~TransitionForced, UNCHANGED userVars, status # "suspended", Finite
    PROVE  Calm' /\ Finite' /\ KeptStep
  BY DEF Calm, Finite, KeptStep, TransitionForced, userVars

LEMMA MachinesKept ==
    ASSUME Finite, RegisterStep \/ BootstrapStep
    PROVE  Calm' /\ Finite' /\ KeptStep
  <1>1. CASE RegisterStep
    BY <1>1, UnforcedKept
    DEF RegisterStep, RegConnection, RegRegister, RegErrorHandling, RegClose,
        RegRestart, RegFailure, RegRest, RegisteringStep
  <1>2. CASE BootstrapStep
    BY <1>2, UnforcedKept
    DEF BootstrapStep, BsConnection, BsExchange, BsIdle, BsSequenceEnd,
        BsReceiveNothing, BsReceive, BsFinished, BsConnectionLost, BsDisconnect,
        BsRetry, BsWaiting, BsError, BsRest, BootstrappingStep
  <1> QED BY <1>1, <1>2

\* A request of the server can only add to what is pending.
LEMMA EffectsAdd ==
    ASSUME UserOK, Finite, NEW e \in RequestEffects
    PROVE  /\ TransitionForced =>
                 e.flags.bootstrap \/ e.flags.restart \/ e.flags.disable
           /\ e.enable # Never
  <1>1. ASSUME NEW f \in {"update", "bootstrap", "disable"}, NEW t, NEW p,
               t # Never, e = Effect([flags EXCEPT ![f] = TRUE], t, p)
        PROVE  /\ TransitionForced =>
                     e.flags.bootstrap \/ e.flags.restart \/ e.flags.disable
               /\ e.enable # Never
    <2>1. e.flags = [flags EXCEPT ![f] = TRUE] /\ e.enable = t
      BY <1>1 DEF Effect
    <2> QED BY <1>1, <2>1 DEF UserOK, TransitionForced
  <1>2. CASE \E t \in DisableTimes \ {Never} :
                e = Effect([flags EXCEPT !.disable = TRUE], t, dmPeriod)
    BY <1>1, <1>2
  <1>3. CASE \E p : e = Effect(flags, enableTime, p)
    BY <1>3 DEF Effect, Finite, TransitionForced
  <1>4. CASE \E f \in {"update", "bootstrap"} :
                e = Effect([flags EXCEPT ![f] = TRUE], enableTime, dmPeriod)
    BY <1>1, <1>4 DEF Finite
  <1> QED BY <1>2, <1>3, <1>4 DEF RequestEffects, NoEffect

\* A step of the session that stays in it.
LEMMA SessionStays ==
    ASSUME Registered, Finite, Registered', last' = status,
           TransitionForced => TransitionForced', enableTime' # Never,
           UNCHANGED enableTimeUser
    PROVE  Calm' /\ Finite' /\ KeptStep
  BY DEF Calm, Finite, KeptStep, Registered

LEMMA SessionKept ==
    ASSUME Parts, Finite, SessionNext
    PROVE  Calm' /\ Finite' /\ KeptStep
  <1>p. UserOK /\ enableTime # Never
    BY DEF Parts, Finite
  <1>1. ASSUME NEW r, SessDisconnect(r) PROVE Calm' /\ Finite' /\ KeptStep
    <2>1. Registered /\ Finite'
      BY <1>1 DEF SessDisconnect, SessionStep, SessRest, Finite
    <2>2. CASE r # "inprogress" /\ TransitionForced
      <3>1. flags' = TransitionClear /\ status' = ForcedStatus
        BY <1>1, <2>2 DEF SessDisconnect, GoTo, Conclude
      <3>2. ~TransitionForced'
        BY <1>p, <3>1 DEF TransitionForced, TransitionClear, UserOK
      <3> QED BY <2>1, <3>1, <3>2 DEF Calm, KeptStep, Registered
    <2>3. CASE r # "inprogress" /\ ~TransitionForced
      BY <1>1, <2>1, <2>3
      DEF SessDisconnect, Calm, KeptStep, Registered, TransitionForced
    <2>4. CASE r = "inprogress"
      BY <1>1, <2>1, <2>4
      DEF SessDisconnect, Leave, Conclude, Calm, InCallback, KeptStep, Registered,
          TransitionForced
    <2> QED BY <2>2, <2>3, <2>4
  <1>2. CASE Suspended
    <2>1. Calm' /\ Finite'
      BY <1>2 DEF Suspended, Calm, Finite, TransitionForced, Never
    <2>2. status' = "initial" => Reached(EnableTime)
      BY <1>2 DEF Suspended, Leave, Conclude
    <2>3. enableTime \in Nat /\ enableTimeUser \in Nat
      BY DEF Parts, UserOK, Timer, Finite
    <2>4. Reached(EnableTime) => enableTime = 0 /\ enableTimeUser = 0
      BY <2>3 DEF Reached, EnableTime, TimeGt, Never
    <2> QED BY <1>2, <2>1, <2>2, <2>4 DEF Suspended, KeptStep
  <1>3. ASSUME NEW e \in RequestEffects, NEW s, Apply(e, s)
        PROVE  enableTime' # Never /\ (TransitionForced => TransitionForced')
    BY <1>3, <1>p, EffectsAdd DEF Apply, TransitionForced
  <1>4. ASSUME NEW kind, SessReceive(kind) PROVE Calm' /\ Finite' /\ KeptStep
    <2>1. Registered /\ Registered' /\ last' = status /\ UNCHANGED enableTimeUser
      BY <1>4 DEF SessReceive, SessIdle, SessionStep, SessRest, Continue, Conclude,
                  Registered
    <2>2. enableTime' # Never /\ (TransitionForced => TransitionForced')
      BY <1>4, <1>3, <1>p DEF SessReceive, SessIdle, SessUser
    <2> QED BY <2>1, <2>2, SessionStays
  <1>5. ASSUME NEW res, SessExchange(res) PROVE Calm' /\ Finite' /\ KeptStep
    <2>1. Registered /\ Registered' /\ last' = status /\ UNCHANGED enableTimeUser
      BY <1>5 DEF SessExchange, SessionStep, SessRest, Continue, Leave, Conclude,
                  Registered
    <2>2. enableTime' # Never /\ (TransitionForced => TransitionForced')
      BY <1>5, <1>3 DEF SessExchange
    <2> QED BY <2>1, <2>2, SessionStays
  <1>6. CASE SessUpdate
    <2>1. Registered /\ Registered' /\ last' = status /\ UNCHANGED enableTimeUser
      BY <1>6 DEF SessUpdate, Poll, SessionStep, SessRest, Continue, Conclude,
                  Registered
    <2> QED BY <1>6, <1>p, <2>1, SessionStays DEF SessUpdate, Poll
  <1>7. CASE \/ SessDeregister
             \/ \E r \in NetResults : SessReceiveNothing(r) \/ SessEntering(r)
             \/ \E op \in {"send", "notify"} : SessClientRequest(op)
             \/ SessEnterQueueMode \/ SessWait \/ SessForceExit
             \/ SessExitQueueMode
    <2>1. Registered /\ SessUser /\ UNCHANGED enableTimeUser
      BY <1>7
      DEF SessDeregister, SessReceiveNothing, SessEntering, SessClientRequest,
          SessEnterQueueMode, SessWait, SessForceExit, SessExitQueueMode, SessIdle,
          Poll, SessionStep, SessRest
    <2>2. Registered' /\ last' = status
      BY <1>7, <2>1
      DEF SessDeregister, SessReceiveNothing, SessEntering, SessClientRequest,
          SessEnterQueueMode, SessWait, SessForceExit, SessExitQueueMode, Continue,
          Leave, GoTo, Conclude, Registered
    <2> QED BY <1>p, <2>1, <2>2, SessionStays DEF SessUser, TransitionForced
  <1> QED BY <1>1, <1>2, <1>4, <1>5, <1>6, <1>7 DEF SessionNext

LEMMA CoreKept ==
    ASSUME Parts, Calm, Finite, CoreStep
    PROVE  Calm' /\ Finite' /\ KeptStep
  <1>p. UserOK
    BY DEF Parts
  <1>1. ASSUME NEW r, ForcedClose(r) PROVE Calm' /\ Finite' /\ KeptStep
    <2>1. Finite' /\ TransitionForced
      BY <1>1 DEF ForcedClose, Finite
    <2>2. CASE r = "inprogress"
      BY <1>1, <2>1, <2>2
      DEF ForcedClose, Leave, Conclude, Calm, InCallback, KeptStep, TransitionForced
    <2>3. CASE r # "inprogress"
      <3>1. flags' = TransitionClear /\ status' = ForcedStatus
        BY <1>1, <2>3 DEF ForcedClose, GoTo, Conclude
      <3>2. ~TransitionForced'
        BY <1>p, <3>1 DEF TransitionForced, TransitionClear, UserOK
      <3> QED BY <2>1, <3>1, <3>2 DEF Calm, KeptStep
    <2> QED BY <2>2, <2>3
  <1>2. CASE StepInitial \/ StepBootstrapped \/ StepInvalid \/ StepFailure
    BY <1>2, UnforcedKept
    DEF StepInitial, StepBootstrapped, StepInvalid, StepFailure, StatusStep, CoreRest
  <1>3. CASE StartFails
    BY <1>3 DEF StartFails, EndCallback, CoreRest, userVars, Calm, InCallback, Finite,
                KeptStep, TransitionForced
  <1>4. CASE Start
    <2>1. ~InCallback' /\ status' = status
      BY <1>4 DEF Start, EndCallback, InCallback
    <2>2. CASE UNCHANGED userVars
      BY <2>1, <2>2 DEF userVars, Calm, Finite, KeptStep, TransitionForced
    <2>3. CASE SessionInit /\ status = "registered" /\ last = "registering"
      <3>1. ~TransitionForced
        BY <1>4, <2>3 DEF Start, Calm
      <3> QED BY <2>1, <2>3, <3>1 DEF SessionInit, Calm, Finite, KeptStep, Never
    <2> QED BY <1>4, <2>2, <2>3 DEF Start
  <1> QED BY <1>1, <1>2, <1>3, <1>4 DEF CoreStep

LEMMA ApiKept ==
    ASSUME ~ApiInCallback, Never \notin DisableTimes, Parts, Finite, Api
    PROVE  Calm' /\ Finite' /\ KeptStep
  <1>p. UserOK
    BY DEF Parts
  \* A call between two steps that stays where it is.
  <1>s. ASSUME pc = "idle", UNCHANGED <<status, pc>>, Finite',
               TransitionForced => TransitionForced'
        PROVE  Calm' /\ Finite' /\ KeptStep
    BY <1>s DEF Calm, InCallback, KeptStep
  <1>f. ASSUME NEW f, ForceTransition(f) \/ UNCHANGED flags
               \/ flags' = [flags EXCEPT ![f] = TRUE]
        PROVE  TransitionForced => TransitionForced'
    BY <1>f, <1>p DEF ForceTransition, TransitionForced, UserOK
  <1>1. ASSUME NEW t \in DisableTimes, DisableServer(t)
        PROVE  Calm' /\ Finite' /\ KeptStep
    <2>1. pc = "idle" /\ UNCHANGED <<status, pc>> /\ Finite'
      BY <1>1 DEF DisableServer, ApiCall, ApiRest, coreVars, Finite
    <2> QED BY <1>1, <1>s, <1>f, <2>1 DEF DisableServer
  <1>2. CASE RequestBootstrap \/ Restart \/ RequestUpdate
    <2>1. pc = "idle" /\ UNCHANGED <<status, pc>> /\ Finite'
      BY <1>2 DEF RequestBootstrap, Restart, RequestUpdate, ApiCall, ApiRest,
                  coreVars, Finite
    <2> QED BY <1>2, <1>s, <1>f, <2>1 DEF RequestBootstrap, Restart, RequestUpdate
  <1>3. CASE InstancesChanged \/ \E p \in UpdatePeriods : LifetimeChanged(p)
    <2>1. pc = "idle" /\ UNCHANGED <<status, pc, flags>> /\ Finite'
      BY <1>3 DEF InstancesChanged, LifetimeChanged, DataModelChange, ApiCall,
                  coreVars, userVars, Finite
    <2> QED BY <1>s, <2>1 DEF TransitionForced
  <1>4. ASSUME NEW r, Shutdown(r) PROVE Calm' /\ Finite' /\ KeptStep
    BY <1>4 DEF Shutdown, userVars, Calm, InCallback, Finite, KeptStep,
                TransitionForced, Never
  <1>5. CASE InitAgain
    BY <1>5 DEF InitAgain, CoreRest, userVars, Calm, InCallback, Finite, KeptStep,
                TransitionForced
  <1> QED BY <1>1, <1>2, <1>3, <1>4, <1>5 DEF Api

LEMMA NextKept ==
    ASSUME ~ApiInCallback, Never \notin DisableTimes, Parts, Calm, Finite, [Next]_vars
    PROVE  Calm' /\ Finite' /\ [KeptStep]_vars
  <1>1. CASE Tick
    <2>1. UNCHANGED <<status, last, pc, flags>> /\ Finite'
      BY <1>1 DEF Tick, coreVars, Parts, UserOK, Timer, Finite, Left, Never
    <2> QED BY <2>1 DEF Calm, InCallback, Registered, KeptStep, TransitionForced
  <1>2. CASE UNCHANGED vars
    BY <1>2 DEF vars, coreVars, userVars, Calm, InCallback, Registered, Finite,
                TransitionForced
  <1> QED BY <1>1, <1>2, MachinesKept, SessionKept, CoreKept, ApiKept DEF Next

\* A restart, bootstrap or disable that is asked for is dropped only by making
\* it or by a shutdown, and a suspended client that is left alone comes back
\* only when both timeouts have expired (core.c, reg_session.c), as long as
\* the status callback does not call the API and every Disable has an end.
THEOREM TransitionsAlwaysKept ==
    ASSUME ~ApiInCallback, Never \notin DisableTimes
    PROVE  Spec => TransitionsKept
  <1>1. Init => Parts /\ Calm /\ Finite
    <2>1. ASSUME Init PROVE Calm /\ Finite
      BY <2>1 DEF Init, Calm, InCallback, Finite, Never
    <2> QED BY <2>1, InitTypes
  <1>2. Parts /\ Calm /\ Finite /\ [Next]_vars =>
           Parts' /\ Calm' /\ Finite' /\ [KeptStep]_vars
    BY NextKept, TypesPreserved
  <1>3. [KeptStep]_vars =>
           [/\ TransitionForced /\ ~TransitionForced' =>
                  status' = ForcedStatus \/ pc' = "down"
            /\ status = "suspended" /\ status' = "initial" /\ ~TransitionForced =>
                  pc = "down" \/ (enableTime = 0 /\ enableTimeUser = 0)]_vars
    BY DEF KeptStep
  <1> QED BY <1>1, <1>2, <1>3, PTL DEF Spec, TransitionsKept

(***************************************************************************)
(* The half-sent message.                                                  *)
(***************************************************************************)
\* Where send_in_progress can be set: while an exchange is driven, and in the
\* states that lead from its failure to the close of the connection.
SendHeld ==
    conn.sending =>
       /\ Running
       /\ \/ /\ status = "registering"
             /\ reg.state \in {"register", "error_handling", "disconnect",
                               "cleanup", "cleanup_with_failure"}
          \/ /\ status = "bootstrapping"
             /\ bs.state \in {"in_progress", "finish_disconnect_and_retry",
                              "disconnect_and_retry", "finished"}
          \/ Registered /\ sess.state \in {"exchange", "disconnect"}

LEMMA CloseStops ==
    ASSUME NEW c, NEW r, Close(c, r)
    PROVE  ~conn'.sending
  BY DEF Close

LEMMA ConnectKeepsSending ==
    ASSUME NEW r, ConnOK, Connect(r)
    PROVE  conn'.sending = conn.sending
  BY DEF ConnOK, Connect

\* The states of the three machines after a change of nothing but the state.
LEMMA StateOf ==
    ASSUME RegOK, BsOK, SessOK
    PROVE  \A st : /\ [reg EXCEPT !.state = st].state = st
                   /\ [bs EXCEPT !.state = st].state = st
                   /\ [sess EXCEPT !.state = st].state = st
  BY DEF RegOK, BsOK, SessOK, SessRecords

LEMMA NextAttemptState ==
    ASSUME RegOK
    PROVE  NextAttempt.state \in {"disconnect", "cleanup", "cleanup_with_failure"}
  <1> DEFINE delay == RetryTimer * 2^((reg.retry + 1) - 1)
  <1>1. \/ NextAttempt = [state |-> "disconnect", retry |-> reg.retry + 1,
                          seq |-> reg.seq, timeout |-> delay]
        \/ NextAttempt = [reg EXCEPT !.state = "cleanup_with_failure",
                                     !.retry = reg.retry + 1,
                                     !.seq = reg.seq + 1]
        \/ NextAttempt = [state |-> "cleanup", retry |-> 0,
                          seq |-> reg.seq + 1, timeout |-> SeqDelay]
    BY DEF NextAttempt
  <1> HIDE DEF delay
  <1>2. CASE NextAttempt = [state |-> "disconnect", retry |-> reg.retry + 1,
                            seq |-> reg.seq, timeout |-> delay]
    BY <1>2
  <1>3. CASE NextAttempt = [reg EXCEPT !.state = "cleanup_with_failure",
                                       !.retry = reg.retry + 1,
                                       !.seq = reg.seq + 1]
    BY <1>3 DEF RegOK
  <1>4. CASE NextAttempt = [state |-> "cleanup", retry |-> 0,
                            seq |-> reg.seq + 1, timeout |-> SeqDelay]
    BY <1>4
  <1> QED BY <1>1, <1>2, <1>3, <1>4

LEMMA RegisterSend ==
    ASSUME Parts, SendHeld, RegisterStep
    PROVE  SendHeld'
  <1>p. ConnOK /\ RegOK /\ BsOK /\ SessOK
    BY DEF Parts
  <1>1. ASSUME NEW r \in NetResults, RegConnection(r) PROVE SendHeld'
    <2>1. ~conn.sending
      BY <1>1 DEF RegConnection, RegisteringStep, SendHeld, Registered
    <2> QED BY <1>1, <1>p, <2>1, ConnectKeepsSending DEF RegConnection, SendHeld
  <1>2. ASSUME NEW res \in {"wait", "ok", "error"}, RegRegister(res)
        PROVE  SendHeld'
    <2>1. CASE res = "ok"
      BY <1>2, <1>p, <2>1 DEF RegRegister, HandleRequest, SendHeld, ConnOK
    <2>2. CASE res # "ok"
      <3>1. Running' /\ status' = "registering"
        BY <1>2, <2>2
        DEF RegRegister, RegisteringStep, Continue, Leave, Conclude, Running
      <3>2. reg'.state \in {"register", "error_handling"}
        BY <1>2, <1>p, <2>2, StateOf DEF RegRegister
      <3> QED BY <3>1, <3>2 DEF SendHeld
    <2> QED BY <2>1, <2>2
  <1>3. CASE RegErrorHandling
    <2>1. UNCHANGED conn /\ Running' /\ status' = "registering"
      BY <1>3 DEF RegErrorHandling, RegisteringStep, Continue, Conclude, Running
    <2>2. reg'.state \in {"disconnect", "cleanup", "cleanup_with_failure"}
      BY <1>3, <1>p, NextAttemptState DEF RegErrorHandling
    <2> QED BY <2>1, <2>2 DEF SendHeld
  <1>4. ASSUME NEW r, RegClose(r) PROVE SendHeld'
    BY <1>4, CloseStops DEF RegClose, SendHeld
  <1>5. CASE RegRestart \/ RegFailure
    BY <1>5 DEF RegRestart, RegFailure, RegisteringStep, SendHeld, Registered
  <1> QED BY <1>1, <1>2, <1>3, <1>4, <1>5 DEF RegisterStep

LEMMA BootstrapSend ==
    ASSUME Parts, SendHeld, BootstrapStep
    PROVE  SendHeld'
  <1>p. ConnOK /\ RegOK /\ BsOK /\ SessOK
    BY DEF Parts
  <1>s. ASSUME Continue \/ Leave, BootstrappingStep,
               bs'.state \in {"in_progress", "finish_disconnect_and_retry",
                              "disconnect_and_retry", "finished"}
        PROVE  SendHeld'
    BY <1>s DEF SendHeld, Continue, Leave, Conclude, Running, BootstrappingStep
  <1>1. ASSUME NEW r \in NetResults, BsConnection(r) PROVE SendHeld'
    <2>1. ~conn.sending
      BY <1>1 DEF BsConnection, BootstrappingStep, SendHeld, Registered
    <2> QED BY <1>1, <1>p, <2>1, ConnectKeepsSending DEF BsConnection, SendHeld
  <1>2. ASSUME NEW res, BsExchange(res) PROVE SendHeld'
    BY <1>2, <1>p, <1>s, StateOf DEF BsExchange
  <1>3. CASE BsSequenceEnd \/ BsConnectionLost
    <2>1. bs'.state \in {"finished", "disconnect_and_retry"}
      BY <1>3, <1>p, StateOf DEF BsSequenceEnd, BsConnectionLost
    <2> QED BY <1>3, <1>s, <2>1 DEF BsSequenceEnd, BsIdle, BsConnectionLost
  <1>4. ASSUME NEW r, BsReceiveNothing(r) PROVE SendHeld'
    BY <1>4, <1>p, <1>s, StateOf DEF BsReceiveNothing, BsIdle
  <1>5. ASSUME NEW kind, BsReceive(kind) PROVE SendHeld'
    BY <1>5, <1>p, <1>s, StateOf DEF BsReceive, BsIdle
  <1>6. ASSUME NEW r, BsFinished(r) \/ BsDisconnect(r) PROVE SendHeld'
    BY <1>6, CloseStops DEF BsFinished, BsDisconnect, SendHeld
  <1>7. CASE BsRetry \/ BsWaiting \/ BsError
    BY <1>7 DEF BsRetry, BsWaiting, BsError, BootstrappingStep, SendHeld, Registered
  <1> QED BY <1>1, <1>2, <1>3, <1>4, <1>5, <1>6, <1>7 DEF BootstrapStep

\* What a server's request does to the session besides its effects.
LEMMA ApplyState ==
    ASSUME NEW e, NEW s \in SessRecords, Apply(e, s)
    PROVE  sess'.state = s.state
  BY DEF Apply, SessRecords

LEMMA AfterExchangeState ==
    ASSUME Parts, NEW res
    PROVE  /\ AfterExchange(res) \in SessRecords
           /\ res = "wait" => AfterExchange(res).state = sess.state
           /\ res = "error" => AfterExchange(res).state = "disconnect"
           /\ AfterExchange(res).state \in {sess.state, "disconnect", "idle"}
           /\ res # "wait" /\ AfterExchange(res).state # "disconnect" =>
                 AfterExchange(res).state = "idle" /\ regCtx' = "finished"
  <1>1. sess \in SessRecords
    BY DEF Parts, SessOK
  <1>2. [sess EXCEPT !.state = "idle", !.queueStart = QueueStart] \in SessRecords
    BY <1>1, QueueStartType DEF SessRecords, SessStates
  <1> QED BY <1>1, <1>2 DEF AfterExchange, SessRecords, SessStates

LEMMA SessionSend ==
    ASSUME Parts, SendHeld, SessionNext
    PROVE  SendHeld'
  <1>1. ASSUME NEW r, SessDisconnect(r) PROVE SendHeld'
    BY <1>1, CloseStops DEF SessDisconnect, SendHeld
  <1>2. ASSUME NEW res \in {"wait", "ok", "error"}, SessExchange(res)
        PROVE  SendHeld'
    <2>1. CASE res = "ok"
      BY <1>2, <2>1 DEF SessExchange, HandleRequest, SendHeld, Parts, ConnOK
    <2>2. CASE res # "ok"
      <3>1. Running' /\ Registered'
        BY <1>2
        DEF SessExchange, SessionStep, Continue, Leave, Conclude, Running, Registered
      <3>2. sess'.state = AfterExchange(res).state
        BY <1>2, AfterExchangeState, ApplyState DEF SessExchange
      <3>3. sess'.state \in {"exchange", "disconnect"}
        BY <1>2, <2>2, <3>2, AfterExchangeState DEF SessExchange
      <3> QED BY <3>1, <3>3 DEF SendHeld
    <2> QED BY <2>1, <2>2
  <1>3. CASE ~(\E r \in NetResults : SessDisconnect(r))
             /\ ~(\E res \in {"wait", "ok", "error"} : SessExchange(res))
    <2>1. UNCHANGED conn
      BY <1>3 DEF SessionNext, SessDeregister, SessReceiveNothing, SessEntering,
                  SessReceive, SessUpdate, SessClientRequest, SessEnterQueueMode,
                  SessWait, SessForceExit, SessExitQueueMode, Suspended
    <2>2. \/ status = "suspended"
          \/ Registered /\ sess.state \notin {"exchange", "disconnect"}
      BY <1>3 DEF SessionNext, SessDeregister, SessReceiveNothing, SessEntering,
                  SessReceive, SessUpdate, SessClientRequest, SessEnterQueueMode,
                  SessWait, SessForceExit, SessExitQueueMode, Suspended, SessIdle,
                  Poll, SessionStep
    <2> QED BY <2>1, <2>2 DEF SendHeld, Registered
  <1> QED BY <1>1, <1>2, <1>3

LEMMA CoreSend ==
    ASSUME SendHeld, CoreStep
    PROVE  SendHeld'
  <1>1. ASSUME NEW r, ForcedClose(r) PROVE SendHeld'
    BY <1>1, CloseStops DEF ForcedClose, SendHeld
  <1>2. CASE StepInitial \/ StepBootstrapped \/ StepInvalid \/ StepFailure
    BY <1>2 DEF StepInitial, StepBootstrapped, StepInvalid, StepFailure, StatusStep,
                CoreRest, SendHeld, Registered
  <1>3. CASE StartFails \/ Start
    BY <1>3 DEF StartFails, Start, CoreRest, InCallback, SendHeld, Running
  <1> QED BY <1>1, <1>2, <1>3 DEF CoreStep

LEMMA ApiSend ==
    ASSUME Parts, SendHeld, Api
    PROVE  SendHeld'
  <1>1. ASSUME NEW r, Shutdown(r) PROVE SendHeld'
    BY <1>1, CloseStops DEF Shutdown, SendHeld
  <1>2. CASE InitAgain
    BY <1>2 DEF InitAgain, CoreRest, SendHeld, Running
  <1>3. CASE ~(\E r \in NetResults : Shutdown(r)) /\ ~InitAgain
    <2>1. UNCHANGED <<pc, status, conn, reg, bs>>
      BY <1>3 DEF Api, DisableServer, RequestBootstrap, Restart, RequestUpdate,
                  ApiRest, LifetimeChanged, InstancesChanged, DataModelChange,
                  coreVars, detailVars
    <2>2. sess'.state = sess.state
      BY <1>3 DEF Api, DisableServer, RequestBootstrap, Restart, RequestUpdate,
                  ApiRest, LifetimeChanged, InstancesChanged, detailVars, Parts,
                  SessOK, SessRecords
    <2> QED BY <2>1, <2>2 DEF SendHeld, Running, Registered
  <1> QED BY <1>1, <1>2, <1>3

\* The passing of time leaves the states of the machines alone.
LEMMA TickStates ==
    ASSUME Parts, Tick
    PROVE  /\ reg'.state = reg.state /\ bs'.state = bs.state
           /\ sess'.state = sess.state
           /\ sess'.withLifetime = sess.withLifetime
           /\ sess'.withPayload = sess.withPayload
  BY DEF Tick, Parts, RegOK, BsOK, SessOK, SessRecords

LEMMA NextSend ==
    ASSUME Parts, SendHeld, [Next]_vars
    PROVE  SendHeld'
  <1>1. CASE Tick
    BY <1>1, TickStates DEF Tick, coreVars, SendHeld, Running, Registered
  <1>2. CASE UNCHANGED vars
    BY <1>2 DEF vars, coreVars, detailVars, SendHeld, Running, Registered
  <1> QED BY <1>1, <1>2, RegisterSend, BootstrapSend, SessionSend, CoreSend, ApiSend
          DEF Next

(***************************************************************************)
(* The exchange and what belongs to it.                                    *)
(***************************************************************************)
SessionOps == {"update", "deregister", "server_request", "send", "notify"}

\* ExchangeDriven, with what makes a machine go on with its exchange: no
\* transition is pending that would take it away before the exchange is over.
Driven ==
    exch # "none" =>
       \/ /\ status = "registering" /\ Running /\ ~TransitionForced
          /\ reg.state = "register" /\ exch = "register"
       \/ /\ status = "bootstrapping" /\ Running /\ ~TransitionForced
          /\ bs.state = "in_progress"
          /\ exch \in {"bootstrap_request", "bootstrap_finish", "server_request"}
       \/ /\ Registered /\ pc # "down" /\ exch \in SessionOps
          /\ sess.state \in {"exchange", "exiting_queue_mode"}

\* RegCtxSettled, with where the result of a failed Update can still be seen.
Settled ==
    Registered =>
       \/ regCtx = "finished"
       \/ exch \in {"update", "deregister"}
       \/ sess.state = "disconnect"
       \/ sess.state = "exchange" /\ exch = "none"

\* A session begins idle, and leaves the queue mode within one call.
SessionStates ==
    /\ (status = "registering" /\ Running) \/ Established => sess.state = "idle"
    /\ Registered /\ sess.state = "exiting_queue_mode" =>
          pc = "loop" /\ (exch # "none" => ~TransitionForced)

\* DmOpClosed, when every message and every Location-Path fits: a Register
\* whose Location-Path does not fit, and a message that is refused, leave the
\* data model operation open.
Fits == ~LongLocation /\ ~SmallMtu
OpClosed == Fits /\ dmOp => exch # "none"
NoOp == Fits => ~dmOp

ExchInv == Driven /\ Settled /\ SessionStates /\ OpClosed

USE DEF OpClosed, NoOp

\* The end of an exchange.
LEMMA FinalizeEnds ==
    ASSUME OpClosed, NEW ok, Finalize(ok)
    PROVE  /\ exch' = "none" /\ NoOp'
           /\ exch \notin RegistrationOps => regCtx' = regCtx
  BY DEF Finalize, Complete, Fits, RegistrationOps

LEMMA HandleRequestEnds ==
    ASSUME OpClosed, NEW res \in {"wait", "ok", "error"},
           HandleRequest(res)
    PROVE  /\ res = "wait" => UNCHANGED <<exch, dmOp, regCtx>>
           /\ res # "wait" => exch' = "none" /\ NoOp'
           /\ exch \notin RegistrationOps => regCtx' = regCtx
  <1>1. CASE res = "wait"
    BY <1>1 DEF HandleRequest
  <1>2. CASE res # "wait"
    <2>1. \E ok \in BOOLEAN : Finalize(ok)
      BY <1>2 DEF HandleRequest
    <2> QED BY <1>2, <2>1, FinalizeEnds
  <1> QED BY <1>1, <1>2

\* The start of one.
LEMMA PrepareStarts ==
    ASSUME NEW op, NEW opens, NEW res \in PrepareResults,
           Prepare(op, opens, res), op # "none"
    PROVE  /\ OpClosed'
           /\ res = "ok" => exch' = op
           /\ res # "ok" => exch' = "none"
           /\ op \notin RegistrationOps => regCtx' = regCtx
  BY DEF Prepare, PrepareResults, Fits

\* A step outside of the session and with no exchange.
LEMMA NoExchange ==
    ASSUME exch' = "none", NoOp', ~Registered',
           status' = "registering" /\ Running' => sess'.state = "idle"
    PROVE  ExchInv'
  BY DEF ExchInv, Driven, Settled, SessionStates, Established, Registered

LEMMA RegisterExch ==
    ASSUME Parts, ExchInv, RegisterStep
    PROVE  ExchInv'
  <1>p. RegOK /\ BsOK /\ SessOK /\ OpClosed
    BY DEF Parts, ExchInv
  <1>r. RegisteringStep /\ UNCHANGED <<flags, sess>>
    BY DEF RegisterStep, RegConnection, RegRegister, RegErrorHandling, RegClose,
           RegRestart, RegFailure, RegRest, userVars
  <1>s. /\ sess'.state = "idle" /\ ~TransitionForced'
        /\ reg.state # "register" => exch = "none" /\ NoOp
        /\ exch \in {"none", "register"}
    BY <1>r DEF ExchInv, Driven, SessionStates, RegisteringStep,
                TransitionForced, Registered
  \* A step that stays and leaves an exchange to the REGISTER state.
  <1>k. ASSUME Continue \/ Leave, exch' \in {"none", "register"},
               exch' # "none" => reg'.state = "register", OpClosed'
        PROVE  ExchInv'
    <2>1. status' = "registering" /\ Running'
      BY <1>k, <1>r DEF Continue, Leave, Conclude, Running, RegisteringStep
    <2> QED BY <1>k, <1>s, <2>1
            DEF ExchInv, Driven, Settled, SessionStates, Established,
                Registered
  <1>1. ASSUME NEW r \in NetResults, RegConnection(r) PROVE ExchInv'
    <2>1. exch = "none" /\ NoOp /\ (Continue \/ Leave)
      BY <1>1, <1>s DEF RegConnection
    <2>2. CASE r # "ok"
      BY <1>1, <1>k, <2>1, <2>2 DEF RegConnection, exchVars, NetResults
    <2>3. CASE r = "ok"
      <3>1. PICK res \in PrepareResults :
               /\ Prepare("register", TRUE, res)
               /\ reg' = [reg EXCEPT !.state = IF res = "ok" THEN "register"
                                               ELSE "error_handling"]
        BY <1>1, <2>3 DEF RegConnection
      <3>2. res = "ok" => reg'.state = "register"
        BY <1>p, <3>1, StateOf
      <3> QED BY <1>k, <2>1, <3>1, <3>2, PrepareStarts
    <2> QED BY <2>2, <2>3
  <1>2. ASSUME NEW res \in {"wait", "ok", "error"}, RegRegister(res)
        PROVE  ExchInv'
    <2>1. CASE res = "wait"
      <3>1. UNCHANGED <<exch, dmOp, reg>> /\ Leave /\ reg.state = "register"
        BY <1>2, <1>p, <2>1, HandleRequestEnds DEF RegRegister
      <3> QED BY <1>k, <1>p, <1>s, <3>1
    <2>2. CASE res # "wait"
      <3>1. exch' = "none" /\ NoOp'
        BY <1>2, <1>p, <2>2, HandleRequestEnds DEF RegRegister
      <3>2. CASE Continue
        BY <1>k, <3>1, <3>2
      <3>3. CASE GoTo("registered") /\ regCtx' = "finished"
        <4>1. status' = "registered" /\ ~Running'
          BY <1>r, <3>3 DEF GoTo, Conclude, Running, RegisteringStep
        <4> QED BY <1>s, <3>1, <3>3, <4>1
                DEF ExchInv, Driven, Settled, SessionStates
      <3> QED BY <1>2, <2>2, <3>2, <3>3 DEF RegRegister
    <2> QED BY <2>1, <2>2
  <1>3. CASE RegErrorHandling \/ RegRestart
    BY <1>3, <1>k, <1>s DEF RegErrorHandling, RegRestart, exchVars
  <1>4. ASSUME NEW r, RegClose(r) PROVE ExchInv'
    BY <1>4, <1>k, <1>s DEF RegClose, exchVars
  <1>5. CASE RegFailure
    <2>1. exch' = "none" /\ NoOp'
      BY <1>5, <1>s DEF RegFailure, exchVars
    <2>2. ~Registered' /\ status' # "registering"
      BY <1>5 DEF RegFailure, GoTo, Conclude, Registered
    <2> QED BY <2>1, <2>2, NoExchange
  <1> QED BY <1>1, <1>2, <1>3, <1>4, <1>5 DEF RegisterStep

LEMMA BootstrapExch ==
    ASSUME Parts, ExchInv, BootstrapStep
    PROVE  ExchInv'
  <1> DEFINE Ops == {"bootstrap_request", "bootstrap_finish", "server_request"}
  <1>p. RegOK /\ BsOK /\ SessOK /\ OpClosed
    BY DEF Parts, ExchInv
  <1>r. BootstrappingStep /\ UNCHANGED flags
    BY DEF BootstrapStep, BsConnection, BsExchange, BsIdle, BsSequenceEnd,
           BsReceiveNothing, BsReceive, BsFinished, BsConnectionLost,
           BsDisconnect, BsRetry, BsWaiting, BsError, BsRest, userVars
  <1>s. /\ ~TransitionForced' /\ exch \in Ops \cup {"none"}
        /\ bs.state # "in_progress" => exch = "none" /\ NoOp
    BY <1>r DEF ExchInv, Driven, BootstrappingStep, TransitionForced,
                Registered
  <1>k. ASSUME Continue \/ Leave, exch' \in Ops \cup {"none"},
               exch' # "none" => bs'.state = "in_progress", OpClosed'
        PROVE  ExchInv'
    <2>1. status' = "bootstrapping" /\ Running'
      BY <1>k, <1>r DEF Continue, Leave, Conclude, Running, BootstrappingStep
    <2> QED BY <1>k, <1>s, <2>1
            DEF ExchInv, Driven, Settled, SessionStates, Established,
                Registered
  <1>1. ASSUME NEW r \in NetResults, BsConnection(r) PROVE ExchInv'
    <2>1. exch = "none" /\ NoOp /\ (Continue \/ Leave)
      BY <1>1, <1>s DEF BsConnection
    <2>2. CASE r # "ok"
      <3>1. UNCHANGED exchVars
        BY <1>1, <2>2 DEF BsConnection
      <3> QED BY <1>k, <2>1, <3>1 DEF exchVars
    <2>3. CASE r = "ok"
      <3>1. PICK res \in PrepareResults :
               /\ Prepare("bootstrap_request", FALSE, res)
               /\ bs' = [bs EXCEPT !.state = IF res = "ok" THEN "in_progress"
                                       ELSE "finish_disconnect_and_retry"]
        BY <1>1, <2>3 DEF BsConnection
      <3>2. res = "ok" => bs'.state = "in_progress"
        BY <1>p, <3>1, StateOf
      <3> QED BY <1>k, <2>1, <3>1, <3>2, PrepareStarts
    <2> QED BY <2>2, <2>3
  <1>2. ASSUME NEW res \in {"wait", "ok", "error"}, BsExchange(res)
        PROVE  ExchInv'
    <2>1. /\ res = "wait" => UNCHANGED <<exch, dmOp, bs>>
          /\ res # "wait" => exch' = "none" /\ NoOp'
          /\ bs.state = "in_progress" /\ (Continue \/ Leave)
      BY <1>2, <1>p, HandleRequestEnds DEF BsExchange
    <2> QED BY <1>k, <1>p, <1>s, <2>1
  <1>3. CASE BsSequenceEnd \/ BsConnectionLost \/ BsWaiting
    BY <1>3, <1>k, <1>p, <1>s
    DEF BsSequenceEnd, BsIdle, BsConnectionLost, BsWaiting, exchVars
  <1>4. ASSUME NEW r, BsReceiveNothing(r) PROVE ExchInv'
    BY <1>4, <1>k, <1>p DEF BsReceiveNothing, BsIdle, exchVars
  <1>5. ASSUME NEW kind \in {"dropped", "repeated", "server_request",
                             "bootstrap_finish"}, BsReceive(kind)
        PROVE  ExchInv'
    <2>1. exch = "none" /\ NoOp /\ bs.state = "in_progress" /\ Continue
      BY <1>5, <1>p DEF BsReceive, BsIdle
    <2>2. CASE UNCHANGED <<exch, dmOp>>
      BY <1>k, <2>1, <2>2
    <2>3. ASSUME NEW opens, NEW res \in PrepareResults,
                 kind \in {"server_request", "bootstrap_finish"},
                 Prepare(kind, opens, res), res = "ok" => bs' = bs
          PROVE  ExchInv'
      BY <1>k, <2>1, <2>3, PrepareStarts
    <2> QED BY <1>5, <2>2, <2>3 DEF BsReceive
  <1>6. ASSUME NEW r \in NetResults, BsFinished(r) PROVE ExchInv'
    <2>1. exch' = "none" /\ NoOp'
      BY <1>6, <1>s DEF BsFinished, exchVars
    <2>2. status' \in {"bootstrapping", "bootstrapped"}
      BY <1>6, <1>r
      DEF BsFinished, Continue, Leave, GoTo, Conclude, NetResults, BootstrappingStep
    <2> QED BY <2>1, <2>2, NoExchange DEF Registered
  <1>7. ASSUME NEW r, BsDisconnect(r) PROVE ExchInv'
    <2>1. exch' = "none" /\ NoOp'
      BY <1>7, <1>p, <1>s, FinalizeEnds DEF BsDisconnect, Terminate, exchVars
    <2> QED BY <1>7, <1>k, <2>1 DEF BsDisconnect, Retry
  <1>8. CASE BsRetry
    BY <1>8, <1>k, <1>s DEF BsRetry, Retry, exchVars
  <1>9. CASE BsError
    <2>1. exch' = "none" /\ NoOp' /\ status' = "failure"
      BY <1>9, <1>s DEF BsError, exchVars, Conclude
    <2> QED BY <2>1, NoExchange DEF Registered
  <1> QED BY <1>1, <1>2, <1>3, <1>4, <1>5, <1>6, <1>7, <1>8, <1>9
          DEF BootstrapStep

\* A step after which the client is still registered.
LEMMA StillRegistered ==
    ASSUME Registered', last' # "registering", pc' # "down",
           OpClosed',
           exch' # "none" =>
              exch' \in SessionOps /\ sess'.state \in {"exchange", "exiting_queue_mode"},
           \/ regCtx' = "finished"
           \/ exch' \in {"update", "deregister"}
           \/ sess'.state = "disconnect"
           \/ sess'.state = "exchange" /\ exch' = "none",
           sess'.state = "exiting_queue_mode" =>
              pc' = "loop" /\ (exch' # "none" => ~TransitionForced')
    PROVE  ExchInv'
  BY DEF ExchInv, Driven, Settled, SessionStates, Established, Registered

\* The state of the session after an exchange was prepared.
LEMMA NewStates ==
    ASSUME NEW st \in {"idle", "queue_mode"}, NEW res
    PROVE  /\ res # "ok" => NewState(st, res) = "disconnect"
           /\ res = "ok" /\ st = "idle" => NewState(st, res) = "exchange"
           /\ res = "ok" /\ st # "idle" => NewState(st, res) = "exiting_queue_mode"
  BY DEF NewState

LEMMA SessionExch ==
    ASSUME Parts, ExchInv, SessionNext
    PROVE  ExchInv'
  <1>p. RegOK /\ BsOK /\ SessOK /\ OpClosed
    BY DEF Parts, ExchInv
  \* What the invariant says of a session that is not in an exchange.
  <1>i. ASSUME SessionStep, sess.state \notin {"exchange", "exiting_queue_mode"}
        PROVE  /\ exch = "none" /\ NoOp
               /\ sess.state # "disconnect" => regCtx = "finished"
    BY <1>i DEF SessionStep, Registered, ExchInv, Driven, Settled
  <1>c. ASSUME SessionStep, Continue
        PROVE  Registered' /\ last' # "registering" /\ pc' = "loop"
    BY <1>c DEF SessionStep, Registered, Continue, Conclude
  <1>l. ASSUME SessionStep, Leave
        PROVE  Registered' /\ last' # "registering" /\ pc' = "idle"
    BY <1>l DEF SessionStep, Registered, Leave, Conclude
  <1>g. ASSUME NEW st, SessionStep, GoTo(st),
               st \in {"registered", "entering_queue_mode", "queue_mode"}
        PROVE  Registered' /\ last' # "registering" /\ pc' # "down"
    BY <1>g DEF SessionStep, Registered, GoTo, Conclude
  \* An exchange that is begun in IDLE or QUEUE_MODE.
  <1>b. ASSUME NEW op \in SessionOps, NEW opens, NEW res \in PrepareResults,
               Prepare(op, opens, res), SessionStep, Continue,
               sess.state \in {"idle", "queue_mode"},
               sess'.state = NewState(sess.state, res),
               sess.state = "queue_mode" => ~TransitionForced'
        PROVE  ExchInv'
    <2>1. /\ OpClosed'
          /\ res = "ok" => exch' = op
          /\ res # "ok" => exch' = "none"
          /\ op \notin RegistrationOps => regCtx' = "finished"
      BY <1>b, <1>i, PrepareStarts DEF SessionOps
    <2>2. op \in {"update", "deregister"} \/ op \notin RegistrationOps
      BY <1>b DEF SessionOps, RegistrationOps
    <2>3. /\ res = "ok" => sess'.state \in {"exchange", "exiting_queue_mode"}
          /\ res # "ok" => sess'.state = "disconnect"
          /\ sess'.state = "exiting_queue_mode" => sess.state = "queue_mode"
      BY <1>b, NewStates
    <2> QED BY <1>b, <1>c, <2>1, <2>2, <2>3, StillRegistered
  \* A step without an exchange.
  <1>q. ASSUME SessionStep, UNCHANGED exchVars,
               sess.state \notin {"exchange", "exiting_queue_mode"},
               Registered', last' # "registering", pc' # "down",
               sess.state # "disconnect" \/ sess'.state = "disconnect",
               sess'.state = "exiting_queue_mode" => pc' = "loop"
        PROVE  ExchInv'
    BY <1>i, <1>q, StillRegistered DEF exchVars
  <1>1. CASE SessDeregister
    <2>1. PICK res \in PrepareResults :
             /\ Prepare("deregister", FALSE, res)
             /\ sess' = [sess EXCEPT !.state = NewState(@, res), !.forced = TRUE]
      BY <1>1 DEF SessDeregister
    <2>2. sess'.state = NewState(sess.state, res)
      BY <1>p, <2>1 DEF SessOK, SessRecords
    <2> QED BY <1>1, <1>b, <2>1, <2>2 DEF SessDeregister, SessionOps
  <1>2. ASSUME NEW r, SessReceiveNothing(r) PROVE ExchInv'
    <2>1. sess'.state \in {"idle", "disconnect"}
      BY <1>2, <1>p DEF SessReceiveNothing, SessIdle, SessOK, SessRecords
    <2> QED BY <1>2, <1>c, <1>l, <1>q, <2>1 DEF SessReceiveNothing, SessIdle
  <1>3. ASSUME NEW r, SessEntering(r) PROVE ExchInv'
    <2>1. sess'.state \in {sess.state, "disconnect", "queue_mode"}
      BY <1>3, <1>p, StateOf DEF SessEntering
    <2> QED BY <1>3, <1>c, <1>g, <1>l, <1>q, <2>1 DEF SessEntering
  <1>4. ASSUME NEW r, SessDisconnect(r) PROVE ExchInv'
    <2>1. exch' = "none" /\ NoOp'
      BY <1>4, <1>p, FinalizeEnds DEF SessDisconnect, Terminate
    <2>2. CASE r = "inprogress"
      BY <1>4, <1>l, <2>1, <2>2, StillRegistered DEF SessDisconnect
    <2>3. CASE r # "inprogress"
      <3>1. status' \in {"registering", "initial", "bootstrapping", "suspended"}
        BY <1>4, <2>3 DEF SessDisconnect, GoTo, Conclude, ForcedStatus
      <3>2. ~Running'
        BY <1>4, <2>3, <3>1
        DEF SessDisconnect, SessionStep, Registered, GoTo, Conclude, Running
      <3> QED BY <2>1, <3>1, <3>2, NoExchange DEF Registered
    <2> QED BY <2>2, <2>3
  <1>5. ASSUME NEW kind, SessReceive(kind) PROVE ExchInv'
    <2>1. SessionStep /\ sess.state = "idle" /\ Continue
      BY <1>5 DEF SessReceive, SessIdle
    <2>2. CASE kind = "repeated"
      <3>1. UNCHANGED <<exch, dmOp, regCtx>>
        BY <1>5, <2>2 DEF SessReceive
      <3>2. sess' = [sess EXCEPT !.forced = FALSE, !.state = "exchange"]
        BY <1>5, <2>2 DEF SessReceive
      <3>3. sess'.state = "exchange"
        BY <1>p, <3>2 DEF SessOK, SessRecords
      <3> QED BY <1>c, <1>i, <2>1, <3>1, <3>3, StillRegistered
    <2>3. CASE kind = "server_request"
      <3> DEFINE S(res) == [sess EXCEPT !.forced = FALSE, !.state = NewState(@, res)]
      <3>1. PICK opens \in BOOLEAN, res \in PrepareResults,
                 e \in RequestEffects : Prepare(kind, opens, res) /\ Apply(e, S(res))
        BY <1>5, <2>3 DEF SessReceive
      <3>2. S(res) \in SessRecords /\ S(res).state = NewState(sess.state, res)
        BY <1>p, NewStateType DEF SessOK, SessRecords
      <3> HIDE DEF S
      <3>3. sess'.state = NewState(sess.state, res)
        BY <3>1, <3>2, ApplyState
      <3> QED BY <1>b, <2>1, <2>3, <3>1, <3>3 DEF SessionOps
    <2> QED BY <1>5, <2>2, <2>3 DEF SessReceive
  <1>6. CASE SessUpdate
    <2>1. PICK res \in PrepareResults :
             /\ Prepare("update", sess.withPayload, res)
             /\ sess' = [Polled EXCEPT
                           !.state = NewState(@, res), !.nextUpdate = dmPeriod,
                           !.withLifetime = FALSE, !.withPayload = FALSE]
      BY <1>6 DEF SessUpdate
    <2>2. Polled \in SessRecords /\ Polled.state = sess.state
      BY <1>p, PolledType DEF Polled, SessOK, SessRecords
    <2>3. sess'.state = NewState(sess.state, res)
      BY <2>1, <2>2 DEF SessRecords
    <2>4. ~TransitionForced'
      BY <1>6 DEF SessUpdate, Poll, TransitionForced, Parts, UserOK
    <2> QED BY <1>6, <1>b, <2>1, <2>3, <2>4 DEF SessUpdate, Poll, SessionOps
  <1>7. ASSUME NEW op \in {"send", "notify"}, SessClientRequest(op) PROVE ExchInv'
    <2>1. PICK res \in PrepareResults :
             /\ Prepare(op, op = "notify" /\ res = "ok", res)
             /\ sess' = [Polled EXCEPT !.state = NewState(@, res)]
      BY <1>7 DEF SessClientRequest
    <2>2. Polled \in SessRecords /\ Polled.state = sess.state
      BY <1>p, PolledType DEF Polled, SessOK, SessRecords
    <2>3. sess'.state = NewState(sess.state, res)
      BY <2>1, <2>2 DEF SessRecords
    <2>4. ~TransitionForced'
      BY <1>7 DEF SessClientRequest, Poll, SessUser, TransitionForced
    <2> QED BY <1>7, <1>b, <2>1, <2>3, <2>4 DEF SessClientRequest, Poll, SessionOps
  <1>8. CASE SessEnterQueueMode \/ SessWait
    <2>1. Polled \in SessRecords /\ Polled.state = sess.state
      BY <1>p, PolledType DEF Polled, SessOK, SessRecords
    <2>2. sess'.state \in {sess.state, "entering_queue_mode"}
      BY <1>8, <2>1 DEF SessEnterQueueMode, SessWait, SessRecords
    <2> QED BY <1>8, <1>g, <1>l, <1>q, <2>2 DEF SessEnterQueueMode, SessWait, Poll
  <1>9. CASE SessForceExit
    <2>1. sess'.state = "exiting_queue_mode"
      BY <1>9, <1>p, StateOf DEF SessForceExit
    <2> QED BY <1>9, <1>c, <1>q, <2>1 DEF SessForceExit
  <1>10. CASE SessExitQueueMode
    <2>1. /\ SessionStep /\ sess.state = "exiting_queue_mode"
          /\ GoTo("registered") /\ UNCHANGED exchVars
          /\ sess'.state = IF TransitionForced THEN "idle" ELSE "exchange"
      BY <1>10, <1>p, StateOf DEF SessExitQueueMode
    <2>2. exch # "none" => ~TransitionForced /\ exch \in SessionOps
      BY <2>1 DEF SessionStep, Registered, ExchInv, Driven, SessionStates
    <2>3. regCtx = "finished" \/ exch \in {"update", "deregister"}
      BY <2>1 DEF SessionStep, ExchInv, Settled
    <2> QED BY <1>g, <1>p, <2>1, <2>2, <2>3, StillRegistered DEF exchVars
  <1>11. ASSUME NEW res \in {"wait", "ok", "error"}, SessExchange(res)
         PROVE  ExchInv'
    <2>1. SessionStep /\ sess.state = "exchange" /\ (Continue \/ Leave)
      BY <1>11 DEF SessExchange
    <2>2. sess'.state = AfterExchange(res).state
      BY <1>11, AfterExchangeState, ApplyState DEF SessExchange
    <2>3. CASE res = "wait"
      <3>1. sess'.state = "exchange" /\ UNCHANGED <<exch, dmOp, regCtx>>
        BY <1>11, <1>p, <2>1, <2>2, <2>3, AfterExchangeState, HandleRequestEnds
        DEF SessExchange
      <3>2. exch # "none" => exch \in SessionOps
        BY <2>1 DEF SessionStep, Registered, ExchInv, Driven
      <3>3. \/ regCtx = "finished" \/ exch \in {"update", "deregister"}
            \/ exch = "none"
        BY <2>1 DEF SessionStep, ExchInv, Settled
      <3> QED BY <1>c, <1>l, <1>p, <2>1, <3>1, <3>2, <3>3, StillRegistered
    <2>4. CASE res # "wait"
      <3>1. exch' = "none" /\ NoOp'
        BY <1>11, <1>p, <2>4, HandleRequestEnds DEF SessExchange
      <3>2. \/ sess'.state = "disconnect"
            \/ sess'.state = "idle" /\ regCtx' = "finished"
        BY <2>2, <2>4, AfterExchangeState
      <3> QED BY <1>c, <1>l, <2>1, <3>1, <3>2, StillRegistered
    <2> QED BY <2>3, <2>4
  <1>12. CASE Suspended
    <2>1. exch' = "none" /\ NoOp'
      BY <1>12 DEF Suspended, exchVars, ExchInv, Driven, Registered
    <2>2. status' \in {"suspended", "initial"}
      BY <1>12 DEF Suspended, Leave, GoTo, Conclude
    <2> QED BY <2>1, <2>2, NoExchange DEF Registered
  <1> QED BY <1>1, <1>2, <1>3, <1>4, <1>5, <1>6, <1>7, <1>8, <1>9, <1>10, <1>11,
             <1>12 DEF SessionNext

LEMMA CoreExch ==
    ASSUME Parts, ExchInv, CoreStep
    PROVE  ExchInv'
  <1>p. OpClosed /\ Driven /\ Settled /\ SessionStates
    BY DEF ExchInv
  \* Outside of the session an exchange is driven by its own machine only.
  <1>n. ASSUME ~Registered, \/ TransitionForced \/ InCallback
                            \/ status \notin {"registering", "bootstrapping"}
        PROVE  exch = "none" /\ NoOp
    BY <1>n, <1>p DEF Driven, InCallback, Running
  <1>1. ASSUME NEW r, ForcedClose(r) PROVE ExchInv'
    <2>1. exch' = "none" /\ NoOp'
      BY <1>1, <1>n DEF ForcedClose, exchVars
    <2>2. \/ status' \in {"initial", "bootstrapping", "suspended"}
          \/ status' = status
      BY <1>1 DEF ForcedClose, Leave, GoTo, Conclude, ForcedStatus
    <2>3. ~Registered' /\ (status' = "registering" => sess'.state = "idle")
      BY <1>1, <1>p, <2>2 DEF ForcedClose, Registered, SessionStates, detailVars
    <2> QED BY <2>1, <2>3, NoExchange
  <1>2. CASE StepInitial \/ StepBootstrapped \/ StepInvalid \/ StepFailure
    <2>1. exch' = "none" /\ NoOp'
      BY <1>2, <1>n
      DEF StepInitial, StepBootstrapped, StepInvalid, StepFailure, StatusStep,
          CoreRest, exchVars, Registered
    <2>2. ~Registered' /\ ~(status' = "registering" /\ Running')
      BY <1>2
      DEF StepInitial, StepBootstrapped, StepInvalid, StepFailure, StatusStep, Leave,
          GoTo, Conclude, Registered, Running
    <2> QED BY <2>1, <2>2, NoExchange
  <1>3. CASE StartFails
    <2>1. exch' = "none" /\ NoOp'
      BY <1>3, <1>n DEF StartFails, CoreRest, exchVars, Registered
    <2> QED BY <1>3, <2>1, NoExchange DEF StartFails, Registered
  <1>4. CASE Start
    <2>1. InCallback /\ status' = status /\ last' = status /\ Running'
      BY <1>4 DEF Start, EndCallback, Running
    <2>2. CASE ~Registered
      <3>1. exch' = "none" /\ NoOp'
        BY <1>4, <1>n, <2>1, <2>2 DEF Start, exchVars, Registered
      <3>2. status' = "registering" => sess'.state = "idle"
        BY <1>4, <2>1 DEF Start, StartRegister, ZeroSess
      <3> QED BY <2>1, <2>2, <3>1, <3>2, NoExchange DEF Registered
    <2>3. CASE Established
      <3>1. sess.state = "idle" /\ UNCHANGED exchVars /\ sess'.state = "idle"
        BY <1>4, <1>p, <2>3
        DEF Start, Established, SessionInit, SessionStates, ZeroSess
      <3>2. exch = "none" /\ NoOp /\ regCtx = "finished"
        BY <1>p, <2>3, <3>1
        DEF Driven, Settled, Established, Registered
      <3>3. Registered' /\ last' # "registering" /\ pc' # "down"
        BY <2>1, <2>3 DEF Established, Registered, Running
      <3> QED BY <3>1, <3>2, <3>3, StillRegistered DEF exchVars
    <2>4. CASE Registered /\ ~Established
      <3>1. UNCHANGED <<exchVars, sess>>
        BY <1>4, <2>1, <2>4 DEF Start, Established, Registered, detailVars
      <3>2. sess.state # "exiting_queue_mode"
        BY <1>p, <2>1, <2>4 DEF SessionStates, InCallback
      <3>3. exch # "none" => exch \in SessionOps /\ sess.state = "exchange"
        BY <1>p, <2>1, <2>4, <3>2 DEF Driven, Registered
      <3>4. Registered' /\ last' # "registering" /\ pc' # "down"
        BY <2>1, <2>4 DEF Registered, Running
      <3> QED BY <1>p, <2>4, <3>1, <3>2, <3>3, <3>4, StillRegistered
              DEF exchVars, Settled
    <2> QED BY <2>2, <2>3, <2>4
  <1> QED BY <1>1, <1>2, <1>3, <1>4 DEF CoreStep

\* A call that leaves the status, the machines' states and last_status alone,
\* outside of the loop, and either ends the exchange or leaves it alone too.
LEMMA CallExch ==
    ASSUME ExchInv, pc # "loop", UNCHANGED <<status, last, reg, bs>>,
           sess'.state = sess.state,
           \/ UNCHANGED pc
           \/ pc' = "shutdown",
           \/ /\ UNCHANGED <<exch, dmOp, regCtx>>
              /\ UNCHANGED pc /\ TransitionForced' = TransitionForced
           \/ Terminate
    PROVE  ExchInv'
  <1>p. OpClosed /\ Driven /\ Settled /\ SessionStates
    BY DEF ExchInv
  <1>1. SessionStates'
    BY <1>p DEF SessionStates, Established, InCallback, Registered, Running
  <1>2. CASE /\ UNCHANGED <<exch, dmOp, regCtx>>
             /\ UNCHANGED pc /\ TransitionForced' = TransitionForced
    BY <1>p, <1>1, <1>2
    DEF ExchInv, Driven, Settled, Registered, Running
  <1>3. CASE Terminate
    <2>1. /\ exch' = "none" /\ NoOp'
          /\ exch \notin RegistrationOps => regCtx' = regCtx
      BY <1>p, <1>3, FinalizeEnds DEF Terminate
    <2>2. Settled'
      <3>1. SUFFICES ASSUME Registered
                     PROVE  regCtx' = "finished" \/ sess.state \in {"disconnect", "exchange"}
        BY <2>1 DEF Settled, Registered
      <3>2. sess.state # "exiting_queue_mode"
        BY <1>p, <3>1 DEF SessionStates
      <3> QED BY <1>p, <2>1, <3>1, <3>2
              DEF Settled, Driven, SessionOps, RegistrationOps, Registered
    <2> QED BY <1>1, <2>1, <2>2 DEF ExchInv, Driven
  <1> QED BY <1>2, <1>3

LEMMA ApiExch ==
    ASSUME Parts, ExchInv, Api
    PROVE  ExchInv'
  <1>1. ASSUME NEW t, DisableServer(t) PROVE ExchInv'
    BY <1>1, CallExch
    DEF DisableServer, ForceTransition, ApiCall, InCallback, ApiRest, coreVars,
        detailVars, exchVars, TransitionForced
  <1>2. CASE RequestBootstrap \/ Restart
    BY <1>2, CallExch
    DEF RequestBootstrap, Restart, ForceTransition, ApiCall, InCallback, ApiRest,
        coreVars, detailVars
  <1>3. CASE RequestUpdate
    <2>1. TransitionForced' = TransitionForced
      BY <1>3 DEF RequestUpdate, TransitionForced, Parts, UserOK
    <2> QED BY <1>3, <2>1, CallExch
            DEF RequestUpdate, ApiCall, InCallback, ApiRest, coreVars, detailVars,
                exchVars
  <1>4. CASE InstancesChanged \/ \E p \in UpdatePeriods : LifetimeChanged(p)
    <2>1. sess'.state = sess.state
      BY <1>4 DEF InstancesChanged, LifetimeChanged, Parts, SessOK, SessRecords
    <2> QED BY <1>4, <2>1, CallExch
            DEF InstancesChanged, LifetimeChanged, DataModelChange, ApiCall,
                InCallback, coreVars, userVars, exchVars, TransitionForced
  <1>5. ASSUME NEW r, Shutdown(r) PROVE ExchInv'
    <2>1. CASE r = "inprogress"
      BY <1>5, <2>1, CallExch DEF Shutdown, detailVars
    <2>2. CASE r # "inprogress"
      BY <1>5, <2>2, NoExchange DEF Shutdown, Registered
    <2> QED BY <2>1, <2>2
  <1>6. CASE InitAgain
    <2>1. exch' = "none" /\ NoOp'
      BY <1>6 DEF InitAgain, CoreRest, exchVars, ExchInv, Driven, Running
    <2> QED BY <1>6, <2>1, NoExchange DEF InitAgain, Registered
  <1> QED BY <1>1, <1>2, <1>3, <1>4, <1>5, <1>6 DEF Api

LEMMA NextExch ==
    ASSUME Parts, ExchInv, [Next]_vars
    PROVE  ExchInv'
  <1>1. CASE Tick
    BY <1>1, TickStates
    DEF Tick, coreVars, ExchInv, Driven, Settled, SessionStates,
        Established, InCallback, Registered, Running, TransitionForced
  <1>2. CASE UNCHANGED vars
    BY <1>2
    DEF vars, coreVars, userVars, detailVars, exchVars, ExchInv, Driven, Settled,
        SessionStates, Established, InCallback, Registered, Running,
        TransitionForced
  <1> QED BY <1>1, <1>2, RegisterExch, BootstrapExch, SessionExch, CoreExch, ApiExch
          DEF Next

HIDE DEF OpClosed, NoOp

(***************************************************************************)
(* The status that the application has been told.                          *)
(***************************************************************************)
\* In the loop an INVALID of a failed start can be untold, with nothing pending
\* that would interrupt its way to FAILURE, and a callback after which the step
\* returns tells INVALID or FAILURE.
ToldInv ==
    /\ pc = "idle" \/ InCallback => told = status
    /\ pc = "loop" => told = status \/ (status = "invalid" /\ ~TransitionForced)
    /\ pc = "cb_leave" => status \in {"invalid", "failure"}

\* Calm does not depend on the Disable times.
LEMMA NextCalm ==
    ASSUME ~ApiInCallback, Parts, Calm, [Next]_vars
    PROVE  Calm'
  <1>p. UserOK
    BY DEF Parts
  <1>1. CASE RegisterStep \/ BootstrapStep
    <2>1. ~TransitionForced /\ UNCHANGED flags
      BY <1>1
      DEF RegisterStep, RegConnection, RegRegister, RegErrorHandling, RegClose,
          RegRestart, RegFailure, RegRest, RegisteringStep, BootstrapStep,
          BsConnection, BsExchange, BsIdle, BsSequenceEnd, BsReceiveNothing,
          BsReceive, BsFinished, BsConnectionLost, BsDisconnect, BsRetry,
          BsWaiting, BsError, BsRest, BootstrappingStep, userVars
    <2> QED BY <2>1 DEF Calm, TransitionForced
  <1>2. ASSUME NEW r, SessDisconnect(r) PROVE Calm'
    <2>1. \/ ~InCallback'
          \/ flags' = TransitionClear
          \/ ~TransitionForced /\ UNCHANGED flags
      BY <1>2 DEF SessDisconnect, Leave, Conclude, InCallback
    <2> QED BY <1>p, <2>1 DEF Calm, TransitionClear, TransitionForced, UserOK
  <1>3. CASE Suspended
    BY <1>3 DEF Suspended, Calm, TransitionForced
  <1>4. CASE SessionNext /\ ~Suspended /\ ~(\E r \in NetResults : SessDisconnect(r))
    <2>1. Registered
      BY <1>4
      DEF SessionNext, SessDeregister, SessReceiveNothing, SessEntering, SessReceive,
          SessUpdate, SessClientRequest, SessEnterQueueMode, SessWait, SessForceExit,
          SessExitQueueMode, SessExchange, SessIdle, Poll, SessionStep
    <2>2. Registered' /\ last' = status
      BY <1>4, <2>1
      DEF SessionNext, SessDeregister, SessReceiveNothing, SessEntering, SessReceive,
          SessUpdate, SessClientRequest, SessEnterQueueMode, SessWait, SessForceExit,
          SessExitQueueMode, SessExchange, Continue, Leave, GoTo, Conclude, Registered
    <2> QED BY <2>1, <2>2 DEF Calm, Registered
  <1>5. CASE CoreStep
    <2>1. CASE StartFails \/ Start
      BY <2>1 DEF StartFails, Start, EndCallback, Calm, InCallback
    <2>2. CASE StepInitial \/ StepBootstrapped \/ StepInvalid \/ StepFailure
      BY <2>2
      DEF StepInitial, StepBootstrapped, StepInvalid, StepFailure, StatusStep,
          CoreRest, userVars, Calm, TransitionForced
    <2>3. ASSUME NEW r, ForcedClose(r) PROVE Calm'
      <3>1. ~InCallback' \/ flags' = TransitionClear
        BY <2>3 DEF ForcedClose, Leave, Conclude, InCallback
      <3> QED BY <1>p, <3>1 DEF Calm, TransitionClear, TransitionForced, UserOK
    <2> QED BY <1>5, <2>1, <2>2, <2>3 DEF CoreStep
  <1>6. CASE Api
    <2>1. ~InCallback'
      BY <1>6
      DEF Api, DisableServer, RequestBootstrap, Restart, RequestUpdate,
          LifetimeChanged, InstancesChanged, DataModelChange, Shutdown, InitAgain,
          ApiCall, ApiRest, coreVars, InCallback
    <2> QED BY <2>1 DEF Calm
  <1>7. CASE Tick \/ UNCHANGED vars
    BY <1>7 DEF Tick, vars, coreVars, userVars, Calm, InCallback, Registered,
                TransitionForced
  <1> QED BY <1>1, <1>2, <1>3, <1>4, <1>5, <1>6, <1>7 DEF Next

\* The end of an iteration.
LEMMA ConcludedTold ==
    ASSUME NEW s, NEW n, Conclude(s, n), told = status \/ s # status,
           n = "continue" \/ s = status \/ s \in {"invalid", "failure"}
    PROVE  ToldInv'
  BY DEF Conclude, ToldInv, InCallback

LEMMA StepsTold ==
    ASSUME ToldInv, \/ RegisterStep \/ BootstrapStep \/ SessionNext
                    \/ StepInitial \/ StepBootstrapped \/ StepInvalid \/ StepFailure
                    \/ \E r \in NetResults : ForcedClose(r)
    PROVE  ToldInv'
  <1>1. ASSUME Running, TransitionForced \/ status # "invalid"
        PROVE  told = status
    BY <1>1 DEF ToldInv, Running
  <1>2. ASSUME told = status, Continue \/ Leave \/ \E s : GoTo(s)
        PROVE  ToldInv'
    BY <1>2, ConcludedTold DEF Continue, Leave, GoTo
  <1>3. CASE RegisterStep
    <2>1. told = status
      BY <1>1, <1>3
      DEF RegisterStep, RegConnection, RegRegister, RegErrorHandling, RegClose,
          RegRestart, RegFailure, RegisteringStep
    <2>2. Continue \/ Leave \/ \E s : GoTo(s)
      BY <1>3
      DEF RegisterStep, RegConnection, RegRegister, RegErrorHandling, RegClose,
          RegRestart, RegFailure
    <2> QED BY <1>2, <2>1, <2>2
  <1>4. CASE BootstrapStep
    <2>1. told = status
      BY <1>1, <1>4
      DEF BootstrapStep, BsConnection, BsExchange, BsIdle, BsSequenceEnd,
          BsReceiveNothing, BsReceive, BsFinished, BsConnectionLost, BsDisconnect,
          BsRetry, BsWaiting, BsError, BootstrappingStep
    <2>2. \/ Continue \/ Leave \/ \E s : GoTo(s)
          \/ Conclude("failure", "leave")
      BY <1>4
      DEF BootstrapStep, BsConnection, BsExchange, BsSequenceEnd, BsReceiveNothing,
          BsReceive, BsFinished, BsConnectionLost, BsDisconnect, BsRetry, BsWaiting,
          BsError, Retry, NetResults
    <2> QED BY <1>2, <2>1, <2>2, ConcludedTold
  <1>5. CASE SessionNext
    <2>1. told = status
      BY <1>1, <1>5
      DEF SessionNext, SessDeregister, SessReceiveNothing, SessEntering, SessReceive,
          SessUpdate, SessClientRequest, SessEnterQueueMode, SessWait, SessForceExit,
          SessExitQueueMode, SessExchange, SessDisconnect, Suspended, SessIdle, Poll,
          SessionStep, Registered
    <2>2. Continue \/ Leave \/ \E s : GoTo(s)
      BY <1>5
      DEF SessionNext, SessDeregister, SessReceiveNothing, SessEntering, SessReceive,
          SessUpdate, SessClientRequest, SessEnterQueueMode, SessWait, SessForceExit,
          SessExitQueueMode, SessExchange, SessDisconnect, Suspended
    <2> QED BY <1>2, <2>1, <2>2
  <1>6. CASE StepInitial \/ StepBootstrapped \/ StepFailure
    <2>1. told = status
      BY <1>1, <1>6 DEF StepInitial, StepBootstrapped, StepFailure, StatusStep
    <2> QED BY <1>2, <1>6, <2>1, ConcludedTold
            DEF StepInitial, StepBootstrapped, StepFailure
  <1>7. CASE StepInvalid
    BY <1>7, ConcludedTold DEF StepInvalid, StatusStep
  <1>8. ASSUME NEW r, ForcedClose(r) PROVE ToldInv'
    BY <1>1, <1>2, <1>8 DEF ForcedClose
  <1> QED BY <1>3, <1>4, <1>5, <1>6, <1>7, <1>8

LEMMA NextTold ==
    ASSUME ~ApiInCallback, Calm, ToldInv, [Next]_vars
    PROVE  ToldInv'
  <1>1. CASE StartFails
    <2>1. pc = "cb_continue" /\ ~TransitionForced
      BY <1>1 DEF StartFails, InCallback, ToldInv, Calm, Registered
    <2> QED BY <1>1, <2>1
            DEF StartFails, EndCallback, CoreRest, userVars, ToldInv, InCallback,
                TransitionForced
  <1>2. CASE Start
    BY <1>2 DEF Start, EndCallback, ToldInv, InCallback
  <1>3. CASE Api
    BY <1>3
    DEF Api, DisableServer, RequestBootstrap, Restart, RequestUpdate,
        LifetimeChanged, InstancesChanged, DataModelChange, Shutdown, InitAgain,
        ApiCall, ApiRest, coreVars, InCallback, ToldInv
  <1>4. CASE Tick \/ UNCHANGED vars
    BY <1>4 DEF Tick, vars, coreVars, userVars, ToldInv, InCallback, TransitionForced
  <1> QED BY <1>1, <1>2, <1>3, <1>4, StepsTold DEF Next, CoreStep

\* Whatever interrupts an operation, it leaves nothing behind that the next one
\* would trip over (core.c, srv_conn.c, exchange.c): no half-sent message, no
\* exchange without a driver, no open data model operation, no failed result
\* of another exchange and no status untold.  The assumptions are the ones
\* that the code needs: every message fits, every Location-Path fits, and the
\* status callback does not call the API.
THEOREM NothingEverLeftBehind ==
    ASSUME ~LongLocation, ~SmallMtu, ~ApiInCallback
    PROVE  Spec => []NothingLeftBehind
  <1> DEFINE IInv == Parts /\ SendHeld /\ ExchInv /\ Calm /\ ToldInv
  <1>1. Init => IInv
    <2>1. ASSUME Init PROVE SendHeld /\ ExchInv /\ Calm /\ ToldInv
      BY <2>1
      DEF Init, NoConn, SendHeld, ExchInv, Driven, Settled, SessionStates, OpClosed,
          Established, Calm, ToldInv, InCallback, Registered, ZeroSess
    <2> QED BY <2>1, InitTypes
  <1>2. IInv /\ [Next]_vars => IInv'
    BY TypesPreserved, NextSend, NextExch, NextCalm, NextTold
  <1>3. IInv => NothingLeftBehind
    <2> SUFFICES ASSUME IInv PROVE NothingLeftBehind
      OBVIOUS
    <2>1. SendOver
      BY DEF SendOver, SendHeld, Registered
    <2>2. ExchangeDriven /\ DmOpClosed
      BY DEF ExchInv, Driven, ExchangeDriven, SessionOps, OpClosed, Fits, DmOpClosed
    <2>3. RegCtxSettled
      BY DEF ExchInv, Driven, Settled, RegCtxSettled, Registered
    <2>4. StatusTold
      BY DEF ToldInv, StatusTold
    <2> QED BY <2>1, <2>2, <2>3, <2>4, TypeParts DEF NothingLeftBehind
  <1> QED BY <1>1, <1>2, <1>3, PTL DEF Spec

\* Without any assumption, and whatever the callback calls: connect and receive
\* are never called while a message is half sent, every exchange is driven by
\* the machine of the current status, and the session sees no failed result
\* of another exchange (the assertions of srv_conn.c and exchange.c).
THEOREM ExchangesAlwaysDriven ==
    Spec => [](SendOver /\ ExchangeDriven /\ RegCtxSettled)
  <1> DEFINE IInv == Parts /\ SendHeld /\ ExchInv
  <1>1. Init => IInv
    <2>1. ASSUME Init PROVE SendHeld /\ ExchInv
      BY <2>1
      DEF Init, NoConn, SendHeld, ExchInv, Driven, Settled, SessionStates, OpClosed,
          Established, InCallback, Registered, ZeroSess
    <2> QED BY <2>1, InitTypes
  <1>2. IInv /\ [Next]_vars => IInv'
    BY TypesPreserved, NextSend, NextExch
  <1>3. IInv => SendOver /\ ExchangeDriven /\ RegCtxSettled
    BY DEF SendOver, SendHeld, ExchInv, Driven, Settled, ExchangeDriven, SessionOps,
           RegCtxSettled, Registered
  <1> QED BY <1>1, <1>2, <1>3, PTL DEF Spec

(***************************************************************************)
(* The Object Instances that the server knows.                             *)
(***************************************************************************)
\* An exchange of the register context is one that it works on.
Working == exch \in RegistrationOps => regCtx = "working"

LEMMA WorkingKept ==
    ASSUME Working, \/ UNCHANGED <<exch, regCtx>>
                    \/ exch' = "none"
                    \/ \E op, opens, res : Prepare(op, opens, res)
    PROVE  Working'
  BY DEF Working, Prepare, RegistrationOps

LEMMA NextWorking ==
    ASSUME Working, [Next]_vars
    PROVE  Working'
  <1>h. ASSUME NEW res, HandleRequest(res)
        PROVE  UNCHANGED <<exch, regCtx>> \/ exch' = "none"
    BY <1>h DEF HandleRequest, Finalize
  <1>1. CASE RegisterStep
    BY <1>1, <1>h, WorkingKept
    DEF RegisterStep, RegConnection, RegRegister, RegErrorHandling, RegClose,
        RegRestart, RegFailure, exchVars
  <1>2. CASE BootstrapStep
    BY <1>2, <1>h, WorkingKept
    DEF BootstrapStep, BsConnection, BsExchange, BsSequenceEnd, BsReceiveNothing,
        BsReceive, BsFinished, BsConnectionLost, BsDisconnect, BsRetry, BsWaiting,
        BsError, Terminate, Finalize, exchVars
  <1>3. CASE SessionNext
    BY <1>3, <1>h, WorkingKept
    DEF SessionNext, SessDeregister, SessReceiveNothing, SessEntering, SessReceive,
        SessUpdate, SessClientRequest, SessEnterQueueMode, SessWait, SessForceExit,
        SessExitQueueMode, SessExchange, SessDisconnect, Suspended, Terminate,
        Finalize, exchVars
  <1>4. CASE CoreStep
    BY <1>4, WorkingKept
    DEF CoreStep, ForcedClose, StepInitial, StepBootstrapped, StepInvalid,
        StepFailure, StartFails, Start, CoreRest, exchVars
  <1>5. CASE Api
    BY <1>5, WorkingKept
    DEF Api, DisableServer, RequestBootstrap, Restart, RequestUpdate,
        ForceTransition, LifetimeChanged, InstancesChanged, DataModelChange,
        Shutdown, InitAgain, CoreRest, Terminate, Finalize, exchVars
  <1>6. CASE Tick \/ UNCHANGED vars
    BY <1>6, WorkingKept DEF Tick, vars, exchVars
  <1> QED BY <1>1, <1>2, <1>3, <1>4, <1>5, <1>6 DEF Next

\* What takes the list of Object Instances to the server.
Pending == \/ sess.withPayload
           \/ exch = "update" /\ dmOp
           \/ sess.state = "disconnect"
           \/ sess.state = "exchange" /\ regCtx = "error"

StaleInv ==
    /\ srvStale => Registered /\ ~Established /\ pc # "down" /\ Pending
    /\ Registered /\ ~Established => view = "registered"

\* What the steps of the session leave of the pending Update.
LEMMA PayloadKept ==
    ASSUME SessOK
    PROVE  /\ \A st : [sess EXCEPT !.state = st].withPayload = sess.withPayload
           /\ \A st, b : [sess EXCEPT !.state = st, !.forced = b].withPayload
                            = sess.withPayload
           /\ \A st, b : [sess EXCEPT !.forced = b, !.state = st].withPayload
                            = sess.withPayload
           /\ \A st : [Polled EXCEPT !.state = st].withPayload = sess.withPayload
           /\ Polled.withPayload = sess.withPayload
  BY DEF SessOK, SessRecords, Polled

LEMMA ApplyPayload ==
    ASSUME NEW e, NEW s \in SessRecords, Apply(e, s)
    PROVE  sess'.withPayload = s.withPayload
  BY DEF Apply, SessRecords

LEMMA AfterExchangePayload ==
    ASSUME SessOK, NEW res
    PROVE  AfterExchange(res).withPayload = sess.withPayload
  BY DEF AfterExchange, SessOK, SessRecords

LEMMA SessionStale ==
    ASSUME Parts, ExchInv, Working, StaleInv, SessionNext
    PROVE  StaleInv'
  <1>p. SessOK
    BY DEF Parts
  \* A step that stays registered.
  <1>k. ASSUME SessionStep, UNCHANGED view, srvStale' => srvStale /\ Pending',
               \/ Continue \/ Leave \/ GoTo("registered")
               \/ GoTo("entering_queue_mode") \/ GoTo("queue_mode")
        PROVE  StaleInv'
    <2>1. Registered' /\ last' # "registering" /\ pc' # "down"
      BY <1>k DEF SessionStep, Registered, Continue, Leave, GoTo, Conclude
    <2>2. view = "registered"
      BY <1>k DEF SessionStep, Running, StaleInv, Established, InCallback
    <2> QED BY <1>k, <2>1, <2>2 DEF StaleInv, Established
  <1>i. ASSUME SessionStep, srvStale,
               sess.state \notin {"exchange", "exiting_queue_mode", "disconnect"}
        PROVE  sess.withPayload
    BY <1>i DEF SessionStep, Registered, StaleInv, Pending, ExchInv, Driven
  <1>1. CASE SessDeregister
    <2>1. sess'.withPayload = sess.withPayload
      BY <1>1, <1>p, PayloadKept DEF SessDeregister
    <2> QED BY <1>1, <1>i, <1>k, <2>1 DEF SessDeregister, SessRest, srvVars, Pending
  <1>2. ASSUME NEW r, SessReceiveNothing(r) PROVE StaleInv'
    <2>1. sess'.withPayload = sess.withPayload
      BY <1>2, <1>p DEF SessReceiveNothing, SessOK, SessRecords
    <2> QED BY <1>2, <1>i, <1>k, <2>1
            DEF SessReceiveNothing, SessIdle, SessRest, srvVars, Pending
  <1>3. ASSUME NEW r, SessEntering(r) PROVE StaleInv'
    <2>1. sess'.withPayload = sess.withPayload
      BY <1>3, <1>p, PayloadKept DEF SessEntering
    <2> QED BY <1>3, <1>i, <1>k, <2>1 DEF SessEntering, SessRest, srvVars, Pending
  <1>4. ASSUME NEW r, SessDisconnect(r) PROVE StaleInv'
    <2>1. CASE r = "inprogress"
      BY <1>4, <1>k, <2>1 DEF SessDisconnect, SessRest, srvVars, Pending
    <2>2. CASE r # "inprogress"
      <3>1. status' \in {"registering", "initial", "bootstrapping", "suspended"}
        BY <1>4, <2>2 DEF SessDisconnect, GoTo, Conclude, ForcedStatus
      <3> QED BY <1>4, <2>2, <3>1 DEF SessDisconnect, StaleInv, Registered
    <2> QED BY <2>1, <2>2
  <1>5. ASSUME NEW kind, SessReceive(kind) PROVE StaleInv'
    <2>1. sess'.withPayload = sess.withPayload
      <3>1. CASE kind = "repeated"
        <4>1. sess' = [sess EXCEPT !.forced = FALSE, !.state = "exchange"]
          BY <1>5, <3>1 DEF SessReceive
        <4> QED BY <1>p, <4>1 DEF SessOK, SessRecords
      <3>2. CASE kind = "server_request"
        <4> DEFINE S(res) == [sess EXCEPT !.forced = FALSE, !.state = NewState(@, res)]
        <4>1. PICK res \in PrepareResults, e \in RequestEffects : Apply(e, S(res))
          BY <1>5, <3>2 DEF SessReceive
        <4>2. S(res) \in SessRecords /\ S(res).withPayload = sess.withPayload
          BY <1>p, NewStateType DEF SessOK, SessRecords
        <4> HIDE DEF S
        <4> QED BY <4>1, <4>2, ApplyPayload
      <3> QED BY <1>5, <3>1, <3>2 DEF SessReceive
    <2> QED BY <1>5, <1>i, <1>k, <2>1
            DEF SessReceive, SessIdle, SessRest, srvVars, Pending
  <1>6. CASE SessUpdate
    <2>1. PICK res \in PrepareResults :
             /\ Prepare("update", sess.withPayload, res)
             /\ sess' = [Polled EXCEPT
                           !.state = NewState(@, res), !.nextUpdate = dmPeriod,
                           !.withLifetime = FALSE, !.withPayload = FALSE]
      BY <1>6 DEF SessUpdate
    <2>2. sess'.state = NewState(Polled.state, res)
      BY <1>p, <2>1, PolledType DEF SessOK, SessRecords
    <2>3. SessionStep /\ (srvStale => sess.withPayload)
      BY <1>6, <1>i DEF SessUpdate, Poll
    <2>4. srvStale => Pending'
      BY <2>1, <2>2, <2>3 DEF Prepare, NewState, Pending, PrepareResults
    <2> QED BY <1>6, <1>k, <2>3, <2>4 DEF SessUpdate, SessRest
  <1>7. ASSUME NEW op \in {"send", "notify"}, SessClientRequest(op) PROVE StaleInv'
    <2>1. sess'.withPayload = sess.withPayload
      BY <1>7, <1>p, PayloadKept DEF SessClientRequest
    <2> QED BY <1>7, <1>i, <1>k, <2>1
            DEF SessClientRequest, Poll, SessRest, srvVars, Pending
  <1>8. CASE SessEnterQueueMode \/ SessWait \/ SessForceExit
    <2>1. sess'.withPayload = sess.withPayload
      <3>1. \/ sess' = [Polled EXCEPT !.state = "entering_queue_mode"]
            \/ sess' = Polled
            \/ sess' = [sess EXCEPT !.state = "exiting_queue_mode"]
        BY <1>8 DEF SessEnterQueueMode, SessWait, SessForceExit
      <3> QED BY <1>p, <3>1 DEF Polled, SessOK, SessRecords
    <2>2. SessionStep /\ sess.state \in {"idle", "queue_mode"}
      BY <1>8 DEF SessEnterQueueMode, SessWait, SessForceExit, Poll
    <2> QED BY <1>8, <1>i, <1>k, <2>1, <2>2
            DEF SessEnterQueueMode, SessWait, SessForceExit, Poll, SessRest, srvVars,
                Pending
  <1>9. CASE SessExitQueueMode
    <2>1. sess'.withPayload = sess.withPayload
      BY <1>9, <1>p, PayloadKept DEF SessExitQueueMode
    <2> QED BY <1>9, <1>k, <2>1
            DEF SessExitQueueMode, SessRest, srvVars, exchVars, Pending, StaleInv
  <1>10. ASSUME NEW res \in {"wait", "ok", "error"}, SessExchange(res)
         PROVE  StaleInv'
    <2>1. /\ sess'.withPayload = sess.withPayload
          /\ sess'.state = AfterExchange(res).state
      BY <1>10, <1>p, AfterExchangeState, ApplyState, AfterExchangePayload,
         ApplyPayload
      DEF SessExchange
    <2>2. /\ SessionStep /\ sess.state = "exchange" /\ (Continue \/ Leave)
          /\ UNCHANGED view
          /\ srvStale' = (srvStale /\ ~(exch = "update" /\ dmOp
                                           /\ regCtx' = "finished"))
      BY <1>10 DEF SessExchange, SessRest
    <2>3. CASE res = "wait"
      <3>1. UNCHANGED <<exch, dmOp, regCtx>> /\ sess'.state = "exchange"
        BY <1>10, <2>1, <2>2, <2>3, AfterExchangeState DEF SessExchange, HandleRequest
      <3>2. srvStale' => Pending'
        BY <2>1, <2>2, <3>1 DEF StaleInv, Pending
      <3> QED BY <1>k, <2>2, <3>2
    <2>4. CASE res # "wait"
      <3>1. regCtx' # "finished" => sess'.state = "disconnect"
        BY <2>1, <2>4 DEF AfterExchange, SessOK, SessRecords, Parts
      <3>2. regCtx = "error" => regCtx' # "finished"
        <4>1. exch \notin RegistrationOps => regCtx' = regCtx
          BY <1>10, HandleRequestEnds DEF SessExchange, ExchInv
        <4> QED BY <4>1 DEF Working, Complete
      <3>3. srvStale' => Pending'
        <4>1. ASSUME srvStale, ~sess.withPayload, exch = "update" /\ dmOp
              PROVE  srvStale' => Pending'
          BY <2>2, <3>1, <4>1 DEF Pending
        <4> QED BY <2>1, <2>2, <3>1, <3>2, <4>1 DEF StaleInv, Pending
      <3> QED BY <1>k, <2>2, <3>3
    <2> QED BY <2>3, <2>4
  <1>11. CASE Suspended
    BY <1>11 DEF Suspended, Leave, GoTo, Conclude, dmVars, srvVars, StaleInv, Registered
  <1> QED BY <1>1, <1>2, <1>3, <1>4, <1>5, <1>6, <1>7, <1>8, <1>9, <1>10, <1>11
          DEF SessionNext

LEMMA OtherStale ==
    ASSUME StaleInv, CoreStep \/ RegisterStep \/ BootstrapStep
    PROVE  StaleInv'
  <1>1. UNCHANGED srvStale
    BY DEF CoreStep, ForcedClose, StepInitial, StepBootstrapped, StepInvalid,
           StepFailure, StartFails, Start, CoreRest, RegisterStep, RegConnection,
           RegRegister, RegErrorHandling, RegClose, RegRestart, RegFailure,
           BootstrapStep, BsConnection, BsExchange, BsSequenceEnd, BsReceiveNothing,
           BsReceive, BsFinished, BsConnectionLost, BsDisconnect, BsRetry, BsWaiting,
           BsError, BsRest, dmVars, srvVars
  \* Outside of the session nothing is stale.
  <1>2. ASSUME ~Registered, ~Registered' \/ Established' PROVE StaleInv'
    BY <1>1, <1>2 DEF StaleInv
  <1>3. CASE RegisterStep
    <2>1. status = "registering"
      BY <1>3
      DEF RegisterStep, RegConnection, RegRegister, RegErrorHandling, RegClose,
          RegRestart, RegFailure, RegisteringStep
    <2>2. ~Registered' \/ Established'
      BY <1>3, <2>1
      DEF RegisterStep, RegConnection, RegRegister, RegErrorHandling, RegClose,
          RegRestart, RegFailure, Continue, Leave, GoTo, Conclude, Registered,
          Established, InCallback
    <2> QED BY <1>2, <2>1, <2>2 DEF Registered
  <1>4. CASE BootstrapStep
    <2>1. status = "bootstrapping"
      BY <1>4
      DEF BootstrapStep, BsConnection, BsExchange, BsIdle, BsSequenceEnd,
          BsReceiveNothing, BsReceive, BsFinished, BsConnectionLost, BsDisconnect,
          BsRetry, BsWaiting, BsError, BootstrappingStep
    <2>2. ~Registered'
      BY <1>4, <2>1
      DEF BootstrapStep, BsConnection, BsExchange, BsSequenceEnd, BsReceiveNothing,
          BsReceive, BsFinished, BsConnectionLost, BsDisconnect, BsRetry, BsWaiting,
          BsError, Retry, NetResults, Continue, Leave, GoTo, Conclude, Registered
    <2> QED BY <1>2, <2>1, <2>2 DEF Registered
  <1>5. CASE StepInitial \/ StepBootstrapped \/ StepInvalid \/ StepFailure
    BY <1>2, <1>5
    DEF StepInitial, StepBootstrapped, StepInvalid, StepFailure, StatusStep, Leave,
        GoTo, Conclude, Registered
  <1>6. ASSUME NEW r, ForcedClose(r) PROVE StaleInv'
    BY <1>2, <1>6 DEF ForcedClose, Leave, GoTo, Conclude, ForcedStatus, Registered
  <1>7. CASE StartFails
    BY <1>2, <1>7 DEF StartFails, Registered
  <1>8. CASE Start
    <2>1. InCallback /\ ~InCallback' /\ status' = status /\ pc' # "down"
      BY <1>8 DEF Start, EndCallback, InCallback
    <2>2. CASE ~Registered
      BY <1>2, <2>1, <2>2 DEF Registered
    <2>3. CASE Established
      <3>1. view' = "registered"
        BY <1>8, <2>3 DEF Start, Established, SessionInit
      <3> QED BY <1>1, <2>3, <3>1 DEF StaleInv
    <2>4. CASE Registered /\ ~Established
      <3>1. UNCHANGED <<view, sess, exchVars>>
        BY <1>8, <2>1, <2>4 DEF Start, Established, Registered, detailVars
      <3> QED BY <1>1, <2>1, <2>4, <3>1
              DEF StaleInv, Registered, Established, Pending, exchVars
    <2> QED BY <2>2, <2>3, <2>4
  <1> QED BY <1>3, <1>4, <1>5, <1>6, <1>7, <1>8 DEF CoreStep

LEMMA ApiStale ==
    ASSUME ~ApiInCallback, Parts, ExchInv, Working, StaleInv, Api
    PROVE  StaleInv'
  <1>p. SessOK
    BY DEF Parts
  \* A call that ends the exchange: an Update fails, and the session ends.
  <1>t. ASSUME pc \in {"idle", "shutdown"}, pc' \in {"idle", "shutdown"}, Terminate,
               UNCHANGED <<status, view, sess, srvStale>>
        PROVE  StaleInv'
    <2>1. ~Established /\ ~Established' /\ Registered' = Registered
      BY <1>t DEF Established, InCallback, Registered
    <2>2. Registered => sess.state # "exiting_queue_mode"
      BY <1>t DEF ExchInv, SessionStates
    <2>3. exch = "update" => regCtx' = "error"
      BY <1>t DEF Terminate, Finalize, Complete, RegistrationOps
    <2>4. exch = "update" /\ Registered => sess.state = "exchange"
      BY <2>2 DEF ExchInv, Driven, Registered
    <2>5. regCtx = "error" => regCtx' = "error"
      BY <1>t DEF Terminate, Finalize, Complete, Working
    <2>6. Registered /\ Pending => Pending'
      BY <1>t, <2>3, <2>4, <2>5 DEF Pending
    <2> QED BY <1>t, <2>1, <2>6 DEF StaleInv
  \* A call that leaves it alone.
  <1>s. ASSUME pc = "idle", UNCHANGED <<status, pc, view, exchVars>>,
               sess'.state = sess.state, sess.withPayload => sess'.withPayload,
               srvStale' => srvStale \/ (Registered /\ sess'.withPayload)
        PROVE  StaleInv'
    BY <1>s DEF StaleInv, Pending, Registered, Established, InCallback, exchVars
  <1>1. CASE \/ \E t \in DisableTimes : DisableServer(t)
             \/ RequestBootstrap \/ Restart \/ RequestUpdate
    <2>1. pc = "idle" /\ UNCHANGED <<status, pc, view, sess, srvStale>>
      BY <1>1 DEF DisableServer, RequestBootstrap, Restart, RequestUpdate, ApiCall,
                  ApiRest, coreVars, detailVars, dmVars, srvVars
    <2>2. Terminate \/ UNCHANGED exchVars
      BY <1>1 DEF DisableServer, RequestBootstrap, Restart, RequestUpdate,
                  ForceTransition
    <2> QED BY <1>s, <1>t, <2>1, <2>2
  <1>2. ASSUME NEW p, LifetimeChanged(p) PROVE StaleInv'
    <2>1. sess'.state = sess.state /\ sess'.withPayload = sess.withPayload
      BY <1>2, <1>p DEF LifetimeChanged, SessOK, SessRecords
    <2> QED BY <1>2, <1>s, <2>1 DEF LifetimeChanged, DataModelChange, ApiCall, coreVars
  <1>3. CASE InstancesChanged
    <2>1. pc = "idle" /\ UNCHANGED <<status, pc, view, exchVars>>
      BY <1>3 DEF InstancesChanged, DataModelChange, ApiCall, coreVars
    <2>2. Registered => view = "registered"
      BY <2>1 DEF StaleInv, Established, InCallback
    <2>3. /\ sess'.state = sess.state
          /\ sess.withPayload => sess'.withPayload
          /\ Registered => sess'.withPayload
      BY <1>3, <1>p, <2>2 DEF InstancesChanged, SessOK, SessRecords
    <2>4. srvStale' = (srvStale \/ Registered)
      BY <1>3 DEF InstancesChanged
    <2> QED BY <1>s, <2>1, <2>3, <2>4
  <1>4. ASSUME NEW r, Shutdown(r) PROVE StaleInv'
    <2>1. CASE r = "inprogress"
      BY <1>4, <1>t, <2>1 DEF Shutdown, detailVars, dmVars, srvVars
    <2>2. CASE r # "inprogress"
      BY <1>4, <2>2 DEF Shutdown, StaleInv, Registered
    <2> QED BY <2>1, <2>2
  <1>5. CASE InitAgain
    BY <1>5 DEF InitAgain, CoreRest, dmVars, srvVars, StaleInv, Registered
  <1> QED BY <1>1, <1>2, <1>3, <1>4, <1>5 DEF Api

LEMMA NextStale ==
    ASSUME ~ApiInCallback, Parts, ExchInv, Working, StaleInv, [Next]_vars
    PROVE  StaleInv'
  <1>1. CASE Tick
    BY <1>1, TickStates
    DEF Tick, coreVars, dmVars, srvVars, StaleInv, Pending, Registered, Established,
        InCallback
  <1>2. CASE UNCHANGED vars
    BY <1>2
    DEF vars, coreVars, detailVars, dmVars, srvVars, exchVars, StaleInv, Pending,
        Registered, Established, InCallback
  <1> QED BY <1>1, <1>2, OtherStale, SessionStale, ApiStale DEF Next

\* A change of the Object Instances is never forgotten by a registered client
\* (reg_session.c, core.c): an Update with the list is due or under way, or the
\* session is about to end in a new Register.  It holds whatever fits, as long as
\* the callback that tells the registration changes nothing itself.
THEOREM InstancesAlwaysReported ==
    ASSUME ~ApiInCallback
    PROVE  Spec => []InstancesReported
  <1> DEFINE IInv == Parts /\ ExchInv /\ Working /\ StaleInv
  <1>1. Init => IInv
    <2>1. ASSUME Init PROVE ExchInv /\ Working /\ StaleInv
      BY <2>1
      DEF Init, ExchInv, Driven, Settled, SessionStates, OpClosed, Working, StaleInv,
          Established, InCallback, Registered, ZeroSess, RegistrationOps
    <2> QED BY <2>1, InitTypes
  <1>2. IInv /\ [Next]_vars => IInv'
    BY TypesPreserved, NextExch, NextWorking, NextStale
  <1>3. IInv => InstancesReported
    BY DEF StaleInv, Pending, InstancesReported
  <1> QED BY <1>1, <1>2, <1>3, PTL DEF Spec

(***************************************************************************)
(* The Lifetime that the server knows.                                     *)
(***************************************************************************)
\* The cached Lifetime is the data model's from the start of a registration on,
\* and a Register carries it.
PeriodInv ==
    /\ LifetimeReported
    /\ (status = "registering" /\ Running) \/ Registered => period = dmPeriod
    /\ \/ status = "registering" /\ Running /\ reg.state = "register"
       \/ Established
       => srvPeriod = period

LEMMA RegisterPeriod ==
    ASSUME RegOK, PeriodInv, RegisterStep
    PROVE  PeriodInv'
  <1>1. Running /\ status = "registering" /\ UNCHANGED dmPeriod
    BY DEF RegisterStep, RegConnection, RegRegister, RegErrorHandling, RegClose,
           RegRestart, RegFailure, RegRest, RegisteringStep
  <1>2. period = dmPeriod /\ UNCHANGED period
    BY <1>1 DEF PeriodInv, RegisterStep, RegConnection, RegRegister,
                RegErrorHandling, RegClose, RegRestart, RegFailure, RegRest
  \* A step that stays, and leaves CONNECTION with the Lifetime in the Register.
  <1>k. ASSUME Continue \/ Leave, reg'.state = "register" => srvPeriod' = period
        PROVE  PeriodInv'
    <2>1. status' = "registering"
      BY <1>1, <1>k DEF Continue, Leave, Conclude
    <2> QED BY <1>1, <1>2, <1>k, <2>1
            DEF PeriodInv, LifetimeReported, Registered, Established
  <1>3. ASSUME NEW r \in NetResults, RegConnection(r) PROVE PeriodInv'
    <2>1. reg.state = "connection" /\ (Continue \/ Leave)
      BY <1>3 DEF RegConnection
    <2>2. r # "ok" => reg'.state # "register"
      BY <1>3, <2>1 DEF RegConnection, RegOK, NetResults
    <2>3. r = "ok" => srvPeriod' = period
      BY <1>3 DEF RegConnection
    <2> QED BY <1>k, <2>1, <2>2, <2>3
  <1>4. ASSUME NEW res, RegRegister(res) PROVE PeriodInv'
    <2>1. srvPeriod = period /\ UNCHANGED srvPeriod
      BY <1>1, <1>4 DEF RegRegister, PeriodInv, srvVars
    <2>2. CASE GoTo("registered")
      BY <1>1, <1>2, <2>1, <2>2
      DEF GoTo, Conclude, PeriodInv, LifetimeReported
    <2> QED BY <1>4, <1>k, <2>1, <2>2 DEF RegRegister
  <1>5. CASE RegErrorHandling
    <2>1. reg'.state # "register"
      BY <1>5, NextAttemptState DEF RegErrorHandling
    <2> QED BY <1>5, <1>k, <2>1 DEF RegErrorHandling
  <1>6. ASSUME NEW r, RegClose(r) PROVE PeriodInv'
    <2>1. reg'.state # "register"
      BY <1>6 DEF RegClose, RegOK
    <2> QED BY <1>6, <1>k, <2>1 DEF RegClose
  <1>7. CASE RegRestart
    <2>1. reg'.state # "register"
      BY <1>7 DEF RegRestart, RegOK
    <2> QED BY <1>7, <1>k, <2>1 DEF RegRestart
  <1>8. CASE RegFailure
    BY <1>8 DEF RegFailure, GoTo, Conclude, PeriodInv, LifetimeReported, Registered,
                Established
  <1> QED BY <1>3, <1>4, <1>5, <1>6, <1>7, <1>8 DEF RegisterStep

\* A step of the session that keeps what is to be reported, or writes a new
\* Lifetime and marks it.
LEMMA ApplyPeriod ==
    ASSUME NEW e, NEW s \in SessRecords, Apply(e, s), period = dmPeriod
    PROVE  /\ period' = dmPeriod'
           /\ period' = period => sess'.withLifetime = s.withLifetime
           /\ period' # period => sess'.withLifetime
  BY DEF Apply, SessRecords

LEMMA SessionPeriod ==
    ASSUME Parts, PeriodInv, SessionNext
    PROVE  PeriodInv'
  <1>p. SessOK /\ sess \in SessRecords
    BY DEF Parts, SessOK
  <1>i. ASSUME SessionStep
        PROVE  period = dmPeriod
    BY <1>i DEF SessionStep, PeriodInv
  \* A step that stays registered.
  <1>k. ASSUME SessionStep, period' = dmPeriod',
               view' = "registered" /\ srvPeriod' # period' =>
                  sess'.withLifetime \/ sess'.state = "disconnect",
               \/ Continue \/ Leave \/ GoTo("registered")
               \/ GoTo("entering_queue_mode") \/ GoTo("queue_mode")
        PROVE  PeriodInv'
    <2>1. Registered' /\ last' # "registering"
      BY <1>k DEF SessionStep, Registered, Continue, Leave, GoTo, Conclude
    <2> QED BY <1>k, <2>1 DEF PeriodInv, LifetimeReported, Registered, Established
  \* One that keeps the mark as well.
  <1>m. ASSUME SessionStep, UNCHANGED <<period, dmPeriod, view, srvPeriod>>,
               sess'.withLifetime = sess.withLifetime,
               sess.state # "disconnect" \/ sess'.state = "disconnect",
               \/ Continue \/ Leave \/ GoTo("registered")
               \/ GoTo("entering_queue_mode") \/ GoTo("queue_mode")
        PROVE  PeriodInv'
    BY <1>i, <1>k, <1>m DEF PeriodInv, LifetimeReported, SessionStep
  <1>1. CASE \/ SessDeregister
             \/ \E r \in NetResults : SessReceiveNothing(r) \/ SessEntering(r)
             \/ \E op \in {"send", "notify"} : SessClientRequest(op)
             \/ SessEnterQueueMode \/ SessWait \/ SessForceExit \/ SessExitQueueMode
    <2>1. /\ SessionStep /\ sess.state # "disconnect"
          /\ UNCHANGED <<period, dmPeriod, view, srvPeriod>>
      BY <1>1
      DEF SessDeregister, SessReceiveNothing, SessEntering, SessClientRequest,
          SessEnterQueueMode, SessWait, SessForceExit, SessExitQueueMode, SessIdle,
          Poll, SessRest, SessUser, srvVars
    <2>2. sess'.withLifetime = sess.withLifetime
      BY <1>1, <1>p
      DEF SessDeregister, SessReceiveNothing, SessEntering, SessClientRequest,
          SessEnterQueueMode, SessWait, SessForceExit, SessExitQueueMode, Polled,
          SessRecords
    <2>3. \/ Continue \/ Leave \/ GoTo("registered")
          \/ GoTo("entering_queue_mode") \/ GoTo("queue_mode")
      BY <1>1
      DEF SessDeregister, SessReceiveNothing, SessEntering, SessClientRequest,
          SessEnterQueueMode, SessWait, SessForceExit, SessExitQueueMode
    <2> QED BY <1>m, <2>1, <2>2, <2>3
  <1>2. ASSUME NEW r, SessDisconnect(r) PROVE PeriodInv'
    <2>1. CASE r = "inprogress"
      BY <1>2, <1>m, <2>1 DEF SessDisconnect, SessRest, srvVars
    <2>2. CASE r # "inprogress"
      <3>1. status' \in {"registering", "initial", "bootstrapping", "suspended"}
        BY <1>2, <2>2 DEF SessDisconnect, GoTo, Conclude, ForcedStatus
      <3>2. ~Running'
        BY <1>2, <2>2, <3>1
        DEF SessDisconnect, SessionStep, Registered, GoTo, Conclude, Running
      <3> QED BY <3>1, <3>2
              DEF PeriodInv, LifetimeReported, Registered, Established
    <2> QED BY <2>1, <2>2
  <1>3. ASSUME NEW e, NEW s \in SessRecords, Apply(e, s), SessionStep,
               Continue \/ Leave, UNCHANGED <<view, srvPeriod>>,
               s.withLifetime = sess.withLifetime, sess.state # "disconnect"
        PROVE  PeriodInv'
    <2>1. /\ period' = dmPeriod'
          /\ period' = period => sess'.withLifetime = sess.withLifetime
          /\ period' # period => sess'.withLifetime
      BY <1>3, <1>i, ApplyPeriod
    <2>2. view = "registered" /\ srvPeriod # period => sess.withLifetime
      BY <1>3 DEF SessionStep, PeriodInv, LifetimeReported
    <2> QED BY <1>3, <1>k, <2>1, <2>2
  <1>4. ASSUME NEW kind, SessReceive(kind) PROVE PeriodInv'
    <2>1. /\ SessionStep /\ sess.state = "idle" /\ Continue
          /\ UNCHANGED <<view, srvPeriod>>
      BY <1>4 DEF SessReceive, SessIdle, SessRest, srvVars
    <2>2. CASE kind = "repeated"
      <3>1. /\ sess' = [sess EXCEPT !.forced = FALSE, !.state = "exchange"]
            /\ UNCHANGED <<period, dmPeriod>>
        BY <1>4, <2>2 DEF SessReceive, SessUser
      <3>2. sess'.withLifetime = sess.withLifetime
        BY <1>p, <3>1 DEF SessRecords
      <3> QED BY <1>m, <2>1, <3>1, <3>2
    <2>3. CASE kind = "server_request"
      <3> DEFINE S(res) == [sess EXCEPT !.forced = FALSE, !.state = NewState(@, res)]
      <3>1. PICK res \in PrepareResults, e \in RequestEffects : Apply(e, S(res))
        BY <1>4, <2>3 DEF SessReceive
      <3>2. S(res) \in SessRecords /\ S(res).withLifetime = sess.withLifetime
        BY <1>p, NewStateType DEF SessRecords
      <3> HIDE DEF S
      <3> QED BY <1>3, <2>1, <3>1, <3>2
    <2> QED BY <1>4, <2>2, <2>3 DEF SessReceive
  <1>5. CASE SessUpdate
    <2>1. SessionStep /\ sess.state # "disconnect" /\ Continue /\ UNCHANGED view
      BY <1>5 DEF SessUpdate, Poll, SessRest
    <2>2. /\ period' = dmPeriod /\ UNCHANGED dmPeriod
          /\ srvPeriod' = IF sess.withLifetime THEN period' ELSE srvPeriod
      BY <1>5 DEF SessUpdate
    <2>3. view = "registered" /\ srvPeriod # period => sess.withLifetime
      BY <2>1 DEF SessionStep, PeriodInv, LifetimeReported
    <2> QED BY <1>i, <1>k, <2>1, <2>2, <2>3
  <1>6. ASSUME NEW res \in {"wait", "ok", "error"}, SessExchange(res)
        PROVE  PeriodInv'
    <2>1. AfterExchange(res) \in SessRecords
      BY AfterExchangeState
    <2>2. AfterExchange(res).withLifetime = sess.withLifetime
      BY <1>p DEF AfterExchange, SessRecords
    <2> QED BY <1>6, <1>3, <2>1, <2>2 DEF SessExchange, SessRest
  <1>7. CASE Suspended
    BY <1>7 DEF Suspended, Leave, GoTo, Conclude, PeriodInv, LifetimeReported,
                Registered, Established
  <1> QED BY <1>1, <1>2, <1>4, <1>5, <1>6, <1>7 DEF SessionNext

LEMMA OtherPeriod ==
    ASSUME ~AppChanges, Parts, PeriodInv, \/ CoreStep \/ BootstrapStep \/ Api \/ Tick
                                          \/ UNCHANGED vars
    PROVE  PeriodInv'
  \* A step to a status in which there is nothing to report.
  <1>n. ASSUME ~Registered', ~(status' = "registering" /\ Running')
        PROVE  PeriodInv'
    BY <1>n DEF PeriodInv, LifetimeReported, Registered, Established
  \* A step that changes nothing of what is reported.
  <1>s. ASSUME UNCHANGED <<status, view, period, dmPeriod, srvPeriod>>,
               reg'.state = reg.state, sess'.state = sess.state,
               sess'.withLifetime = sess.withLifetime,
               Running' => Running, Established' => Established
        PROVE  PeriodInv'
    BY <1>s DEF PeriodInv, LifetimeReported, Registered
  <1>1. CASE BootstrapStep
    <2>1. status = "bootstrapping"
      BY <1>1
      DEF BootstrapStep, BsConnection, BsExchange, BsIdle, BsSequenceEnd,
          BsReceiveNothing, BsReceive, BsFinished, BsConnectionLost, BsDisconnect,
          BsRetry, BsWaiting, BsError, BootstrappingStep
    <2>2. ~Registered' /\ status' # "registering"
      BY <1>1, <2>1
      DEF BootstrapStep, BsConnection, BsExchange, BsSequenceEnd, BsReceiveNothing,
          BsReceive, BsFinished, BsConnectionLost, BsDisconnect, BsRetry, BsWaiting,
          BsError, Retry, NetResults, Continue, Leave, GoTo, Conclude, Registered
    <2> QED BY <1>n, <2>2
  <1>2. CASE StepInitial \/ StepBootstrapped \/ StepInvalid \/ StepFailure
    BY <1>2, <1>n
    DEF StepInitial, StepBootstrapped, StepInvalid, StepFailure, StatusStep, Leave,
        GoTo, Conclude, Registered, Running
  <1>3. CASE StartFails
    BY <1>3, <1>n DEF StartFails, Registered
  <1>4. ASSUME NEW r, ForcedClose(r) PROVE PeriodInv'
    <2>1. CASE r = "inprogress"
      BY <1>4, <1>s, <2>1
      DEF ForcedClose, Leave, Conclude, detailVars, dmVars, srvVars, Established,
          InCallback
    <2>2. CASE r # "inprogress"
      BY <1>4, <1>n, <2>2 DEF ForcedClose, GoTo, Conclude, ForcedStatus, Registered
    <2> QED BY <2>1, <2>2
  <1>5. CASE Start
    <2>1. /\ InCallback /\ UNCHANGED <<status, srvPeriod, dmPeriod>>
          /\ ~InCallback'
      BY <1>5 DEF Start, EndCallback, InCallback, srvVars
    <2>2. CASE status = "registering"
      BY <1>5, <2>1, <2>2
      DEF Start, StartRegister, ZeroReg, PeriodInv, LifetimeReported, Registered,
          Established
    <2>3. CASE Established
      <3>1. period' = dmPeriod /\ period = dmPeriod /\ srvPeriod = period
        BY <1>5, <2>3
        DEF Start, SessionInit, Established, PeriodInv, Registered
      <3> QED BY <2>1, <2>3, <3>1 DEF PeriodInv, LifetimeReported, Established
    <2>4. CASE Registered /\ ~Established
      <3>1. UNCHANGED <<view, period, sess>>
        BY <1>5, <2>1, <2>4 DEF Start, Established, Registered, detailVars
      <3> QED BY <2>1, <2>4, <3>1
              DEF PeriodInv, LifetimeReported, Registered, Established
    <2> QED BY <1>n, <2>1, <2>2, <2>3, <2>4 DEF Registered
  <1>6. CASE Api
    <2>1. CASE \/ \E t \in DisableTimes : DisableServer(t)
               \/ RequestBootstrap \/ Restart \/ RequestUpdate
      BY <2>1, <1>s
      DEF DisableServer, RequestBootstrap, Restart, RequestUpdate, ApiRest, coreVars,
          detailVars, dmVars, srvVars, Running, Established, InCallback
    <2>2. ASSUME NEW r, Shutdown(r) PROVE PeriodInv'
      <3>1. CASE r = "inprogress"
        BY <2>2, <1>s, <3>1
        DEF Shutdown, detailVars, dmVars, srvVars, Running, Established, InCallback
      <3>2. CASE r # "inprogress"
        BY <2>2, <1>n, <3>2 DEF Shutdown, Registered
      <3> QED BY <3>1, <3>2
    <2>3. CASE InitAgain
      BY <2>3, <1>n DEF InitAgain, Registered
    <2> QED BY <1>6, <2>1, <2>2, <2>3
            DEF Api, LifetimeChanged, InstancesChanged, DataModelChange
  <1>7. CASE Tick
    BY <1>7, <1>s, TickStates
    DEF Tick, coreVars, dmVars, srvVars, Running, Established, InCallback
  <1>8. CASE UNCHANGED vars
    BY <1>8, <1>s
    DEF vars, coreVars, detailVars, dmVars, srvVars, Running, Established, InCallback
  <1> QED BY <1>1, <1>2, <1>3, <1>4, <1>5, <1>6, <1>7, <1>8 DEF CoreStep

\* The server knows the Lifetime that a registered client schedules its Updates
\* by, or is about to be told (server_register.c, reg_session.c), as long as
\* only servers write it: the application's own changes in the middle of a
\* registration are excluded.
THEOREM LifetimeAlwaysReported ==
    ASSUME ~AppChanges
    PROVE  Spec => []LifetimeReported
  <1>1. Init => Parts /\ PeriodInv
    <2>1. ASSUME Init PROVE PeriodInv
      BY <2>1 DEF Init, PeriodInv, LifetimeReported, Established, InCallback, Registered
    <2> QED BY <2>1, InitTypes
  <1>2. Parts /\ PeriodInv /\ [Next]_vars => Parts' /\ PeriodInv'
    BY TypesPreserved, RegisterPeriod, SessionPeriod, OtherPeriod DEF Next, Parts
  <1>3. PeriodInv => LifetimeReported
    BY DEF PeriodInv
  <1> QED BY <1>1, <1>2, <1>3, PTL DEF Spec
====

------------------------------ MODULE RegSession ------------------------------
(***************************************************************************)
(* The REGISTERED, ENTERING_QUEUE_MODE, QUEUE_MODE and SUSPENDED statuses: *)
(* core/reg_session.c.                                                     *)
(***************************************************************************)
EXTENDS CoreState

SessionStep == Running /\ Registered

SessRest == UNCHANGED <<view, reg, bs, enableTimeUser, triesVars>>

\* What the session's ordinary steps leave to the API and to the server.
SessUser == UNCHANGED <<flags, enableTime, period, dmPeriod>>

QueueStart == IF QueueMode THEN QueueTimeout ELSE Never

(***************************************************************************)
(* _anj_reg_session_init(); calculate_next_update() is the update period.  *)
(***************************************************************************)
SessionInit ==
    /\ view' = "registered"
    /\ sess' = [ZeroSess EXCEPT !.nextUpdate = dmPeriod,
                                !.queueStart = QueueStart]
    /\ reg' = ZeroReg /\ bs' = ZeroBs
    /\ period' = dmPeriod
    /\ flags' = [TransitionClear EXCEPT !.update = FALSE]
    /\ enableTime' = 0
    /\ enableTimeUser' = 0

\* get_new_state_for_new_exchange()
NewState(state, res) == IF res # "ok" THEN "disconnect"
                        ELSE IF state = "idle" THEN "exchange"
                        ELSE "exiting_queue_mode"

\* IDLE with a forced transition: try_send_deregister().
SessDeregister ==
    /\ SessionStep /\ sess.state = "idle" /\ TransitionForced
    /\ \E res \in PrepareResults :
          /\ Prepare("deregister", FALSE, res)
          /\ sess' = [sess EXCEPT !.state = NewState(@, res), !.forced = TRUE]
    /\ deregTried' = TRUE
    /\ Continue
    /\ UNCHANGED <<conn, resend, bsCtx, srvVars>>
    /\ SessUser
    /\ SessRest

(***************************************************************************)
(* What the handlers of a server's request may do to the client's state:   *)
(* Execute of Disable (/1/x/4), of the Registration Update Trigger         *)
(* (/1/x/8) or of the Bootstrap-Request Trigger (/1/x/9), and Write of the *)
(* Lifetime.                                                               *)
(***************************************************************************)
Effect(f, t, p) == [flags |-> f, enable |-> t, period |-> p]

NoEffect == Effect(flags, enableTime, dmPeriod)

RequestEffects ==
    {NoEffect,
     Effect([flags EXCEPT !.update = TRUE], enableTime, dmPeriod),
     Effect([flags EXCEPT !.bootstrap = TRUE], enableTime, dmPeriod)}
    \cup {Effect([flags EXCEPT !.disable = TRUE], t, dmPeriod) :
             t \in DisableTimes \ {Never}}
    \cup {Effect(flags, enableTime, p) : p \in UpdatePeriods}

\* Mutant of Apply: a written Lifetime is not marked for the next Update.
ApplyUnmarked(e, newSess) ==
    /\ flags' = e.flags
    /\ enableTime' = e.enable
    /\ dmPeriod' = e.period
    /\ period' = e.period
    /\ sess' = newSess

\* _anj_core_data_model_changed_with_ssid() for the Server Object included.
Apply(e, newSess) ==
    /\ flags' = e.flags
    /\ enableTime' = e.enable
    /\ dmPeriod' = e.period
    /\ IF e.period = dmPeriod
         THEN sess' = newSess /\ UNCHANGED period
         ELSE /\ period' = e.period
              /\ sess' = [newSess EXCEPT !.withLifetime =
                             @ \/ e.period # period]

SessIdle == SessionStep /\ sess.state = "idle" /\ ~TransitionForced

\* IDLE when the net API fails or needs to be called again.
SessReceiveNothing(r) ==
    /\ SessIdle
    /\ \/ /\ r = "inprogress" /\ Leave
          /\ sess' = [sess EXCEPT !.forced = FALSE]
       \/ /\ r = "error" /\ Continue
          /\ sess' = [sess EXCEPT !.forced = FALSE, !.state = "disconnect"]
    /\ UNCHANGED <<conn, exchVars, srvVars, deregTried>>
    /\ SessUser
    /\ SessRest

\* IDLE and handle_incoming_message() for a message that is answered.
SessReceive(kind) ==
    /\ SessIdle
    /\ \/ /\ kind = "repeated"
          /\ resend' = TRUE
          /\ sess' = [sess EXCEPT !.forced = FALSE, !.state = "exchange"]
          /\ UNCHANGED <<exch, dmOp, regCtx>>
          /\ SessUser
       \/ /\ kind = "server_request"
          /\ \E opens \in BOOLEAN, res \in PrepareResults, e \in RequestEffects :
                /\ Prepare(kind, opens, res)
                /\ Apply(e, [sess EXCEPT !.forced = FALSE,
                                         !.state = NewState(@, res)])
          /\ UNCHANGED resend
    /\ Continue
    /\ UNCHANGED <<conn, bsCtx, srvVars, deregTried>>
    /\ SessRest

(***************************************************************************)
(* QUEUE_MODE, and IDLE with no message or one that is dropped: the first  *)
(* of Update, Send and notification that is due, else the queue mode.      *)
(***************************************************************************)
Poll == /\ SessionStep /\ ~TransitionForced
        /\ sess.state \in {"idle", "queue_mode"}

\* The IDLE state clears transition_forced before it falls through.
Polled == [sess EXCEPT !.forced = @ /\ sess.state # "idle"]

UpdateDue == \/ Reached(sess.nextUpdate) \/ sess.withLifetime
             \/ sess.withPayload \/ flags.update

\* handle_registration_update()
SessUpdate ==
    /\ Poll /\ UpdateDue
    /\ period' = dmPeriod
    /\ flags' = [flags EXCEPT !.update = FALSE]
    /\ srvPeriod' = IF sess.withLifetime THEN period' ELSE srvPeriod
    /\ UNCHANGED srvStale
    /\ \E res \in PrepareResults :
          /\ Prepare("update", sess.withPayload, res)
          /\ sess' = [Polled EXCEPT
                        !.state = NewState(@, res), !.nextUpdate = dmPeriod,
                        !.withLifetime = FALSE, !.withPayload = FALSE]
    /\ Continue
    /\ UNCHANGED <<enableTime, dmPeriod, conn, resend, bsCtx, deregTried>>
    /\ SessRest

\* handle_send() and handle_observe(); the payload of a notification opens
\* the data model operation once the exchange has begun.
SessClientRequest(op) ==
    /\ Poll /\ ~UpdateDue
    /\ \E res \in PrepareResults :
          /\ Prepare(op, op = "notify" /\ res = "ok", res)
          /\ sess' = [Polled EXCEPT !.state = NewState(@, res)]
    /\ Continue
    /\ UNCHANGED <<conn, resend, bsCtx, srvVars, deregTried>>
    /\ SessUser
    /\ SessRest

QueueModeDue == QueueMode /\ sess.state = "idle" /\ Reached(sess.queueStart)

SessEnterQueueMode ==
    /\ Poll /\ ~UpdateDue /\ QueueModeDue
    /\ sess' = [Polled EXCEPT !.state = "entering_queue_mode"]
    /\ GoTo("entering_queue_mode")
    /\ UNCHANGED <<conn, exchVars, srvVars, deregTried>>
    /\ SessUser
    /\ SessRest

SessWait ==
    /\ Poll /\ ~UpdateDue /\ ~QueueModeDue
    /\ sess' = Polled
    /\ Leave
    /\ UNCHANGED <<conn, exchVars, srvVars, deregTried>>
    /\ SessUser
    /\ SessRest

\* Mutant of SessForceExit: the queue mode is not left.
SessForceExitMissed ==
    /\ SessionStep /\ sess.state = "queue_mode" /\ TransitionForced
    /\ Leave
    /\ UNCHANGED <<sess, conn, exchVars, srvVars, deregTried>>
    /\ SessUser
    /\ SessRest

\* A transition forced in the queue mode leaves it without an exchange.
SessForceExit ==
    /\ SessionStep /\ sess.state = "queue_mode" /\ TransitionForced
    /\ sess' = [sess EXCEPT !.state = "exiting_queue_mode"]
    /\ Continue
    /\ UNCHANGED <<conn, exchVars, srvVars, deregTried>>
    /\ SessUser
    /\ SessRest

SessExitQueueMode ==
    /\ SessionStep /\ sess.state = "exiting_queue_mode"
    /\ sess' = [sess EXCEPT !.state = IF TransitionForced THEN "idle"
                                                          ELSE "exchange"]
    /\ GoTo("registered")
    /\ UNCHANGED <<conn, exchVars, srvVars, deregTried>>
    /\ SessUser
    /\ SessRest

AfterExchange(res) ==
    IF res = "wait" THEN sess
    ELSE IF res = "error" \/ regCtx' # "finished" \/ sess.forced
      THEN [sess EXCEPT !.state = "disconnect"]
    ELSE [sess EXCEPT !.state = "idle", !.queueStart = QueueStart]

\* EXCHANGE_IN_PROGRESS; a request may take effect with a later block.
SessExchange(res) ==
    /\ SessionStep /\ sess.state = "exchange"
    /\ HandleRequest(res)
    /\ \E e \in RequestEffects :
          /\ exch = "server_request" \/ e = NoEffect
          /\ Apply(e, AfterExchange(res))
    /\ IF res = "wait" THEN Leave ELSE Continue
    /\ srvStale' = (srvStale /\ ~(exch = "update" /\ dmOp
                                     /\ regCtx' = "finished"))
    /\ UNCHANGED <<srvPeriod, deregTried>>
    /\ SessRest

\* ENTERING_QUEUE_MODE: r is the result of _anj_srv_conn_queue_mode_rx_off().
SessEntering(r) ==
    /\ SessionStep /\ sess.state = "entering_queue_mode"
    /\ \/ r = "inprogress" /\ Leave /\ UNCHANGED sess
       \/ /\ r = "error" /\ Continue
          /\ sess' = [sess EXCEPT !.state = "disconnect"]
       \/ /\ r = "ok" /\ GoTo("queue_mode")
          /\ sess' = [sess EXCEPT !.state = "queue_mode"]
    /\ UNCHANGED <<conn, exchVars, srvVars, deregTried>>
    /\ SessUser
    /\ SessRest

SessDisconnect(r) ==
    /\ SessionStep /\ sess.state = "disconnect"
    /\ Terminate
    /\ Close(flags.bootstrap \/ flags.restart, r)
    /\ IF r = "inprogress" THEN Leave /\ UNCHANGED flags
       ELSE IF TransitionForced
         THEN GoTo(ForcedStatus) /\ flags' = TransitionClear
       ELSE GoTo("registering") /\ UNCHANGED flags
    /\ IF r = "inprogress" THEN UNCHANGED <<deregTried, srvVars>>
       ELSE deregTried' = FALSE /\ srvPeriod' = 0 /\ srvStale' = FALSE
    /\ UNCHANGED <<sess, enableTime, period, dmPeriod>>
    /\ SessRest

(***************************************************************************)
(* _anj_reg_session_process_suspended().                                   *)
(***************************************************************************)
EnableTime == IF TimeGt(enableTimeUser, enableTime) THEN enableTimeUser
                                                    ELSE enableTime

Suspended ==
    /\ Running /\ status = "suspended" /\ ~TransitionForced
    /\ IF Reached(EnableTime)
         THEN GoTo("initial") /\ enableTime' = 0 /\ enableTimeUser' = 0
         ELSE Leave /\ UNCHANGED <<enableTime, enableTimeUser>>
    /\ UNCHANGED <<flags, detailVars, dmVars, exchVars, conn, triesVars,
                   deregTried>>

SessionNext ==
    \/ SessDeregister
    \/ \E r \in NetResults : \/ SessReceiveNothing(r)
                             \/ SessEntering(r)
                             \/ SessDisconnect(r)
    \/ \E kind \in {"repeated", "server_request"} : SessReceive(kind)
    \/ SessUpdate
    \/ \E op \in {"send", "notify"} : SessClientRequest(op)
    \/ SessEnterQueueMode
    \/ SessWait
    \/ SessForceExit
    \/ SessExitQueueMode
    \/ \E res \in {"wait", "ok", "error"} : SessExchange(res)
    \/ Suspended
=============================================================================

------------------------------ MODULE CoreState ------------------------------
(***************************************************************************)
(* The state shared by the client's state machines (struct _anj_t in       *)
(* include_public/anj_internal/core.h) and the services every machine      *)
(* calls: the server connection (srv_conn.c), the exchange as its callers  *)
(* see it, the registration context (register.c) and the bootstrap context *)
(* (bootstrap.c).                                                          *)
(*                                                                         *)
(* Timestamps are kept as the time left until them: 0 is "reached or       *)
(* past", Never is ANJ_TIME_MONOTONIC_INVALID.  Tick lets one unit pass.   *)
(***************************************************************************)
EXTENDS Integers

CONSTANTS
    RetryCount,       \* Communication Retry Count (/1/x/17)
    SeqRetryCount,    \* Communication Sequence Retry Count (/1/x/20)
    RetryTimer,       \* Communication Retry Timer (/1/x/18)
    SeqDelay,         \* Communication Sequence Delay Timer (/1/x/19)
    BsOnRegFailure,   \* Bootstrap on Registration Failure (/1/x/16)
    BsRetryCount,     \* anj_configuration_t.bootstrap_retry_count
    BsRetryTimeout,   \* anj_configuration_t.bootstrap_retry_timeout
    BsLifetime,       \* anj_configuration_t.bootstrap_timeout
    HoldOff,          \* Client Hold Off Time (/0/x/11)
    QueueMode,        \* anj_configuration_t.queue_mode_enabled
    QueueTimeout,     \* anj_configuration_t.queue_mode_timeout
    DisableTimes,     \* the timeouts of Disable, Never for an invalid one
    UpdatePeriods,    \* the update periods that the Lifetime values give;
                      \* Never stands for Lifetime 0, which is infinite
    LongLocation,     \* the server may assign a Location-Path segment longer
                      \* than ANJ_COAP_MAX_LOCATION_PATH_SIZE
    SmallMtu          \* the MTU may be too small for a message's header

Never == -1

\* The value of DisableTimes for a Disable without an end.
Indefinitely == {Never}

Timer == Nat \cup {Never}

ASSUME RetryAssumption ==
    /\ RetryCount \in Nat /\ SeqRetryCount \in Nat
    /\ RetryTimer \in Nat /\ SeqDelay \in Nat
    /\ BsOnRegFailure \in BOOLEAN

ASSUME BootstrapAssumption ==
    /\ BsRetryCount \in Nat /\ BsRetryTimeout \in Nat
    /\ BsLifetime \in Nat /\ HoldOff \in Nat

ASSUME SessionAssumption ==
    /\ QueueMode \in BOOLEAN /\ QueueTimeout \in Nat
    /\ UpdatePeriods \subseteq Timer /\ UpdatePeriods # {}
    /\ DisableTimes \subseteq Timer

ASSUME EnvironmentAssumption == LongLocation \in BOOLEAN /\ SmallMtu \in BOOLEAN

VARIABLES
    pc,             \* where anj_core_step is; "idle" is outside of it
    status,         \* server_state.conn_status
    last,           \* last_conn_status of the running iteration
    flags,          \* *_triggered of server_state
    enableTime,     \* server_state.enable_time
    enableTimeUser, \* server_state.enable_time_user_triggered
    view,           \* the member of the union server_state.details in use
    reg,            \* server_state.details.registration
    bs,             \* server_state.details.bootstrap
    sess,           \* server_state.details.registered
    conn,           \* connection_ctx: the net context and send_in_progress
    exch,           \* exchange_ctx: the operation of the ongoing exchange
    resend,         \* exchange_cache.handling_retransmission
    dmOp,           \* dm.op_in_progress
    regCtx,         \* register_ctx.internal_state
    bsCtx,          \* bootstrap_ctx
    period,         \* server_instance.lifetime, as an update period
    dmPeriod,       \* the Lifetime Resource itself (/1/x/1)
    \* History, read by the properties only:
    told,           \* the status last passed to connection_status_cb
    regTries,       \* connection attempts since REGISTERING was entered
    bsTries,        \* connection attempts since BOOTSTRAPPING was entered
    srvPeriod,      \* the Lifetime in the last Register or Update
    srvStale,       \* Object Instances changed in this session and no Update
                    \* that lists them has been answered yet
    deregTried      \* a De-Register was started in this session

coreVars == <<status, last, pc, told>>
userVars == <<flags, enableTime, enableTimeUser>>
detailVars == <<view, reg, bs, sess>>
srvVars == <<srvPeriod, srvStale>>
dmVars == <<period, dmPeriod, srvVars>>
exchVars == <<exch, resend, dmOp, regCtx, bsCtx>>
triesVars == <<regTries, bsTries>>
vars == <<coreVars, userVars, detailVars, dmVars, exchVars, conn, triesVars,
          deregTried>>

Statuses == {"initial", "invalid", "failure", "bootstrapping", "bootstrapped",
             "registering", "registered", "suspended", "entering_queue_mode",
             "queue_mode"}

RegStates == {"connection", "register", "error_handling", "disconnect",
              "cleanup", "cleanup_with_failure", "restart",
              "registration_failure"}

BsStates == {"connection", "in_progress", "finished",
             "finish_disconnect_and_retry", "disconnect_and_retry", "retry",
             "waiting", "error"}

SessStates == {"idle", "queue_mode", "exiting_queue_mode", "exchange",
               "entering_queue_mode", "disconnect"}

Exchanges == {"register", "update", "deregister", "bootstrap_request",
              "bootstrap_finish", "server_request", "send", "notify"}

(***************************************************************************)
(* Comparisons of timestamps: one with an invalid operand is false.        *)
(***************************************************************************)
TimeGt(a, b) == a # Never /\ b # Never /\ a > b

Reached(t) == t = 0

Left(t) == IF t > 0 THEN t - 1 ELSE t

(***************************************************************************)
(* The members of the union server_state.details; the two that are not in  *)
(* use hold nothing that is read and are kept zeroed.                      *)
(***************************************************************************)
ZeroReg == [state |-> "connection", retry |-> 0, seq |-> 0, timeout |-> 0]
ZeroBs == [state |-> "connection", attempt |-> 0, timeout |-> 0]
ZeroSess == [state |-> "idle", nextUpdate |-> 0, queueStart |-> 0,
             withLifetime |-> FALSE, withPayload |-> FALSE, forced |-> FALSE]

\* The same holds for bootstrap_ctx while no sequence is in progress.
ZeroBsCtx == [inProgress |-> FALSE, finishHandled |-> FALSE, error |-> "none",
              timeout |-> 0]

(***************************************************************************)
(* The control of anj_core_step.  An iteration of its loop runs when the   *)
(* application calls it or when the previous one continued.                *)
(***************************************************************************)
Running == pc \in {"idle", "loop"}

Registered == status \in {"registered", "entering_queue_mode", "queue_mode"}

TransitionForced == flags.bootstrap \/ flags.restart \/ flags.disable

TransitionClear ==
    [flags EXCEPT !.bootstrap = FALSE, !.restart = FALSE, !.disable = FALSE]

NoFlags == [f \in {"restart", "bootstrap", "disable", "update"} |-> FALSE]

\* The end of an iteration: with a new status the callback comes next.
Conclude(newStatus, next) ==
    /\ status' = newStatus
    /\ last' = status
    /\ IF newStatus = status
         THEN /\ pc' = IF next = "continue" THEN "loop" ELSE "idle"
              /\ UNCHANGED told
         ELSE /\ pc' = IF next = "continue" THEN "cb_continue" ELSE "cb_leave"
              /\ told' = newStatus

Continue == Conclude(status, "continue")
Leave == Conclude(status, "leave")
GoTo(newStatus) == Conclude(newStatus, "continue")

\* The status that a forced transition leads to, by priority.
ForcedStatus == IF flags.restart THEN "initial"
                ELSE IF flags.bootstrap THEN "bootstrapping"
                ELSE "suspended"

(***************************************************************************)
(* The server connection.  r is the result of the net API: "ok",           *)
(* "inprogress" or "error"; conn.net is "none" without a net context, else *)
(* the socket's state.  EAGAIN from a call other than receive is an error. *)
(***************************************************************************)
NetResults == {"ok", "inprogress", "error"}

NoConn == [net |-> "none", sending |-> FALSE]

Connect(r) ==
    \E net \in {"none", "closed", "connected"} :
        /\ r = "ok" => net = "connected"
        /\ r = "inprogress" => net \in {conn.net, "closed"}
        /\ net = "none" => conn.net = "none"
        /\ conn' = [conn EXCEPT !.net = net]

\* Mutant of Close: send_in_progress is not reset.
CloseStillSending(cleanup, r) ==
    \E net \in {"none", "closed", "connected"} :
        /\ \/ /\ conn.net = "none" \/ (conn.net = "closed" /\ ~cleanup)
              /\ r = "ok" /\ net = conn.net
           \/ /\ conn.net # "none"
              /\ net = IF r = "inprogress" THEN conn.net
                       ELSE IF cleanup THEN "none" ELSE "closed"
        /\ conn' = [conn EXCEPT !.net = net]

Close(cleanup, r) ==
    \E net \in {"none", "closed", "connected"} :
        /\ \/ /\ conn.net = "none" \/ (conn.net = "closed" /\ ~cleanup)
              /\ r = "ok" /\ net = conn.net
           \/ /\ conn.net = "connected" \/ (conn.net = "closed" /\ cleanup)
              /\ IF r = "inprogress" THEN net = conn.net
                 ELSE IF cleanup THEN net = "none"
                 ELSE net \in {"closed", IF r = "ok" THEN "closed"
                                        ELSE "connected"}
        /\ conn' = [net |-> net, sending |-> FALSE]

(***************************************************************************)
(* The end of an exchange: its completion handler, by operation.  The one  *)
(* of a Register returns before it ends the data model operation when the  *)
(* Location-Path of a good response does not fit.                          *)
(***************************************************************************)
RegistrationOps == {"register", "update", "deregister"}

Complete(op, ok) ==
    \E tooLong \in BOOLEAN :
        /\ tooLong => op = "register" /\ ok /\ LongLocation
        /\ dmOp' = (dmOp /\ tooLong)
        /\ regCtx' = IF op \notin RegistrationOps THEN regCtx
                     ELSE IF ok /\ ~tooLong THEN "finished" ELSE "error"
        /\ bsCtx' = IF op = "bootstrap_request" /\ ~ok
                      THEN [bsCtx EXCEPT !.error = "exchange"]
                    ELSE IF op = "bootstrap_finish"
                      THEN [bsCtx EXCEPT
                              !.finishHandled = TRUE,
                              !.error = IF ok \/ @ = "validation" THEN @
                                        ELSE "exchange"]
                    ELSE bsCtx

\* finalize_exchange(), when an exchange is ongoing.
Finalize(ok) ==
    /\ IF exch = "none" THEN UNCHANGED <<dmOp, regCtx, bsCtx>>
                        ELSE Complete(exch, ok)
    /\ exch' = "none"

\* _anj_exchange_terminate()
Terminate == Finalize(FALSE) /\ UNCHANGED resend

(***************************************************************************)
(* _anj_srv_conn_prepare_client_request() and ..._server_request(), after  *)
(* the caller has opened the data model operation (opens).  A message that *)
(* does not fit is refused before the exchange starts, so its completion   *)
(* handler is not called; a later failure ends the exchange at once.       *)
(***************************************************************************)
PrepareResults == {"ok", "failed"} \cup (IF SmallMtu THEN {"refused"} ELSE {})

Prepare(op, opens, res) ==
    /\ exch' = IF res = "ok" THEN op ELSE "none"
    /\ dmOp' = (opens /\ res # "failed")
    /\ regCtx' = IF op \notin RegistrationOps THEN regCtx
                 ELSE IF res = "failed" THEN "error" ELSE "working"

(***************************************************************************)
(* _anj_srv_conn_handle_request(): res is "wait" (EAGAIN or EINPROGRESS),  *)
(* "ok" (0, the exchange is over) or "error".  Whether it goes on with the *)
(* exchange or first repeats a cached response is up to the messages that  *)
(* arrive: one call may receive, answer and cache a separate response and  *)
(* then receive it again.  A send whose confirmation timed out fails still *)
(* in progress.                                                            *)
(***************************************************************************)
HandleRequest(res) ==
    \E sending, again \in BOOLEAN :
        /\ conn' = [conn EXCEPT !.sending = sending]
        /\ resend' = again
        /\ again => res = "wait" /\ sending
        /\ \/ /\ res = "wait"
              /\ exch # "none" \/ (resend /\ again)
              /\ UNCHANGED <<exch, dmOp, regCtx, bsCtx>>
           \/ /\ res = "ok" /\ ~sending
              /\ \E ok \in BOOLEAN : Finalize(ok)
           \/ /\ res = "error"
              /\ exch # "none" \/ (resend /\ ~sending)
              /\ Finalize(FALSE)
=============================================================================

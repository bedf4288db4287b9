---------------------------- MODULE ServerBootstrap ----------------------------
(***************************************************************************)
(* The BOOTSTRAPPING status: core/server_bootstrap.c, with the bootstrap   *)
(* context of core/bootstrap.c.                                            *)
(***************************************************************************)
EXTENDS CoreState

BootstrappingStep ==
    Running /\ status = "bootstrapping" /\ ~TransitionForced

BsRest == UNCHANGED <<userVars, view, reg, sess, dmVars, regTries, deregTried>>

(***************************************************************************)
(* A successful start.  With a hold-off time the retry counter is not      *)
(* reset: it keeps what the union held, the sequence counter of a failed   *)
(* registration or two bytes of a session's next_update_time.              *)
(***************************************************************************)
LeftoverAttempt ==
    CASE view = "bootstrap" -> {bs.attempt}
      [] view = "registration" -> {reg.seq}
      [] view = "registered" -> 0 .. BsRetryCount
      [] OTHER -> {0}

\* Mutant of StartBootstrap: an aborted sequence is not reset.
StartBootstrapNoReset ==
    /\ view' = "bootstrap"
    /\ bsTries' = 0
    /\ bs' = ZeroBs /\ reg' = ZeroReg /\ sess' = ZeroSess
    /\ UNCHANGED bsCtx

StartBootstrap ==
    /\ view' = "bootstrap"
    /\ bsCtx' = ZeroBsCtx
    /\ bsTries' = 0
    /\ IF HoldOff > 0
         THEN \E n \in LeftoverAttempt :
                 bs' = [state |-> "waiting", attempt |-> n, timeout |-> HoldOff]
         ELSE bs' = ZeroBs
    /\ reg' = ZeroReg /\ sess' = ZeroSess

(***************************************************************************)
(* _anj_bootstrap_process(): its result and the context it leaves.         *)
(***************************************************************************)
BootstrapResult ==
    IF ~bsCtx.inProgress THEN "new_request"
    ELSE IF \/ bsCtx.finishHandled /\ bsCtx.error = "validation"
            \/ bsCtx.error = "exchange" THEN "failed"
    ELSE IF bsCtx.finishHandled THEN "finished"
    ELSE IF Reached(bsCtx.timeout) THEN "timeout"
    ELSE "in_progress"

BootstrapProcess(ctx, result) ==
    CASE result = "new_request" ->
            [ZeroBsCtx EXCEPT !.inProgress = TRUE, !.timeout = BsLifetime]
      [] result = "in_progress" -> ctx
      [] OTHER -> ZeroBsCtx

\* No sequence is in progress here (BootstrapSequence in Core), so that
\* _anj_bootstrap_process() has a new request to send.
BsConnection(r) ==
    /\ BootstrappingStep /\ bs.state = "connection"
    /\ Connect(r)
    /\ bsTries' = IF r = "inprogress" THEN bsTries ELSE bsTries + 1
    /\ \/ /\ r = "inprogress"
          /\ Leave
          /\ UNCHANGED <<bs, exchVars>>
       \/ /\ r = "error"
          /\ Continue
          /\ bs' = [bs EXCEPT !.state = "retry"]
          /\ UNCHANGED exchVars
       \/ /\ r = "ok"
          /\ Continue
          /\ \E res \in PrepareResults :
                /\ LET ctx == BootstrapProcess(bsCtx, "new_request")
                   IN bsCtx' = IF res = "failed"
                                 THEN [ctx EXCEPT !.error = "exchange"] ELSE ctx
                /\ Prepare("bootstrap_request", FALSE, res)
                /\ bs' = [bs EXCEPT !.state = IF res = "ok" THEN "in_progress"
                                        ELSE "finish_disconnect_and_retry"]
          /\ UNCHANGED resend
    /\ BsRest

(***************************************************************************)
(* BOOTSTRAP_IN_PROGRESS is one handler in the code; here the part that    *)
(* ends an exchange and the part that goes on from its result are two      *)
(* iterations, between which nothing but time can change.                  *)
(***************************************************************************)
BsExchange(res) ==
    /\ BootstrappingStep /\ bs.state = "in_progress"
    /\ exch # "none" \/ resend
    /\ HandleRequest(res)
    /\ IF res = "wait" THEN Leave ELSE Continue
    /\ bs' = IF res = "error"
               THEN [bs EXCEPT !.state = "finish_disconnect_and_retry"] ELSE bs
    /\ UNCHANGED bsTries
    /\ BsRest

BsIdle == /\ BootstrappingStep /\ bs.state = "in_progress"
          /\ exch = "none" /\ ~resend

\* handle_bootstrap_process() once the sequence is over, well or badly.
BsSequenceEnd ==
    /\ BsIdle
    /\ BootstrapResult \in {"finished", "failed", "timeout"}
    /\ bsCtx' = BootstrapProcess(bsCtx, BootstrapResult)
    /\ bs' = [bs EXCEPT !.state = IF BootstrapResult = "finished"
                                    THEN "finished" ELSE "disconnect_and_retry"]
    /\ Continue
    /\ UNCHANGED <<conn, exch, resend, dmOp, regCtx, bsTries>>
    /\ BsRest

\* handle_bootstrap_process() when the sequence goes on and no request comes.
BsReceiveNothing(r) ==
    /\ BsIdle /\ BootstrapResult = "in_progress"
    /\ IF r = "error"
         THEN /\ Continue
              /\ bs' = [bs EXCEPT !.state = "finish_disconnect_and_retry"]
         ELSE Leave /\ UNCHANGED bs
    /\ UNCHANGED <<conn, exchVars, bsTries>>
    /\ BsRest

\* handle_incoming_message(): dropped; the repetition of the last request; a
\* data model request or ping; Bootstrap-Finish.
BsReceive(kind) ==
    /\ BsIdle /\ BootstrapResult = "in_progress"
    /\ \/ /\ kind \in {"dropped", "repeated"}
          /\ resend' = (kind = "repeated")
          /\ UNCHANGED <<bs, exch, dmOp, regCtx, bsCtx, dmPeriod>>
       \/ \E opens \in BOOLEAN, res \in PrepareResults :
             /\ Prepare(kind, opens, res)
             /\ UNCHANGED resend
             /\ bs' = IF res = "ok" THEN bs
                      ELSE [bs EXCEPT !.state = "finish_disconnect_and_retry"]
             /\ \/ /\ kind = "server_request"
                   /\ bsCtx' = IF opens THEN [bsCtx EXCEPT !.timeout = BsLifetime]
                                        ELSE bsCtx
                   /\ dmPeriod' \in IF opens THEN UpdatePeriods ELSE {dmPeriod}
                \/ /\ kind = "bootstrap_finish" /\ ~opens
                   /\ \E valid \in BOOLEAN :
                         bsCtx' = [bsCtx EXCEPT
                            !.error = IF ~valid THEN "validation"
                                      ELSE IF res = "failed" THEN "exchange"
                                      ELSE @,
                            !.finishHandled = (res = "failed")]
                   /\ UNCHANGED dmPeriod
    /\ Continue
    /\ UNCHANGED <<userVars, view, reg, sess, conn, period, srvVars, triesVars,
                   deregTried>>

BsFinished(r) ==
    /\ BootstrappingStep /\ bs.state = "finished"
    /\ Close(TRUE, r)
    /\ CASE r = "inprogress" -> Leave
         [] r = "error" -> Continue
         [] r = "ok" -> GoTo("bootstrapped")
    /\ UNCHANGED <<bs, exchVars, bsTries>>
    /\ BsRest

\* FINISH_DISCONNECT_AND_RETRY, which falls through to DISCONNECT_AND_RETRY:
\* _anj_bootstrap_connection_lost() and _anj_bootstrap_process().
BsConnectionLost ==
    /\ BootstrappingStep /\ bs.state = "finish_disconnect_and_retry"
    /\ bsCtx' = ZeroBsCtx
    /\ bs' = [bs EXCEPT !.state = "disconnect_and_retry"]
    /\ Continue
    /\ UNCHANGED <<conn, exch, resend, dmOp, regCtx, bsTries>>
    /\ BsRest

\* Mutant of Retry: one retry too many.
RetryOnceMore ==
    IF bs.attempt > BsRetryCount
      THEN Continue /\ bs' = [bs EXCEPT !.state = "error"]
      ELSE /\ Leave
           /\ bs' = [state |-> "waiting", attempt |-> bs.attempt + 1,
                     timeout |-> BsRetryTimeout]

\* The RETRY state and calculate_communication_retry_timeout().
Retry ==
    IF bs.attempt >= BsRetryCount
      THEN Continue /\ bs' = [bs EXCEPT !.state = "error"]
      ELSE /\ Leave
           /\ bs' = [state |-> "waiting", attempt |-> bs.attempt + 1,
                     timeout |-> BsRetryTimeout * 2^bs.attempt]

\* DISCONNECT_AND_RETRY, which falls through to RETRY.
BsDisconnect(r) ==
    /\ BootstrappingStep /\ bs.state = "disconnect_and_retry"
    /\ Close(TRUE, r)
    /\ IF r = "inprogress" THEN Leave /\ UNCHANGED <<bs, exchVars>>
                           ELSE Retry /\ Terminate
    /\ UNCHANGED bsTries
    /\ BsRest

BsRetry ==
    /\ BootstrappingStep /\ bs.state = "retry"
    /\ Retry
    /\ UNCHANGED <<conn, exchVars, bsTries>>
    /\ BsRest

BsWaiting ==
    /\ BootstrappingStep /\ bs.state = "waiting"
    /\ IF Reached(bs.timeout)
         THEN Continue /\ bs' = [bs EXCEPT !.state = "connection"]
         ELSE Leave /\ UNCHANGED bs
    /\ UNCHANGED <<conn, exchVars, bsTries>>
    /\ BsRest

BsError ==
    /\ BootstrappingStep /\ bs.state = "error"
    /\ Conclude("failure", "leave")
    /\ UNCHANGED <<bs, conn, exchVars, bsTries>>
    /\ BsRest

BootstrapStep ==
    \/ \E r \in NetResults : \/ BsConnection(r)
                             \/ BsReceiveNothing(r)
                             \/ BsFinished(r)
                             \/ BsDisconnect(r)
    \/ \E res \in {"wait", "ok", "error"} : BsExchange(res)
    \/ \E kind \in {"dropped", "repeated", "server_request",
                    "bootstrap_finish"} : BsReceive(kind)
    \/ BsSequenceEnd
    \/ BsConnectionLost
    \/ BsRetry
    \/ BsWaiting
    \/ BsError
=============================================================================

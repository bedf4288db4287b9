---------------------------- MODULE ServerRegister ----------------------------
(***************************************************************************)
(* The REGISTERING status: _anj_server_register_start_register_operation() *)
(* and _anj_server_register_process_register_operation() of                *)
(* core/server_register.c.                                                 *)
(***************************************************************************)
EXTENDS CoreState

RegisteringStep == Running /\ status = "registering" /\ ~TransitionForced

\* The rest of the state that a step of this machine leaves alone.
RegRest == UNCHANGED <<userVars, view, bs, sess, period, dmPeriod, bsTries,
                       deregTried>>

\* A successful start of the operation; the data model is read here.
StartRegister ==
    /\ view' = "registration"
    /\ reg' = ZeroReg /\ bs' = ZeroBs /\ sess' = ZeroSess
    /\ period' = dmPeriod
    /\ regTries' = 0

\* Register carries the Lifetime read at the start of the operation and the
\* list of Object Instances as it is now.
RegConnection(r) ==
    /\ RegisteringStep /\ reg.state = "connection"
    /\ Connect(r)
    /\ IF r = "inprogress"
         THEN /\ Leave
              /\ UNCHANGED <<reg, regTries, exchVars, srvVars>>
         ELSE /\ Continue
              /\ regTries' = regTries + 1
              /\ \/ /\ r = "error"
                    /\ reg' = [reg EXCEPT !.state = "error_handling"]
                    /\ UNCHANGED <<exchVars, srvVars>>
                 \/ /\ r = "ok"
                    /\ \E res \in PrepareResults :
                          /\ Prepare("register", TRUE, res)
                          /\ reg' = [reg EXCEPT !.state =
                                      IF res = "ok" THEN "register"
                                                    ELSE "error_handling"]
                    /\ srvPeriod' = period
                    /\ UNCHANGED <<srvStale, resend, bsCtx>>
    /\ RegRest

RegRegister(res) ==
    /\ RegisteringStep /\ reg.state = "register"
    /\ HandleRequest(res)
    /\ IF res = "wait" THEN Leave /\ UNCHANGED reg
       ELSE IF res = "ok" /\ regCtx' = "finished"
         THEN GoTo("registered") /\ UNCHANGED reg
       ELSE Continue /\ reg' = [reg EXCEPT !.state = "error_handling"]
    /\ UNCHANGED <<regTries, srvVars>>
    /\ RegRest

\* Mutant of NextAttempt: a new sequence keeps the count of the old one.
NextAttemptKeepsRetry ==
    LET retry == reg.retry + 1
        seq == reg.seq + 1
    IN IF retry < RetryCount
         THEN [state |-> "disconnect", retry |-> retry, seq |-> reg.seq,
               timeout |-> RetryTimer * 2^(retry - 1)]
       ELSE IF seq >= SeqRetryCount
         THEN [reg EXCEPT !.state = "cleanup_with_failure",
                          !.retry = retry, !.seq = seq]
       ELSE [state |-> "cleanup", retry |-> retry, seq |-> seq,
             timeout |-> SeqDelay]

\* Mutant of NextAttempt: the time of the next sequence is left invalid.
NextAttemptUntimed ==
    LET retry == reg.retry + 1
        seq == reg.seq + 1
    IN IF retry < RetryCount
         THEN [state |-> "disconnect", retry |-> retry, seq |-> reg.seq,
               timeout |-> RetryTimer * 2^(retry - 1)]
       ELSE IF seq >= SeqRetryCount
         THEN [reg EXCEPT !.state = "cleanup_with_failure",
                          !.retry = retry, !.seq = seq]
       ELSE [state |-> "cleanup", retry |-> 0, seq |-> seq,
             timeout |-> Never]

\* calculate_communication_retry_timeout()
NextAttempt ==
    LET retry == reg.retry + 1
        seq == reg.seq + 1
    IN IF retry < RetryCount
         THEN [state |-> "disconnect", retry |-> retry, seq |-> reg.seq,
               timeout |-> RetryTimer * 2^(retry - 1)]
       ELSE IF seq >= SeqRetryCount
         THEN [reg EXCEPT !.state = "cleanup_with_failure",
                          !.retry = retry, !.seq = seq]
       ELSE [state |-> "cleanup", retry |-> 0, seq |-> seq,
             timeout |-> SeqDelay]

\* A new sequence reads the data model anew; a failure leaves the old values.
RegErrorHandling ==
    /\ RegisteringStep /\ reg.state = "error_handling"
    /\ Continue
    /\ reg' = NextAttempt
    /\ period' \in {period} \cup (IF reg'.state = "cleanup" THEN {dmPeriod}
                                                           ELSE {})
    /\ UNCHANGED <<userVars, view, bs, sess, conn, exchVars, dmPeriod, srvVars,
                   triesVars, deregTried>>

RegClose(r) ==
    /\ RegisteringStep
    /\ reg.state \in {"disconnect", "cleanup", "cleanup_with_failure"}
    /\ Close(reg.state # "disconnect", r)
    /\ IF r = "inprogress" THEN Leave /\ UNCHANGED reg
       ELSE /\ Continue
            /\ reg' = [reg EXCEPT !.state =
                         IF @ = "cleanup_with_failure"
                           THEN "registration_failure" ELSE "restart"]
    /\ UNCHANGED <<exchVars, regTries, srvVars>>
    /\ RegRest

RegRestart ==
    /\ RegisteringStep /\ reg.state = "restart"
    /\ IF Reached(reg.timeout)
         THEN Continue /\ reg' = [reg EXCEPT !.state = "connection"]
         ELSE Leave /\ UNCHANGED reg
    /\ UNCHANGED <<conn, exchVars, regTries, srvVars>>
    /\ RegRest

RegFailure ==
    /\ RegisteringStep /\ reg.state = "registration_failure"
    /\ GoTo(IF BsOnRegFailure THEN "bootstrapping" ELSE "failure")
    /\ UNCHANGED <<reg, conn, exchVars, regTries, srvVars>>
    /\ RegRest

RegisterStep ==
    \/ \E r \in NetResults : RegConnection(r) \/ RegClose(r)
    \/ \E res \in {"wait", "ok", "error"} : RegRegister(res)
    \/ RegErrorHandling
    \/ RegRestart
    \/ RegFailure
=============================================================================

------------------------------ MODULE CoreProofs ------------------------------
(***************************************************************************)
(* Theorems about the client of Core, for every value of its constants.    *)
(***************************************************************************)
EXTENDS Core, TLAPS

(***************************************************************************)
(* What the services of CoreState do to the types.                         *)
(***************************************************************************)
ControlOK ==
    /\ pc \in {"idle", "loop", "cb_continue", "cb_leave", "shutdown", "down"}
    /\ status \in Statuses /\ last \in Statuses /\ told \in Statuses

ConnOK == conn \in [net : {"none", "closed", "connected"}, sending : BOOLEAN]

ExchOK ==
    /\ exch \in Exchanges \cup {"none"}
    /\ resend \in BOOLEAN /\ dmOp \in BOOLEAN
    /\ regCtx \in {"init", "working", "finished", "error"}
    /\ bsCtx \in [inProgress : BOOLEAN, finishHandled : BOOLEAN,
                  error : {"none", "validation", "exchange"}, timeout : Timer]

LEMMA ConcludeType ==
    ASSUME NEW s \in Statuses, NEW next, ControlOK, Conclude(s, next)
    PROVE  ControlOK'
  BY DEF ControlOK, Conclude

LEMMA ConnectType ==
    ASSUME NEW r, ConnOK, Connect(r)
    PROVE  ConnOK'
  BY DEF ConnOK, Connect

LEMMA CloseType ==
    ASSUME NEW c, NEW r, ConnOK, Close(c, r)
    PROVE  ConnOK'
  BY DEF ConnOK, Close

LEMMA CompleteType ==
    ASSUME NEW op, NEW ok \in BOOLEAN, ExchOK, Complete(op, ok)
    PROVE  /\ dmOp' \in BOOLEAN
           /\ regCtx' \in {"init", "working", "finished", "error"}
           /\ bsCtx' \in [inProgress : BOOLEAN, finishHandled : BOOLEAN,
                          error : {"none", "validation", "exchange"},
                          timeout : Timer]
  <1>1. dmOp' \in BOOLEAN /\ regCtx' \in {"init", "working", "finished", "error"}
    BY DEF ExchOK, Complete
  <1>2. CASE op = "bootstrap_request" /\ ~ok
    <2>1. bsCtx' = [bsCtx EXCEPT !.error = "exchange"]
      BY <1>2 DEF Complete
    <2> QED
      BY <1>1, <2>1 DEF ExchOK
  <1>3. CASE op = "bootstrap_finish"
    <2>1. PICK e \in {bsCtx.error, "exchange"} :
             bsCtx' = [bsCtx EXCEPT !.finishHandled = TRUE, !.error = e]
      BY <1>3 DEF Complete
    <2> QED
      BY <1>1, <2>1 DEF ExchOK
  <1>4. CASE ~(op = "bootstrap_request" /\ ~ok) /\ op # "bootstrap_finish"
    <2>1. bsCtx' = bsCtx
      BY <1>4 DEF Complete
    <2> QED
      BY <1>1, <2>1 DEF ExchOK
  <1> QED
    BY <1>2, <1>3, <1>4

LEMMA FinalizeType ==
    ASSUME NEW ok \in BOOLEAN, ExchOK, Finalize(ok), resend' \in BOOLEAN
    PROVE  ExchOK'
  BY CompleteType DEF ExchOK, Finalize

LEMMA TerminateType ==
    ASSUME ExchOK, Terminate
    PROVE  ExchOK'
  BY FinalizeType DEF ExchOK, Terminate

LEMMA HandleRequestType ==
    ASSUME NEW res, ExchOK, ConnOK, HandleRequest(res)
    PROVE  ExchOK' /\ ConnOK'
  <1>1. ConnOK' /\ resend' \in BOOLEAN
    BY DEF HandleRequest, ConnOK
  <1>2. CASE UNCHANGED <<exch, dmOp, regCtx, bsCtx>>
    BY <1>1, <1>2 DEF ExchOK
  <1>3. CASE \E ok \in BOOLEAN : Finalize(ok)
    BY <1>1, <1>3, FinalizeType
  <1> QED
    BY <1>1, <1>2, <1>3 DEF HandleRequest

UserOK ==
    /\ flags \in [{"restart", "bootstrap", "disable", "update"} -> BOOLEAN]
    /\ enableTime \in Timer /\ enableTimeUser \in Timer

RegOK == reg \in [state : RegStates, retry : Nat, seq : Nat, timeout : Int]

BsOK == bs \in [state : BsStates, attempt : Nat, timeout : Int]

SessRecords == [state : SessStates, nextUpdate : Timer, queueStart : Timer,
                withLifetime : BOOLEAN, withPayload : BOOLEAN,
                forced : BOOLEAN]

SessOK == sess \in SessRecords

ViewOK == view \in {"none", "registration", "bootstrap", "registered"}

DmOK == /\ period \in Timer /\ dmPeriod \in Timer /\ srvPeriod \in Timer
        /\ srvStale \in BOOLEAN

TriesOK == regTries \in Nat /\ bsTries \in Nat /\ deregTried \in BOOLEAN

Parts == /\ ControlOK /\ UserOK /\ ViewOK /\ RegOK /\ BsOK /\ SessOK
         /\ ConnOK /\ ExchOK /\ DmOK /\ TriesOK

LEMMA TypeParts == TypeOK <=> Parts
  BY DEF TypeOK, Parts, ControlOK, UserOK, ViewOK, RegOK, BsOK, SessOK,
         SessRecords, ConnOK, ExchOK, DmOK, TriesOK

\* The steps that stay in a status, and the ones that change it.
LEMMA StayType ==
    ASSUME ControlOK, Continue \/ Leave
    PROVE  ControlOK'
  BY ConcludeType DEF ControlOK, Continue, Leave

LEMMA GoToType ==
    ASSUME NEW s \in Statuses, ControlOK, GoTo(s)
    PROVE  ControlOK'
  BY ConcludeType DEF GoTo

LEMMA PrepareType ==
    ASSUME NEW op \in Exchanges, NEW opens \in BOOLEAN, NEW res,
           ExchOK, Prepare(op, opens, res)
    PROVE  /\ exch' \in Exchanges \cup {"none"}
           /\ dmOp' \in BOOLEAN
           /\ regCtx' \in {"init", "working", "finished", "error"}
  BY DEF ExchOK, Prepare

(***************************************************************************)
(* Each machine preserves the types.                                       *)
(***************************************************************************)
LEMMA RegisterTypes ==
    ASSUME Parts, RegisterStep
    PROVE  Parts'
  <1> USE DEF Parts
  <1>1. ASSUME NEW r \in NetResults, RegConnection(r) PROVE Parts'
    <2>1. UserOK' /\ ViewOK' /\ BsOK' /\ SessOK'
      BY <1>1 DEF RegConnection, RegRest, userVars, UserOK, ViewOK, BsOK, SessOK
    <2>2. ConnOK'
      BY <1>1, ConnectType DEF RegConnection
    <2>3. ControlOK'
      BY <1>1, StayType DEF RegConnection
    <2>4. CASE r = "inprogress" \/ r = "error"
      <3>1. ExchOK' /\ DmOK'
        <4>1. UNCHANGED <<exchVars, srvVars>>
          BY <1>1, <2>4 DEF RegConnection
        <4> QED
          BY <1>1, <4>1 DEF RegConnection, RegRest, exchVars, srvVars, ExchOK, DmOK
      <3>2. RegOK'
        BY <1>1, <2>4 DEF RegConnection, RegOK, RegStates
      <3>3. TriesOK'
        <4>1. regTries' = regTries \/ regTries' = regTries + 1
          BY <1>1, <2>4 DEF RegConnection
        <4> QED BY <1>1, <4>1 DEF RegConnection, RegRest, TriesOK
      <3> QED BY <2>1, <2>2, <2>3, <3>1, <3>2, <3>3
    <2>5. CASE r = "ok"
      <3>1. PICK res \in PrepareResults :
                /\ Prepare("register", TRUE, res)
                /\ reg' = [reg EXCEPT !.state =
                              IF res = "ok" THEN "register" ELSE "error_handling"]
        BY <1>1, <2>5 DEF RegConnection
      <3>2. ExchOK'
        BY <1>1, <2>5, <3>1, PrepareType DEF RegConnection, ExchOK, Exchanges
      <3>3. RegOK'
        BY <3>1 DEF RegOK, RegStates
      <3>4. DmOK' /\ TriesOK'
        BY <1>1, <2>5 DEF RegConnection, RegRest, DmOK, TriesOK
      <3> QED BY <2>1, <2>2, <2>3, <3>2, <3>3, <3>4
    <2> QED BY <2>4, <2>5 DEF NetResults
  <1>2. ASSUME NEW res, RegRegister(res) PROVE Parts'
    <2>1. UserOK' /\ ViewOK' /\ BsOK' /\ SessOK' /\ DmOK' /\ TriesOK'
      BY <1>2 DEF RegRegister, RegRest, userVars, srvVars, UserOK, ViewOK, BsOK,
                  SessOK, DmOK, TriesOK
    <2>2. ConnOK' /\ ExchOK'
      BY <1>2, HandleRequestType DEF RegRegister
    <2>3. RegOK'
      BY <1>2 DEF RegRegister, RegOK, RegStates
    <2>4. ControlOK'
      BY <1>2, StayType, GoToType DEF RegRegister, Statuses
    <2> QED BY <2>1, <2>2, <2>3, <2>4
  <1>3. CASE RegErrorHandling
    <2>1. /\ UserOK' /\ ViewOK' /\ BsOK' /\ SessOK' /\ ConnOK' /\ ExchOK'
          /\ TriesOK'
      BY <1>3 DEF RegErrorHandling, userVars, exchVars, triesVars, UserOK, ViewOK,
                  BsOK, SessOK, ConnOK, ExchOK, TriesOK
    <2>2. DmOK'
      BY <1>3 DEF RegErrorHandling, srvVars, DmOK
    <2>3. RegOK'
      <3> DEFINE retry == reg.retry + 1
                 delay == RetryTimer * 2^(retry - 1)
      <3>1. retry \in Nat /\ reg.seq + 1 \in Nat /\ reg.seq \in Nat
        BY DEF RegOK
      <3>2. delay \in Int
        BY <3>1, RetryAssumption DEF RegOK
      <3>3. \/ reg' = [state |-> "disconnect", retry |-> retry, seq |-> reg.seq,
                       timeout |-> delay]
            \/ reg' = [reg EXCEPT !.state = "cleanup_with_failure",
                                  !.retry = retry, !.seq = reg.seq + 1]
            \/ reg' = [state |-> "cleanup", retry |-> 0, seq |-> reg.seq + 1,
                       timeout |-> SeqDelay]
        BY <1>3 DEF RegErrorHandling, NextAttempt
      <3> HIDE DEF retry, delay
      <3>4. reg' \in [state : RegStates, retry : Nat, seq : Nat, timeout : Int]
        <4>1. CASE reg' = [state |-> "disconnect", retry |-> retry,
                           seq |-> reg.seq, timeout |-> delay]
          BY <4>1, <3>1, <3>2 DEF RegStates
        <4>2. CASE reg' = [reg EXCEPT !.state = "cleanup_with_failure",
                                      !.retry = retry, !.seq = reg.seq + 1]
          BY <4>2, <3>1 DEF RegOK, RegStates
        <4>3. CASE reg' = [state |-> "cleanup", retry |-> 0,
                           seq |-> reg.seq + 1, timeout |-> SeqDelay]
          BY <4>3, <3>1, RetryAssumption DEF RegStates
        <4> QED BY <3>3, <4>1, <4>2, <4>3
      <3> QED BY <3>4 DEF RegOK
    <2>4. ControlOK'
      BY <1>3, StayType DEF RegErrorHandling
    <2> QED BY <2>1, <2>2, <2>3, <2>4
  <1>4. ASSUME NEW r, RegClose(r) PROVE Parts'
    <2>1. /\ UserOK' /\ ViewOK' /\ BsOK' /\ SessOK' /\ ExchOK' /\ DmOK'
          /\ TriesOK'
      BY <1>4 DEF RegClose, RegRest, userVars, exchVars, srvVars, UserOK, ViewOK,
                  BsOK, SessOK, ExchOK, DmOK, TriesOK
    <2>2. ConnOK'
      BY <1>4, CloseType DEF RegClose
    <2>3. RegOK'
      BY <1>4 DEF RegClose, RegOK, RegStates
    <2>4. ControlOK'
      BY <1>4, StayType DEF RegClose
    <2> QED BY <2>1, <2>2, <2>3, <2>4
  <1>5. CASE RegRestart \/ RegFailure
    <2>1. /\ UserOK' /\ ViewOK' /\ BsOK' /\ SessOK' /\ ConnOK' /\ ExchOK'
          /\ DmOK' /\ TriesOK'
      BY <1>5 DEF RegRestart, RegFailure, RegRest, userVars, exchVars, srvVars,
                  UserOK, ViewOK, BsOK, SessOK, ConnOK, ExchOK, DmOK, TriesOK
    <2>2. RegOK'
      BY <1>5 DEF RegRestart, RegFailure, RegOK, RegStates
    <2>3. ControlOK'
      BY <1>5, StayType, GoToType DEF RegRestart, RegFailure, Statuses
    <2> QED BY <2>1, <2>2, <2>3
  <1> QED
    BY <1>1, <1>2, <1>3, <1>4, <1>5 DEF RegisterStep

LEMMA BootstrapTypes ==
    ASSUME Parts, BootstrapStep
    PROVE  Parts'
  <1> USE DEF Parts
  <1>0. ASSUME BsRest PROVE /\ UserOK' /\ ViewOK' /\ RegOK' /\ SessOK' /\ DmOK'
    BY <1>0 DEF BsRest, userVars, dmVars, srvVars, UserOK, ViewOK, RegOK, SessOK,
                DmOK
  <1>t. ASSUME BsRest, bsTries' = bsTries \/ bsTries' = bsTries + 1
        PROVE  TriesOK'
    BY <1>t DEF BsRest, TriesOK
  <1>s. ASSUME NEW st \in BsStates, bs' = [bs EXCEPT !.state = st] PROVE BsOK'
    BY <1>s DEF BsOK
  <1>r. ASSUME Retry PROVE BsOK' /\ ControlOK'
    <2>1. ControlOK'
      BY <1>r, StayType DEF Retry
    <2>2. CASE bs.attempt >= BsRetryCount
      <3>1. bs' = [bs EXCEPT !.state = "error"]
        BY <1>r, <2>2 DEF Retry
      <3> QED BY <2>1, <3>1, <1>s DEF BsStates
    <2>3. CASE ~(bs.attempt >= BsRetryCount)
      <3>1. bs.attempt \in Nat
        BY DEF BsOK
      <3>2. BsRetryTimeout * 2^bs.attempt \in Int
        BY <3>1, BootstrapAssumption
      <3> DEFINE delay == BsRetryTimeout * 2^bs.attempt
      <3>3. bs' = [state |-> "waiting", attempt |-> bs.attempt + 1,
                   timeout |-> delay]
        BY <1>r, <2>3 DEF Retry
      <3>4. delay \in Int
        BY <3>2
      <3> HIDE DEF delay
      <3> QED BY <2>1, <3>1, <3>3, <3>4 DEF BsOK, BsStates
    <2> QED BY <2>1, <2>2, <2>3
  <1>1. ASSUME NEW r \in NetResults, BsConnection(r) PROVE Parts'
    <2>1. ConnOK'
      BY <1>1, ConnectType DEF BsConnection
    <2>2. ControlOK'
      BY <1>1, StayType DEF BsConnection
    <2>3. TriesOK' /\ BsRest
      BY <1>1, <1>t DEF BsConnection
    <2>4. CASE r \in {"inprogress", "error"}
      <3>1. UNCHANGED exchVars
        BY <1>1, <2>4 DEF BsConnection
      <3>2. ExchOK'
        BY <3>1 DEF exchVars, ExchOK
      <3>3. BsOK'
        BY <1>1, <2>4, <1>s DEF BsConnection, BsOK, BsStates
      <3> QED BY <1>0, <2>1, <2>2, <2>3, <3>2, <3>3
    <2>5. CASE r = "ok"
      <3>1. PICK res \in PrepareResults :
               /\ LET ctx == BootstrapProcess(bsCtx, "new_request")
                  IN bsCtx' = IF res = "failed"
                                THEN [ctx EXCEPT !.error = "exchange"] ELSE ctx
               /\ Prepare("bootstrap_request", FALSE, res)
               /\ bs' = [bs EXCEPT !.state = IF res = "ok" THEN "in_progress"
                                       ELSE "finish_disconnect_and_retry"]
        BY <1>1, <2>5 DEF BsConnection
      <3>2. UNCHANGED resend
        BY <1>1, <2>5 DEF BsConnection
      <3>3. bsCtx' \in [inProgress : BOOLEAN, finishHandled : BOOLEAN,
                        error : {"none", "validation", "exchange"},
                        timeout : Timer]
        BY <3>1, BootstrapAssumption DEF BootstrapProcess, ZeroBsCtx, Timer
      <3>4. ExchOK'
        BY <3>1, <3>2, <3>3, PrepareType DEF ExchOK, Exchanges
      <3>5. BsOK'
        BY <3>1, <1>s DEF BsStates
      <3> QED BY <1>0, <2>1, <2>2, <2>3, <3>4, <3>5
    <2> QED BY <2>4, <2>5 DEF NetResults
  <1>2. ASSUME NEW res, BsExchange(res) PROVE Parts'
    <2>1. ConnOK' /\ ExchOK'
      BY <1>2, HandleRequestType DEF BsExchange
    <2>2. ControlOK'
      BY <1>2, StayType DEF BsExchange
    <2>3. BsOK'
      BY <1>2, <1>s DEF BsExchange, BsOK, BsStates
    <2>4. TriesOK' /\ BsRest
      BY <1>2, <1>t DEF BsExchange
    <2> QED BY <1>0, <2>1, <2>2, <2>3, <2>4
  <1>3. CASE BsSequenceEnd \/ BsConnectionLost
    <2>1. ControlOK'
      BY <1>3, StayType DEF BsSequenceEnd, BsConnectionLost
    <2>2. ConnOK' /\ TriesOK' /\ BsRest
      BY <1>3, <1>t DEF BsSequenceEnd, BsConnectionLost, ConnOK
    <2>3. ExchOK'
      <3>1. bsCtx' = ZeroBsCtx
        BY <1>3 DEF BsSequenceEnd, BsConnectionLost, BootstrapProcess
      <3>2. UNCHANGED <<exch, resend, dmOp, regCtx>>
        BY <1>3 DEF BsSequenceEnd, BsConnectionLost
      <3> QED BY <3>1, <3>2 DEF ExchOK, ZeroBsCtx, Timer
    <2>4. BsOK'
      BY <1>3, <1>s DEF BsSequenceEnd, BsConnectionLost, BsStates
    <2> QED BY <1>0, <2>1, <2>2, <2>3, <2>4
  <1>4. ASSUME NEW r, BsReceiveNothing(r) PROVE Parts'
    <2>1. ControlOK'
      BY <1>4, StayType DEF BsReceiveNothing
    <2>2. ConnOK' /\ TriesOK' /\ BsRest
      BY <1>4, <1>t DEF BsReceiveNothing, ConnOK
    <2>3. ExchOK'
      BY <1>4 DEF BsReceiveNothing, exchVars, ExchOK
    <2>4. BsOK'
      BY <1>4, <1>s DEF BsReceiveNothing, BsOK, BsStates
    <2> QED BY <1>0, <2>1, <2>2, <2>3, <2>4
  <1>5. ASSUME NEW kind \in Exchanges \cup {"dropped", "repeated"},
               BsReceive(kind)
        PROVE  Parts'
    <2>1. /\ ControlOK' /\ ConnOK' /\ UserOK' /\ ViewOK' /\ RegOK' /\ SessOK'
          /\ TriesOK'
      BY <1>5, StayType
      DEF BsReceive, ConnOK, userVars, triesVars, UserOK, ViewOK, RegOK, SessOK,
          TriesOK
    <2>2. CASE kind \in {"dropped", "repeated"}
                /\ resend' = (kind = "repeated")
                /\ UNCHANGED <<bs, exch, dmOp, regCtx, bsCtx, dmPeriod>>
      <3>1. ExchOK' /\ BsOK'
        BY <2>2 DEF ExchOK, BsOK
      <3>2. DmOK'
        BY <1>5, <2>2 DEF BsReceive, DmOK, srvVars
      <3> QED BY <2>1, <3>1, <3>2
    <2>3. ASSUME NEW opens \in BOOLEAN, NEW res \in PrepareResults,
                 kind \in {"server_request", "bootstrap_finish"},
                 Prepare(kind, opens, res), UNCHANGED resend,
                 bs' = IF res = "ok" THEN bs
                       ELSE [bs EXCEPT !.state = "finish_disconnect_and_retry"],
                 \/ bsCtx' = bsCtx
                 \/ bsCtx' = [bsCtx EXCEPT !.timeout = BsLifetime]
                 \/ \E valid \in BOOLEAN :
                       bsCtx' = [bsCtx EXCEPT
                          !.error = IF ~valid THEN "validation"
                                    ELSE IF res = "failed" THEN "exchange"
                                    ELSE @,
                          !.finishHandled = (res = "failed")],
                 dmPeriod' = dmPeriod \/ dmPeriod' \in UpdatePeriods
          PROVE  Parts'
      <3>1. BsOK'
        BY <2>3, <1>s DEF BsOK, BsStates
      <3>2. bsCtx' \in [inProgress : BOOLEAN, finishHandled : BOOLEAN,
                        error : {"none", "validation", "exchange"},
                        timeout : Timer]
        BY <2>3, BootstrapAssumption DEF ExchOK, Timer
      <3>3. ExchOK'
        <4>1. kind \in Exchanges
          BY <2>3 DEF Exchanges
        <4>2. /\ exch' \in Exchanges \cup {"none"}
              /\ dmOp' \in BOOLEAN
              /\ regCtx' \in {"init", "working", "finished", "error"}
          BY <2>3, <4>1, PrepareType
        <4> QED BY <2>3, <3>2, <4>2 DEF ExchOK
      <3>4. DmOK'
        BY <1>5, <2>3, SessionAssumption DEF BsReceive, DmOK, srvVars
      <3> QED BY <2>1, <3>1, <3>3, <3>4
    <2> QED
      BY <1>5, <2>2, <2>3 DEF BsReceive
  <1>6. ASSUME NEW r \in NetResults, BsFinished(r) PROVE Parts'
    <2>1. ControlOK'
      BY <1>6, StayType, GoToType DEF BsFinished, NetResults, Statuses
    <2>2. ConnOK'
      BY <1>6, CloseType DEF BsFinished
    <2>3. TriesOK' /\ BsRest
      BY <1>6, <1>t DEF BsFinished
    <2>4. ExchOK' /\ BsOK'
      BY <1>6 DEF BsFinished, exchVars, ExchOK, BsOK
    <2> QED BY <1>0, <2>1, <2>2, <2>3, <2>4
  <1>7. ASSUME NEW r, BsDisconnect(r) PROVE Parts'
    <2>1. ConnOK'
      BY <1>7, CloseType DEF BsDisconnect
    <2>2. TriesOK' /\ BsRest
      BY <1>7, <1>t DEF BsDisconnect
    <2>3. CASE r = "inprogress"
      <3>1. Leave /\ UNCHANGED <<bs, exchVars>>
        BY <1>7, <2>3 DEF BsDisconnect
      <3>2. ControlOK' /\ BsOK' /\ ExchOK'
        BY <3>1, StayType DEF BsOK, ExchOK, exchVars
      <3> QED BY <1>0, <2>1, <2>2, <3>2
    <2>4. CASE r # "inprogress"
      <3>1. Retry /\ Terminate
        BY <1>7, <2>4 DEF BsDisconnect
      <3>2. ExchOK'
        BY <3>1, TerminateType
      <3> QED BY <1>0, <1>r, <2>1, <2>2, <3>1, <3>2
    <2> QED BY <2>3, <2>4
  <1>8. CASE BsRetry
    <2>1. ConnOK' /\ TriesOK' /\ BsRest /\ Retry
      BY <1>8, <1>t DEF BsRetry, ConnOK
    <2>2. ExchOK'
      BY <1>8 DEF BsRetry, exchVars, ExchOK
    <2> QED BY <1>0, <1>r, <2>1, <2>2
  <1>9. CASE BsWaiting \/ BsError
    <2>1. ControlOK'
      BY <1>9, StayType, ConcludeType DEF BsWaiting, BsError, Statuses
    <2>2. ConnOK' /\ TriesOK' /\ BsRest
      BY <1>9, <1>t DEF BsWaiting, BsError, ConnOK
    <2>3. ExchOK'
      BY <1>9 DEF BsWaiting, BsError, exchVars, ExchOK
    <2>4. BsOK'
      BY <1>9, <1>s DEF BsWaiting, BsError, BsOK, BsStates
    <2> QED BY <1>0, <2>1, <2>2, <2>3, <2>4
  <1> QED
    BY <1>1, <1>2, <1>3, <1>4, <1>5, <1>6, <1>7, <1>8, <1>9
    DEF BootstrapStep, Exchanges

\* The session's steps: what the frames preserve, then each step.
LEMMA SessRestType ==
    ASSUME Parts, SessRest
    PROVE  /\ ViewOK' /\ RegOK' /\ BsOK' /\ enableTimeUser' \in Timer
           /\ regTries' \in Nat /\ bsTries' \in Nat
  BY DEF Parts, SessRest, triesVars, ViewOK, RegOK, BsOK, UserOK, TriesOK

LEMMA SessUserType ==
    ASSUME Parts, SessRest, SessUser
    PROVE  UserOK' /\ period' \in Timer /\ dmPeriod' \in Timer
  BY DEF Parts, SessRest, SessUser, UserOK, DmOK

LEMMA NewStateType ==
    ASSUME NEW st, NEW res
    PROVE  NewState(st, res) \in SessStates
  BY DEF NewState, SessStates

LEMMA SessStateType ==
    ASSUME SessOK, NEW st \in SessStates, NEW f \in BOOLEAN
    PROVE  /\ [sess EXCEPT !.state = st] \in SessRecords
           /\ [sess EXCEPT !.state = st, !.forced = f] \in SessRecords
           /\ [sess EXCEPT !.forced = f, !.state = st] \in SessRecords
           /\ [sess EXCEPT !.forced = f] \in SessRecords
  BY DEF SessOK, SessRecords

\* The effects of a server's request, on top of a session of the right type.
LEMMA ApplyType ==
    ASSUME Parts, NEW e \in RequestEffects,
           NEW s \in SessRecords, Apply(e, s), SessRest
    PROVE  /\ UserOK' /\ SessOK'
           /\ period' \in Timer /\ dmPeriod' \in Timer
  <1>1. /\ e.flags \in [{"restart", "bootstrap", "disable", "update"} -> BOOLEAN]
        /\ e.enable \in Timer /\ e.period \in Timer
    <2>1. \A f \in {"update", "bootstrap", "disable"} :
             [flags EXCEPT ![f] = TRUE] \in
                [{"restart", "bootstrap", "disable", "update"} -> BOOLEAN]
      BY DEF Parts, UserOK
    <2>2. \E f \in [{"restart", "bootstrap", "disable", "update"} -> BOOLEAN],
             t \in Timer, p \in Timer : e = Effect(f, t, p)
      BY <2>1, SessionAssumption DEF RequestEffects, NoEffect, Parts, UserOK, DmOK
    <2> QED BY <2>2 DEF Effect
  <1>2. UserOK'
    BY <1>1 DEF Apply, UserOK, SessRest, Parts
  <1>3. period' \in Timer /\ dmPeriod' \in Timer
    BY <1>1 DEF Apply, Parts, DmOK
  <1>4. SessOK'
    BY DEF Apply, SessOK, SessRecords
  <1> QED BY <1>2, <1>3, <1>4

\* A step of the session that touches neither the connection nor the exchange.
LEMMA QuietType ==
    ASSUME Parts, SessRest, SessUser, ControlOK', SessOK',
           UNCHANGED <<conn, exchVars, srvVars, deregTried>>
    PROVE  Parts'
  <1>1. ConnOK' /\ ExchOK'
    BY DEF Parts, ConnOK, ExchOK, exchVars
  <1>2. DmOK' /\ TriesOK'
    BY SessUserType, SessRestType DEF Parts, DmOK, TriesOK, srvVars
  <1> QED BY <1>1, <1>2, SessUserType, SessRestType DEF Parts

LEMMA QueueStartType == QueueStart \in Timer
  BY SessionAssumption DEF QueueStart, Timer

LEMMA PolledType ==
    ASSUME Parts
    PROVE  Polled \in SessRecords
  BY DEF Polled, Parts, SessOK, SessRecords

LEMMA SessionTypes ==
    ASSUME Parts, SessionNext
    PROVE  Parts'
  <1>p. SessOK /\ ControlOK /\ ExchOK /\ ConnOK /\ DmOK /\ TriesOK /\ UserOK
    BY DEF Parts
  <1>f. TransitionClear \in
           [{"restart", "bootstrap", "disable", "update"} -> BOOLEAN]
    BY <1>p DEF TransitionClear, UserOK
  <1>1. CASE SessDeregister
    <2>1. PICK res \in PrepareResults :
             /\ Prepare("deregister", FALSE, res)
             /\ sess' = [sess EXCEPT !.state = NewState(@, res), !.forced = TRUE]
      BY <1>1 DEF SessDeregister
    <2>2. SessOK'
      BY <1>p, <2>1, NewStateType, SessStateType DEF SessOK
    <2>3. ExchOK'
      BY <1>p, <1>1, <2>1, PrepareType DEF SessDeregister, ExchOK, Exchanges
    <2>4. ControlOK' /\ SessRest /\ SessUser
      BY <1>p, <1>1, StayType DEF SessDeregister
    <2>5. ConnOK' /\ DmOK' /\ TriesOK'
      BY <1>1, <1>p, <2>4, SessUserType, SessRestType
      DEF SessDeregister, ConnOK, DmOK, TriesOK, srvVars
    <2> QED BY <2>2, <2>3, <2>4, <2>5, SessUserType, SessRestType DEF Parts
  <1>2. ASSUME NEW r, SessReceiveNothing(r) PROVE Parts'
    <2>1. SessOK'
      BY <1>p, <1>2, SessStateType DEF SessReceiveNothing, SessOK, SessStates
    <2>2. ControlOK'
      BY <1>p, <1>2, StayType DEF SessReceiveNothing
    <2> QED BY <1>2, <2>1, <2>2, QuietType DEF SessReceiveNothing
  <1>3. ASSUME NEW r, SessEntering(r) PROVE Parts'
    <2>1. SessOK'
      BY <1>p, <1>3, SessStateType DEF SessEntering, SessOK, SessStates
    <2>2. ControlOK'
      BY <1>p, <1>3, StayType, GoToType DEF SessEntering, Statuses
    <2> QED BY <1>3, <2>1, <2>2, QuietType DEF SessEntering
  <1>4. ASSUME NEW r, SessDisconnect(r) PROVE Parts'
    <2>1. SessRest /\ ExchOK' /\ ConnOK'
      BY <1>p, <1>4, TerminateType, CloseType DEF SessDisconnect
    <2>2. ControlOK'
      BY <1>p, <1>4, StayType, GoToType DEF SessDisconnect, Statuses, ForcedStatus
    <2>3. UserOK'
      BY <1>p, <1>f, <1>4 DEF SessDisconnect, UserOK, SessRest
    <2>4. SessOK' /\ DmOK' /\ deregTried' \in BOOLEAN
      <3>1. \/ UNCHANGED <<deregTried, srvVars>>
            \/ deregTried' = FALSE /\ srvPeriod' = 0 /\ srvStale' = FALSE
        BY <1>4 DEF SessDisconnect
      <3>2. SessOK' /\ period' \in Timer /\ dmPeriod' \in Timer
        BY <1>p, <1>4 DEF SessDisconnect, SessOK, DmOK
      <3>3. CASE UNCHANGED <<deregTried, srvVars>>
        BY <1>p, <3>2, <3>3 DEF DmOK, TriesOK, srvVars
      <3>4. CASE deregTried' = FALSE /\ srvPeriod' = 0 /\ srvStale' = FALSE
        BY <3>2, <3>4 DEF DmOK, Timer
      <3> QED BY <3>1, <3>3, <3>4
    <2> QED BY <2>1, <2>2, <2>3, <2>4, SessRestType DEF Parts, TriesOK
  <1>5. ASSUME NEW kind, SessReceive(kind) PROVE Parts'
    <2>1. ControlOK' /\ SessRest
      BY <1>p, <1>5, StayType DEF SessReceive
    <2>2. ConnOK' /\ TriesOK'
      BY <1>p, <1>5, <2>1, SessRestType DEF SessReceive, ConnOK, TriesOK
    <2>3. CASE kind = "repeated"
      <3>1. SessUser /\ SessOK'
        <4>1. SessUser /\ sess' = [sess EXCEPT !.forced = FALSE,
                                              !.state = "exchange"]
          BY <1>5, <2>3 DEF SessReceive
        <4>2. "exchange" \in SessStates
          BY DEF SessStates
        <4> QED BY <1>p, <4>1, <4>2, SessStateType DEF SessOK
      <3>2. ExchOK' /\ DmOK'
        BY <1>p, <1>5, <2>1, <2>3, <3>1, SessUserType
        DEF SessReceive, ExchOK, DmOK, srvVars
      <3> QED BY <2>1, <2>2, <3>1, <3>2, SessUserType, SessRestType DEF Parts
    <2>4. CASE kind = "server_request"
      <3>1. PICK opens \in BOOLEAN, res \in PrepareResults,
                 e \in RequestEffects :
               /\ Prepare(kind, opens, res)
               /\ Apply(e, [sess EXCEPT !.forced = FALSE,
                                        !.state = NewState(@, res)])
        BY <1>5, <2>4 DEF SessReceive
      <3>2. [sess EXCEPT !.forced = FALSE, !.state = NewState(@, res)]
               \in SessRecords
        <4>1. NewState(sess.state, res) \in SessStates
          BY NewStateType
        <4> QED BY <1>p, <4>1 DEF SessOK, SessRecords
      <3>3. UserOK' /\ SessOK' /\ period' \in Timer /\ dmPeriod' \in Timer
        BY <2>1, <3>1, <3>2, ApplyType
      <3>4. DmOK'
        BY <1>p, <1>5, <3>3 DEF SessReceive, DmOK, srvVars
      <3>5. ExchOK'
        <4>1. /\ exch' \in Exchanges \cup {"none"}
              /\ dmOp' \in BOOLEAN
              /\ regCtx' \in {"init", "working", "finished", "error"}
          BY <1>p, <2>4, <3>1, PrepareType DEF Exchanges
        <4>2. UNCHANGED <<resend, bsCtx>>
          BY <1>5, <2>4 DEF SessReceive
        <4> QED BY <1>p, <4>1, <4>2 DEF ExchOK
      <3> QED BY <2>1, <2>2, <3>3, <3>4, <3>5, SessRestType DEF Parts
    <2> QED BY <1>5, <2>3, <2>4 DEF SessReceive
  <1>6. CASE SessUpdate
    <2>1. PICK res \in PrepareResults :
             /\ Prepare("update", sess.withPayload, res)
             /\ sess' = [Polled EXCEPT
                           !.state = NewState(@, res), !.nextUpdate = dmPeriod,
                           !.withLifetime = FALSE, !.withPayload = FALSE]
      BY <1>6 DEF SessUpdate
    <2>2. SessOK'
      <3>1. NewState(Polled.state, res) \in SessStates /\ Polled \in SessRecords
        BY NewStateType, PolledType
      <3> QED BY <1>p, <2>1, <3>1 DEF SessOK, SessRecords, DmOK
    <2>3. ExchOK'
      <3>1. sess.withPayload \in BOOLEAN
        BY <1>p DEF SessOK, SessRecords
      <3> QED
        BY <1>p, <1>6, <2>1, <3>1, PrepareType DEF SessUpdate, ExchOK, Exchanges
    <2>4. ControlOK' /\ SessRest
      BY <1>p, <1>6, StayType DEF SessUpdate
    <2>5. ConnOK' /\ DmOK' /\ deregTried' \in BOOLEAN
      BY <1>6, <1>p DEF SessUpdate, ConnOK, DmOK, TriesOK
    <2>6. UserOK'
      BY <1>6, <1>p DEF SessUpdate, SessRest, UserOK
    <2> QED BY <2>2, <2>3, <2>4, <2>5, <2>6, SessRestType DEF Parts, TriesOK
  <1>7. ASSUME NEW op \in {"send", "notify"}, SessClientRequest(op) PROVE Parts'
    <2>1. PICK res \in PrepareResults :
             /\ Prepare(op, op = "notify" /\ res = "ok", res)
             /\ sess' = [Polled EXCEPT !.state = NewState(@, res)]
      BY <1>7 DEF SessClientRequest
    <2>2. SessOK'
      <3>1. NewState(Polled.state, res) \in SessStates /\ Polled \in SessRecords
        BY NewStateType, PolledType
      <3> QED BY <2>1, <3>1 DEF SessOK, SessRecords
    <2>3. ExchOK'
      <3>1. op \in Exchanges
        BY DEF Exchanges
      <3>2. /\ exch' \in Exchanges \cup {"none"}
            /\ dmOp' \in BOOLEAN
            /\ regCtx' \in {"init", "working", "finished", "error"}
        BY <1>p, <2>1, <3>1, PrepareType
      <3> QED BY <1>p, <1>7, <3>2 DEF SessClientRequest, ExchOK
    <2>4. ControlOK' /\ SessRest /\ SessUser
      BY <1>p, <1>7, StayType DEF SessClientRequest
    <2>5. ConnOK' /\ DmOK' /\ TriesOK'
      BY <1>7, <1>p, <2>4, SessUserType, SessRestType
      DEF SessClientRequest, ConnOK, DmOK, TriesOK, srvVars
    <2> QED BY <2>2, <2>3, <2>4, <2>5, SessUserType, SessRestType DEF Parts
  <1>8. CASE SessEnterQueueMode \/ SessWait
    <2>1. SessOK'
      BY <1>8, PolledType
      DEF SessEnterQueueMode, SessWait, SessOK, SessRecords, SessStates
    <2>2. ControlOK'
      BY <1>p, <1>8, StayType, GoToType DEF SessEnterQueueMode, SessWait, Statuses
    <2> QED BY <1>8, <2>1, <2>2, QuietType DEF SessEnterQueueMode, SessWait
  <1>9. CASE SessForceExit \/ SessExitQueueMode
    <2>1. SessOK'
      BY <1>p, <1>9
      DEF SessForceExit, SessExitQueueMode, SessOK, SessRecords, SessStates
    <2>2. ControlOK'
      BY <1>p, <1>9, StayType, GoToType
      DEF SessForceExit, SessExitQueueMode, Statuses
    <2> QED BY <1>9, <2>1, <2>2, QuietType DEF SessForceExit, SessExitQueueMode
  <1>10. ASSUME NEW res, SessExchange(res) PROVE Parts'
    <2>1. SessRest /\ ControlOK'
      BY <1>p, <1>10, StayType DEF SessExchange
    <2>2. ExchOK' /\ ConnOK'
      BY <1>p, <1>10, HandleRequestType DEF SessExchange
    <2>3. AfterExchange(res) \in SessRecords
      BY <1>p, QueueStartType DEF AfterExchange, SessOK, SessRecords, SessStates
    <2>4. UserOK' /\ SessOK' /\ period' \in Timer /\ dmPeriod' \in Timer
      BY <1>10, <2>1, <2>3, ApplyType DEF SessExchange
    <2>5. DmOK' /\ deregTried' \in BOOLEAN
      BY <1>p, <1>10, <2>4 DEF SessExchange, DmOK, TriesOK
    <2> QED BY <2>1, <2>2, <2>4, <2>5, SessRestType DEF Parts, TriesOK
  <1>11. CASE Suspended
    <2>1. ControlOK'
      BY <1>p, <1>11, StayType, GoToType DEF Suspended, Statuses
    <2>2. UserOK' /\ DmOK' /\ TriesOK'
      BY <1>p, <1>11
      DEF Suspended, UserOK, Timer, dmVars, srvVars, DmOK, triesVars, TriesOK
    <2>3. ConnOK' /\ ExchOK'
      BY <1>p, <1>11 DEF Suspended, ConnOK, ExchOK, exchVars
    <2>4. ViewOK' /\ RegOK' /\ BsOK' /\ SessOK'
      BY <1>11 DEF Suspended, Parts, detailVars, ViewOK, RegOK, BsOK, SessOK
    <2> QED BY <2>1, <2>2, <2>3, <2>4 DEF Parts
  <1> QED
    BY <1>1, <1>2, <1>3, <1>4, <1>5, <1>6, <1>7, <1>8, <1>9, <1>10, <1>11
    DEF SessionNext

\* The details as their initialisation leaves them.
LEMMA ZeroType ==
    /\ ZeroReg \in [state : RegStates, retry : Nat, seq : Nat, timeout : Int]
    /\ ZeroBs \in [state : BsStates, attempt : Nat, timeout : Int]
    /\ ZeroSess \in SessRecords
    /\ ZeroBsCtx \in [inProgress : BOOLEAN, finishHandled : BOOLEAN,
                      error : {"none", "validation", "exchange"},
                      timeout : Timer]
    /\ NoFlags \in [{"restart", "bootstrap", "disable", "update"} -> BOOLEAN]
  <1>1. /\ ZeroReg \in [state : RegStates, retry : Nat, seq : Nat, timeout : Int]
        /\ ZeroBs \in [state : BsStates, attempt : Nat, timeout : Int]
    BY DEF ZeroReg, ZeroBs, RegStates, BsStates
  <1>2. ZeroSess \in SessRecords
    BY DEF ZeroSess, SessRecords, SessStates, Timer
  <1>3. ZeroBsCtx \in [inProgress : BOOLEAN, finishHandled : BOOLEAN,
                       error : {"none", "validation", "exchange"},
                       timeout : Timer]
    BY DEF ZeroBsCtx, Timer
  <1>4. NoFlags \in [{"restart", "bootstrap", "disable", "update"} -> BOOLEAN]
    BY DEF NoFlags
  <1> QED BY <1>1, <1>2, <1>3, <1>4

LEMMA CoreRestType ==
    ASSUME Parts, CoreRest, ControlOK'
    PROVE  Parts'
  <1>1. UserOK' /\ ViewOK' /\ RegOK' /\ BsOK' /\ SessOK'
    BY DEF CoreRest, Parts, userVars, detailVars, UserOK, ViewOK, RegOK, BsOK,
           SessOK
  <1>2. ConnOK' /\ ExchOK' /\ DmOK' /\ TriesOK'
    BY DEF CoreRest, Parts, dmVars, srvVars, exchVars, triesVars, ConnOK, ExchOK,
           DmOK, TriesOK
  <1> QED BY <1>1, <1>2 DEF Parts

LEMMA StartTypes ==
    ASSUME Parts, Start
    PROVE  Parts'
  <1>1. ControlOK' /\ ConnOK'
    BY DEF Start, Parts, ControlOK, ConnOK, EndCallback
  <1>2. srvPeriod' \in Timer /\ srvStale' \in BOOLEAN /\ dmPeriod' \in Timer
    BY DEF Start, Parts, DmOK, srvVars
  <1>3. CASE /\ StartBootstrap
             /\ UNCHANGED <<userVars, period, exch, resend, dmOp, regCtx,
                            regTries, deregTried>>
    <2>1. UserOK' /\ ViewOK' /\ RegOK' /\ SessOK' /\ TriesOK' /\ DmOK'
      BY <1>2, <1>3, ZeroType
      DEF Parts, StartBootstrap, userVars, UserOK, ViewOK, RegOK, SessOK, TriesOK,
          DmOK
    <2>2. ExchOK'
      BY <1>3, ZeroType DEF Parts, StartBootstrap, ExchOK
    <2>3. \A n \in LeftoverAttempt : n \in Nat
      BY BootstrapAssumption DEF LeftoverAttempt, Parts, BsOK, RegOK
    <2>4. BsOK'
      BY <1>3, <2>3, ZeroType, BootstrapAssumption
      DEF StartBootstrap, BsOK, BsStates
    <2> QED BY <1>1, <2>1, <2>2, <2>4 DEF Parts
  <1>4. CASE StartRegister /\ UNCHANGED <<userVars, exchVars, bsTries, deregTried>>
    <2>1. UserOK' /\ ViewOK' /\ RegOK' /\ BsOK' /\ SessOK'
      BY <1>4, ZeroType
      DEF Parts, StartRegister, userVars, UserOK, ViewOK, RegOK, BsOK, SessOK
    <2>2. ExchOK' /\ TriesOK' /\ DmOK'
      BY <1>2, <1>4 DEF Parts, StartRegister, exchVars, ExchOK, TriesOK, DmOK
    <2> QED BY <1>1, <2>1, <2>2 DEF Parts
  <1>5. CASE SessionInit /\ UNCHANGED <<exchVars, triesVars, deregTried>>
    <2>1. ViewOK' /\ RegOK' /\ BsOK'
      BY <1>5, ZeroType DEF SessionInit, ViewOK, RegOK, BsOK
    <2>2. SessOK'
      <3>1. sess' = [ZeroSess EXCEPT !.nextUpdate = dmPeriod,
                                     !.queueStart = QueueStart]
        BY <1>5 DEF SessionInit
      <3> QED BY <3>1, ZeroType, QueueStartType DEF Parts, DmOK, SessOK, SessRecords
    <2>3. UserOK'
      BY <1>5 DEF SessionInit, Parts, UserOK, TransitionClear, Timer
    <2>4. ExchOK' /\ TriesOK' /\ DmOK'
      BY <1>2, <1>5
      DEF Parts, SessionInit, exchVars, triesVars, ExchOK, TriesOK, DmOK
    <2> QED BY <1>1, <2>1, <2>2, <2>3, <2>4 DEF Parts
  <1>6. CASE UNCHANGED <<userVars, detailVars, period, exchVars, triesVars,
                         deregTried>>
    <2>1. UserOK' /\ ViewOK' /\ RegOK' /\ BsOK' /\ SessOK'
      BY <1>6 DEF Parts, userVars, detailVars, UserOK, ViewOK, RegOK, BsOK, SessOK
    <2>2. ExchOK' /\ TriesOK' /\ DmOK'
      BY <1>2, <1>6 DEF Parts, exchVars, triesVars, ExchOK, TriesOK, DmOK
    <2> QED BY <1>1, <2>1, <2>2 DEF Parts
  <1> QED BY <1>3, <1>4, <1>5, <1>6 DEF Start

LEMMA CoreTypes ==
    ASSUME Parts, CoreStep
    PROVE  Parts'
  <1>1. ASSUME NEW r, ForcedClose(r) PROVE Parts'
    <2>1. ControlOK'
      BY <1>1, StayType, GoToType DEF ForcedClose, Parts, ForcedStatus, Statuses
    <2>2. ConnOK'
      BY <1>1, CloseType DEF ForcedClose, Parts
    <2>3. UserOK'
      BY <1>1 DEF ForcedClose, Parts, UserOK, TransitionClear
    <2>4. ViewOK' /\ RegOK' /\ BsOK' /\ SessOK'
      BY <1>1 DEF ForcedClose, Parts, detailVars, ViewOK, RegOK, BsOK, SessOK
    <2>5. ExchOK' /\ DmOK' /\ TriesOK'
      BY <1>1 DEF ForcedClose, Parts, exchVars, dmVars, srvVars, triesVars,
                  ExchOK, DmOK, TriesOK
    <2> QED BY <2>1, <2>2, <2>3, <2>4, <2>5 DEF Parts
  <1>2. CASE StepInitial
    BY <1>2, CoreRestType, ConcludeType, GoToType DEF StepInitial, Parts, Statuses
  <1>3. CASE StepBootstrapped
    BY <1>3, CoreRestType, GoToType DEF StepBootstrapped, Parts, Statuses
  <1>4. CASE StepInvalid \/ StepFailure
    BY <1>4, CoreRestType, ConcludeType, StayType
    DEF StepInvalid, StepFailure, Parts, Statuses
  <1>5. CASE StartFails
    <2>1. ControlOK'
      BY <1>5 DEF StartFails, EndCallback, Parts, ControlOK, Statuses
    <2> QED BY <1>5, <2>1, CoreRestType DEF StartFails
  <1> QED
    BY <1>1, <1>2, <1>3, <1>4, <1>5, StartTypes DEF CoreStep

LEMMA ApiTypes ==
    ASSUME Parts, Api
    PROVE  Parts'
  <1>0. ASSUME ApiRest PROVE /\ ControlOK' /\ ViewOK' /\ RegOK' /\ BsOK'
                             /\ SessOK' /\ ConnOK' /\ DmOK' /\ TriesOK'
    <2>1. ControlOK' /\ ViewOK' /\ RegOK' /\ BsOK' /\ SessOK'
      BY <1>0 DEF ApiRest, Parts, coreVars, detailVars, ControlOK, ViewOK, RegOK,
                  BsOK, SessOK
    <2>2. ConnOK' /\ DmOK' /\ TriesOK'
      BY <1>0 DEF ApiRest, Parts, dmVars, srvVars, triesVars, ConnOK, DmOK, TriesOK
    <2> QED BY <2>1, <2>2
  <1>f. ASSUME NEW f \in {"restart", "bootstrap", "disable", "update"},
               flags' = [flags EXCEPT ![f] = TRUE],
               enableTime' \in Timer, enableTimeUser' \in Timer
        PROVE  UserOK'
    BY <1>f DEF Parts, UserOK
  <1>1. ASSUME NEW t \in DisableTimes, DisableServer(t) PROVE Parts'
    <2>1. enableTime' \in Timer /\ enableTimeUser' \in Timer
      BY <1>1, SessionAssumption DEF DisableServer, Parts, UserOK
    <2>2. CASE UNCHANGED <<flags, exchVars>>
      <3>1. UserOK' /\ ExchOK'
        BY <2>1, <2>2 DEF Parts, UserOK, ExchOK, exchVars
      <3> QED BY <1>0, <1>1, <3>1 DEF Parts, DisableServer
    <2>3. CASE ForceTransition("disable")
      <3>1. UserOK' /\ ExchOK'
        BY <1>f, <2>1, <2>3, TerminateType DEF Parts, ForceTransition
      <3> QED BY <1>0, <1>1, <3>1 DEF Parts, DisableServer
    <2> QED BY <1>1, <2>2, <2>3 DEF DisableServer
  <1>2. CASE RequestBootstrap \/ Restart
    <2>1. enableTime' \in Timer /\ enableTimeUser' \in Timer
      BY <1>2 DEF RequestBootstrap, Restart, Parts, UserOK
    <2>2. UserOK' /\ ExchOK'
      BY <1>2, <1>f, <2>1, TerminateType DEF Parts, ForceTransition, RequestBootstrap, Restart
    <2> QED BY <1>0, <1>2, <2>2 DEF Parts, RequestBootstrap, Restart
  <1>3. CASE RequestUpdate
    <2>1. enableTime' \in Timer /\ enableTimeUser' \in Timer
      BY <1>3 DEF RequestUpdate, Parts, UserOK
    <2>2. UserOK' /\ ExchOK'
      BY <1>3, <1>f, <2>1 DEF Parts, RequestUpdate, ExchOK, exchVars
    <2> QED BY <1>0, <1>3, <2>2 DEF Parts, RequestUpdate
  <1>4. ASSUME DataModelChange
        PROVE  /\ ControlOK' /\ UserOK' /\ ViewOK' /\ RegOK' /\ BsOK'
               /\ ConnOK' /\ ExchOK' /\ TriesOK' /\ srvPeriod' \in Timer
    <2>1. ControlOK' /\ UserOK' /\ ViewOK' /\ RegOK' /\ BsOK'
      BY <1>4 DEF DataModelChange, Parts, coreVars, userVars, ControlOK, UserOK,
                  ViewOK, RegOK, BsOK
    <2>2. ConnOK' /\ ExchOK' /\ TriesOK' /\ srvPeriod' \in Timer
      BY <1>4 DEF DataModelChange, Parts, exchVars, triesVars, ConnOK, ExchOK,
                  TriesOK, DmOK
    <2> QED BY <2>1, <2>2
  <1>5. ASSUME NEW p \in UpdatePeriods, LifetimeChanged(p) PROVE Parts'
    <2>1. p \in Timer
      BY SessionAssumption
    <2>2. /\ period' \in Timer /\ dmPeriod' \in Timer /\ srvStale' \in BOOLEAN
      BY <1>5, <2>1 DEF LifetimeChanged, Parts, DmOK
    <2>3. SessOK'
      BY <1>5 DEF LifetimeChanged, Parts, SessOK, SessRecords
    <2> QED BY <1>4, <1>5, <2>2, <2>3 DEF LifetimeChanged, Parts, DmOK
  <1>6. CASE InstancesChanged
    <2>1. /\ period' \in Timer /\ dmPeriod' \in Timer /\ srvStale' \in BOOLEAN
      BY <1>6 DEF InstancesChanged, Parts, DmOK
    <2>2. SessOK'
      BY <1>6 DEF InstancesChanged, Parts, SessOK, SessRecords
    <2> QED BY <1>4, <1>6, <2>1, <2>2 DEF InstancesChanged, Parts, DmOK
  <1>7. ASSUME NEW r, Shutdown(r) PROVE Parts'
    <2>1. ConnOK'
      BY <1>7, CloseType DEF Shutdown, Parts
    <2>2. CASE r = "inprogress"
      <3>1. /\ Terminate /\ pc' = "shutdown"
            /\ UNCHANGED <<status, last, told, userVars, detailVars, dmVars,
                           triesVars, deregTried>>
        BY <1>7, <2>2 DEF Shutdown
      <3>2. ControlOK' /\ UserOK' /\ ViewOK' /\ RegOK' /\ BsOK' /\ SessOK'
        BY <3>1 DEF Parts, userVars, detailVars, ControlOK, UserOK, ViewOK, RegOK,
                    BsOK, SessOK
      <3>3. ExchOK' /\ DmOK' /\ TriesOK'
        BY <3>1, TerminateType
        DEF Parts, dmVars, srvVars, triesVars, DmOK, TriesOK
      <3> QED BY <2>1, <3>2, <3>3 DEF Parts
    <2>3. CASE r # "inprogress"
      <3>1. ControlOK' /\ UserOK' /\ ViewOK'
        BY <1>7, <2>3, ZeroType
        DEF Shutdown, Parts, ControlOK, Statuses, UserOK, Timer, ViewOK
      <3>2. RegOK' /\ BsOK' /\ SessOK' /\ ExchOK'
        BY <1>7, <2>3, ZeroType
        DEF Shutdown, RegOK, BsOK, SessOK, ExchOK
      <3>3. DmOK' /\ TriesOK'
        <4>1. /\ period' = 0 /\ regTries' = 0 /\ bsTries' = 0
              /\ srvPeriod' = 0 /\ srvStale' = FALSE /\ deregTried' = FALSE
              /\ dmPeriod' = dmPeriod
          BY <1>7, <2>3 DEF Shutdown
        <4> QED BY <4>1 DEF Parts, DmOK, Timer, TriesOK
      <3> QED BY <2>1, <3>1, <3>2, <3>3 DEF Parts
    <2> QED BY <2>2, <2>3
  <1>8. CASE InitAgain
    <2>1. ControlOK'
      BY <1>8 DEF InitAgain, ControlOK, Statuses
    <2> QED BY <1>8, <2>1, CoreRestType DEF InitAgain
  <1> QED
    BY <1>1, <1>2, <1>3, <1>5, <1>6, <1>7, <1>8 DEF Api

LEMMA TickTypes ==
    ASSUME Parts, Tick
    PROVE  Parts'
  <1>1. \A t \in Timer : Left(t) \in Timer
    BY DEF Left, Timer, Never
  <1>2. \A t \in Int : Left(t) \in Int
    BY DEF Left
  <1>3. UserOK' /\ SessOK'
    BY <1>1 DEF Tick, Parts, UserOK, SessOK, SessRecords
  <1>4. RegOK' /\ BsOK'
    BY <1>2 DEF Tick, Parts, RegOK, BsOK
  <1>5. ExchOK'
    BY <1>1 DEF Tick, Parts, ExchOK
  <1>6. ControlOK' /\ ViewOK' /\ ConnOK' /\ DmOK' /\ TriesOK'
    BY DEF Tick, Parts, coreVars, dmVars, srvVars, triesVars, ControlOK, ViewOK,
           ConnOK, DmOK, TriesOK
  <1> QED BY <1>3, <1>4, <1>5, <1>6 DEF Parts

(***************************************************************************)
(* Type correctness of the whole client.                                   *)
(***************************************************************************)
LEMMA InitTypes == Init => Parts
  <1> SUFFICES ASSUME Init PROVE Parts
    OBVIOUS
  <1>1. ControlOK /\ UserOK /\ ViewOK
    BY ZeroType DEF Init, ControlOK, Statuses, UserOK, Timer, ViewOK
  <1>2. RegOK /\ BsOK /\ SessOK /\ ExchOK
    BY ZeroType DEF Init, RegOK, BsOK, SessOK, ExchOK
  <1>3. ConnOK
    BY DEF Init, ConnOK, NoConn
  <1>4. DmOK /\ TriesOK
    BY SessionAssumption DEF Init, DmOK, Timer, TriesOK
  <1> QED BY <1>1, <1>2, <1>3, <1>4 DEF Parts

LEMMA StutterTypes ==
    ASSUME Parts, UNCHANGED vars
    PROVE  Parts'
  <1>1. CoreRest /\ UNCHANGED coreVars
    BY DEF vars, CoreRest
  <1>2. ControlOK'
    BY <1>1 DEF coreVars, ControlOK, Parts
  <1> QED BY <1>1, <1>2, CoreRestType

LEMMA TypesPreserved == Parts /\ [Next]_vars => Parts'
  BY CoreTypes, RegisterTypes, BootstrapTypes, SessionTypes, ApiTypes, TickTypes,
     StutterTypes
  DEF Next

\* Every step of the client keeps every piece of its state within its type:
\* anj_core_step(), the API calls and the passing of time together.
THEOREM TypeCorrect == Spec => []TypeOK
  <1>1. Init => Parts
    BY InitTypes
  <1>2. Parts /\ [Next]_vars => Parts'
    BY TypesPreserved
  <1>3. Parts => TypeOK
    BY TypeParts
  <1> QED BY <1>1, <1>2, <1>3, PTL DEF Spec

(***************************************************************************)
(* The attempts of a registration and of a bootstrap are all made before   *)
(* they are given up, for every retry count, and the bootstrap context and *)
(* the machine of BOOTSTRAPPING agree on the sequence.                     *)
(***************************************************************************)
Tries == AtLeastOne(RetryCount)
Rounds == AtLeastOne(SeqRetryCount)

\* What the number of attempts is in each state of the registration: it counts
\* the complete sequences and the attempts of the current one.
Counted ==
    /\ reg.state \in {"connection", "disconnect", "cleanup", "restart"} =>
          regTries = reg.seq * Tries + reg.retry /\ reg.retry < Tries /\ reg.seq < Rounds
    /\ reg.state \in {"register", "error_handling"} =>
          regTries = reg.seq * Tries + reg.retry + 1 /\ reg.retry < Tries /\ reg.seq < Rounds
    /\ reg.state \in {"cleanup_with_failure", "registration_failure"} =>
          regTries = Tries * Rounds

\* The inductive invariant: the details of server_state are the registration's
\* whenever the machine of REGISTERING runs, and hold no failure otherwise.
AttemptsInv ==
    /\ status = "registering" /\ Running => view = "registration"
    /\ view # "registration" => reg.state = "connection"
    /\ view = "registration" => Counted

LEMMA AttemptBounds == Tries \in Nat /\ Rounds \in Nat /\ Tries > 0 /\ Rounds > 0
  BY RetryAssumption DEF Tries, Rounds, AtLeastOne

\* A step that leaves the registration alone.
LEMMA AttemptsFrame ==
    ASSUME AttemptsInv, UNCHANGED <<view, reg, regTries>>,
           status' = "registering" /\ Running' => status = "registering" /\ Running
    PROVE  AttemptsInv'
  BY DEF AttemptsInv, Counted

\* A step of the registration itself, from its effect on the counters.
LEMMA AttemptsStep ==
    ASSUME AttemptsInv, RegisteringStep, UNCHANGED view, Counted => Counted'
    PROVE  AttemptsInv'
  BY DEF AttemptsInv, RegisteringStep

LEMMA NextAttemptCounted ==
    ASSUME RegOK, Counted, reg.state = "error_handling", reg' = NextAttempt,
           UNCHANGED regTries
    PROVE  Counted'
  <1> DEFINE retry == reg.retry + 1
             seq == reg.seq + 1
             delay == RetryTimer * 2^(retry - 1)
  <1>1. reg.retry \in Nat /\ reg.seq \in Nat
    BY DEF RegOK
  <1>2. regTries = reg.seq * Tries + reg.retry + 1 /\ reg.retry < Tries /\ reg.seq < Rounds
    BY DEF Counted
  <1>3. CASE retry < RetryCount
    <2>1. reg' = [state |-> "disconnect", retry |-> retry, seq |-> reg.seq,
                  timeout |-> delay]
      BY <1>3 DEF NextAttempt
    <2> HIDE DEF delay
    <2>2. /\ reg'.state = "disconnect" /\ reg'.retry = reg.retry + 1
          /\ reg'.seq = reg.seq
      BY <2>1
    <2>3. reg.retry + 1 < Tries
      BY <1>1, <1>3, RetryAssumption DEF Tries, AtLeastOne
    <2> QED BY <1>1, <1>2, <2>2, <2>3, AttemptBounds DEF Counted
  <1>4. CASE ~(retry < RetryCount)
    <2>1. reg.retry + 1 = Tries
      BY <1>1, <1>2, <1>4, RetryAssumption DEF Tries, AtLeastOne
    <2>2. regTries = seq * Tries
      BY <1>1, <1>2, <2>1, AttemptBounds
    <2>3. CASE seq >= SeqRetryCount
      <3>1. reg' = [reg EXCEPT !.state = "cleanup_with_failure",
                               !.retry = retry, !.seq = seq]
        BY <1>4, <2>3 DEF NextAttempt
      <3>2. reg'.state = "cleanup_with_failure"
        BY <3>1 DEF RegOK
      <3>3. seq = Rounds
        BY <1>1, <1>2, <2>3, RetryAssumption DEF Rounds, AtLeastOne
      <3>4. regTries = Tries * Rounds
        BY <2>2, <3>3, AttemptBounds
      <3> QED BY <3>2, <3>4 DEF Counted
    <2>4. CASE ~(seq >= SeqRetryCount)
      <3>1. reg' = [state |-> "cleanup", retry |-> 0, seq |-> seq,
                    timeout |-> SeqDelay]
        BY <1>4, <2>4 DEF NextAttempt
      <3>2. reg'.state = "cleanup" /\ reg'.retry = 0 /\ reg'.seq = seq
        BY <3>1
      <3>3. seq < Rounds
        BY <1>1, <2>4, RetryAssumption DEF Rounds, AtLeastOne
      <3> QED BY <1>1, <2>2, <3>2, <3>3, AttemptBounds DEF Counted
    <2> QED BY <2>3, <2>4
  <1> QED BY <1>3, <1>4

LEMMA RegisterAttempts ==
    ASSUME Parts, AttemptsInv, RegisterStep
    PROVE  AttemptsInv'
  <1>p. RegOK /\ TriesOK /\ reg.retry \in Nat /\ reg.seq \in Nat
    BY DEF Parts, RegOK
  \* What a change of the state alone does to the counts.
  <1>s. ASSUME NEW st, reg' = [reg EXCEPT !.state = st]
        PROVE  reg'.state = st /\ reg'.retry = reg.retry /\ reg'.seq = reg.seq
    BY <1>p, <1>s DEF RegOK
  <1>1. ASSUME NEW r \in NetResults, RegConnection(r) PROVE AttemptsInv'
    <2>1. RegisteringStep /\ UNCHANGED view /\ reg.state = "connection"
      BY <1>1 DEF RegConnection, RegRest
    <2>2. \/ UNCHANGED <<reg, regTries>>
          \/ /\ regTries' = regTries + 1
             /\ \E st \in {"register", "error_handling"} :
                   reg' = [reg EXCEPT !.state = st]
      BY <1>1 DEF RegConnection, NetResults
    <2>3. Counted => Counted'
      <3>1. CASE UNCHANGED <<reg, regTries>>
        BY <3>1 DEF Counted
      <3>2. CASE /\ regTries' = regTries + 1
                 /\ \E st \in {"register", "error_handling"} :
                       reg' = [reg EXCEPT !.state = st]
        BY <1>p, <1>s, <2>1, <3>2, AttemptBounds DEF Counted, TriesOK
      <3> QED BY <2>2, <3>1, <3>2
    <2> QED BY <2>1, <2>3, AttemptsStep
  <1>2. ASSUME NEW res, RegRegister(res) PROVE AttemptsInv'
    <2>1. RegisteringStep /\ UNCHANGED <<view, regTries>> /\ reg.state = "register"
      BY <1>2 DEF RegRegister, RegRest
    <2>2. UNCHANGED reg \/ reg' = [reg EXCEPT !.state = "error_handling"]
      BY <1>2 DEF RegRegister
    <2>3. Counted => Counted'
      BY <1>s, <2>1, <2>2 DEF Counted
    <2> QED BY <2>1, <2>3, AttemptsStep
  <1>3. CASE RegErrorHandling
    <2>1. RegisteringStep /\ UNCHANGED <<view, regTries>>
      BY <1>3 DEF RegErrorHandling, triesVars
    <2>2. Counted => Counted'
      BY <1>p, <1>3, <2>1, NextAttemptCounted DEF RegErrorHandling
    <2> QED BY <2>1, <2>2, AttemptsStep
  <1>4. ASSUME NEW r, RegClose(r) PROVE AttemptsInv'
    <2>1. RegisteringStep /\ UNCHANGED <<view, regTries>>
      BY <1>4 DEF RegClose, RegRest
    <2>2. \/ UNCHANGED reg
          \/ /\ reg.state = "cleanup_with_failure"
             /\ reg' = [reg EXCEPT !.state = "registration_failure"]
          \/ /\ reg.state \in {"disconnect", "cleanup"}
             /\ reg' = [reg EXCEPT !.state = "restart"]
      BY <1>4 DEF RegClose
    <2>3. Counted => Counted'
      BY <1>s, <2>1, <2>2 DEF Counted
    <2> QED BY <2>1, <2>3, AttemptsStep
  <1>5. CASE RegRestart
    <2>1. RegisteringStep /\ UNCHANGED <<view, regTries>> /\ reg.state = "restart"
      BY <1>5 DEF RegRestart, RegRest
    <2>2. UNCHANGED reg \/ reg' = [reg EXCEPT !.state = "connection"]
      BY <1>5 DEF RegRestart
    <2>3. Counted => Counted'
      BY <1>s, <2>1, <2>2 DEF Counted
    <2> QED BY <2>1, <2>3, AttemptsStep
  <1>6. CASE RegFailure
    <2>1. RegisteringStep /\ UNCHANGED <<view, reg, regTries>>
      BY <1>6 DEF RegFailure, RegRest
    <2> QED BY <2>1, AttemptsFrame DEF RegisteringStep
  <1> QED
    BY <1>1, <1>2, <1>3, <1>4, <1>5, <1>6 DEF RegisterStep

\* A change of status is followed by the callback, so that no machine runs.
LEMMA ConcludePauses ==
    ASSUME NEW s, NEW next, Conclude(s, next), s # status
    PROVE  status' = s /\ ~Running'
  BY DEF Conclude, Running

LEMMA BootstrapAttempts ==
    ASSUME AttemptsInv, BootstrapStep
    PROVE  AttemptsInv'
  <1>1. BootstrappingStep /\ UNCHANGED <<view, reg, regTries>>
    BY DEF BootstrapStep, BsConnection, BsExchange, BsIdle, BsSequenceEnd,
           BsReceiveNothing, BsReceive, BsFinished, BsConnectionLost,
           BsDisconnect, BsRetry, BsWaiting, BsError, BsRest, triesVars
  <1>2. status' \in {"bootstrapping", "bootstrapped", "failure"}
    BY <1>1
    DEF BootstrappingStep, BootstrapStep, BsConnection, BsExchange, BsIdle,
        BsSequenceEnd, BsReceiveNothing, BsReceive, BsFinished,
        BsConnectionLost, BsDisconnect, Retry, BsRetry, BsWaiting, BsError,
        Continue, Leave, GoTo, Conclude, NetResults
  <1> QED BY <1>1, <1>2, AttemptsFrame

LEMMA SessionAttempts ==
    ASSUME AttemptsInv, SessionNext
    PROVE  AttemptsInv'
  <1>1. UNCHANGED <<view, reg, regTries>>
    BY DEF SessionNext, SessDeregister, SessReceiveNothing, SessEntering,
           SessDisconnect, SessReceive, SessUpdate, SessClientRequest,
           SessEnterQueueMode, SessWait, SessForceExit, SessExitQueueMode,
           SessExchange, Suspended, SessRest, detailVars, triesVars
  <1>2. CASE \E r \in NetResults : SessDisconnect(r)
    <2>1. PICK r \in NetResults : SessDisconnect(r)
      BY <1>2
    <2>2. status # "registering"
      BY <2>1 DEF SessDisconnect, SessionStep, Registered
    <2>3. \/ status' = status
          \/ ForcedStatus # "registering" /\ status' = ForcedStatus
          \/ status' = "registering" /\ ~Running'
      BY <2>1, <2>2, ConcludePauses
      DEF SessDisconnect, Leave, GoTo, Conclude, ForcedStatus
    <2> QED BY <1>1, <2>2, <2>3, AttemptsFrame
  <1>3. CASE ~\E r \in NetResults : SessDisconnect(r)
    <2>1. status # "registering" /\ status' # "registering"
      BY <1>3
      DEF SessionNext, SessDeregister, SessReceiveNothing, SessEntering,
          SessReceive, SessUpdate, SessClientRequest, SessEnterQueueMode,
          SessWait, SessForceExit, SessExitQueueMode, SessExchange, Suspended,
          SessIdle, Poll, SessionStep, Registered, Continue, Leave, GoTo,
          Conclude, NetResults
    <2> QED BY <1>1, <2>1, AttemptsFrame
  <1> QED BY <1>2, <1>3

LEMMA StartAttempts ==
    ASSUME AttemptsInv, Start
    PROVE  AttemptsInv'
  <1>1. CASE StartBootstrap /\ status = "bootstrapping"
    BY <1>1 DEF Start, StartBootstrap, AttemptsInv, ZeroReg
  <1>2. CASE StartRegister
    <2>1. /\ reg'.state = "connection" /\ reg'.retry = 0 /\ reg'.seq = 0
          /\ regTries' = 0 /\ view' = "registration"
      BY <1>2 DEF StartRegister, ZeroReg
    <2>2. Counted'
      BY <2>1, AttemptBounds DEF Counted
    <2> QED BY <2>1, <2>2 DEF AttemptsInv
  <1>3. CASE SessionInit /\ status = "registered"
    BY <1>3 DEF Start, SessionInit, AttemptsInv, ZeroReg
  <1>4. CASE /\ status \notin {"bootstrapping", "registering"}
             /\ UNCHANGED <<detailVars, triesVars>>
    BY <1>4, AttemptsFrame DEF Start, detailVars, triesVars
  <1> QED BY <1>1, <1>2, <1>3, <1>4 DEF Start

LEMMA CoreAttempts ==
    ASSUME AttemptsInv, CoreStep
    PROVE  AttemptsInv'
  <1>1. ASSUME NEW r, ForcedClose(r) PROVE AttemptsInv'
    <2>1. UNCHANGED <<view, reg, regTries>> /\ Running
      BY <1>1 DEF ForcedClose, detailVars, triesVars
    <2>2. status' = status \/ status' = ForcedStatus
      BY <1>1 DEF ForcedClose, Leave, GoTo, Conclude
    <2> QED BY <2>1, <2>2, AttemptsFrame DEF ForcedStatus
  <1>2. CASE StepInitial \/ StepBootstrapped \/ StepInvalid \/ StepFailure
    <2>1. UNCHANGED <<view, reg, regTries>>
      BY <1>2 DEF StepInitial, StepBootstrapped, StepInvalid, StepFailure, CoreRest,
                  detailVars, triesVars
    <2>2. status' # "registering" \/ ~Running'
      BY <1>2, ConcludePauses
      DEF StepInitial, StepBootstrapped, StepInvalid, StepFailure, StatusStep,
          GoTo, Leave, Conclude
    <2> QED BY <2>1, <2>2, AttemptsFrame
  <1>3. CASE StartFails
    BY <1>3, AttemptsFrame DEF StartFails, CoreRest, detailVars, triesVars
  <1> QED BY <1>1, <1>2, <1>3, StartAttempts DEF CoreStep

LEMMA ApiAttempts ==
    ASSUME AttemptsInv, Api
    PROVE  AttemptsInv'
  <1>1. CASE UNCHANGED <<view, reg, regTries, pc, status>>
    BY <1>1, AttemptsFrame DEF Running
  <1>2. ASSUME NEW r, Shutdown(r) PROVE AttemptsInv'
    <2>1. CASE r = "inprogress"
      BY <1>2, <2>1, AttemptsFrame DEF Shutdown, detailVars, triesVars, Running
    <2>2. CASE r # "inprogress"
      BY <1>2, <2>2 DEF Shutdown, AttemptsInv, ZeroReg
    <2> QED BY <2>1, <2>2
  <1>3. CASE InitAgain
    BY <1>3, AttemptsFrame DEF InitAgain, CoreRest, detailVars, triesVars
  <1> QED
    BY <1>1, <1>2, <1>3
    DEF Api, DisableServer, RequestBootstrap, Restart, RequestUpdate, ApiRest,
        LifetimeChanged, InstancesChanged, DataModelChange, coreVars, detailVars,
        triesVars

LEMMA TickAttempts ==
    ASSUME Parts, AttemptsInv, Tick
    PROVE  AttemptsInv'
  <1>1. reg'.state = reg.state /\ reg'.retry = reg.retry /\ reg'.seq = reg.seq
    BY DEF Tick, Parts, RegOK
  <1>2. UNCHANGED <<view, regTries, status, pc>>
    BY DEF Tick, triesVars, coreVars
  <1> QED BY <1>1, <1>2 DEF AttemptsInv, Counted, Running

\* The registration is given up (REGISTRATION_FAILURE in server_register.c)
\* only after max(1, Retry Count) attempts in each of max(1, Sequence Retry
\* Count) sequences, whatever was disabled, restarted or bootstrapped before.
THEOREM AttemptsMade == Spec => []AllAttemptsMade
  <1>1. Init => Parts /\ AttemptsInv
    <2>1. ASSUME Init PROVE AttemptsInv
      BY <2>1 DEF Init, AttemptsInv, ZeroReg
    <2> QED BY <2>1, InitTypes
  <1>2. Parts /\ AttemptsInv /\ [Next]_vars => Parts' /\ AttemptsInv'
    <2>1. Parts /\ AttemptsInv /\ Next => AttemptsInv'
      BY CoreAttempts, RegisterAttempts, BootstrapAttempts, SessionAttempts,
         ApiAttempts, TickAttempts DEF Next
    <2>2. ASSUME AttemptsInv, UNCHANGED vars PROVE AttemptsInv'
      <3>1. UNCHANGED <<view, reg, regTries, status, pc>>
        BY <2>2 DEF vars, detailVars, triesVars, coreVars
      <3> QED BY <2>2, <3>1, AttemptsFrame DEF Running
    <2> QED BY <2>1, <2>2, TypesPreserved
  <1>3. AttemptsInv => AllAttemptsMade
    BY DEF AttemptsInv, Counted, AllAttemptsMade, Tries, Rounds
  <1> QED BY <1>1, <1>2, <1>3, PTL DEF Spec

(***************************************************************************)
(* The bootstrap context and the machine of BOOTSTRAPPING.                 *)
(***************************************************************************)
\* A bootstrap is not forced upon a client that is at it already, so that
\* whatever interrupts the machine takes the client out of BOOTSTRAPPING.
SequenceInv ==
    /\ flags.bootstrap => status \notin {"bootstrapping", "bootstrapped"}
    /\ BootstrapSequence

\* A step that does not lead into the running machine.
LEMMA SequenceOutside ==
    ASSUME flags'.bootstrap => status' \notin {"bootstrapping", "bootstrapped"},
           status' # "bootstrapping" \/ ~Running'
    PROVE  SequenceInv'
  BY DEF SequenceInv, BootstrapSequence, Running

LEMMA BootstrapSequences ==
    ASSUME Parts, SequenceInv, BootstrapStep
    PROVE  SequenceInv'
  <1>p. BsOK /\ ExchOK
    BY DEF Parts
  <1>b. /\ BootstrappingStep /\ UNCHANGED flags
        /\ bsCtx.inProgress <=>
              bs.state \in {"in_progress", "finish_disconnect_and_retry"}
    BY DEF BootstrapStep, BsConnection, BsExchange, BsIdle, BsSequenceEnd,
           BsReceiveNothing, BsReceive, BsFinished, BsConnectionLost,
           BsDisconnect, BsRetry, BsWaiting, BsError, BsRest, userVars,
           BootstrappingStep, Running, SequenceInv, BootstrapSequence
  \* A step whose effect on the two is known.
  <1>s. ASSUME bsCtx'.inProgress <=>
                  bs'.state \in {"in_progress", "finish_disconnect_and_retry"}
        PROVE  SequenceInv'
    BY <1>b, <1>s DEF SequenceInv, BootstrapSequence, BootstrappingStep,
                      TransitionForced
  \* What a change of the state alone does.
  <1>e. \A st : [bs EXCEPT !.state = st].state = st
    BY <1>p DEF BsOK
  <1>r. ASSUME Retry PROVE bs'.state \in {"error", "waiting"}
    <2> DEFINE delay == BsRetryTimeout * 2^bs.attempt
    <2>1. \/ bs' = [bs EXCEPT !.state = "error"]
          \/ bs' = [state |-> "waiting", attempt |-> bs.attempt + 1,
                    timeout |-> delay]
      BY <1>r DEF Retry
    <2> HIDE DEF delay
    <2>2. CASE bs' = [bs EXCEPT !.state = "error"]
      BY <1>e, <2>2
    <2>3. CASE bs' = [state |-> "waiting", attempt |-> bs.attempt + 1,
                      timeout |-> delay]
      BY <2>3
    <2> QED BY <2>1, <2>2, <2>3
  <1>f. ASSUME NEW ok \in BOOLEAN, Finalize(ok)
        PROVE  bsCtx'.inProgress = bsCtx.inProgress
    BY <1>p, <1>f DEF Finalize, Complete, ExchOK
  <1>1. ASSUME NEW r \in NetResults, BsConnection(r) PROVE SequenceInv'
    BY <1>1, <1>b, <1>e, <1>s
    DEF BsConnection, BootstrapProcess, ZeroBsCtx, exchVars, NetResults
  <1>2. ASSUME NEW res, BsExchange(res) PROVE SequenceInv'
    <2>1. bsCtx'.inProgress = bsCtx.inProgress
      BY <1>2, <1>f DEF BsExchange, HandleRequest
    <2> QED BY <1>2, <1>b, <1>e, <1>s, <2>1 DEF BsExchange
  <1>3. CASE BsSequenceEnd \/ BsConnectionLost
    <2>1. bsCtx' = ZeroBsCtx
      BY <1>3 DEF BsSequenceEnd, BsConnectionLost, BootstrapProcess
    <2>2. bs'.state \in {"finished", "disconnect_and_retry"}
      BY <1>3, <1>e DEF BsSequenceEnd, BsConnectionLost
    <2> QED BY <1>s, <2>1, <2>2 DEF ZeroBsCtx
  <1>4. ASSUME NEW r, BsReceiveNothing(r) PROVE SequenceInv'
    BY <1>4, <1>b, <1>e, <1>s DEF BsReceiveNothing, BsIdle, exchVars
  <1>5. ASSUME NEW kind, BsReceive(kind) PROVE SequenceInv'
    <2>1. bsCtx'.inProgress = bsCtx.inProgress
      BY <1>5, <1>p DEF BsReceive, ExchOK
    <2>2. bs'.state \in {bs.state, "finish_disconnect_and_retry"}
      BY <1>5, <1>e DEF BsReceive
    <2> QED BY <1>5, <1>b, <1>s, <2>1, <2>2 DEF BsReceive, BsIdle
  <1>6. ASSUME NEW r \in NetResults, BsFinished(r) PROVE SequenceInv'
    BY <1>6, <1>b, <1>s DEF BsFinished, exchVars
  <1>7. ASSUME NEW r, BsDisconnect(r) PROVE SequenceInv'
    <2>1. bsCtx'.inProgress = bsCtx.inProgress
      BY <1>7, <1>f DEF BsDisconnect, Terminate, exchVars
    <2>2. bs'.state \in {bs.state, "error", "waiting"}
      BY <1>7, <1>r DEF BsDisconnect
    <2> QED BY <1>7, <1>b, <1>s, <2>1, <2>2 DEF BsDisconnect
  <1>8. CASE BsRetry \/ BsWaiting \/ BsError
    <2>1. bsCtx' = bsCtx
      BY <1>8 DEF BsRetry, BsWaiting, BsError, exchVars
    <2>2. bs'.state \in {bs.state, "error", "waiting", "connection"}
      BY <1>8, <1>e, <1>r DEF BsRetry, BsWaiting, BsError
    <2> QED BY <1>8, <1>b, <1>s, <2>1, <2>2 DEF BsRetry, BsWaiting, BsError
  <1> QED
    BY <1>1, <1>2, <1>3, <1>4, <1>5, <1>6, <1>7, <1>8 DEF BootstrapStep

LEMMA RegisterSequences ==
    ASSUME SequenceInv, RegisterStep
    PROVE  SequenceInv'
  <1>1. RegisteringStep /\ UNCHANGED flags
    BY DEF RegisterStep, RegConnection, RegRegister, RegErrorHandling, RegClose,
           RegRestart, RegFailure, RegRest, userVars
  <1>2. status' # "bootstrapping" \/ ~Running'
    BY <1>1
    DEF RegisterStep, RegConnection, RegRegister, RegErrorHandling, RegClose,
        RegRestart, RegFailure, Continue, Leave, GoTo, Conclude, Running,
        RegisteringStep
  <1> QED BY <1>1, <1>2, SequenceOutside DEF RegisteringStep, TransitionForced

\* Where a forced transition leads, and with which flags.
LEMMA ForcedLeads ==
    ASSUME UserOK, GoTo(ForcedStatus), flags' = TransitionClear,
           flags.bootstrap => status # "bootstrapping"
    PROVE  ~flags'.bootstrap /\ (status' # "bootstrapping" \/ ~Running')
  BY DEF UserOK, GoTo, ForcedStatus, TransitionClear, Conclude, Running

LEMMA SessionSequences ==
    ASSUME Parts, SequenceInv, SessionNext
    PROVE  SequenceInv'
  <1>p. UserOK
    BY DEF Parts
  <1>1. ASSUME NEW r, SessDisconnect(r) PROVE SequenceInv'
    <2>1. Registered
      BY <1>1 DEF SessDisconnect, SessionStep
    <2>2. CASE r # "inprogress" /\ TransitionForced
      BY <1>1, <1>p, <2>1, <2>2, ForcedLeads, SequenceOutside
      DEF SessDisconnect, Registered
    <2>3. CASE ~(r # "inprogress" /\ TransitionForced)
      BY <1>1, <2>1, <2>3, SequenceOutside
      DEF SessDisconnect, Registered, Leave, GoTo, Conclude
    <2> QED BY <2>2, <2>3
  <1>2. CASE ~\E r \in NetResults : SessDisconnect(r)
    <2>1. status' \notin {"bootstrapping", "bootstrapped"}
      BY <1>2
      DEF SessionNext, SessDeregister, SessReceiveNothing, SessEntering,
          SessReceive, SessUpdate, SessClientRequest, SessEnterQueueMode,
          SessWait, SessForceExit, SessExitQueueMode, SessExchange, Suspended,
          SessIdle, Poll, SessionStep, Registered, Continue, Leave, GoTo,
          Conclude, NetResults
    <2> QED BY <2>1, SequenceOutside
  <1> QED BY <1>1, <1>2

LEMMA CoreSequences ==
    ASSUME Parts, SequenceInv, CoreStep
    PROVE  SequenceInv'
  <1>p. UserOK
    BY DEF Parts
  <1>1. ASSUME NEW r, ForcedClose(r) PROVE SequenceInv'
    <2>1. CASE r = "inprogress"
      BY <1>1, <2>1
      DEF ForcedClose, Leave, Conclude, detailVars, exchVars, SequenceInv,
          BootstrapSequence, TransitionForced
    <2>2. CASE r # "inprogress"
      BY <1>1, <1>p, <2>2, ForcedLeads, SequenceOutside
      DEF ForcedClose, SequenceInv
    <2> QED BY <2>1, <2>2
  <1>2. CASE StepInitial \/ StepBootstrapped \/ StepInvalid \/ StepFailure
    <2>1. ~TransitionForced /\ flags' = flags
      BY <1>2 DEF StepInitial, StepBootstrapped, StepInvalid, StepFailure,
                  StatusStep, CoreRest, userVars
    <2>2. status' # "bootstrapping" \/ ~Running'
      BY <1>2
      DEF StepInitial, StepBootstrapped, StepInvalid, StepFailure, StatusStep,
          GoTo, Leave, Conclude, Running
    <2> QED BY <2>1, <2>2, SequenceOutside DEF TransitionForced
  <1>3. CASE StartFails
    BY <1>3, SequenceOutside DEF StartFails
  <1>4. CASE Start
    <2>1. CASE status = "bootstrapping"
      <3>1. bsCtx' = ZeroBsCtx /\ bs'.state \in {"waiting", "connection"}
        BY <1>4, <2>1 DEF Start, StartBootstrap, ZeroBs
      <3> QED BY <1>4, <2>1, <3>1
              DEF Start, SequenceInv, BootstrapSequence, ZeroBsCtx, userVars
    <2>2. CASE status # "bootstrapping"
      <3>1. status' = status /\ (flags'.bootstrap => flags.bootstrap)
        BY <1>4, <1>p, <2>2
        DEF Start, userVars, SessionInit, TransitionClear, UserOK
      <3> QED BY <2>2, <3>1, SequenceOutside DEF SequenceInv
    <2> QED BY <2>1, <2>2
  <1> QED BY <1>1, <1>2, <1>3, <1>4 DEF CoreStep

LEMMA ApiSequences ==
    ASSUME Parts, SequenceInv, Api
    PROVE  SequenceInv'
  <1>p. UserOK
    BY DEF Parts
  <1>f. ASSUME NEW f \in {"restart", "bootstrap", "disable"}, ForceTransition(f),
               UNCHANGED coreVars,
               f = "bootstrap" => status \notin {"bootstrapping", "bootstrapped"}
        PROVE  SequenceInv'
    <2>1. TransitionForced' /\ (flags'.bootstrap => flags.bootstrap \/ f = "bootstrap")
      BY <1>f, <1>p DEF ForceTransition, TransitionForced, UserOK
    <2> QED BY <1>f, <2>1 DEF SequenceInv, BootstrapSequence, coreVars
  <1>u. ASSUME UNCHANGED <<status, bs, bsCtx>>,
               \/ pc' = pc
               \/ ~Running'
               \/ status # "bootstrapping",
               \/ flags' = flags
               \/ flags' = [flags EXCEPT !.update = TRUE]
        PROVE  SequenceInv'
    <2>1. flags'.bootstrap = flags.bootstrap /\ (TransitionForced' <=> TransitionForced)
      BY <1>u, <1>p DEF UserOK, TransitionForced
    <2> QED BY <1>u, <2>1 DEF SequenceInv, BootstrapSequence, Running
  <1>1. ASSUME NEW t, DisableServer(t) PROVE SequenceInv'
    BY <1>1, <1>f, <1>u
    DEF DisableServer, ApiRest, coreVars, detailVars, exchVars
  <1>2. CASE RequestBootstrap \/ Restart
    BY <1>2, <1>f DEF RequestBootstrap, Restart, ApiRest
  <1>3. CASE RequestUpdate \/ InstancesChanged \/ \E p \in UpdatePeriods : LifetimeChanged(p)
    BY <1>3, <1>u
    DEF RequestUpdate, InstancesChanged, LifetimeChanged, DataModelChange, ApiRest,
        coreVars, userVars, detailVars, exchVars
  <1>4. ASSUME NEW r, Shutdown(r) PROVE SequenceInv'
    <2>1. CASE r = "inprogress"
      <3>1. status' = status /\ flags' = flags /\ ~Running'
        BY <1>4, <2>1 DEF Shutdown, userVars, Running
      <3> QED BY <3>1, SequenceOutside DEF SequenceInv
    <2>2. CASE r # "inprogress"
      BY <1>4, <2>2, SequenceOutside DEF Shutdown
    <2> QED BY <2>1, <2>2
  <1>5. CASE InitAgain
    BY <1>5, SequenceOutside DEF InitAgain
  <1> QED BY <1>1, <1>2, <1>3, <1>4, <1>5 DEF Api

\* The bootstrap context says that a sequence is in progress exactly in the
\* states in which the machine of server_bootstrap.c relies on it, whatever API
\* call, timeout or failure interrupts it and from wherever it is started again.
THEOREM SequencesAgree == Spec => []BootstrapSequence
  <1>1. Init => Parts /\ SequenceInv
    <2>1. ASSUME Init PROVE SequenceInv
      BY <2>1 DEF Init, SequenceInv, BootstrapSequence
    <2> QED BY <2>1, InitTypes
  <1>2. Parts /\ SequenceInv /\ [Next]_vars => Parts' /\ SequenceInv'
    <2>1. ASSUME Parts, SequenceInv, Tick PROVE SequenceInv'
      BY <2>1 DEF Tick, Parts, ExchOK, BsOK, coreVars, SequenceInv,
                  BootstrapSequence, TransitionForced
    <2>2. ASSUME SequenceInv, UNCHANGED vars PROVE SequenceInv'
      BY <2>2 DEF vars, coreVars, userVars, detailVars, exchVars, SequenceInv,
                  BootstrapSequence, TransitionForced
    <2> QED BY <2>1, <2>2, TypesPreserved, CoreSequences, RegisterSequences,
               BootstrapSequences, SessionSequences, ApiSequences DEF Next
  <1> QED BY <1>1, <1>2, PTL DEF Spec, SequenceInv

(***************************************************************************)
(* The attempts of a bootstrap.                                            *)
(***************************************************************************)
\* The attempts made are the retries counted, and the current one once its
\* connection has been tried.
BsCounted ==
    /\ bs.attempt <= BsRetryCount
    /\ bs.state \in {"connection", "waiting"} => bsTries = bs.attempt
    /\ bs.state \notin {"connection", "waiting"} => bsTries = bs.attempt + 1
    /\ bs.state = "error" => bs.attempt = BsRetryCount

BsAttemptsInv ==
    /\ status = "bootstrapping" /\ Running => view = "bootstrap"
    /\ view # "bootstrap" => bs.state = "connection"
    /\ view = "bootstrap" => BsCounted

LEMMA BsAttemptsFrame ==
    ASSUME BsAttemptsInv, UNCHANGED <<view, bs, bsTries>>,
           status' = "bootstrapping" /\ Running' => status = "bootstrapping" /\ Running
    PROVE  BsAttemptsInv'
  BY DEF BsAttemptsInv, BsCounted

LEMMA BootstrapBsAttempts ==
    ASSUME Parts, BsAttemptsInv, BootstrapStep
    PROVE  BsAttemptsInv'
  <1>p. /\ bs \in [state : BsStates, attempt : Nat, timeout : Int]
        /\ bsTries \in Nat /\ BsRetryCount \in Nat
    BY BootstrapAssumption DEF Parts, BsOK, TriesOK
  <1>b. BootstrappingStep /\ UNCHANGED view /\ BsCounted
    BY DEF BootstrapStep, BsConnection, BsExchange, BsIdle, BsSequenceEnd,
           BsReceiveNothing, BsReceive, BsFinished, BsConnectionLost,
           BsDisconnect, BsRetry, BsWaiting, BsError, BsRest, BootstrappingStep,
           BsAttemptsInv
  <1>v. view = "bootstrap"
    BY <1>b DEF BsAttemptsInv, BootstrappingStep
  <1>s. ASSUME BsCounted' PROVE BsAttemptsInv'
    BY <1>b, <1>s, <1>v DEF BsAttemptsInv
  \* A change of the state that is not the beginning or the end of an attempt.
  <1>e. ASSUME NEW st, bs' = [bs EXCEPT !.state = st]
        PROVE  bs'.state = st /\ bs'.attempt = bs.attempt
    BY <1>e, <1>p
  <1>k. ASSUME UNCHANGED bsTries,
               \/ bs' = bs
               \/ /\ bs.state \notin {"connection", "waiting"}
                  /\ \E st \in {"finished", "finish_disconnect_and_retry",
                                "disconnect_and_retry", "retry"} :
                        bs' = [bs EXCEPT !.state = st]
        PROVE  BsAttemptsInv'
    BY <1>b, <1>e, <1>k, <1>s DEF BsCounted
  <1>r. ASSUME Retry, UNCHANGED bsTries, bs.state \notin {"connection", "waiting"}
        PROVE  BsAttemptsInv'
    <2> DEFINE delay == BsRetryTimeout * 2^bs.attempt
    <2>1. CASE bs.attempt >= BsRetryCount
      <3>1. bs' = [bs EXCEPT !.state = "error"]
        BY <1>r, <2>1 DEF Retry
      <3> QED BY <1>b, <1>e, <1>p, <1>r, <1>s, <2>1, <3>1 DEF BsCounted
    <2>2. CASE ~(bs.attempt >= BsRetryCount)
      <3>1. bs' = [state |-> "waiting", attempt |-> bs.attempt + 1,
                   timeout |-> delay]
        BY <1>r, <2>2 DEF Retry
      <3> HIDE DEF delay
      <3>2. bs'.state = "waiting" /\ bs'.attempt = bs.attempt + 1
        BY <3>1
      <3> QED BY <1>b, <1>p, <1>r, <1>s, <2>2, <3>2 DEF BsCounted
    <2> QED BY <2>1, <2>2
  <1>1. ASSUME NEW r \in NetResults, BsConnection(r) PROVE BsAttemptsInv'
    <2>1. CASE r = "inprogress"
      BY <1>1, <1>k, <2>1 DEF BsConnection
    <2>2. CASE r # "inprogress"
      <3>1. bsTries' = bsTries + 1 /\ bs.state = "connection"
        BY <1>1, <2>2 DEF BsConnection
      <3>2. \E st \in {"retry", "in_progress", "finish_disconnect_and_retry"} :
               bs' = [bs EXCEPT !.state = st]
        BY <1>1, <2>2 DEF BsConnection
      <3> QED BY <1>b, <1>e, <1>s, <3>1, <3>2 DEF BsCounted
    <2> QED BY <2>1, <2>2
  <1>2. ASSUME NEW res, BsExchange(res) PROVE BsAttemptsInv'
    BY <1>2, <1>k DEF BsExchange
  <1>3. CASE BsSequenceEnd \/ BsConnectionLost
    BY <1>3, <1>k DEF BsSequenceEnd, BsIdle, BsConnectionLost
  <1>4. ASSUME NEW r, BsReceiveNothing(r) PROVE BsAttemptsInv'
    BY <1>4, <1>k DEF BsReceiveNothing, BsIdle
  <1>5. ASSUME NEW kind, BsReceive(kind) PROVE BsAttemptsInv'
    BY <1>5, <1>k DEF BsReceive, BsIdle, triesVars
  <1>6. ASSUME NEW r \in NetResults, BsFinished(r) PROVE BsAttemptsInv'
    BY <1>6, <1>k DEF BsFinished
  <1>7. ASSUME NEW r, BsDisconnect(r) PROVE BsAttemptsInv'
    BY <1>7, <1>k, <1>r DEF BsDisconnect
  <1>8. CASE BsRetry
    BY <1>8, <1>r DEF BsRetry
  <1>9. CASE BsWaiting
    <2>1. UNCHANGED bs \/ bs' = [bs EXCEPT !.state = "connection"]
      BY <1>9 DEF BsWaiting
    <2> QED BY <1>9, <1>b, <1>e, <1>s, <2>1 DEF BsWaiting, BsCounted
  <1>10. CASE BsError
    BY <1>10, <1>k DEF BsError
  <1> QED
    BY <1>1, <1>2, <1>3, <1>4, <1>5, <1>6, <1>7, <1>8, <1>9, <1>10
    DEF BootstrapStep

LEMMA RegisterBsAttempts ==
    ASSUME BsAttemptsInv, RegisterStep
    PROVE  BsAttemptsInv'
  <1>1. RegisteringStep /\ UNCHANGED <<view, bs, bsTries>>
    BY DEF RegisterStep, RegConnection, RegRegister, RegErrorHandling, RegClose,
           RegRestart, RegFailure, RegRest, triesVars
  <1>2. status' # "bootstrapping" \/ ~Running'
    BY <1>1
    DEF RegisterStep, RegConnection, RegRegister, RegErrorHandling, RegClose,
        RegRestart, RegFailure, Continue, Leave, GoTo, Conclude, Running,
        RegisteringStep
  <1> QED BY <1>1, <1>2, BsAttemptsFrame

LEMMA SessionBsAttempts ==
    ASSUME BsAttemptsInv, SessionNext
    PROVE  BsAttemptsInv'
  <1>1. UNCHANGED <<view, bs, bsTries>>
    BY DEF SessionNext, SessDeregister, SessReceiveNothing, SessEntering,
           SessDisconnect, SessReceive, SessUpdate, SessClientRequest,
           SessEnterQueueMode, SessWait, SessForceExit, SessExitQueueMode,
           SessExchange, Suspended, SessRest, detailVars, triesVars
  <1>2. status # "bootstrapping" /\ (status' # "bootstrapping" \/ ~Running')
    BY DEF SessionNext, SessDeregister, SessReceiveNothing, SessEntering,
           SessReceive, SessUpdate, SessClientRequest, SessEnterQueueMode,
           SessWait, SessForceExit, SessExitQueueMode, SessExchange, Suspended,
           SessDisconnect, SessIdle, Poll, SessionStep, Registered, Running,
           Continue, Leave, GoTo, Conclude, NetResults
  <1> QED BY <1>1, <1>2, BsAttemptsFrame

LEMMA CoreBsAttempts ==
    ASSUME HoldOff = 0, Parts, BsAttemptsInv, CoreStep
    PROVE  BsAttemptsInv'
  <1>1. ASSUME NEW r, ForcedClose(r) PROVE BsAttemptsInv'
    <2>1. UNCHANGED <<view, bs, bsTries>>
      BY <1>1 DEF ForcedClose, detailVars, triesVars
    <2>2. \/ status' = status /\ Running
          \/ status' = "bootstrapping" => status = "bootstrapping" \/ ~Running'
      BY <1>1 DEF ForcedClose, Leave, GoTo, Conclude, Running
    <2> QED BY <1>1, <2>1, <2>2, BsAttemptsFrame DEF ForcedClose
  <1>2. CASE StepInitial \/ StepBootstrapped \/ StepInvalid \/ StepFailure
    <2>1. UNCHANGED <<view, bs, bsTries>>
      BY <1>2 DEF StepInitial, StepBootstrapped, StepInvalid, StepFailure, CoreRest,
                  detailVars, triesVars
    <2>2. status' # "bootstrapping" \/ ~Running'
      BY <1>2
      DEF StepInitial, StepBootstrapped, StepInvalid, StepFailure, StatusStep,
          GoTo, Leave, Conclude, Running
    <2> QED BY <2>1, <2>2, BsAttemptsFrame
  <1>3. CASE StartFails
    BY <1>3, BsAttemptsFrame DEF StartFails, CoreRest, detailVars, triesVars
  <1>4. CASE Start
    <2>1. CASE StartBootstrap /\ status = "bootstrapping"
      <3>1. view' = "bootstrap" /\ bs' = ZeroBs /\ bsTries' = 0
        BY <2>1 DEF StartBootstrap
      <3> QED BY <3>1, BootstrapAssumption DEF BsAttemptsInv, BsCounted, ZeroBs
    <2>2. CASE StartRegister \/ SessionInit
      <3>1. view' # "bootstrap" /\ bs' = ZeroBs
        BY <2>2 DEF StartRegister, SessionInit
      <3>2. status' # "bootstrapping"
        BY <1>4, <3>1 DEF Start, StartBootstrap, detailVars
      <3> QED BY <3>1, <3>2 DEF BsAttemptsInv, ZeroBs
    <2>3. CASE /\ status \notin {"bootstrapping", "registering"}
               /\ UNCHANGED <<detailVars, triesVars>>
      BY <1>4, <2>3, BsAttemptsFrame DEF Start, detailVars, triesVars
    <2> QED BY <1>4, <2>1, <2>2, <2>3 DEF Start
  <1> QED BY <1>1, <1>2, <1>3, <1>4 DEF CoreStep

LEMMA ApiBsAttempts ==
    ASSUME BsAttemptsInv, Api
    PROVE  BsAttemptsInv'
  <1>1. CASE UNCHANGED <<view, bs, bsTries, pc, status>>
    BY <1>1, BsAttemptsFrame DEF Running
  <1>2. ASSUME NEW r, Shutdown(r) PROVE BsAttemptsInv'
    <2>1. CASE r = "inprogress"
      BY <1>2, <2>1, BsAttemptsFrame DEF Shutdown, detailVars, triesVars, Running
    <2>2. CASE r # "inprogress"
      BY <1>2, <2>2 DEF Shutdown, BsAttemptsInv, ZeroBs
    <2> QED BY <2>1, <2>2
  <1>3. CASE InitAgain
    BY <1>3, BsAttemptsFrame DEF InitAgain, CoreRest, detailVars, triesVars
  <1> QED
    BY <1>1, <1>2, <1>3
    DEF Api, DisableServer, RequestBootstrap, Restart, RequestUpdate, ApiRest,
        LifetimeChanged, InstancesChanged, DataModelChange, coreVars, detailVars,
        triesVars

\* Without a hold-off time the bootstrap is given up (the ERROR state of
\* server_bootstrap.c) after the first attempt and all bootstrap_retry_count
\* retries, whatever interrupted an earlier bootstrap.
THEOREM BootstrapAttemptsMade ==
    ASSUME HoldOff = 0
    PROVE  Spec => []AllBootstrapAttemptsMade
  <1>1. Init => Parts /\ BsAttemptsInv
    <2>1. ASSUME Init PROVE BsAttemptsInv
      BY <2>1 DEF Init, BsAttemptsInv, ZeroBs
    <2> QED BY <2>1, InitTypes
  <1>2. Parts /\ BsAttemptsInv /\ [Next]_vars => Parts' /\ BsAttemptsInv'
    <2>1. ASSUME Parts, BsAttemptsInv, Tick PROVE BsAttemptsInv'
      <3>1. bs'.state = bs.state /\ bs'.attempt = bs.attempt
        BY <2>1 DEF Tick, Parts, BsOK
      <3> QED BY <2>1, <3>1 DEF Tick, coreVars, triesVars, BsAttemptsInv,
                                BsCounted, Running
    <2>2. ASSUME BsAttemptsInv, UNCHANGED vars PROVE BsAttemptsInv'
      BY <2>2, BsAttemptsFrame DEF vars, coreVars, detailVars, triesVars, Running
    <2> QED BY <2>1, <2>2, TypesPreserved, CoreBsAttempts, RegisterBsAttempts,
               BootstrapBsAttempts, SessionBsAttempts, ApiBsAttempts DEF Next
  <1>3. BsAttemptsInv => AllBootstrapAttemptsMade
    BY DEF BsAttemptsInv, BsCounted, AllBootstrapAttemptsMade
  <1> QED BY <1>1, <1>2, <1>3, PTL DEF Spec
=============================================================================

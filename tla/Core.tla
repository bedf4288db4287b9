--------------------------------- MODULE Core ---------------------------------
(***************************************************************************)
(* The client: anj_core_step() of core/core.c over the machines of the     *)
(* statuses, the application's calls and the passing of time.              *)
(***************************************************************************)
EXTENDS ServerRegister, ServerBootstrap, RegSession

CONSTANTS ApiInCallback,  \* connection_status_cb may call the anj_core API
          AppChanges      \* the application may change the data model

ASSUME ApplicationAssumption ==
    ApiInCallback \in BOOLEAN /\ AppChanges \in BOOLEAN

(***************************************************************************)
(* anj_core_init(), which clears the whole structure.                      *)
(***************************************************************************)
Init ==
    /\ pc = "idle" /\ status = "initial" /\ last = "initial"
    /\ flags = NoFlags /\ enableTime = 0 /\ enableTimeUser = 0
    /\ view = "none"
    /\ reg = ZeroReg /\ bs = ZeroBs /\ sess = ZeroSess
    /\ conn = NoConn
    /\ exch = "none" /\ resend = FALSE /\ dmOp = FALSE
    /\ regCtx = "init" /\ bsCtx = ZeroBsCtx
    /\ period = 0 /\ dmPeriod \in UpdatePeriods
    /\ told = "initial" /\ regTries = 0 /\ bsTries = 0
    /\ srvPeriod = 0 /\ srvStale = FALSE /\ deregTried = FALSE

StatusStep(s) == Running /\ status = s /\ ~TransitionForced

CoreRest == UNCHANGED <<userVars, detailVars, dmVars, exchVars, conn, triesVars,
                        deregTried>>

\* Mutant of ForcedClose: the request is cleared before the close is over.
ForcedCloseTooEarly(r) ==
    /\ Running /\ ~Registered /\ TransitionForced
    /\ Close(TRUE, r)
    /\ IF r = "inprogress" THEN Leave ELSE GoTo(ForcedStatus)
    /\ flags' = TransitionClear
    /\ UNCHANGED <<enableTime, enableTimeUser, detailVars, dmVars, exchVars,
                   triesVars, deregTried>>

\* A forced transition of a client that is not registered.
ForcedClose(r) ==
    /\ Running /\ ~Registered /\ TransitionForced
    /\ Close(TRUE, r)
    /\ IF r = "inprogress" THEN Leave /\ UNCHANGED flags
                           ELSE GoTo(ForcedStatus) /\ flags' = TransitionClear
    /\ UNCHANGED <<enableTime, enableTimeUser, detailVars, dmVars, exchVars,
                   triesVars, deregTried>>

\* The Server Object has one instance, none, or the wrong number of them.
StepInitial ==
    /\ StatusStep("initial")
    /\ \/ Conclude("invalid", "leave")
       \/ GoTo("bootstrapping")
       \/ GoTo("registering")
    /\ CoreRest

StepBootstrapped ==
    StatusStep("bootstrapped") /\ GoTo("registering") /\ CoreRest

StepInvalid ==
    StatusStep("invalid") /\ Conclude("failure", "leave") /\ CoreRest

StepFailure == StatusStep("failure") /\ Leave /\ CoreRest

(***************************************************************************)
(* init_new_conn_status(), once the callback has returned.  A start that   *)
(* fails makes the status INVALID and nobody is told.                      *)
(***************************************************************************)
EndCallback == /\ pc' = IF pc = "cb_continue" THEN "loop" ELSE "idle"
               /\ last' = status'
               /\ UNCHANGED told

InCallback == pc \in {"cb_continue", "cb_leave"}

StartFails ==
    /\ InCallback /\ status \in {"bootstrapping", "registering"}
    /\ status' = "invalid"
    /\ EndCallback
    /\ CoreRest

Start ==
    /\ InCallback
    /\ UNCHANGED <<status, conn, srvVars, dmPeriod>>
    /\ EndCallback
    /\ \/ /\ status = "bootstrapping"
          /\ StartBootstrap
          /\ UNCHANGED <<userVars, period, exch, resend, dmOp, regCtx, regTries,
                         deregTried>>
       \/ /\ status = "registering"
          /\ StartRegister
          /\ UNCHANGED <<userVars, exchVars, bsTries, deregTried>>
       \/ /\ status = "registered" /\ last = "registering"
          /\ SessionInit
          /\ UNCHANGED <<exchVars, triesVars, deregTried>>
       \/ /\ status \notin {"bootstrapping", "registering"}
          /\ ~(status = "registered" /\ last = "registering")
          /\ UNCHANGED <<userVars, detailVars, period, exchVars, triesVars,
                         deregTried>>

(***************************************************************************)
(* The application's calls.  They come between two calls of anj_core_step, *)
(* or from the callback.                                                   *)
(***************************************************************************)
ApiCall == pc = "idle" \/ (ApiInCallback /\ InCallback)

ApiRest == UNCHANGED <<coreVars, detailVars, dmVars, conn, triesVars, deregTried>>

\* The end of the three calls that force a transition.
ForceTransition(flag) ==
    /\ Terminate
    /\ flags' = [flags EXCEPT ![flag] = TRUE]

DisableServer(t) ==
    /\ ApiCall
    /\ enableTimeUser' = t
    /\ IF status = "suspended" \/ flags.disable
         THEN UNCHANGED <<flags, exchVars>> ELSE ForceTransition("disable")
    /\ UNCHANGED enableTime
    /\ ApiRest

RequestBootstrap ==
    /\ ApiCall
    /\ status \notin {"bootstrapping", "bootstrapped"} /\ ~flags.bootstrap
    /\ ForceTransition("bootstrap")
    /\ UNCHANGED <<enableTime, enableTimeUser>>
    /\ ApiRest

Restart ==
    /\ ApiCall /\ ~flags.restart
    /\ ForceTransition("restart")
    /\ UNCHANGED <<enableTime, enableTimeUser>>
    /\ ApiRest

RequestUpdate ==
    /\ ApiCall /\ Registered
    /\ flags' = [flags EXCEPT !.update = TRUE]
    /\ UNCHANGED <<enableTime, enableTimeUser, exchVars>>
    /\ ApiRest

(***************************************************************************)
(* anj_core_data_model_changed(), after a change the application may make: *)
(* none while anj_core_ongoing_operation().  Before the session is set up  *)
(* what it writes to server_state.details is overwritten by the set-up.    *)
(***************************************************************************)
DataModelChange ==
    /\ AppChanges /\ ApiCall /\ ~dmOp
    /\ UNCHANGED <<coreVars, userVars, view, reg, bs, exchVars, conn, triesVars,
                   deregTried, srvPeriod>>

LifetimeChanged(p) ==
    /\ DataModelChange
    /\ dmPeriod' = p
    /\ period' = IF Registered THEN p ELSE period
    /\ sess' = IF Registered /\ view = "registered" /\ p # period
                 THEN [sess EXCEPT !.withLifetime = TRUE] ELSE sess
    /\ UNCHANGED srvStale

\* Mutant of InstancesChanged: a change in the queue mode is missed.
InstancesChangedOnline ==
    /\ DataModelChange
    /\ srvStale' = (srvStale \/ Registered)
    /\ sess' = IF status = "registered" /\ view = "registered"
                 THEN [sess EXCEPT !.withPayload = TRUE] ELSE sess
    /\ UNCHANGED <<period, dmPeriod>>

InstancesChanged ==
    /\ DataModelChange
    /\ srvStale' = (srvStale \/ Registered)
    /\ sess' = IF Registered /\ view = "registered"
                 THEN [sess EXCEPT !.withPayload = TRUE] ELSE sess
    /\ UNCHANGED <<period, dmPeriod>>

\* anj_core_shutdown(), called again while it is in progress, and the
\* anj_core_init() that may follow.
Shutdown(r) ==
    /\ pc \in {"idle", "shutdown"}
    /\ Close(TRUE, r)
    /\ IF r = "inprogress"
         THEN /\ Terminate /\ pc' = "shutdown"
              /\ UNCHANGED <<status, last, told, userVars, detailVars, dmVars,
                             triesVars, deregTried>>
         ELSE /\ pc' = "down" /\ status' = "invalid" /\ last' = "invalid"
              /\ flags' = NoFlags /\ enableTime' = 0 /\ enableTimeUser' = 0
              /\ view' = "none"
              /\ reg' = ZeroReg /\ bs' = ZeroBs /\ sess' = ZeroSess
              /\ exch' = "none" /\ resend' = FALSE /\ dmOp' = FALSE
              /\ regCtx' = "init" /\ bsCtx' = ZeroBsCtx
              /\ period' = 0
              /\ regTries' = 0 /\ bsTries' = 0
              /\ srvPeriod' = 0 /\ srvStale' = FALSE /\ deregTried' = FALSE
              /\ UNCHANGED <<dmPeriod, told>>

InitAgain ==
    /\ pc = "down"
    /\ pc' = "idle" /\ status' = "initial" /\ last' = "initial"
    /\ told' = "initial"
    /\ CoreRest

(***************************************************************************)
(* One unit of time passes.                                                *)
(***************************************************************************)
Tick ==
    /\ enableTime' = Left(enableTime)
    /\ enableTimeUser' = Left(enableTimeUser)
    /\ reg' = [reg EXCEPT !.timeout = Left(@)]
    /\ bs' = [bs EXCEPT !.timeout = Left(@)]
    /\ sess' = [sess EXCEPT !.nextUpdate = Left(@), !.queueStart = Left(@)]
    /\ bsCtx' = [bsCtx EXCEPT !.timeout = Left(@)]
    /\ UNCHANGED <<coreVars, flags, view, exch, resend, dmOp, regCtx, conn,
                   dmVars, triesVars, deregTried>>

CoreStep ==
    \/ \E r \in NetResults : ForcedClose(r)
    \/ StepInitial
    \/ StepBootstrapped
    \/ StepInvalid
    \/ StepFailure
    \/ StartFails
    \/ Start

Api ==
    \/ \E t \in DisableTimes : DisableServer(t)
    \/ RequestBootstrap
    \/ Restart
    \/ RequestUpdate
    \/ \E p \in UpdatePeriods : LifetimeChanged(p)
    \/ InstancesChanged
    \/ \E r \in NetResults : Shutdown(r)
    \/ InitAgain

Next == CoreStep \/ RegisterStep \/ BootstrapStep \/ SessionNext \/ Api \/ Tick

Spec == Init /\ [][Next]_vars

(***************************************************************************)
(* The application keeps calling anj_core_step(), time passes, and no net  *)
(* call and no exchange stays unfinished for ever: an exchange is bounded  *)
(* by its retransmissions and timeouts.  Messages may still come in        *)
(* without an end.                                                         *)
(***************************************************************************)
Progress ==
    \/ \E r \in {"ok", "error"} :
          \/ ForcedClose(r) \/ RegConnection(r) \/ RegClose(r)
          \/ BsConnection(r) \/ BsReceiveNothing(r) \/ BsFinished(r)
          \/ BsDisconnect(r) \/ SessReceiveNothing(r) \/ SessEntering(r)
          \/ SessDisconnect(r)
    \/ \E res \in {"ok", "error"} :
          RegRegister(res) \/ BsExchange(res) \/ SessExchange(res)
    \/ \E kind \in {"repeated", "server_request", "bootstrap_finish"} :
          BsReceive(kind) \/ SessReceive(kind)
    \/ \E op \in {"send", "notify"} : SessClientRequest(op)
    \/ StepInitial \/ StepBootstrapped \/ StepInvalid \/ StartFails \/ Start
    \/ RegErrorHandling \/ RegRestart \/ RegFailure
    \/ BsSequenceEnd \/ BsConnectionLost \/ BsRetry \/ BsWaiting \/ BsError
    \/ SessDeregister \/ SessUpdate \/ SessEnterQueueMode \/ SessWait
    \/ SessForceExit \/ SessExitQueueMode \/ Suspended

FairSpec == Spec /\ WF_vars(Progress) /\ WF_vars(Tick)

(***************************************************************************)
(* Properties.                                                             *)
(***************************************************************************)

\* The type invariant.  (The time left of a back-off may be any integer: it is
\* RetryTimer times a power of 2.)
TypeOK ==
    /\ pc \in {"idle", "loop", "cb_continue", "cb_leave", "shutdown", "down"}
    /\ status \in Statuses /\ last \in Statuses /\ told \in Statuses
    /\ flags \in [{"restart", "bootstrap", "disable", "update"} -> BOOLEAN]
    /\ enableTime \in Timer /\ enableTimeUser \in Timer
    /\ view \in {"none", "registration", "bootstrap", "registered"}
    /\ reg \in [state : RegStates, retry : Nat, seq : Nat, timeout : Int]
    /\ bs \in [state : BsStates, attempt : Nat, timeout : Int]
    /\ sess \in [state : SessStates, nextUpdate : Timer, queueStart : Timer,
                 withLifetime : BOOLEAN, withPayload : BOOLEAN,
                 forced : BOOLEAN]
    /\ conn \in [net : {"none", "closed", "connected"}, sending : BOOLEAN]
    /\ exch \in Exchanges \cup {"none"}
    /\ resend \in BOOLEAN /\ dmOp \in BOOLEAN
    /\ regCtx \in {"init", "working", "finished", "error"}
    /\ bsCtx \in [inProgress : BOOLEAN, finishHandled : BOOLEAN,
                  error : {"none", "validation", "exchange"}, timeout : Timer]
    /\ period \in Timer /\ dmPeriod \in Timer /\ srvPeriod \in Timer
    /\ regTries \in Nat /\ bsTries \in Nat
    /\ srvStale \in BOOLEAN /\ deregTried \in BOOLEAN

\* An exchange is ongoing only while the client is where
\* _anj_srv_conn_handle_request() is called for it: none is left behind by a
\* change of status, and none is there when another one is started, which
\* exchange.c asserts (new_client_request and new_server_request).
ExchangeDriven ==
    exch # "none" =>
       \/ status = "registering" /\ reg.state = "register" /\ exch = "register"
       \/ /\ status = "bootstrapping" /\ bs.state = "in_progress"
          /\ exch \in {"bootstrap_request", "bootstrap_finish", "server_request"}
       \/ /\ Registered /\ sess.state \in {"exchange", "exiting_queue_mode"}
          /\ exch \in {"update", "deregister", "server_request", "send", "notify"}

\* connect and receive are never called while a message is half sent, which
\* _anj_srv_conn_connect() and _anj_srv_conn_receive() assert: whatever
\* interrupts a send, send_in_progress is cleared on the way.
SendOver ==
    /\ pc \in {"idle", "loop"} /\ ~TransitionForced
    /\ \/ status = "registering" /\ reg.state = "connection"
       \/ status = "bootstrapping" /\ bs.state = "connection"
       \/ Registered /\ sess.state = "idle"
    => ~conn.sending

\* The bootstrap context and the machine agree on whether a sequence is in
\* progress: a new request is sent after CONNECTION, and the result after
\* FINISH_DISCONNECT_AND_RETRY is the network error that the code asserts.
BootstrapSequence ==
    status = "bootstrapping" /\ pc \in {"idle", "loop"} /\ ~TransitionForced =>
        (bsCtx.inProgress <=>
            bs.state \in {"in_progress", "finish_disconnect_and_retry"})

\* The register context says FINISHED while the session works on any exchange
\* that is not a registration operation, as the comment in
\* EXCHANGE_IN_PROGRESS relies on: no earlier failed Update is seen again.
RegCtxSettled ==
    Registered /\ exch \in {"server_request", "send", "notify"} =>
        regCtx = "finished"

AtLeastOne(n) == IF n = 0 THEN 1 ELSE n

\* Every sequence makes max(1, RetryCount) attempts and there are
\* max(1, SeqRetryCount) of them before the registration is given up.
AllAttemptsMade ==
    status = "registering" /\ reg.state = "registration_failure" =>
        regTries = AtLeastOne(RetryCount) * AtLeastOne(SeqRetryCount)

\* The bootstrap is given up after the first attempt and BsRetryCount retries.
AllBootstrapAttemptsMade ==
    status = "bootstrapping" /\ bs.state = "error" => bsTries = BsRetryCount + 1

\* A change of the Object Instances is not forgotten while the client stays
\* registered: an Update with the list is due or under way, or the session is
\* about to end in a new Register.
InstancesReported ==
    Registered /\ view = "registered" /\ srvStale =>
       \/ sess.withPayload
       \/ exch = "update" /\ dmOp
       \/ sess.state = "disconnect"
       \/ sess.state = "exchange" /\ regCtx = "error"

\* The server knows the Lifetime that the client schedules its Updates by, or
\* is about to be told.
LifetimeReported ==
    Registered /\ view = "registered" /\ srvPeriod # period =>
        sess.withLifetime \/ sess.state = "disconnect"

\* A data model operation does not outlive its exchange, so the next one can
\* begin (_anj_dm_operation_begin() asserts it).
DmOpClosed == dmOp => exch # "none"

\* Whenever anj_core_step() is not running, the application has been told the
\* status that the client is in.
StatusTold == pc = "idle" => told = status

\* Whatever interrupts it - a timeout, an error, an API call from anywhere, a
\* shutdown - an operation leaves nothing behind that the next one would trip
\* over: no half-sent message, no exchange without a driver, no open data model
\* operation, no failed result of another exchange, and no status untold.
NothingLeftBehind ==
    /\ TypeOK /\ SendOver /\ ExchangeDriven /\ DmOpClosed
    /\ RegCtxSettled /\ StatusTold

\* A forced transition is dropped only by making it (or by a shutdown), and a
\* client that is left alone leaves the suspended mode only when the server's and
\* the application's timeouts have both expired.
TransitionsKept ==
    [][/\ TransitionForced /\ ~TransitionForced' =>
             status' = ForcedStatus \/ pc' = "down"
       /\ status = "suspended" /\ status' = "initial" /\ ~TransitionForced =>
             pc = "down" \/ (enableTime = 0 /\ enableTimeUser = 0)]_vars

\* A forced transition that finds the session's exchange cancelled and the
\* connection in order does not close the connection before a De-Register.
DeregisterFirst ==
    [][/\ Registered /\ TransitionForced /\ sess.state = "exchange"
       /\ exch = "none" /\ ~resend /\ sess'.state = "disconnect"
       => deregTried]_vars

\* A restart that is asked for happens, from wherever the client is.
RestartHappens ==
    flags.restart ~> (status = "initial" \/ pc \in {"shutdown", "down"})

\* Registering ends: the retries are exhausted at the latest.
RegisteringEnds ==
    status = "registering" ~> (status # "registering" \/ pc = "shutdown")
====

---------------------------------- MODULE Ntp ----------------------------------
(***************************************************************************)
(* The NTP client and its Object: ntp.c.  Steps of the machine, calls of   *)
(* the application (from its event callback too) and Writes of the server  *)
(* to the addresses and the period come in every order.                    *)
(***************************************************************************)
EXTENDS Naturals

CONSTANTS MaxAttempts,   \* config->attempts, 0 if not set
          MaxPeriod,     \* UINT32_MAX
          Periods,       \* values of the NTP Period Resource, in hours
          MaxSyncs       \* bound: synchronizations the application starts

ASSUME NtpAssumption ==
    /\ MaxAttempts \in Nat /\ MaxSyncs \in Nat /\ MaxPeriod \in Nat
    /\ Periods \subseteq 0..MaxPeriod

VARIABLES
    ntp,       \* anj_ntp_t without the Resources
    res,       \* the Resources: whether there is a backup server, the period
    cached,    \* their cached values, while a transaction is open
    elapsed,   \* hours since last_sync_time
    conn,      \* connection_ctx: whether there is a socket, send_in_progress
    \* History, read by the properties only:
    started, ended,   \* synchronizations, and final events
    tries,     \* connections of this one to the primary and the backup server
    steady,    \* the server has not touched the backup address meanwhile
    aborted    \* the application has terminated this one

history == <<started, ended, tries, steady, aborted>>
vars == <<ntp, res, cached, elapsed, conn, history>>

NetResults == {"ok", "inprogress", "error"}
Attempts == IF MaxAttempts = 0 THEN 1 ELSE MaxAttempts
NoTransaction == <<>>

Init ==
    /\ ntp = [state |-> "init", attempts |-> 0, usingBackup |-> FALSE,
              synchronized |-> FALSE, error |-> FALSE]
    /\ res \in [backup : BOOLEAN, period : Periods]
    /\ cached = NoTransaction /\ elapsed = 0
    /\ conn = [socket |-> FALSE, sending |-> FALSE]
    /\ started = 0 /\ ended = 0 /\ tries = [primary |-> 0, backup |-> 0]
    /\ steady = TRUE /\ aborted = FALSE

(***************************************************************************)
(* anj_ntp_start() and anj_ntp_terminate(), which the event callback may   *)
(* call as well.                                                           *)
(***************************************************************************)
Resting(n) == n.state \in {"init", "idle"}

\* The callback for IN_PROGRESS may terminate at once.
Start(n) ==
    /\ Resting(n) /\ started < MaxSyncs
    /\ \E state \in {"connecting", "disconnecting"} :
          ntp' = [n EXCEPT !.state = state, !.usingBackup = FALSE,
                           !.synchronized = FALSE, !.attempts = 0]
    /\ aborted' = (ntp'.state = "disconnecting")
    /\ started' = started + 1
    /\ tries' = [primary |-> 1, backup |-> 0] /\ steady' = TRUE

Terminated(n) == IF Resting(n) THEN n ELSE [n EXCEPT !.state = "disconnecting"]

\* What the application does in its callback.
Callback(n) ==
    \/ Start(n)
    \/ /\ ntp' \in {n, Terminated(n)}
       /\ UNCHANGED <<started, tries, steady, aborted>>

ApiStart ==
    Start(ntp) /\ UNCHANGED <<res, cached, elapsed, conn, ended>>

ApiTerminate ==
    /\ ntp' = Terminated(ntp) /\ aborted' = ~Resting(ntp)
    /\ UNCHANGED <<res, cached, elapsed, conn, started, ended, tries, steady>>

(***************************************************************************)
(* anj_ntp_step()                                                          *)
(***************************************************************************)
Goes(state) == ntp' = [ntp EXCEPT !.state = state]

StepInit ==
    /\ ntp.state = "init"
    /\ Callback([ntp EXCEPT !.state = "idle"])
    /\ UNCHANGED <<res, cached, elapsed, conn, ended>>

PeriodExceeded == res.period # 0 /\ elapsed >= res.period

StepIdle ==
    /\ ntp.state = "idle" /\ PeriodExceeded
    /\ elapsed' = 0
    /\ Callback(ntp)
    /\ UNCHANGED <<res, cached, conn, ended>>

StepConnecting(result) ==
    /\ ntp.state = "connecting"
    /\ \E created \in BOOLEAN :
          conn' = [conn EXCEPT !.socket = @ \/ created \/ result # "error"]
    /\ CASE result = "inprogress" -> UNCHANGED ntp
         [] result = "error" -> Goes("disconnecting")
         [] OTHER -> Goes("sending_request")
    /\ UNCHANGED <<res, cached, elapsed, history>>

StepSending(result) ==
    /\ ntp.state = "sending_request"
    /\ conn' = [conn EXCEPT !.sending = (result = "inprogress")]
    /\ CASE result = "inprogress" -> UNCHANGED ntp
         [] result = "error" -> Goes("disconnecting")
         [] OTHER -> Goes("waiting_response")
    /\ UNCHANGED <<res, cached, elapsed, history>>

\* The answer is too late, cannot be received or is too short.
StepNoResponse ==
    /\ ntp.state = "waiting_response"
    /\ Goes("disconnecting")
    /\ UNCHANGED <<res, cached, elapsed, conn, history>>

\* Mutant: the success is not kept for the disconnection.
StepResponseForgotten ==
    /\ ntp.state = "waiting_response"
    /\ ntp' = [ntp EXCEPT !.error = FALSE, !.state = "disconnecting"]
    /\ elapsed' = 0 /\ ended' = ended + 1
    /\ UNCHANGED <<res, cached, conn, started, tries, steady, aborted>>

\* finalize_ntp_synchronization(): what the callback does to the state is
\* overwritten.
StepResponse ==
    /\ ntp.state = "waiting_response"
    /\ ntp' = [ntp EXCEPT !.synchronized = TRUE, !.error = FALSE,
                          !.state = "disconnecting"]
    /\ elapsed' = 0 /\ ended' = ended + 1
    /\ UNCHANGED <<res, cached, conn, started, tries, steady, aborted>>

\* Counts up to one more than there should be.
Counted(k) == IF k > Attempts THEN k ELSE k + 1

\* Mutant: the attempts are not counted.
HandleRetriesUncounted ==
    LET n == ntp
        again == [n EXCEPT !.state = "connecting"]
    IN /\ elapsed' = 0
       /\ CASE n.attempts < Attempts ->
                 /\ ntp' = again
                 /\ tries' = IF ntp.usingBackup THEN [tries EXCEPT !.backup = Counted(@)]
                                                ELSE [tries EXCEPT !.primary = Counted(@)]
                 /\ UNCHANGED <<started, ended, steady, aborted>>
            [] n.attempts >= Attempts /\ ~ntp.usingBackup /\ res.backup ->
                 /\ ntp' = [again EXCEPT !.usingBackup = TRUE, !.attempts = 0]
                 /\ tries' = [tries EXCEPT !.backup = Counted(@)]
                 /\ UNCHANGED <<started, ended, steady, aborted>>
            [] OTHER ->
                 /\ Callback([n EXCEPT !.state = "idle", !.error = TRUE])
                 /\ ended' = ended + 1

\* Mutant: the last attempt is not made.
HandleRetriesOnceLess ==
    LET n == [ntp EXCEPT !.attempts = @ + 1]
        again == [n EXCEPT !.state = "connecting"]
    IN /\ elapsed' = 0
       /\ CASE n.attempts + 1 < Attempts ->
                 /\ ntp' = again
                 /\ tries' = IF ntp.usingBackup THEN [tries EXCEPT !.backup = Counted(@)]
                                                ELSE [tries EXCEPT !.primary = Counted(@)]
                 /\ UNCHANGED <<started, ended, steady, aborted>>
            [] n.attempts + 1 >= Attempts /\ ~ntp.usingBackup /\ res.backup ->
                 /\ ntp' = [again EXCEPT !.usingBackup = TRUE, !.attempts = 0]
                 /\ tries' = [tries EXCEPT !.backup = Counted(@)]
                 /\ UNCHANGED <<started, ended, steady, aborted>>
            [] OTHER ->
                 /\ Callback([n EXCEPT !.state = "idle", !.error = TRUE])
                 /\ ended' = ended + 1

HandleRetries ==
    LET n == [ntp EXCEPT !.attempts = @ + 1]
        again == [n EXCEPT !.state = "connecting"]
    IN /\ elapsed' = 0
       /\ CASE n.attempts < Attempts ->
                 /\ ntp' = again
                 /\ tries' = IF ntp.usingBackup THEN [tries EXCEPT !.backup = Counted(@)]
                                                ELSE [tries EXCEPT !.primary = Counted(@)]
                 /\ UNCHANGED <<started, ended, steady, aborted>>
            [] n.attempts >= Attempts /\ ~ntp.usingBackup /\ res.backup ->
                 /\ ntp' = [again EXCEPT !.usingBackup = TRUE, !.attempts = 0]
                 /\ tries' = [tries EXCEPT !.backup = Counted(@)]
                 /\ UNCHANGED <<started, ended, steady, aborted>>
            [] OTHER ->
                 /\ Callback([n EXCEPT !.state = "idle", !.error = TRUE])
                 /\ ended' = ended + 1

StepDisconnecting(closed) ==
    /\ ntp.state = "disconnecting"
    /\ closed = "ok" \/ conn.socket
    /\ conn' = [socket |-> closed = "inprogress", sending |-> FALSE]
    /\ CASE closed = "inprogress" ->
              UNCHANGED <<ntp, elapsed, history>>
         [] closed # "inprogress" /\ ntp.synchronized ->
              Goes("idle") /\ UNCHANGED <<elapsed, history>>
         [] OTHER -> HandleRetries
    /\ UNCHANGED <<res, cached>>

(***************************************************************************)
(* A Write of the server: its chunks may be several steps apart.           *)
(***************************************************************************)
TransactionBegin ==
    /\ cached = NoTransaction
    /\ cached' = <<res>>
    /\ UNCHANGED <<ntp, res, elapsed, conn, history>>

\* A value that is refused makes the transaction fail.
ResWrite ==
    /\ cached # NoTransaction
    /\ \/ \E b \in BOOLEAN : res' = [res EXCEPT !.backup = b]
       \/ \E p \in Periods \cup {MaxPeriod + 1} :
             p <= MaxPeriod /\ res' = [res EXCEPT !.period = p]
    /\ steady' = FALSE
    /\ UNCHANGED <<ntp, cached, elapsed, conn, started, ended, tries, aborted>>

TransactionEnd(success) ==
    /\ cached # NoTransaction
    /\ res' = IF success THEN res ELSE cached[1]
    /\ cached' = NoTransaction /\ steady' = FALSE
    /\ UNCHANGED <<ntp, elapsed, conn, started, ended, tries, aborted>>

HourPasses ==
    /\ \E p \in Periods : elapsed < p
    /\ elapsed' = elapsed + 1
    /\ UNCHANGED <<ntp, res, cached, conn, history>>

Step ==
    \/ StepInit \/ StepIdle
    \/ \E r \in NetResults :
          StepConnecting(r) \/ StepSending(r) \/ StepDisconnecting(r)
    \/ StepNoResponse \/ StepResponse

Next ==
    \/ Step \/ ApiStart \/ ApiTerminate \/ HourPasses
    \/ TransactionBegin \/ ResWrite
    \/ \E success \in BOOLEAN : TransactionEnd(success)

\* The application calls the step function again and again, and what the net
\* API has in progress comes to an end.
Progress ==
    \/ \E r \in NetResults \ {"inprogress"} :
          StepConnecting(r) \/ StepSending(r) \/ StepDisconnecting(r)
    \/ StepNoResponse \/ StepResponse

Spec == Init /\ [][Next]_vars /\ WF_vars(Progress)

(***************************************************************************)
(* Properties.                                                             *)
(***************************************************************************)
\* The types of the module's state.
TypeOK ==
    /\ ntp \in [state : {"init", "idle", "connecting", "sending_request",
                         "waiting_response", "disconnecting"},
               attempts : 0..Attempts, usingBackup : BOOLEAN,
               synchronized : BOOLEAN, error : BOOLEAN]
    /\ res \in [backup : BOOLEAN, period : Periods]
    /\ cached # NoTransaction => cached[1] \in [backup : BOOLEAN, period : Periods]
    /\ conn \in [socket : BOOLEAN, sending : BOOLEAN]
    /\ started \in 0..MaxSyncs /\ ended \in 0..MaxSyncs 
    /\ steady \in BOOLEAN /\ aborted \in BOOLEAN
    /\ tries \in [primary : 0..Attempts + 1, backup : 0..Attempts + 1]

\* Every synchronization that is started gets exactly one final event, also
\* when it is terminated or started from the callback: a successful one when
\* the answer comes, one with an error when the machine gives up.
OneFinalEvent ==
    /\ Resting(ntp) => ended = started
    /\ ~Resting(ntp) => ended = IF ntp.synchronized THEN started ELSE started - 1

\* A synchronization that the application does not terminate is given up only
\* after the primary server was tried as often as configured, and then the
\* backup server if there is one (and the server did not change that meanwhile).
GivesUpAfterAll ==
    [][ended' > ended /\ ntp.state = "disconnecting" /\ ~aborted =>
          /\ tries.primary = Attempts
          /\ steady => tries.backup = IF res.backup THEN Attempts ELSE 0]_vars

\* What ntp.h says of anj_ntp_terminate(), and what does not hold: that the
\* synchronization then ends with an error, without another connection.
TerminatedForGood == [][aborted /\ ntp'.state = "connecting" => started' > started]_vars

\* A connection is opened and read only when nothing is half sent on it, as
\* srv_conn.c asserts, and none is left open when the machine rests.
ConnectionReleased ==
    /\ ntp.state \in {"init", "idle"} => ~conn.socket
    /\ ntp.state \in {"init", "idle", "connecting", "waiting_response"} => ~conn.sending
    /\ ntp.state \in {"sending_request", "waiting_response"} => conn.socket

\* The machine is in order after every step and every call from the callback:
\* one final event per synchronization, and nothing held while it rests.
SyncInOrder == TypeOK /\ OneFinalEvent /\ ConnectionReleased

\* Every synchronization ends, whatever the network, the server and the
\* application do.
SyncEnds == \A k \in 1..MaxSyncs : started = k ~> ended >= k
=============================================================================

------------------------------- MODULE NtpProofs -------------------------------
(***************************************************************************)
(* The NTP client stays in order, and gives up only after every attempt,   *)
(* for every number of attempts, every set of periods and every number of  *)
(* synchronizations.                                                       *)
(***************************************************************************)
EXTENDS Ntp, TLAPS

NtpStates == {"init", "idle", "connecting", "sending_request", "waiting_response",
              "disconnecting"}

\* A synchronization on its way has attempts left, was counted when it was
\* started and has succeeded only once it is disconnecting.
OnItsWay ==
    ~Resting(ntp) =>
        /\ ntp.attempts < Attempts /\ started > 0
        /\ ntp.synchronized => ntp.state = "disconnecting"

\* The attempts that the machine counts are the connections that were tried,
\* the current one included: first those to the primary server.
TriesCounted ==
    ~Resting(ntp) /\ ~ntp.synchronized =>
        IF ntp.usingBackup
          THEN /\ tries.primary = Attempts /\ tries.backup = ntp.attempts + 1
               /\ steady => res.backup
          ELSE tries.primary = ntp.attempts + 1 /\ tries.backup = 0

NtpInv == SyncInOrder /\ OnItsWay /\ TriesCounted

\* What a step that gives a synchronization up has behind it.
GivenUpAfterAll ==
    ended' > ended /\ ntp.state = "disconnecting" /\ ~aborted =>
        /\ tries.primary = Attempts
        /\ steady => tries.backup = IF res.backup THEN Attempts ELSE 0

(***************************************************************************)
(* Types.                                                                  *)
(***************************************************************************)
NtpType ==
    [state : NtpStates, attempts : 0..Attempts, usingBackup : BOOLEAN,
     synchronized : BOOLEAN, error : BOOLEAN]
ResType == [backup : BOOLEAN, period : Periods]
ConnType == [socket : BOOLEAN, sending : BOOLEAN]
TriesType == [primary : 0..Attempts + 1, backup : 0..Attempts + 1]

\* TypeOK, piece by piece.
LEMMA Pieces ==
    TypeOK <=> /\ ntp \in NtpType /\ res \in ResType /\ conn \in ConnType
               /\ cached # NoTransaction => cached[1] \in ResType
               /\ started \in 0..MaxSyncs /\ ended \in 0..MaxSyncs
               /\ steady \in BOOLEAN /\ aborted \in BOOLEAN /\ tries \in TriesType
  BY Zenon DEF TypeOK, NtpType, NtpStates, ResType, ConnType, TriesType

\* There is at least one attempt.
LEMMA AnAttempt == Attempts \in Nat /\ Attempts >= 1
  BY NtpAssumption DEF Attempts

\* The count of connections stays in its bounds.
LEMMA CountedOk ==
    ASSUME NEW k \in 0..Attempts + 1
    PROVE  Counted(k) \in 0..Attempts + 1 /\ (k <= Attempts => Counted(k) = k + 1)
  BY AnAttempt DEF Counted

\* A state of the machine with another state.
LEMMA GoesType ==
    ASSUME NEW n \in NtpType, NEW state \in NtpStates
    PROVE  /\ [n EXCEPT !.state = state] \in NtpType
           /\ [n EXCEPT !.state = state].state = state
           /\ [n EXCEPT !.state = state].attempts = n.attempts
           /\ [n EXCEPT !.state = state].usingBackup = n.usingBackup
           /\ [n EXCEPT !.state = state].synchronized = n.synchronized
  BY DEF NtpType

\* The states in which the machine rests.
LEMMA RestingStates ==
    ASSUME NEW n \in NtpType
    PROVE  /\ Resting(n) <=> n.state \in {"init", "idle"}
           /\ ~Resting(n) <=> n.state \in {"connecting", "sending_request",
                                           "waiting_response", "disconnecting"}
  BY DEF NtpType, NtpStates, Resting

(***************************************************************************)
(* The calls of the application.                                           *)
(***************************************************************************)
\* A synchronization is started when every earlier one has had its event and
\* nothing is held.
LEMMA StartKeeps ==
    ASSUME NEW n \in NtpType, Start(n), started \in 0..MaxSyncs,
           ended' = started, res' \in ResType,
           cached' # NoTransaction => cached'[1] \in ResType,
           conn' \in ConnType, ~conn'.socket, ~conn'.sending
    PROVE  NtpInv'
<1>1. PICK state \in {"connecting", "disconnecting"} :
        ntp' = [n EXCEPT !.state = state, !.usingBackup = FALSE,
                         !.synchronized = FALSE, !.attempts = 0]
  BY DEF Start
<1>2. 0 \in 0..Attempts /\ 0 < Attempts
  BY AnAttempt
<1>3. /\ ntp' \in NtpType /\ ntp'.state = state /\ ntp'.attempts = 0
      /\ ntp'.usingBackup = FALSE /\ ntp'.synchronized = FALSE
  BY <1>1, <1>2 DEF NtpType, NtpStates
<1>4. started' = started + 1 /\ started < MaxSyncs /\ steady' = TRUE
      /\ aborted' = (ntp'.state = "disconnecting")
      /\ tries' = [primary |-> 1, backup |-> 0]
  BY DEF Start
<1>5. started' \in 0..MaxSyncs /\ ended' \in 0..MaxSyncs /\ started' > 0
      /\ ended' = started' - 1
  BY <1>4, NtpAssumption
<1>6. tries' \in TriesType /\ tries'.primary = 1 /\ tries'.backup = 0
  BY <1>4, AnAttempt DEF TriesType
<1>7. TypeOK'
  <2>1. steady' \in BOOLEAN /\ aborted' \in BOOLEAN
    BY <1>4, Zenon
  <2> QED BY <1>3, <1>5, <1>6, <2>1, Zenon
          DEF TypeOK, NtpType, NtpStates, ResType, ConnType, TriesType
<1>8. ~Resting(ntp)'
  BY <1>3 DEF Resting
<1>9. OneFinalEvent'
  BY <1>3, <1>5, <1>8 DEF OneFinalEvent
<1>10. ConnectionReleased'
  BY <1>3 DEF ConnectionReleased
<1>11. OnItsWay' /\ TriesCounted'
  BY <1>2, <1>3, <1>5, <1>6 DEF OnItsWay, TriesCounted
<1> QED BY <1>7, <1>9, <1>10, <1>11 DEF NtpInv, SyncInOrder

\* So does whatever the application does in its callback when the machine has
\* come to rest.
LEMMA CallbackKeeps ==
    ASSUME NEW n \in NtpType, Resting(n), Callback(n), TypeOK,
           ended' = started, res' \in ResType,
           cached' # NoTransaction => cached'[1] \in ResType,
           conn' \in ConnType, ~conn'.socket, ~conn'.sending
    PROVE  NtpInv'
<1>1. CASE Start(n)
  BY <1>1, StartKeeps, Pieces
<1>2. CASE ntp' = n /\ UNCHANGED <<started, tries, steady, aborted>>
  <2>1. TypeOK'
    BY <1>2, Zenon DEF TypeOK, NtpType, NtpStates, ResType, ConnType, TriesType
  <2>2. Resting(ntp)'
    BY <1>2 DEF Resting
  <2>3. OneFinalEvent' /\ OnItsWay' /\ TriesCounted'
    BY <1>2, <2>2 DEF OneFinalEvent, OnItsWay, TriesCounted
  <2>4. ConnectionReleased'
    BY <2>2 DEF ConnectionReleased, Resting
  <2> QED BY <2>1, <2>3, <2>4 DEF NtpInv, SyncInOrder
<1> QED BY <1>1, <1>2 DEF Callback, Terminated

\* A step from one state of a synchronization to another.
LEMMA GoesKeeps ==
    ASSUME NtpInv, ~Resting(ntp), NEW state \in NtpStates \ {"init", "idle"},
           Goes(state), ntp.synchronized => state = "disconnecting",
           UNCHANGED <<res, cached, started, ended, tries, steady>>, aborted' \in BOOLEAN,
           conn' \in ConnType, ConnectionReleased'
    PROVE  NtpInv'
<1>1. TypeOK /\ OneFinalEvent /\ OnItsWay /\ TriesCounted /\ ntp \in NtpType
  BY Pieces DEF NtpInv, SyncInOrder
<1>2. /\ ntp' \in NtpType /\ ntp'.state = state /\ ntp'.attempts = ntp.attempts
      /\ ntp'.usingBackup = ntp.usingBackup /\ ntp'.synchronized = ntp.synchronized
  BY <1>1, GoesType DEF Goes
<1>3. TypeOK'
  BY <1>1, <1>2, Zenon DEF TypeOK, NtpType, NtpStates, ResType, ConnType, TriesType
<1>4. ~Resting(ntp)'
  BY <1>2 DEF Resting
<1>5. OneFinalEvent' /\ OnItsWay' /\ TriesCounted'
  BY <1>1, <1>2, <1>4 DEF OneFinalEvent, OnItsWay, TriesCounted
<1> QED BY <1>3, <1>5 DEF NtpInv, SyncInOrder

\* Most steps neither start nor terminate anything.
LEMMA AbortedKept == ASSUME NtpInv, UNCHANGED aborted PROVE aborted' \in BOOLEAN
  BY Pieces, Zenon DEF NtpInv, SyncInOrder

LEMMA ApiStartKeeps == ASSUME NtpInv, ApiStart PROVE NtpInv'
<1>1. Resting(ntp) /\ TypeOK /\ OneFinalEvent /\ ConnectionReleased
  BY DEF ApiStart, Start, NtpInv, SyncInOrder
<1>2. ended = started /\ ~conn.socket /\ ~conn.sending
  BY <1>1 DEF OneFinalEvent, ConnectionReleased, Resting
<1> QED BY <1>1, <1>2, Pieces, StartKeeps DEF ApiStart

LEMMA ApiTerminateKeeps == ASSUME NtpInv, ApiTerminate PROVE NtpInv'
<1>0. aborted' \in BOOLEAN
  BY Zenon DEF ApiTerminate
<1>1. CASE Resting(ntp)
  <2>1. UNCHANGED <<ntp, res, cached, conn, started, ended, tries, steady>>
    BY <1>1 DEF ApiTerminate, Terminated
  <2>2. TypeOK'
    BY <1>0, <2>1, Zenon DEF NtpInv, SyncInOrder, TypeOK
  <2> QED BY <2>1, <2>2 DEF NtpInv, SyncInOrder, OneFinalEvent, Resting,
                            ConnectionReleased, OnItsWay, TriesCounted
<1>2. CASE ~Resting(ntp)
  <2>1. /\ Goes("disconnecting") /\ conn' \in ConnType
        /\ UNCHANGED <<res, cached, started, ended, tries, steady>>
    BY <1>2, Pieces DEF ApiTerminate, Terminated, Goes, NtpInv, SyncInOrder
  <2>2. ntp'.state = "disconnecting"
    BY <2>1, Pieces, GoesType DEF Goes, NtpStates, NtpInv, SyncInOrder
  <2>3. ConnectionReleased'
    BY <2>2 DEF ConnectionReleased
  <2> QED BY <1>0, <1>2, <2>1, <2>3, GoesKeeps DEF NtpStates
<1> QED BY <1>1, <1>2

(***************************************************************************)
(* The steps of the machine.                                               *)
(***************************************************************************)
LEMMA StepInitKeeps == ASSUME NtpInv, StepInit PROVE NtpInv'
<1> DEFINE n == [ntp EXCEPT !.state = "idle"]
<1>1. /\ ntp.state = "init" /\ TypeOK /\ OneFinalEvent /\ ConnectionReleased
      /\ ntp \in NtpType /\ Callback(n)
      /\ UNCHANGED <<res, cached, elapsed, conn, ended>>
  BY Pieces DEF StepInit, NtpInv, SyncInOrder
<1>2. n \in NtpType /\ Resting(n)
  BY <1>1, GoesType DEF NtpStates, Resting
<1>3. ended = started /\ ~conn.socket /\ ~conn.sending
  BY <1>1 DEF OneFinalEvent, ConnectionReleased, Resting
<1> HIDE DEF n
<1> QED BY <1>1, <1>2, <1>3, Pieces, CallbackKeeps

LEMMA StepIdleKeeps == ASSUME NtpInv, StepIdle PROVE NtpInv'
<1>1. /\ ntp.state = "idle" /\ TypeOK /\ OneFinalEvent /\ ConnectionReleased
      /\ ntp \in NtpType /\ Callback(ntp) /\ UNCHANGED <<res, cached, conn, ended>>
  BY Pieces DEF StepIdle, NtpInv, SyncInOrder
<1>2. Resting(ntp) /\ ended = started /\ ~conn.socket /\ ~conn.sending
  BY <1>1 DEF OneFinalEvent, ConnectionReleased, Resting
<1> QED BY <1>1, <1>2, Pieces, CallbackKeeps

\* A connection is there before anything is sent on it,
LEMMA StepConnectingKeeps ==
    ASSUME NtpInv, NEW result \in NetResults, StepConnecting(result) PROVE NtpInv'
<1>1. /\ ntp.state = "connecting" /\ ~Resting(ntp) /\ ~ntp.synchronized
      /\ ~conn.sending /\ ntp \in NtpType /\ conn \in ConnType
      /\ UNCHANGED <<res, cached, started, ended, tries, steady, aborted>>
  BY Pieces DEF StepConnecting, history, NtpInv, SyncInOrder, OnItsWay, ConnectionReleased, Resting
<1>2. PICK created \in BOOLEAN :
        conn' = [conn EXCEPT !.socket = @ \/ created \/ result # "error"]
  BY DEF StepConnecting
<1>3. conn' \in ConnType /\ ~conn'.sending /\ (result # "error" => conn'.socket)
  BY <1>1, <1>2 DEF ConnType
<1>4. PICK state \in {"connecting", "disconnecting", "sending_request"} :
        /\ Goes(state) /\ (state = "sending_request" => conn'.socket)
  <2>1. CASE result = "inprogress"
    <3>1. ntp' = ntp
      BY <2>1 DEF StepConnecting
    <3>2. Goes("connecting")
      BY <1>1, <3>1 DEF Goes, NtpType
    <3> QED BY <3>2
  <2>2. CASE result = "error"
    BY <2>2 DEF StepConnecting
  <2>3. CASE result = "ok"
    BY <1>3, <2>3 DEF StepConnecting
  <2> QED BY <2>1, <2>2, <2>3 DEF NetResults
<1>5. ntp'.state = state
  BY <1>1, <1>4, GoesType DEF Goes, NtpStates
<1>6. ConnectionReleased'
  BY <1>3, <1>4, <1>5 DEF ConnectionReleased
<1> QED BY <1>1, <1>3, <1>4, <1>6, AbortedKept, GoesKeeps DEF NtpStates

\* and nothing is half sent when an answer is awaited.
LEMMA StepSendingKeeps ==
    ASSUME NtpInv, NEW result \in NetResults, StepSending(result) PROVE NtpInv'
<1>1. /\ ntp.state = "sending_request" /\ ~Resting(ntp) /\ ~ntp.synchronized
      /\ conn.socket /\ ntp \in NtpType /\ conn \in ConnType
      /\ UNCHANGED <<res, cached, started, ended, tries, steady, aborted>>
  BY Pieces DEF StepSending, history, NtpInv, SyncInOrder, OnItsWay, ConnectionReleased, Resting
<1>2. conn' \in ConnType /\ conn'.socket /\ (conn'.sending <=> result = "inprogress")
  BY <1>1 DEF StepSending, ConnType
<1>3. PICK state \in {"sending_request", "disconnecting", "waiting_response"} :
        /\ Goes(state) /\ (state = "waiting_response" => ~conn'.sending)
  <2>1. CASE result = "inprogress"
    <3>1. ntp' = ntp
      BY <2>1 DEF StepSending
    <3>2. Goes("sending_request")
      BY <1>1, <3>1 DEF Goes, NtpType
    <3> QED BY <3>2
  <2>2. CASE result = "error"
    BY <2>2 DEF StepSending
  <2>3. CASE result = "ok"
    BY <1>2, <2>3 DEF StepSending
  <2> QED BY <2>1, <2>2, <2>3 DEF NetResults
<1>4. ntp'.state = state
  BY <1>1, <1>3, GoesType DEF Goes, NtpStates
<1>5. ConnectionReleased'
  BY <1>2, <1>3, <1>4 DEF ConnectionReleased
<1> QED BY <1>1, <1>2, <1>3, <1>5, AbortedKept, GoesKeeps DEF NtpStates

LEMMA StepNoResponseKeeps == ASSUME NtpInv, StepNoResponse PROVE NtpInv'
<1>1. /\ ntp.state = "waiting_response" /\ ~Resting(ntp) /\ ntp \in NtpType
      /\ conn' \in ConnType /\ Goes("disconnecting")
      /\ UNCHANGED <<res, cached, started, ended, tries, steady, aborted>>
  BY Pieces DEF StepNoResponse, history, NtpInv, SyncInOrder, Resting
<1>2. ntp'.state = "disconnecting"
  BY <1>1, GoesType DEF Goes, NtpStates
<1>3. ConnectionReleased'
  BY <1>2 DEF ConnectionReleased
<1> QED BY <1>1, <1>3, AbortedKept, GoesKeeps DEF NtpStates

\* The final event of a success.
LEMMA StepResponseKeeps == ASSUME NtpInv, StepResponse PROVE NtpInv'
<1>1. /\ ntp.state = "waiting_response" /\ ~Resting(ntp) /\ ntp \in NtpType
      /\ TypeOK /\ OneFinalEvent /\ OnItsWay /\ ~ntp.synchronized
  BY Pieces DEF StepResponse, NtpInv, SyncInOrder, Resting, OnItsWay
<1>2. /\ ntp' = [ntp EXCEPT !.synchronized = TRUE, !.error = FALSE,
                            !.state = "disconnecting"]
      /\ ended' = ended + 1 /\ UNCHANGED <<res, cached, conn, started, tries, steady, aborted>>
  BY DEF StepResponse
<1>3. /\ ntp' \in NtpType /\ ntp'.state = "disconnecting" /\ ntp'.synchronized
      /\ ntp'.attempts = ntp.attempts
  BY <1>1, <1>2 DEF NtpType, NtpStates
<1>4. ended' = started /\ started \in 0..MaxSyncs
  BY <1>1, <1>2, Pieces DEF OneFinalEvent
<1>5. TypeOK'
  BY <1>1, <1>2, <1>3, <1>4, Zenon
     DEF TypeOK, NtpType, NtpStates, ResType, ConnType, TriesType
<1>6. OneFinalEvent' /\ OnItsWay' /\ TriesCounted' /\ ConnectionReleased'
  BY <1>1, <1>2, <1>3, <1>4
     DEF OneFinalEvent, OnItsWay, TriesCounted, ConnectionReleased, Resting
<1> QED BY <1>5, <1>6 DEF NtpInv, SyncInOrder

\* A synchronization that failed: another attempt, the backup server, or the
\* final event with an error.
LEMMA HandleRetriesKeeps ==
    ASSUME NtpInv, ntp.state = "disconnecting", ~ntp.synchronized, HandleRetries,
           UNCHANGED <<res, cached>>, conn' \in ConnType, ~conn'.socket, ~conn'.sending
    PROVE  NtpInv' /\ GivenUpAfterAll
<1>1. /\ TypeOK /\ OneFinalEvent /\ OnItsWay /\ TriesCounted /\ ntp \in NtpType
      /\ ~Resting(ntp)
  BY Pieces DEF NtpInv, SyncInOrder, Resting
<1>2. /\ ntp.attempts \in 0..Attempts /\ ntp.attempts < Attempts /\ Attempts \in Nat
      /\ started \in 0..MaxSyncs /\ started > 0 /\ ended = started - 1
      /\ ntp.usingBackup \in BOOLEAN
      /\ tries \in TriesType /\ res \in ResType
  BY <1>1, AnAttempt, Pieces DEF OnItsWay, OneFinalEvent, NtpType
<1> DEFINE n == [ntp EXCEPT !.attempts = @ + 1]
<1>3. /\ n \in NtpType /\ n.attempts = ntp.attempts + 1 /\ n.state = "disconnecting"
      /\ n.usingBackup = ntp.usingBackup /\ ~n.synchronized
  <2>1. ntp.attempts + 1 \in 0..Attempts
    BY <1>2
  <2> QED BY <1>1, <2>1 DEF NtpType
<1>4. CASE n.attempts < Attempts
  <2>1. /\ ntp' = [n EXCEPT !.state = "connecting"] /\ UNCHANGED <<started, ended, steady, aborted>>
        /\ tries' = IF ntp.usingBackup THEN [tries EXCEPT !.backup = Counted(@)]
                                       ELSE [tries EXCEPT !.primary = Counted(@)]
    <3>1. ~(n.attempts >= Attempts)
      BY <1>2, <1>3, <1>4
    <3> QED BY <1>4, <3>1 DEF HandleRetries
  <2>2. /\ ntp' \in NtpType /\ ntp'.state = "connecting" /\ ntp'.attempts = ntp.attempts + 1
        /\ ntp'.usingBackup = ntp.usingBackup /\ ~ntp'.synchronized
    <3> HIDE DEF n
    <3> QED BY <1>3, <2>1, GoesType DEF NtpStates
  <2>3. /\ tries.primary \in 0..Attempts + 1 /\ tries.backup \in 0..Attempts + 1
    BY <1>2 DEF TriesType
  <2>4. /\ Counted(tries.primary) \in 0..Attempts + 1
        /\ Counted(tries.backup) \in 0..Attempts + 1
        /\ ntp.usingBackup => Counted(tries.backup) = ntp.attempts + 2
        /\ ~ntp.usingBackup => Counted(tries.primary) = ntp.attempts + 2
    <3>1. ntp.usingBackup => tries.backup = ntp.attempts + 1
      BY <1>1 DEF TriesCounted
    <3>2. ~ntp.usingBackup => tries.primary = ntp.attempts + 1
      BY <1>1 DEF TriesCounted
    <3> QED BY <1>2, <2>3, <3>1, <3>2, CountedOk
  <2>5. tries' \in TriesType
    BY <1>2, <2>1, <2>4 DEF TriesType
  <2>6. TypeOK'
    BY <1>1, <2>1, <2>2, <2>5, Zenon
       DEF TypeOK, NtpType, NtpStates, ResType, ConnType, TriesType
  <2>7. ~Resting(ntp)'
    BY <2>2 DEF Resting
  <2>8. OneFinalEvent' /\ OnItsWay' /\ ConnectionReleased'
    BY <1>2, <1>3, <1>4, <2>1, <2>2, <2>7 DEF OneFinalEvent, OnItsWay, ConnectionReleased
  <2>9. TriesCounted'
    <3>1. CASE ntp.usingBackup
      <4>1. tries'.primary = tries.primary /\ tries'.backup = ntp.attempts + 2
        BY <1>2, <2>1, <2>4, <3>1 DEF TriesType
      <4> QED BY <1>1, <1>2, <2>1, <2>2, <3>1, <4>1 DEF TriesCounted
    <3>2. CASE ~ntp.usingBackup
      <4>1. tries'.primary = ntp.attempts + 2 /\ tries'.backup = tries.backup
        BY <1>2, <2>1, <2>4, <3>2 DEF TriesType
      <4> QED BY <1>1, <1>2, <2>1, <2>2, <3>2, <4>1 DEF TriesCounted
    <3> QED BY <3>1, <3>2
  <2>10. GivenUpAfterAll
    BY <1>2, <2>1 DEF GivenUpAfterAll
  <2> QED BY <2>6, <2>8, <2>9, <2>10 DEF NtpInv, SyncInOrder
<1>5. CASE n.attempts >= Attempts /\ ~ntp.usingBackup /\ res.backup
  <2>1. /\ ntp' = [[n EXCEPT !.state = "connecting"] EXCEPT !.usingBackup = TRUE,
                                                             !.attempts = 0]
        /\ UNCHANGED <<started, ended, steady, aborted>>
        /\ tries' = [tries EXCEPT !.backup = Counted(@)]
    <3>1. ~(n.attempts < Attempts)
      BY <1>2, <1>3, <1>5
    <3> QED BY <1>5, <3>1 DEF HandleRetries
  <2>2. /\ ntp' \in NtpType /\ ntp'.state = "connecting" /\ ntp'.attempts = 0
        /\ ntp'.usingBackup /\ ~ntp'.synchronized
    <3>1. 0 \in 0..Attempts
      BY <1>2
    <3> HIDE DEF n
    <3> QED BY <1>3, <2>1, <3>1 DEF NtpType, NtpStates
  <2>3. /\ tries.primary = Attempts /\ tries.backup = 0 /\ ntp.attempts + 1 = Attempts
    BY <1>1, <1>2, <1>3, <1>5 DEF TriesCounted
  <2>4. Counted(0) = 1 /\ 1 \in 0..Attempts + 1
    BY <1>2, AnAttempt, CountedOk
  <2>5. tries' \in TriesType /\ tries'.primary = Attempts /\ tries'.backup = 1
    BY <1>2, <2>1, <2>3, <2>4 DEF TriesType
  <2>6. TypeOK'
    BY <1>1, <2>1, <2>2, <2>5, Zenon
       DEF TypeOK, NtpType, NtpStates, ResType, ConnType, TriesType
  <2>7. ~Resting(ntp)'
    BY <2>2 DEF Resting
  <2>8. OneFinalEvent' /\ OnItsWay' /\ ConnectionReleased' /\ TriesCounted'
    BY <1>2, <1>5, <2>1, <2>2, <2>5, <2>7
       DEF OneFinalEvent, OnItsWay, ConnectionReleased, TriesCounted
  <2>9. GivenUpAfterAll
    BY <1>2, <2>1 DEF GivenUpAfterAll
  <2> QED BY <2>6, <2>8, <2>9 DEF NtpInv, SyncInOrder
<1>6. CASE ~(n.attempts < Attempts) /\ (ntp.usingBackup \/ ~res.backup)
  <2> DEFINE m == [n EXCEPT !.state = "idle", !.error = TRUE]
  <2>1. Callback(m) /\ ended' = ended + 1
    BY <1>6 DEF HandleRetries
  <2>2. m \in NtpType /\ Resting(m)
    <3> HIDE DEF n
    <3> QED BY <1>3 DEF NtpType, NtpStates, Resting
  <2>3. ended' = started
    BY <1>2, <2>1
  <2>4. NtpInv'
    <3> HIDE DEF m
    <3> QED BY <1>1, <2>1, <2>2, <2>3, Pieces, CallbackKeeps
  <2>5. ntp.attempts + 1 = Attempts
    BY <1>2, <1>3, <1>6
  <2>6. /\ tries.primary = Attempts
        /\ steady => tries.backup = IF res.backup THEN Attempts ELSE 0
    BY <1>1, <1>6, <2>5 DEF TriesCounted
  <2> QED BY <2>4, <2>6 DEF GivenUpAfterAll
<1> QED BY <1>2, <1>3, <1>4, <1>5, <1>6

LEMMA StepDisconnectingKeeps ==
    ASSUME NtpInv, NEW closed \in NetResults, StepDisconnecting(closed)
    PROVE  NtpInv' /\ GivenUpAfterAll
<1>1. /\ ntp.state = "disconnecting" /\ ~Resting(ntp) /\ ntp \in NtpType
      /\ conn' = [socket |-> closed = "inprogress", sending |-> FALSE]
      /\ UNCHANGED <<res, cached>> /\ TypeOK /\ OneFinalEvent
  BY Pieces DEF StepDisconnecting, NtpInv, SyncInOrder, Resting
<1>2. /\ conn' \in ConnType /\ ~conn'.sending /\ (conn'.socket <=> closed = "inprogress")
  BY <1>1 DEF ConnType
<1>3. started \in Nat /\ ended \in Nat
  BY <1>1, Pieces, NtpAssumption
<1>4. CASE closed = "inprogress"
  <2>1. UNCHANGED <<ntp, started, ended, tries, steady, aborted>>
    BY <1>4 DEF StepDisconnecting, history
  <2>2. Goes("disconnecting")
    BY <1>1, <2>1 DEF Goes, NtpType
  <2>3. ConnectionReleased'
    BY <1>1, <2>1 DEF ConnectionReleased
  <2>4. NtpInv'
    BY <1>1, <1>2, <2>1, <2>2, <2>3, AbortedKept, GoesKeeps DEF NtpStates
  <2> QED BY <1>3, <2>1, <2>4 DEF GivenUpAfterAll
<1>5. CASE closed # "inprogress" /\ ntp.synchronized
  <2>1. Goes("idle") /\ UNCHANGED <<started, ended, tries, steady, aborted>>
    BY <1>5 DEF StepDisconnecting, history
  <2>2. ntp' \in NtpType /\ ntp'.state = "idle"
    BY <1>1, <2>1, GoesType DEF Goes, NtpStates
  <2>3. Resting(ntp)' /\ ended = started
    BY <1>1, <1>5, <2>2 DEF Resting, OneFinalEvent
  <2>4. TypeOK'
    BY <1>1, <1>2, <2>1, <2>2, Zenon
       DEF TypeOK, NtpType, NtpStates, ResType, ConnType, TriesType
  <2>5. OneFinalEvent' /\ OnItsWay' /\ TriesCounted' /\ ConnectionReleased'
    BY <1>2, <1>5, <2>1, <2>2, <2>3
       DEF OneFinalEvent, OnItsWay, TriesCounted, ConnectionReleased
  <2> QED BY <1>3, <2>1, <2>4, <2>5 DEF NtpInv, SyncInOrder, GivenUpAfterAll
<1>6. CASE closed # "inprogress" /\ ~ntp.synchronized
  <2>1. HandleRetries
    BY <1>6 DEF StepDisconnecting
  <2> QED BY <1>1, <1>2, <1>6, <2>1, HandleRetriesKeeps
<1> QED BY <1>4, <1>5, <1>6

(***************************************************************************)
(* The Writes of the server.                                               *)
(***************************************************************************)
\* Whatever they do to the Resources, the machine is where it was.
LEMMA WriteKeeps ==
    ASSUME NtpInv, UNCHANGED <<ntp, conn, started, ended, tries, aborted>>, res' \in ResType,
           cached' # NoTransaction => cached'[1] \in ResType,
           \/ steady' = FALSE
           \/ UNCHANGED <<res, steady>>
    PROVE  NtpInv'
<1>1. steady' \in BOOLEAN
  BY Pieces, Zenon DEF NtpInv, SyncInOrder
<1>2. TypeOK'
  BY <1>1, Zenon
     DEF NtpInv, SyncInOrder, TypeOK, NtpType, NtpStates, ResType, ConnType, TriesType
<1>3. OneFinalEvent' /\ OnItsWay' /\ ConnectionReleased'
  BY DEF NtpInv, SyncInOrder, OneFinalEvent, OnItsWay, ConnectionReleased, Resting
<1>4. TriesCounted'
  BY DEF NtpInv, TriesCounted, Resting
<1> QED BY <1>2, <1>3, <1>4 DEF NtpInv, SyncInOrder

LEMMA TransactionKeeps ==
    ASSUME NtpInv,
           \/ TransactionBegin \/ ResWrite \/ HourPasses
           \/ \E success \in BOOLEAN : TransactionEnd(success)
    PROVE  NtpInv'
<1>1. res \in ResType /\ (cached # NoTransaction => cached[1] \in ResType)
  BY Pieces DEF NtpInv, SyncInOrder
<1>2. CASE TransactionBegin
  <2>1. cached' = <<res>> /\ UNCHANGED <<ntp, res, conn, started, ended, tries, steady, aborted>>
    BY <1>2 DEF TransactionBegin, history
  <2>2. cached'[1] \in ResType
    BY <1>1, <2>1
  <2> QED BY <1>1, <2>1, <2>2, WriteKeeps
<1>3. CASE ResWrite
  <2>1. UNCHANGED <<ntp, cached, conn, started, ended, tries, aborted>> /\ steady' = FALSE
    BY <1>3 DEF ResWrite
  <2>2. ASSUME NEW p \in Periods \cup {MaxPeriod + 1}, p <= MaxPeriod PROVE p \in Periods
    BY <2>2, NtpAssumption
  <2>3. res' \in ResType
    BY <1>1, <1>3, <2>2 DEF ResWrite, ResType
  <2> QED BY <1>1, <2>1, <2>3, WriteKeeps
<1>4. CASE HourPasses
  <2>1. UNCHANGED <<ntp, res, cached, conn, started, ended, tries, steady, aborted>>
    BY <1>4 DEF HourPasses, history
  <2> QED BY <1>1, <2>1, WriteKeeps
<1>5. CASE \E success \in BOOLEAN : TransactionEnd(success)
  <2>1. /\ UNCHANGED <<ntp, conn, started, ended, tries, aborted>> /\ steady' = FALSE
        /\ cached' = NoTransaction /\ res' \in ResType
    BY <1>1, <1>5 DEF TransactionEnd
  <2> QED BY <2>1, WriteKeeps
<1> QED BY <1>2, <1>3, <1>4, <1>5

(***************************************************************************)
(* Every step.                                                             *)
(***************************************************************************)
LEMMA InitInv == Init => NtpInv
<1> SUFFICES ASSUME Init PROVE NtpInv
  OBVIOUS
<1>1. /\ ntp = [state |-> "init", attempts |-> 0, usingBackup |-> FALSE,
                synchronized |-> FALSE, error |-> FALSE]
      /\ conn = [socket |-> FALSE, sending |-> FALSE] /\ res \in ResType
      /\ cached = NoTransaction /\ started = 0 /\ ended = 0
      /\ tries = [primary |-> 0, backup |-> 0]
  BY DEF Init, ResType
<1>2. 0 \in 0..Attempts /\ 0 \in 0..Attempts + 1 /\ 0 \in 0..MaxSyncs
  BY AnAttempt, NtpAssumption
<1>3. ntp \in NtpType /\ conn \in ConnType /\ tries \in TriesType
  BY <1>1, <1>2 DEF NtpType, NtpStates, ConnType, TriesType
<1>4. steady \in BOOLEAN /\ aborted \in BOOLEAN
  BY Zenon DEF Init
<1>5. TypeOK
  BY <1>1, <1>2, <1>3, <1>4, Pieces
<1>6. OneFinalEvent /\ ConnectionReleased /\ OnItsWay /\ TriesCounted
  BY <1>1 DEF OneFinalEvent, ConnectionReleased, OnItsWay, TriesCounted, Resting
<1> QED BY <1>5, <1>6 DEF NtpInv, SyncInOrder

\* Only the two steps that give a final event count one.
LEMMA EndedGrows ==
    ASSUME NtpInv, [Next]_vars, ntp.state = "disconnecting", ended' # ended
    PROVE  \E closed \in NetResults : StepDisconnecting(closed)
  BY Zenon DEF Next, Step, StepInit, StepIdle, StepConnecting, StepSending, StepNoResponse,
               StepResponse, ApiStart, ApiTerminate, HourPasses, TransactionBegin,
               ResWrite, TransactionEnd, vars, history

LEMMA NextKeeps == ASSUME NtpInv, [Next]_vars PROVE NtpInv' /\ GivenUpAfterAll
<1>1. ASSUME NEW closed \in NetResults, StepDisconnecting(closed)
      PROVE  NtpInv' /\ GivenUpAfterAll
  BY <1>1, StepDisconnectingKeeps
<1>2. ASSUME ~\E closed \in NetResults : StepDisconnecting(closed)
      PROVE  GivenUpAfterAll
  <2>1. ended \in Nat
    BY Pieces, NtpAssumption DEF NtpInv, SyncInOrder
  <2> QED BY <1>2, <2>1, EndedGrows DEF GivenUpAfterAll
<1>3. ASSUME UNCHANGED vars PROVE NtpInv'
  BY <1>3, Pieces, WriteKeeps, Zenon DEF vars, history, NtpInv, SyncInOrder
<1>4. ASSUME NEW r \in NetResults, StepConnecting(r) \/ StepSending(r) PROVE NtpInv'
  BY <1>4, StepConnectingKeeps, StepSendingKeeps
<1>5. ASSUME StepInit \/ StepIdle \/ StepNoResponse \/ StepResponse PROVE NtpInv'
  BY <1>5, StepInitKeeps, StepIdleKeeps, StepNoResponseKeeps, StepResponseKeeps, Zenon
<1>6. ASSUME ApiStart \/ ApiTerminate PROVE NtpInv'
  BY <1>6, ApiStartKeeps, ApiTerminateKeeps, Zenon
<1>7. ASSUME \/ HourPasses \/ TransactionBegin \/ ResWrite
             \/ \E success \in BOOLEAN : TransactionEnd(success)
      PROVE  NtpInv'
  BY <1>7, TransactionKeeps, Zenon
<1>8. NtpInv'
  BY <1>1, <1>3, <1>4, <1>5, <1>6, <1>7, Zenon DEF Next, Step
<1> QED BY <1>1, <1>2, <1>8, Zenon

\* The NTP client is in order after every step of the machine, every call of
\* the application, from its callback too, and every Write of the server, for
\* every configuration: each synchronization gets one final event, and nothing
\* is held or half sent while the machine rests (ntp.c).
THEOREM SyncAlwaysInOrder == Spec => []SyncInOrder
<1>1. NtpInv => SyncInOrder
  BY DEF NtpInv
<1> QED BY <1>1, InitInv, NextKeeps, PTL DEF Spec

\* It gives a synchronization that was not terminated up only after the
\* configured number of attempts with the primary server, and with the backup
\* server if there was one all the time, for every number of attempts
\* (handle_retries() of ntp.c).
THEOREM AlwaysGivesUpAfterAll == Spec => GivesUpAfterAll
<1>1. NtpInv /\ [Next]_vars => GivenUpAfterAll
  BY NextKeeps
<1>2. NtpInv /\ [Next]_vars => NtpInv'
  BY NextKeeps
<1>3. [GivenUpAfterAll]_vars <=>
        [ended' > ended /\ ntp.state = "disconnecting" /\ ~aborted =>
           /\ tries.primary = Attempts
           /\ steady => tries.backup = IF res.backup THEN Attempts ELSE 0]_vars
  BY DEF GivenUpAfterAll
<1> QED BY <1>1, <1>2, <1>3, InitInv, PTL DEF Spec, GivesUpAfterAll
=============================================================================

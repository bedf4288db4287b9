------------------------------- MODULE Lwm2mSend -------------------------------
(***************************************************************************)
(* lwm2m_send.c: the queue of LwM2M Send requests, its use of the exchange *)
(* module and of the registration session, and the application, which may  *)
(* call the API again from the finish handler of a request.                *)
(*                                                                         *)
(* The call stack is explicit, innermost frame first: a handler that runs, *)
(* with what the library does when it returns, or the loop over the slots  *)
(* of anj_send_abort(ANJ_SEND_ID_ALL).  A step is all the code between two *)
(* points at which the application can act.                                *)
(*                                                                         *)
(* Slots are numbered from 1.  The size of a record is in bytes of its     *)
(* encoded form.                                                           *)
(***************************************************************************)
EXTENDS Integers, Sequences, FiniteSets, FiniteSetsExt

CONSTANTS QueueSize,       \* ANJ_LWM2M_SEND_QUEUE_SIZE
          IdAll,           \* ANJ_SEND_ID_ALL, UINT16_MAX
          BlockSize,       \* payload bytes of a block
          Kinds,           \* the requests of the application
          FirstCounter,    \* send_id_counter after earlier requests
          HandlerLeaves,   \* a handler calls anj_core_restart() and the like
          HandlerQueues,   \* a handler queues a request during the shutdown
          MaxRequests,     \* bound: requests that are accepted
          MaxDepth         \* bound: nested calls

ASSUME SendAssumption ==
    /\ QueueSize \in Nat \ {0} /\ IdAll \in Nat \ {0, 1}
    /\ BlockSize \in Nat \ {0} /\ MaxRequests \in Nat
    /\ FirstCounter \in 0 .. IdAll - 1 /\ HandlerLeaves \in BOOLEAN
    /\ HandlerQueues \in BOOLEAN
    /\ MaxDepth \in Nat

VARIABLES ids, reqs,         \* the slots: id, 0 when free, and requests_queue:
                             \* its number and what it asks for
          active,            \* active_exchange
          aborting,          \* abort_in_progress
          counter,           \* send_id_counter
          opCount, left,     \* op_count, and what is left of that record:
                             \* data_to_copy is left > 0
          more,              \* the exchange has asked for another block
          exchange,          \* the exchange that is on: "none", "send", "other"
          session,           \* the registration session
          mute,              \* server_instance.mute_send
          stack,             \* the calls that have not returned
          accepted,          \* history: requests accepted
          told,              \* history: how each ended, for its handler
          out,               \* history: payload bytes made of the active one
          open,              \* records whose external data are open
          mark               \* history: requests accepted before the last
                             \* loop that aborts all

ctx == <<ids, reqs, active, aborting, counter, opCount, left>>
env == <<more, exchange, session, mute>>
hist == <<accepted, told, out, open>>
vars == <<ctx, env, stack, hist, mark>>

Slots == 1 .. QueueSize
Requests == 1 .. MaxRequests
Empty == [n |-> 0, kind |-> [format |-> "none", records |-> <<>>]]

Free(slot) == ids[slot] = 0

Init ==
    /\ ids = [i \in Slots |-> 0] /\ reqs = [i \in Slots |-> Empty]
    /\ active = FALSE /\ aborting = FALSE /\ counter = FirstCounter
    /\ opCount = 0 /\ left = 0 /\ more = FALSE
    /\ exchange = "none" /\ session = "registering" /\ mute = FALSE
    /\ stack = <<>>
    /\ accepted = 0 /\ told = [r \in Requests |-> <<>>] /\ out = 0 /\ open = {}
    /\ mark = 0
--------------------------------------------------------------------------------
\* The application runs: it is not in a call, or in a finish handler.
InHandler == stack # <<>> /\ Head(stack).kind = "handler"
AppRuns == stack = <<>> \/ (InHandler /\ Len(stack) < MaxDepth)

Handler(then, slot) == [kind |-> "handler", then |-> then, slot |-> slot]
AbortLoop == [kind |-> "loop", then |-> "loop", slot |-> 0]
AbortCall == [kind |-> "abort", then |-> "abort", slot |-> 0]
CloseCall == [kind |-> "close", then |-> "close", slot |-> 0]

ShuttingDown == stack # <<>> /\ stack[Len(stack)] = CloseCall

\* What a handler is told: success, abort or one of the errors.
Tell(r, result) ==
    LET end == IF result \in {"success", "abort"} THEN result ELSE "error"
    IN told' = [told EXCEPT ![r] = Append(@, end)]

\* _anj_core_client_registered()
Registered == session \in {"registered", "leaving"}

\* The checks of anj_send_new_request() on its argument.
ValidRequest(k) ==
    /\ k.records # <<>>
    /\ \A i \in DOMAIN k.records : Len(k.records[i].path) >= 3
    /\ k.format = "lwm2m_cbor" =>
          \A i, j \in DOMAIN k.records :
              i # j => k.records[i].path # k.records[j].path

NextId == IF (counter + 1) % (IdAll + 1) \in {0, IdAll} THEN 1 ELSE counter + 1

NewRequest(k) ==
    /\ AppRuns /\ accepted < MaxRequests
    /\ ShuttingDown => HandlerQueues
    /\ ValidRequest(k) /\ Registered /\ ~mute
    /\ \E slot \in Slots :
          /\ Free(slot) /\ \A i \in 1 .. slot - 1 : ~Free(i)
          /\ ids' = [ids EXCEPT ![slot] = NextId]
          /\ reqs' = [reqs EXCEPT ![slot] = [n |-> accepted + 1, kind |-> k]]
    /\ counter' = NextId
    /\ accepted' = accepted + 1
    /\ UNCHANGED <<active, aborting, opCount, left, env, stack, told, out, open>>
--------------------------------------------------------------------------------
SendResult(result) ==
    CASE result \in {"success", "timeout", "network"} -> result
      [] result = "terminated" -> "abort"
      [] result \in {"request", "protocol"} -> "internal"
      [] OTHER -> "rejected"

\* The slots after one, without it.
Shifted(f, slot, free) ==
    [i \in Slots |-> IF i < slot THEN f[i]
                     ELSE IF i < QueueSize THEN f[i + 1] ELSE free]

\* send_completion_callback(), up to the call of the handler.
Completion(result, then, rest) ==
    LET records == reqs[1].kind.records
    IN /\ ids' = Shifted(ids, 1, 0) /\ reqs' = Shifted(reqs, 1, Empty)
       /\ active' = FALSE /\ opCount' = 0 /\ left' = 0 /\ more' = FALSE
       /\ Tell(reqs[1].n, SendResult(result))
       /\ open' = IF opCount # 0 /\ result # "success" /\ left > 0
                     /\ records[opCount].external
                    THEN open \ {opCount} ELSE open
       /\ out' = 0
       /\ stack' = <<Handler(then, 0)>> \o rest
       /\ UNCHANGED <<aborting, counter, accepted>>

\* _anj_exchange_terminate(); the state of the exchange changes only after the
\* completion handler has returned.
Terminate(rest) ==
    CASE exchange = "none"  -> /\ stack' = rest
                               /\ UNCHANGED <<ctx, more, exchange, hist>>
      [] exchange = "other" -> /\ exchange' = "none" /\ stack' = rest
                               /\ UNCHANGED <<ctx, more, hist>>
      [] exchange = "send"  -> /\ Completion("terminated", "finalize", rest)
                               /\ UNCHANGED exchange

\* anj_send_abort(ANJ_SEND_ID_ALL)
AbortAll(rest) ==
    IF aborting \/ Free(1)
      THEN stack' = rest /\ UNCHANGED <<ctx, more, exchange, hist>>
      ELSE IF active
        THEN Terminate(<<AbortLoop>> \o rest)
        ELSE /\ stack' = <<AbortLoop>> \o rest
             /\ UNCHANGED <<ctx, more, exchange, hist>>

\* Its loop goes on at a slot: the next handler, or the end.
Loop(from, now, rest) ==
    LET used == {i \in from .. QueueSize : now[i] # 0}
    IN \/ used = {} /\ aborting' = FALSE /\ stack' = rest /\ UNCHANGED told
       \/ \E slot \in used :
             /\ \A i \in used : slot <= i
             /\ aborting' = TRUE
             /\ stack' = <<Handler("slot", slot)>> \o rest
             /\ Tell(reqs[slot].n, "abort")

\* Mutant of AbortQueued: the slot is cleared and the ones behind it stay.
AbortQueuedInPlace(slot, rest) ==
    /\ ids' = [ids EXCEPT ![slot] = 0] /\ reqs' = [reqs EXCEPT ![slot] = Empty]
    /\ Tell(reqs[slot].n, "abort")
    /\ stack' = <<Handler("return", 0)>> \o rest
    /\ UNCHANGED <<active, aborting, counter, opCount, left, more, exchange,
                   accepted, out, open>>

\* Mutant of AbortQueued: the request is removed and its handler not called.
AbortQueuedSilently(slot, rest) ==
    /\ ids' = Shifted(ids, slot, 0) /\ reqs' = Shifted(reqs, slot, Empty)
    /\ stack' = rest
    /\ UNCHANGED <<active, aborting, counter, opCount, left, more, exchange,
                   accepted, told, out, open>>

\* anj_send_abort() of one request that is not being sent.
AbortQueued(slot, rest) ==
    /\ ids' = Shifted(ids, slot, 0) /\ reqs' = Shifted(reqs, slot, Empty)
    /\ Tell(reqs[slot].n, "abort")
    /\ stack' = <<Handler("return", 0)>> \o rest
    /\ UNCHANGED <<active, aborting, counter, opCount, left, more, exchange,
                   accepted, out, open>>

AbortOne(id, rest) ==
    /\ ~aborting /\ ~Free(1)
    /\ IF active /\ ids[1] = id
         THEN Terminate(rest)
         ELSE \E slot \in Slots : ids[slot] = id /\ AbortQueued(slot, rest)

\* anj_send_abort() of an id of the queue; that of another one does nothing.
Abort(id) ==
    /\ AppRuns
    /\ AbortOne(id, stack)
    /\ UNCHANGED <<session, mute>>

\* anj_send_abort(ANJ_SEND_ID_ALL), by the application.
AppAbortAll ==
    /\ AppRuns /\ ~aborting /\ ~Free(1)
    /\ AbortAll(stack)
    /\ UNCHANGED <<session, mute>>

\* The loop of anj_send_abort() begins.
BeginLoop ==
    /\ stack # <<>> /\ Head(stack).kind = "loop"
    /\ Loop(1, ids, Tail(stack))
    /\ UNCHANGED <<ids, reqs, active, counter, opCount, left, env, accepted, out, open>>

\* anj_core_shutdown() goes on, to abort what is queued.
BeginAbort ==
    /\ stack # <<>> /\ Head(stack).kind = "abort"
    /\ AbortAll(Tail(stack))
    /\ UNCHANGED <<session, mute>>

\* The finish handler returns.
Return ==
    /\ InHandler
    /\ LET top == Head(stack)
       IN \/ /\ top.then = "slot"
             /\ ids' = [ids EXCEPT ![top.slot] = 0]
             /\ reqs' = [reqs EXCEPT ![top.slot] = Empty]
             /\ Loop(top.slot + 1, ids', Tail(stack))
             /\ UNCHANGED <<active, counter, opCount, left, env, accepted, out, open>>
          \/ /\ top.then # "slot"
             /\ stack' = Tail(stack)
             /\ exchange' = IF top.then \in {"finalize", "finalize_leave"}
                              THEN "none" ELSE exchange
             /\ session' = IF top.then \in {"leave", "finalize_leave"}
                             THEN "leaving" ELSE session
             /\ UNCHANGED <<ctx, more, mute, hist>>
--------------------------------------------------------------------------------
\* The loop of send_read_payload(), in a record of which rest is left: what is
\* read of the records into a block.
ReadFrom(records, opFirst, restFirst) ==
    LET sizes == {records[i].size : i \in DOMAIN records}
        read[op \in 0 .. Len(records), rest \in 0 .. Max(sizes), room \in 0 .. BlockSize,
             held \in SUBSET (1 .. Len(records))] ==
            LET entry == IF rest = 0 THEN op + 1 ELSE op
                size  == IF rest = 0 THEN records[entry].size ELSE rest
                held1 == IF records[entry].external THEN held \cup {entry} ELSE held
            IN IF size > room
                 THEN [op |-> entry, left |-> size - room, room |-> 0,
                       more |-> TRUE, open |-> held1]
                 ELSE IF entry = Len(records) \/ size = room
                   THEN [op |-> entry, left |-> 0, room |-> room - size,
                         more |-> entry < Len(records), open |-> held1 \ {entry}]
                   ELSE read[entry, 0, room - size, held1 \ {entry}]
    IN read[opFirst, restFirst, BlockSize, open]

\* Mutant of ReadPayload: a record cut by the end of a block is not resumed.
ReadPayloadAnew(records) ==
    ReadFrom(records, opCount, IF opCount < Len(records) THEN 0 ELSE left)

ReadPayload(records) == ReadFrom(records, opCount, left)

\* A block is read; an external source that fails has been closed.
Block(records, first) ==
    LET b == ReadPayload(records)
    IN /\ opCount' = b.op /\ left' = b.left /\ more' = b.more /\ open' = b.open
       /\ out' = first + BlockSize - b.room

\* _anj_lwm2m_send_process() and handle_send(), in a step of the session with
\* no exchange on.
Idle == stack = <<>> /\ session = "registered" /\ exchange = "none"

ProcessMuted ==
    /\ Idle /\ ~Free(1) /\ mute
    /\ AbortAll(<<>>)
    /\ UNCHANGED <<session, mute>>

\* _anj_io_out_ctx_init() refuses.
ProcessRefused ==
    /\ Idle /\ ~Free(1) /\ ~mute
    /\ AbortOne(ids[1], <<>>)
    /\ UNCHANGED <<session, mute>>

Process ==
    /\ Idle /\ ~Free(1) /\ ~mute
    /\ active' = TRUE /\ exchange' = "send"
    /\ Block(reqs[1].kind.records, 0)
    /\ UNCHANGED <<ids, reqs, aborting, counter, session, mute, stack, accepted,
                   told>>

\* The first block cannot be read, or the message not be encoded.
ProcessFails(result) ==
    /\ Idle /\ ~Free(1) /\ ~mute
    /\ \/ result = "request" /\ Completion(result, "leave", <<>>) /\ UNCHANGED exchange
       \/ /\ result = "protocol" /\ exchange' = "send"
          /\ Completion(result, "finalize_leave", <<>>)
    /\ UNCHANGED <<session, mute>>

NextBlock ==
    /\ stack = <<>> /\ exchange = "send" /\ more
    /\ Block(reqs[1].kind.records, out)
    /\ UNCHANGED <<ids, reqs, active, aborting, counter, exchange, session, mute,
                   stack, accepted, told>>

ExchangeResults ==
    {"success", "timeout", "network", "response", "request", "protocol"}

\* The exchange ends.  The session goes on after an answer that did not come,
\* but not after a message that could not be made or sent.
Complete(result, leaves) ==
    /\ stack = <<>> /\ exchange = "send"
    /\ result = "success" => ~more
    /\ result \in {"success", "response", "request"} => ~leaves
    /\ result \in {"network", "protocol"} => leaves
    /\ Completion(result, IF leaves THEN "finalize_leave" ELSE "finalize", <<>>)
    /\ UNCHANGED <<exchange, session, mute>>
--------------------------------------------------------------------------------
\* Another exchange: a server's request, an Update, a notification.
OtherBegins ==
    /\ Idle
    /\ exchange' = "other"
    /\ UNCHANGED <<ctx, more, session, mute, stack, hist>>

\* Its end; a write to the Server object has Mute Send read again.
OtherEnds ==
    /\ stack = <<>> /\ exchange = "other"
    /\ exchange' = "none"
    /\ mute' \in BOOLEAN
    /\ UNCHANGED <<ctx, more, session, stack, hist>>

\* anj_core_restart(), anj_core_disable_server(), anj_core_request_bootstrap().
Leave ==
    /\ AppRuns /\ session = "registered"
    /\ HandlerLeaves \/ stack = <<>>
    /\ exchange = "send" => active
    /\ session' = "leaving"
    /\ Terminate(stack)
    /\ UNCHANGED <<mute>>

\* The session ends: DISCONNECT_IN_PROGRESS is done.
Disconnect ==
    /\ stack = <<>> /\ session = "leaving" /\ exchange = "none"
    /\ session' = "closed"
    /\ UNCHANGED <<ctx, more, exchange, mute, stack, hist>>

\* _anj_server_register_start_register_operation().  The client may also stay as
\* it is: disabled for ever, with no retries left, or because the data model
\* cannot be read, which is found before anything is aborted.
StartRegister ==
    /\ stack = <<>> /\ session = "closed"
    /\ session' = "registering"
    /\ AbortAll(<<>>)
    /\ UNCHANGED mute

\* The server accepts; get_mute_send() is read for the session.
RegisterDone ==
    /\ stack = <<>> /\ session = "registering"
    /\ session' = "registered"
    /\ mute' \in BOOLEAN
    /\ UNCHANGED <<ctx, more, exchange, stack, hist>>

\* anj_core_shutdown(), up to _anj_srv_conn_close(); the status of the client
\* stays as it is.
Shutdown ==
    /\ stack = <<>> /\ session # "shut"
    /\ Terminate(<<AbortCall, CloseCall>>)
    /\ UNCHANGED <<session, mute>>

\* The connection is closed and the client cleared, or anj_core_shutdown() has
\* to be called again.
CloseDown ==
    /\ stack = <<CloseCall>>
    /\ stack' = <<>>
    /\ session' \in {session, "shut"}
    /\ UNCHANGED <<ctx, more, exchange, mute, hist>>
--------------------------------------------------------------------------------
Ids == {ids[i] : i \in Slots} \ {0}

AppCalls == \/ \E k \in Kinds : NewRequest(k)
            \/ \E id \in Ids : Abort(id)
            \/ AppAbortAll
            \/ Leave

Aborts == BeginLoop \/ BeginAbort

Processing == \/ ProcessMuted \/ ProcessRefused \/ Process
              \/ \E result \in {"request", "protocol"} : ProcessFails(result)

Exchanging == \/ NextBlock
              \/ \E result \in ExchangeResults, leaves \in BOOLEAN :
                     Complete(result, leaves)

Mark == mark' = IF aborting' /\ ~aborting THEN accepted ELSE mark

Next == /\ \/ AppCalls \/ Return \/ Aborts \/ Processing \/ Exchanging
           \/ OtherBegins \/ OtherEnds
           \/ Disconnect \/ StartRegister \/ RegisterDone \/ Shutdown
           \/ CloseDown
        /\ Mark

\* A handler returns and a call goes on; an exchange ends; a session that is
\* left is closed; and the exchanges that come first leave the queue its turn
\* now and then.  Nothing makes the client register again.
Fairness == /\ WF_vars(Return /\ Mark) /\ WF_vars(Aborts /\ Mark)
            /\ SF_vars(Processing /\ Mark) /\ WF_vars(Exchanging /\ Mark)
            /\ WF_vars(OtherEnds /\ Mark) /\ WF_vars(CloseDown /\ Mark)
            /\ WF_vars(Disconnect /\ Mark)

Spec == Init /\ [][Next]_vars /\ Fairness
--------------------------------------------------------------------------------
Frames == {AbortLoop, AbortCall, CloseCall}
          \cup [kind : {"handler"}, slot : 0 .. QueueSize,
                then : {"slot", "return", "finalize", "leave", "finalize_leave"}]

Results == {"success", "abort", "error"}

\* The types of the variables: no id is 0 or ANJ_SEND_ID_ALL while in use, and
\* active_exchange only concerns a request that is in the first slot.
TypeOK ==
    /\ ids \in [Slots -> 0 .. IdAll - 1]
    /\ reqs \in [Slots -> {Empty} \cup [n : Requests, kind : Kinds]]
    /\ counter \in 0 .. IdAll - 1 /\ accepted \in 0 .. MaxRequests
    /\ told \in [Requests -> Seq(Results)]
    /\ active \in BOOLEAN /\ aborting \in BOOLEAN /\ mute \in BOOLEAN
    /\ exchange \in {"none", "send", "other"}
    /\ session \in {"registering", "registered", "leaving", "closed", "shut"}
    /\ stack \in Seq(Frames)
    /\ active => ~Free(1) /\ exchange = "send"

Phase(r) == IF told[r] # <<>> THEN "done"
            ELSE IF r > accepted THEN "unknown"
            ELSE IF active /\ reqs[1].n = r THEN "sending" ELSE "queued"

Promise == INSTANCE SendPromise WITH
               phase <- [r \in Requests |-> Phase(r)], reported <- told

\* The queue implements what the header promises: requests are sent one at a
\* time and in the order in which they were accepted, and the handler of each
\* is called exactly once, with "abort" alone if it was never its turn, also
\* when handlers queue and abort requests themselves.  It is called as long as
\* the client does not stay for ever without a session.
PromiseKept == Promise!Safety /\ (Promise!Answers \/ <>[](session = "closed"))

\* What does not hold: that the handler is called in any case, as lwm2m_send.h
\* says.  The end of the session, there a cause of ANJ_SEND_ERR_ABORT, aborts
\* nothing; the next registration does, if there is one.
PromisedAnyway == Promise!Spec

\* "If the first element is empty then the whole Send queue empty": outside
\* the loop that aborts all, the free slots are behind the ones in use.
NoGaps == ~aborting => \A i \in 1 .. QueueSize - 1 : Free(i) => Free(i + 1)

\* anj_send_abort(ANJ_SEND_ID_ALL) leaves no request that had been accepted when
\* its loop began, only what the handlers queued meanwhile.
LoopExact == ~aborting => \A i \in Slots : ~Free(i) => reqs[i].n > mark

\* The queue is in order at every step: no gaps, and nothing that a loop should
\* have aborted.
QueueInOrder == TypeOK /\ NoGaps /\ LoopExact

\* External data are open only for the record that is being read: closed when
\* a request ends in the middle of it, for whatever reason.
SourcesClosed == open \subseteq (IF active /\ left > 0 THEN {opCount} ELSE {})

Total(records) == MapThenSumSet(LAMBDA i : records[i].size, DOMAIN records)

\* A request of which send_read_payload() has no more to give has had all of its
\* records put into blocks, and none of them twice; no source is left open.
PayloadExact ==
    /\ opCount \in Nat /\ left \in Nat /\ out \in Nat /\ more \in BOOLEAN
    /\ active /\ ~more => out = Total(reqs[1].kind.records)
    /\ SourcesClosed

\* "abort all queued send request to call finish callbacks": no request that was
\* accepted is without an answer when anj_core_shutdown() has cleared the client.
ShutdownTells == session = "shut" => \A r \in 1 .. accepted : told[r] # <<>>

\* assert(ctx->active_exchange) of send_completion_callback() holds for the
\* exchange that a call of anj_core_restart() and the like terminates.
CompletionExpected ==
    AppRuns /\ session = "registered" /\ (HandlerLeaves \/ stack = <<>>)
        /\ exchange = "send" => active
=============================================================================

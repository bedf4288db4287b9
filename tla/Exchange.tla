------------------------------- MODULE Exchange -------------------------------
(***************************************************************************)
(* A CoAP exchange: exchange.c, driven by _anj_srv_conn_handle_request()   *)
(* of core/srv_conn.c, with the cache of exchange_cache.c, over a network  *)
(* that loses, repeats, delays and reorders messages.                      *)
(*                                                                         *)
(* One action is one call of the net API with the _anj_exchange_process()  *)
(* that follows.  A message in MSG_TO_SEND is encoded at once, out is the  *)
(* buffer it is in.  Time passes between any two calls.                    *)
(***************************************************************************)
EXTENDS ExchangeCache

CONSTANTS MaxRetransmit,  \* tx_params.max_retransmit
          AckTimeouts,    \* ack_timeout times the random factor
          ServerTimeout,  \* server_exchange_timeout
          SendTimeout,    \* _ANJ_EXCHANGE_COAP_PROCESSING_DELAY
          MidOffset,      \* distance of the server's Message IDs to ours
          OrphanBlocks,   \* a block may come when its exchange is over
          Traffic,        \* what may go on together, see "traffic"
          MaxExchanges    \* bound: exchanges of the client

Kinds == {"plain", "upload", "get", "non_con", "con_notify", "notify_many",
          "ping", "refused", "execute", "write_one", "write", "read", "both"}

ASSUME ExchangeAssumption ==
    /\ MaxRetransmit \in Nat /\ SendTimeout \in Nat /\ MidOffset \in Nat
    /\ ServerTimeout \in Nat \ {0} /\ AckTimeouts \subseteq Nat \ {0}
    /\ Traffic \subseteq [client : SUBSET Kinds, server : SUBSET Kinds,
                           blocks : Nat \ {0, 1}, requests : Nat]
    /\ OrphanBlocks \in BOOLEAN
    /\ MaxExchanges \in Nat

VARIABLES
    traffic,    \* the kinds of exchanges that either side makes, the blocks of a
                \* payload that needs a block transfer, and how many requests the
                \* server makes; chosen once
    ex,         \* _anj_exchange_ctx_t
    base,       \* ctx->base_msg
    msgId,      \* ctx->msg_id
    out,        \* out_buffer
    cache,      \* the Message IDs in the cache and the time they have left
    answer,     \* cache_recent.response
    resend,     \* handling_retransmission
    sent,       \* what the server may have received and react to
    reqs,       \* the requests the server has made
    life,       \* how long each of them may still arrive
    \* History, read by the properties only:
    log,        \* the last answers, see ExchangeCache
    answered,   \* whether each of reqs was answered once (1) or anew (2)
    started, completed,   \* exchanges, and calls of their completion handlers
    outcome,    \* the result in the last one
    got, taken  \* what write_payload and read_payload were called for

ctxVars == <<ex, base, msgId, out>>
cacheVars == <<cache, answer, resend, log>>
handlerVars == <<completed, outcome, got, taken>>
reqVars == <<reqs, life, answered>>
vars == <<traffic, ctxVars, cacheVars, sent, reqVars, started, handlerVars>>

\* Blocks that the handlers are to get and to give in an exchange.  All other
\* payloads fit in a message.
In(kind) == CASE kind \in {"get", "write", "both"} -> traffic.blocks
              [] kind = "write_one" -> 1
              [] OTHER -> 0
Out(kind) ==
    IF kind \in {"upload", "read", "both", "notify_many"} THEN traffic.blocks ELSE 0

NoMsg == [type |-> "none", mid |-> 0, id |-> 0, kind |-> "none", blk |-> 0,
          b |-> "none", more |-> FALSE, pay |-> FALSE, con |-> FALSE]

EmptyAck == [NoMsg EXCEPT !.type = "empty"]

Idle == [state |-> "finished", op |-> "none", server |-> FALSE, conf |-> FALSE,
         bt |-> FALSE, prepared |-> FALSE, blk |-> 0, retry |-> 0,
         timeout |-> 0, timer |-> 0, sendTimer |-> 0, failed |-> FALSE,
         handler |-> FALSE]

Init ==
    /\ traffic \in Traffic
    /\ ex = Idle /\ base = NoMsg /\ msgId = 0 /\ out = NoMsg
    /\ cache = EmptyCache /\ answer = NoMsg /\ resend = FALSE /\ log = <<>>
    /\ sent = {} /\ reqs = <<>> /\ life = <<>> /\ answered = <<>>
    /\ started = 0 /\ completed = 0 /\ outcome = "none"
    /\ got = <<>> /\ taken = 0

(***************************************************************************)
(* The network and the server (external).  Whatever the server was sent it *)
(* may answer at any time, again and again; an answer to a request is      *)
(* piggybacked or a separate confirmable message.  Its own requests arrive *)
(* within the EXCHANGE_LIFETIME.                                           *)
(***************************************************************************)
Replies(q) ==
    LET ack == [EmptyAck EXCEPT !.mid = q.id]
        rst == [NoMsg EXCEPT !.type = "reset", !.mid = q.id]
        error == [NoMsg EXCEPT !.type = "error", !.id = q.id, !.mid = q.id]
        more == q.kind = "get" /\ q.blk + 1 < traffic.blocks
        success(separate) ==
            [NoMsg EXCEPT !.type = "response", !.id = q.id, !.blk = q.blk,
               !.mid = IF separate THEN 0 ELSE q.id, !.con = separate,
               !.b = IF q.kind = "get" THEN "b2" ELSE q.b,
               !.pay = (q.kind = "get"), !.more = more]
    IN CASE q.type = "request" /\ q.con ->
              {ack, rst, error} \cup {success(s) : s \in BOOLEAN}
         [] q.type = "notify" /\ q.con -> {ack, rst}
         [] OTHER -> {}

FreshMid == MidOffset + Len(reqs) + 1

\* A new request; or the one for the next block that an answer of ours or a
\* notification asked for, which its id names.  The server goes on once, and
\* not with a transfer after which it has begun another one of its kind.
FirstRequests ==
    {[NoMsg EXCEPT !.type = "request", !.mid = FreshMid, !.kind = k,
                   !.pay = In(k) > 0, !.more = In(k) > 1] : k \in traffic.server}

Unfollowed ==
    {s \in sent : /\ s.type \in {"answer", "notify"} /\ s.more
                  /\ \A i \in DOMAIN reqs :
                        /\ reqs[i].id # s.id
                        /\ reqs[i].kind = s.kind /\ reqs[i].blk = 0
                           => reqs[i].mid <= s.id}

NextRequests ==
    {[NoMsg EXCEPT !.type = "request", !.mid = FreshMid, !.blk = s.blk,
                   !.id = s.id, !.kind = IF s.type = "notify" THEN "read" ELSE s.kind,
                   !.pay = (s.b = "b1"),
                   !.more = (s.b = "b1" /\ s.blk + 1 < traffic.blocks)] :
        s \in Unfollowed}

NewRequests ==
    IF Len(reqs) < traffic.requests THEN FirstRequests \cup NextRequests ELSE {}

Requests ==
    {reqs[i] : i \in {j \in DOMAIN reqs : life[j] # Never}} \cup NewRequests

Incoming == Requests \cup UNION {Replies(q) : q \in sent}

\* m leaves the network.
Arrives(m) ==
    IF m \in NewRequests
      THEN reqs' = Append(reqs, m) /\ life' = Append(life, CacheLifetime)
      ELSE UNCHANGED <<reqs, life>>

\* Message m is given an answer of its own, or not.
Answered(m, yes) ==
    LET i == m.mid - MidOffset
        count(j) == (IF j \in DOMAIN answered THEN answered[j] ELSE 0)
                    + (IF yes /\ j = i THEN 1 ELSE 0)
    IN answered' = [j \in DOMAIN reqs' |-> IF count(j) > 2 THEN 2 ELSE count(j)]

(***************************************************************************)
(* The handlers of whoever started the exchange.                           *)
(***************************************************************************)
CompletionCalled(result) ==
    IF ex.handler THEN completed' = completed + 1 /\ outcome' = result
                  ELSE UNCHANGED <<completed, outcome>>

Written(m, last) == got' = Append(got, [blk |-> m.blk, last |-> last])

\* read_payload: whether there is more to read.
MoreToRead == taken + 1 < Out(ex.op)

Read == taken' = IF Out(ex.op) > 0 THEN taken + 1 ELSE taken

\* finalize_exchange(); what it leaves in the other fields is never read.
Finished(result) ==
    /\ ex' = [Idle EXCEPT !.op = ex.op]
    /\ base' = NoMsg /\ out' = NoMsg
    /\ CompletionCalled(result)

Finalize(result) == Finished(result) /\ UNCHANGED msgId

NoHandlers == UNCHANGED <<completed, outcome, got, taken>>

NotFinished == UNCHANGED <<completed, outcome>>

\* _anj_exchange_cache_add() with the answer to request m.
Remember(m, a) ==
    /\ cache' = CacheAdd(cache, m.mid)
    /\ log' = LogAdd(log, m.mid)
    /\ answer' = a
    /\ UNCHANGED resend

\* reset_exchange_params() and the time to send within.
Resettled(c) == [c EXCEPT !.timer = c.timeout, !.retry = 0]
Sending(c) == [c EXCEPT !.state = "waiting_send", !.sendTimer = SendTimeout]

(***************************************************************************)
(* _anj_exchange_new_client_request().                                     *)
(***************************************************************************)
NewContext(kind, server, conf, timeout) ==
    [Idle EXCEPT !.op = kind, !.server = server, !.conf = conf,
                 !.state = "waiting_send", !.timeout = timeout,
                 !.timer = timeout, !.sendTimer = SendTimeout, !.handler = TRUE,
                 !.prepared = ex.prepared, !.bt = ex.bt]

StartAllowed == ex.state = "finished" /\ started < MaxExchanges

\* A repetition that was interrupted is still pending when the client has
\* reconnected and registers or bootstraps anew.
NewClientRequest(kind) ==
    /\ StartAllowed
    /\ resend => kind \in {"plain", "upload"}
    /\ started' = started + 1
    /\ got' = <<>>
    /\ msgId' = msgId + 1
    /\ UNCHANGED <<cacheVars, sent, reqVars>>
    /\ LET notify == kind \in {"con_notify", "notify_many"}
           request == [NoMsg EXCEPT
                         !.type = IF notify THEN "notify" ELSE "request",
                         !.id = msgId', !.kind = kind,
                         !.con = kind \notin {"non_con", "notify_many"},
                         !.more = 1 < Out(kind),
                         !.blk = IF kind = "notify_many" THEN 1 ELSE 0,
                         !.b = IF kind = "upload" THEN "b1"
                               ELSE IF kind = "notify_many" THEN "b2" ELSE "none"]
       IN \/ /\ \E t \in IF kind = "notify_many" THEN {ServerTimeout}
                                                 ELSE AckTimeouts :
                   ex' = [NewContext(kind, kind = "notify_many", request.con, t)
                            EXCEPT !.bt = 1 < Out(kind)]
             /\ base' = request /\ out' = request
             /\ taken' = IF Out(kind) > 0 THEN 1 ELSE 0
             /\ UNCHANGED <<completed, outcome>>
          \/ \* no random number, or read_payload failed
             /\ ex' = [Idle EXCEPT !.op = kind]
             /\ base' = NoMsg /\ out' = NoMsg /\ taken' = 0
             /\ completed' = completed + 1 /\ outcome' = "error"

(***************************************************************************)
(* _anj_exchange_new_server_request(), with the check for a repetition     *)
(* that its callers make.                                                  *)
(***************************************************************************)
\* The answer to m: its code is CONTINUE (b1) or CONTENT with more to come
\* (b2) if more, and names the next block.
Answer(m, b, next) == [NoMsg EXCEPT !.type = "answer", !.id = m.mid, !.kind = m.kind,
                                    !.b = b, !.more = b # "none", !.blk = next]

NewServerRequest(m) ==
    /\ StartAllowed /\ ~resend
    /\ m \in Requests /\ (m.blk = 0 \/ OrphanBlocks)
    /\ CacheCheck(cache, m.mid) = "miss"
    /\ Arrives(m)
    /\ Answered(m, m.kind # "ping")
    /\ started' = started + 1
    /\ base' = NoMsg
    /\ UNCHANGED <<msgId, sent, completed, outcome>>
    /\ LET ctx == NewContext(m.kind, TRUE, FALSE, ServerTimeout)
           wanted == CASE m.more -> "b1"
                       [] ~m.more /\ Out(m.kind) > 1 -> "b2"
                       [] OTHER -> "none"
           respond(b, failed, n) ==
               /\ out' = Answer(m, b, IF b = "b1" THEN m.blk + 1 ELSE 1)
               /\ ex' = [ctx EXCEPT !.bt = b # "none", !.failed = failed]
               /\ taken' = n
               /\ Remember(m, out')
       IN CASE m.kind = "ping" ->
                 /\ out' = [NoMsg EXCEPT !.type = "reset"]
                 /\ ex' = ctx /\ got' = <<>> /\ taken' = 0
                 /\ UNCHANGED cacheVars
            [] m.kind = "refused" -> respond("none", TRUE, 0) /\ got' = <<>>
            [] OTHER ->
                 /\ got' = IF m.pay THEN <<[blk |-> m.blk, last |-> ~m.more]>>
                                    ELSE <<>>
                 /\ \/ respond(wanted, FALSE,
                               IF ~m.more /\ Out(m.kind) > 0 THEN 1 ELSE 0)
                    \/ respond("none", TRUE, 0)    \* a handler failed

\* A repeated request: the recent one is answered again, others are dropped.
ReceiveRepeated(m) ==
    /\ ex.state \in {"finished", "waiting_msg"} /\ ~resend
    /\ m \in Incoming
    /\ ex.state = "finished" => m.type = "request"
    /\ CacheCheck(cache, m.mid) # "miss"
    /\ resend' = (CacheCheck(cache, m.mid) = "hit_recent")
    /\ UNCHANGED <<ctxVars, cache, answer, log, sent, reqVars, started,
                   handlerVars>>

(***************************************************************************)
(* handle_server_response().                                               *)
(***************************************************************************)
\* The next block of a request.  After a separate response the empty
\* acknowledgement goes first, and the request keeps its Message ID and token.
NextBlock(m, next, bt) ==
    LET ctx == Sending([ex EXCEPT !.blk = @ + 1, !.bt = bt])
    IN \/ /\ m.con
          /\ ex' = [ctx EXCEPT !.prepared = TRUE]
          /\ base' = next /\ out' = EmptyAck
          /\ NotFinished /\ UNCHANGED msgId
       \/ /\ ~m.con
          /\ ex' = Resettled(ctx)
          /\ msgId' = msgId + 1
          /\ base' = [next EXCEPT !.id = msgId'] /\ out' = base'
          /\ NotFinished
       \/ ~m.con /\ Finished("error") /\ msgId' = msgId + 1    \* no token

\* Mutant of LastResponse: the completion handler stays.
LastResponseTwice(m) ==
    IF m.con
      THEN /\ ex' = Sending([ex EXCEPT !.conf = FALSE, !.bt = FALSE])
           /\ out' = EmptyAck
           /\ CompletionCalled("ok")
           /\ UNCHANGED <<base, msgId>>
      ELSE Finalize("ok")

LastResponse(m) ==
    IF m.con
      THEN /\ ex' = Sending([ex EXCEPT !.conf = FALSE, !.bt = FALSE,
                                       !.handler = FALSE])
           /\ out' = EmptyAck
           /\ CompletionCalled("ok")
           /\ UNCHANGED <<base, msgId>>
      ELSE Finalize("ok")

Response(m) ==
    LET bt == (m.b = "b2" /\ m.more) \/ (m.b = "b1" /\ ex.bt)
        next == [base EXCEPT !.blk = ex.blk + 1, !.b = IF m.pay THEN "b2" ELSE "b1",
                             !.more = ~m.pay /\ MoreToRead]
    IN \/ /\ m.pay
          /\ Written(m, ~bt) /\ UNCHANGED taken
          /\ \/ bt /\ NextBlock(m, next, TRUE)
             \/ ~bt /\ LastResponse(m)
             \/ Finalize("error")                   \* write_payload failed
       \/ /\ ~m.pay /\ bt
          /\ Read /\ UNCHANGED got
          /\ \/ NextBlock(m, next, MoreToRead)
             \/ Finalize("error")                   \* read_payload failed
       \/ /\ ~m.pay /\ ~bt
          /\ LastResponse(m) /\ UNCHANGED <<got, taken>>

\* 5.03 for a request that the exchange cannot take now.
ServiceUnavailable(m) ==
    /\ ex' = Sending(ex)
    /\ out' = Answer(m, "none", 0)
    /\ Remember(m, out')
    /\ UNCHANGED <<base, msgId>> /\ NoHandlers

(***************************************************************************)
(* The end of _anj_exchange_process() in WAITING_MSG.                      *)
(***************************************************************************)
CheckTimeout ==
    IF ex.timer > 0 THEN UNCHANGED <<ctxVars, completed, outcome>>
    ELSE IF ex.server \/ ex.retry >= MaxRetransmit THEN Finalize("error")
    ELSE /\ ex' = Sending([ex EXCEPT !.retry = @ + 1,
                             !.timer = ex.timeout * 2^(ex.retry + 1)])
         /\ out' = base
         /\ UNCHANGED <<base, msgId>> /\ NotFinished

\* A message that is ignored.
Ignored == CheckTimeout /\ UNCHANGED <<got, taken, cacheVars>>

\* Mutant of Waiting: repetitions are looked up only between exchanges.
WaitingUncached(m) ==
    /\ ex.state = "waiting_msg" /\ ~resend
    /\ m \in Incoming
    /\ Arrives(m)
    /\ UNCHANGED <<sent, started>>

Waiting(m) ==
    /\ ex.state = "waiting_msg" /\ ~resend
    /\ m \in Incoming
    /\ CacheCheck(cache, m.mid) = "miss"
    /\ Arrives(m)
    /\ UNCHANGED <<sent, started>>

\* Mutant of HandleServerResponse: block numbers are not compared.
HandleServerResponseAnyBlock(m) ==
    /\ Waiting(m) /\ ~ex.server
    /\ Answered(m, m.type = "request")
    /\ \/ m.type = "request" /\ ServiceUnavailable(m)
       \/ m.type = "response" /\ m.id # base.id /\ Ignored
       \/ m.type = "response" /\ m.id = base.id /\ Response(m) /\ UNCHANGED cacheVars

HandleServerResponse(m) ==
    /\ Waiting(m) /\ ~ex.server
    /\ Answered(m, m.type = "request")
    /\ \/ /\ m.type = "empty" /\ UNCHANGED <<got, taken, cacheVars>>
          /\ IF ex.op = "con_notify" THEN Finalize("ok")
             ELSE ex' = Resettled(ex) /\ UNCHANGED <<base, msgId, out>>
                  /\ NotFinished
       \/ /\ m.type = "reset" /\ UNCHANGED <<got, taken, cacheVars>>
          /\ Finalize("error")
       \/ m.type = "request" /\ ServiceUnavailable(m)
       \/ m.type \in {"error", "response"} /\ m.id # base.id /\ Ignored
       \/ /\ m.type = "error" /\ m.id = base.id
          /\ Finalize("error") /\ UNCHANGED <<got, taken, cacheVars>>
       \/ /\ m.type = "response" /\ m.id = base.id /\ m.blk # ex.blk
          /\ Ignored
       \/ /\ m.type = "response" /\ m.id = base.id /\ m.blk = ex.blk
          /\ Response(m) /\ UNCHANGED cacheVars

(***************************************************************************)
(* handle_server_request(): the next block of the server's request, or of  *)
(* the answer to it.                                                       *)
(***************************************************************************)
Continues(m) ==
    m.kind = ex.op \/ (ex.op = "notify_many" /\ m.kind = "read")

\* The answer is sent and remembered.
Respond(m, b, blk, failed) ==
    /\ ex' = Resettled(Sending([ex EXCEPT !.blk = blk, !.bt = b # "none",
                                          !.failed = @ \/ failed]))
    /\ out' = Answer(m, b, blk + 1)
    /\ Remember(m, out')
    /\ UNCHANGED <<base, msgId>> /\ NotFinished

NextServerBlock(m) ==
    LET blk == IF m.pay /\ ~m.more THEN 0 ELSE m.blk
    IN /\ IF m.pay THEN Written(m, ~m.more) ELSE UNCHANGED got
       /\ \/ m.more /\ Respond(m, "b1", blk, FALSE) /\ UNCHANGED taken
          \/ /\ ~m.more /\ Read
             /\ Respond(m, IF MoreToRead THEN "b2" ELSE "none", blk, FALSE)
          \/ Respond(m, "none", blk, TRUE) /\ UNCHANGED taken  \* a handler failed

HandleServerRequest(m) ==
    /\ Waiting(m) /\ ex.server
    /\ \/ /\ m.type # "request" \/ (m.kind = "ping" /\ ~Continues(m))
          /\ Ignored /\ Answered(m, FALSE)
       \/ /\ m.type = "request" /\ m.kind # "ping" /\ ~Continues(m)
          /\ ServiceUnavailable(m) /\ Answered(m, TRUE)
       \/ /\ m.type = "request" /\ Continues(m) /\ m.blk # ex.blk + 1
          /\ Ignored /\ Answered(m, FALSE)
       \/ /\ m.type = "request" /\ Continues(m) /\ m.blk = ex.blk + 1
          /\ NextServerBlock(m) /\ Answered(m, TRUE)

(***************************************************************************)
(* _anj_srv_conn_handle_request(), the calls of the net API.               *)
(***************************************************************************)
NetResults == {"ok", "inprogress", "error"}

\* What the server gets to see of what is sent, if it is not lost.
Sent(m) == sent' = IF m.type \in {"request", "notify"} \/ m.more
                     THEN sent \cup {m} ELSE sent

\* Mutant of SendConfirmed: the response code is not looked at.
SendConfirmedAnyCode ==
    IF ex.sendTimer = 0 THEN Finalize("error")
    ELSE IF ~ex.conf /\ ~ex.bt THEN Finalize("ok")
    ELSE /\ NotFinished /\ UNCHANGED <<base, msgId>>
         /\ ex' = [ex EXCEPT !.state = "waiting_msg"] /\ out' = NoMsg

\* handle_send_confirmation() and what follows it.
SendConfirmed ==
    IF ex.sendTimer = 0 THEN Finalize("error")
    ELSE IF ~ex.conf /\ ~ex.bt
      THEN Finalize(IF ex.failed THEN "error" ELSE "ok")
    ELSE /\ NotFinished /\ UNCHANGED <<base, msgId>>
         /\ IF ex.prepared
              THEN /\ ex' = Resettled([ex EXCEPT !.prepared = FALSE])
                   /\ out' = base
              ELSE /\ ex' = [ex EXCEPT !.state = "waiting_msg"]
                   /\ out' = NoMsg

\* "error" is also a message that cannot be encoded.
Send(r) ==
    /\ ex.state = "waiting_send" /\ ~resend
    /\ \/ r = "ok" /\ SendConfirmed /\ Sent(out)
       \/ /\ r = "inprogress" /\ UNCHANGED sent
          /\ IF ex.sendTimer = 0 THEN Finalize("error")
                                 ELSE UNCHANGED <<ctxVars, completed, outcome>>
       \/ r = "error" /\ Finalize("error") /\ UNCHANGED sent
    /\ UNCHANGED <<cacheVars, reqVars, started, got, taken>>

ReceiveNothing(r) ==
    /\ ex.state = "waiting_msg" /\ ~resend
    /\ IF r = "error" THEN Finalize("error") ELSE CheckTimeout
    /\ UNCHANGED <<cacheVars, sent, reqVars, started, got, taken>>

\* The recent answer once more, from the same buffer: the next Send of a message
\* that was waiting in it sends the answer.  r = "dropped" if it cannot be
\* encoded.
Resend(r) ==
    /\ resend
    /\ resend' = (r = "inprogress")
    /\ IF r = "ok" THEN Sent(answer) ELSE UNCHANGED sent
    /\ IF r = "error" /\ ex.state # "finished" THEN Finalize("error")
       ELSE /\ out' = IF ex.state = "waiting_send" THEN answer ELSE out
            /\ UNCHANGED <<base, msgId, ex, completed, outcome>>
    /\ UNCHANGED <<cache, answer, log, reqVars, started, got, taken>>

\* _anj_exchange_terminate() from the application or the core.
Terminate ==
    /\ ex.state # "finished"
    /\ Finalize("error")
    /\ UNCHANGED <<cacheVars, sent, reqVars, started, got, taken>>

Tick ==
    /\ ex' = [ex EXCEPT !.timer = IF @ > 0 THEN @ - 1 ELSE 0,
                        !.sendTimer = IF @ > 0 THEN @ - 1 ELSE 0]
    /\ cache' = DropExpired(cache)
    /\ log' = LogAged(log)
    /\ life' = [i \in DOMAIN life |-> IF life[i] > 0 THEN life[i] - 1 ELSE Never]
    /\ UNCHANGED <<base, msgId, out, answer, resend, sent, reqs, answered,
                   started, handlerVars>>

Next ==
    /\ UNCHANGED traffic
    /\ \/ \E kind \in traffic.client : NewClientRequest(kind)
       \/ \E m \in Incoming : \/ NewServerRequest(m)
                              \/ ReceiveRepeated(m)
                              \/ HandleServerResponse(m)
                              \/ HandleServerRequest(m)
       \/ \E r \in NetResults : Send(r) \/ ReceiveNothing(r)
       \/ \E r \in NetResults \cup {"dropped"} : Resend(r)
       \/ Terminate
       \/ Tick

Spec == Init /\ [][Next]_vars

(***************************************************************************)
(* Properties.                                                             *)
(***************************************************************************)
States == {"finished", "waiting_send", "waiting_msg"}

Message == [type : {"none", "empty", "reset", "request", "notify", "answer"},
            mid : Nat, id : Nat, kind : Kinds \cup {"none"}, blk : Nat,
            b : {"none", "b1", "b2"}, more : BOOLEAN, pay : BOOLEAN,
            con : BOOLEAN]

Entry == [mid : Nat, left : Nat \cup {Never}]

\* The type invariant.
TypeOK ==
    /\ ex \in [state : States, op : Kinds \cup {"none"}, server : BOOLEAN,
               conf : BOOLEAN, bt : BOOLEAN, prepared : BOOLEAN, blk : Nat,
               retry : 0 .. MaxRetransmit, timeout : Nat, timer : Nat,
               sendTimer : Nat, failed : BOOLEAN, handler : BOOLEAN]
    /\ base \in Message /\ out \in Message /\ answer \in Message
    /\ msgId \in Nat
    /\ cache \in [recent : Entry, old : [1 .. CacheSize - 1 -> Entry]]
    /\ resend \in BOOLEAN
    /\ \A m \in sent : m \in Message
    /\ \A i \in DOMAIN reqs : reqs[i] \in Message
    /\ DOMAIN life = DOMAIN reqs
    /\ \A i \in DOMAIN life : life[i] \in Nat \cup {Never}
    /\ answered \in [DOMAIN reqs -> 0 .. 2]
    /\ started \in Nat /\ completed \in Nat
    /\ outcome \in {"none", "ok", "error"}
    /\ \A i \in DOMAIN got : got[i].blk \in Nat /\ got[i].last \in BOOLEAN
    /\ taken \in Nat

\* The cache was large enough for no request to be taken for a new one.
AnsweredOnce == \A i \in DOMAIN answered : answered[i] <= 1

\* write_payload gets the blocks of a payload from the first, each once and in
\* order, and is told of the last one, whatever is lost, repeated or late - as
\* long as the cache is large enough (NotRepeated says when it is).
BlocksInOrder ==
    AnsweredOnce =>
       \A i \in DOMAIN got :
          got[i].blk = i - 1 /\ (got[i].last <=> i = In(ex.op))

\* The completion handler is called once for each exchange, by the time that
\* the next one can begin.
CompletedOnce ==
    IF ex.handler THEN ex.state # "finished" /\ completed = started - 1
                  ELSE completed = started

\* An exchange reported as successful has passed on the whole payload, both
\* ways.
SuccessComplete ==
    outcome = "ok" /\ completed = started /\ AnsweredOnce
    => Len(got) = In(ex.op) /\ taken = Out(ex.op)

\* The newest CacheSize answers are remembered until their lifetime is over, and
\* the newest can be given again; nothing that was not answered is taken for a
\* repetition.
CacheKept ==
    /\ Promised(cache, log)
    /\ \A i \in 1 .. traffic.requests :
          CacheCheck(cache, MidOffset + i) # "miss" =>
             \E j \in DOMAIN log : log[j].mid = MidOffset + i

\* The context of exchange.c and its cache are in order after every event: one
\* completion for each exchange, and every answer remembered that should be.
ExchangeInOrder == TypeOK /\ CompletedOnce /\ CacheKept

\* No request that is among the newest CacheSize answered ones is processed again
\* when it is repeated, in the same exchange, in another one or in between.
NotRepeated ==
    [][\A i \in DOMAIN answered : answered'[i] > answered[i] =>
          \A j \in DOMAIN log : log[j].mid = MidOffset + i => ~Kept(log, j)]_vars

\* Two different requests do not carry the same Message ID, as the server
\* would take the second for a repetition of the first.
MidFresh ==
    \A p, q \in sent : p.type = "request" /\ q.type = "request" /\ p.id = q.id
        => p = q
=============================================================================

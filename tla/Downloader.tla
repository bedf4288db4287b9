------------------------------ MODULE Downloader ------------------------------
(***************************************************************************)
(* The CoAP downloader: coap_downloader.c, with the application's event    *)
(* callback as the tutorial on firmware updates writes it.                 *)
(*                                                                         *)
(* One action is one call of anj_coap_downloader_step(), or one iteration  *)
(* of the loop in handle_request(): between two iterations the net API may *)
(* always make the call return.  The exchange is used by what it promises  *)
(* for a GET, see the module Exchange: blocks in order, each once, and one *)
(* call of the completion handler.                                         *)
(***************************************************************************)
EXTENDS Naturals, Sequences

CONSTANTS NBlocks,        \* blocks of the resource
          Uris,           \* URIs to download from
          Versions,       \* contents of the resource, each with an ETag
          MaxRetransmit,  \* tx_params.max_retransmit
          AckSent,        \* results of sending the last acknowledgement
          RngResults,     \* whether a token can be created
          OpenResults     \* whether the application can open its file

None == "none"
NetResults == {"ok", "inprogress", "error"}

ASSUME DownloaderAssumption ==
    /\ NBlocks \in Nat \ {0} /\ MaxRetransmit \in Nat
    /\ None \notin Uris \cup Versions
    /\ AckSent \subseteq NetResults
    /\ RngResults \subseteq BOOLEAN /\ OpenResults \subseteq BOOLEAN

VARIABLES
    dl,       \* anj_coap_downloader_t
    file,     \* the application's file: open, and the blocks written to it
    content,  \* what the server has to offer now
    \* History, read by the properties only:
    cut,      \* no token could be created in the last download
    broken    \* since the device started, the end of a download was overtaken,
              \* see Overtaken and LastAckPending

dlVars == <<dl, file, content, cut, broken>>

Active == {"starting", "downloading", "finishing"}
Ended == {"finished", "failed"}
Statuses == {"initial"} \cup Active \cup Ended
Errors == {None, "invalid_response", "timeout", "internal", "network",
           "etag_mismatch", "terminated"}

\* ex is the state of the exchange: "ack" stands for an acknowledgement that
\* the next request waits for, "last_ack" for the one that ends the exchange.
NewDownloader ==
    [status |-> "initial", reported |-> "initial", err |-> None, etag |-> None,
     uri |-> None, ex |-> "finished", block |-> 0, retry |-> 0,
     socket |-> FALSE, sending |-> FALSE]

DownloaderInit ==
    /\ dl = NewDownloader
    /\ file = [open |-> FALSE, blocks |-> <<>>]
    /\ content \in Versions /\ cut = FALSE /\ broken = FALSE

(***************************************************************************)
(* The API.                                                                *)
(***************************************************************************)
Terminate(d) ==
    IF d.status \in {"starting", "downloading"}
      THEN [d EXCEPT !.err = "terminated", !.status = "finishing",
                     !.ex = "finished"]
      ELSE d

StartRefused(d) == d.status \in Active

Start(d, uri) == [d EXCEPT !.uri = uri, !.err = None, !.status = "starting",
                           !.etag = None]

(***************************************************************************)
(* The completion handler, and what ends the download.                     *)
(***************************************************************************)
ExchangeCompletion(d, result) ==
    CASE result = "success" -> [d EXCEPT !.status = "finished"]
      [] result \in {"invalid_response", "timeout", "internal"} /\ d.err = None ->
           [d EXCEPT !.err = result]
      [] OTHER -> d

\* finalize_exchange(): handle_request() returns 0, the step goes on to close
\* the connection.
Finalized(d, result) ==
    [ExchangeCompletion(d, result) EXCEPT !.ex = "finished",
                                          !.status = "finishing"]

\* handle_request() returns an error, the step terminates the exchange.
Failed(d, error) ==
    [d EXCEPT !.err = error, !.ex = "finished", !.status = "finishing"]

Closed(f) == [f EXCEPT !.open = FALSE]

\* The callback is called once for a status.
EventDue(status) == dl.reported # status

(***************************************************************************)
(* STATUS_STARTING                                                         *)
(***************************************************************************)
StartNewExchange(d, prepared, token) ==
    CASE ~prepared -> [d EXCEPT !.status = "finishing", !.err = "internal"]
      [] prepared /\ ~token -> [ExchangeCompletion(d, "request") EXCEPT !.status = "downloading"]
      [] OTHER -> [d EXCEPT !.status = "downloading", !.ex = "sending",
                            !.block = 0, !.retry = 0]

\* The application terminates the download from the callback, and the step goes
\* on and overwrites the status.
Overtaken(connect, opened, prepared) ==
    EventDue("starting") /\ ~opened /\ connect = "ok" /\ prepared

\* The callback removes the old image and opens the file; if it cannot, it
\* terminates the download.
Connect(connect, opened, socket, prepared, token) ==
    LET r == [dl EXCEPT !.reported = "starting", !.socket = socket]
        d == IF EventDue("starting") /\ ~opened THEN Terminate(r) ELSE r
    IN /\ dl.socket \/ connect # "error" => socket
       /\ file' = IF EventDue("starting") THEN [open |-> opened, blocks |-> <<>>]
                  ELSE file
       /\ dl' = CASE connect = "inprogress" -> d
                  [] connect = "error" ->
                       [d EXCEPT !.status = "finishing", !.err = "network"]
                  [] OTHER -> StartNewExchange(d, prepared, token)
       /\ cut' = (cut \/ (connect = "ok" /\ prepared /\ ~token))
       /\ broken' = (broken \/ Overtaken(connect, opened, prepared))

\* The assertions of the callback, that it has no file yet, and of
\* _anj_srv_conn_connect(): the program does not get past them.
StartAsserts == ~dl.sending /\ (EventDue("starting") => ~file.open)

StepStarting(connect) ==
    /\ dl.status = "starting" /\ StartAsserts
    /\ UNCHANGED content
    /\ \E opened \in OpenResults, socket, prepared \in BOOLEAN, token \in RngResults :
         Connect(connect, opened, socket, prepared, token)

(***************************************************************************)
(* STATUS_DOWNLOADING: handle_request()                                    *)
(***************************************************************************)
StepFinishedExchange ==
    /\ dl.status = "downloading" /\ dl.ex = "finished"
    /\ dl' = [dl EXCEPT !.status = "finishing"]
    /\ UNCHANGED <<file, content, cut, broken>>

\* A send in progress is checked for a timeout; so is one that is over.
Send(sent) ==
    /\ dl.status = "downloading" /\ dl.ex \in {"sending", "ack"}
    /\ \E late \in BOOLEAN :
         LET d == [dl EXCEPT !.sending = (sent = "inprogress")]
         IN dl' = CASE sent = "inprogress" -> IF late THEN Failed(d, "network") ELSE d
                    [] sent = "error" -> Failed(d, "network")
                    [] OTHER -> IF late THEN Finalized(d, "timeout")
                                ELSE [d EXCEPT !.ex = IF dl.ex = "ack" THEN "sending"
                                                                       ELSE "waiting"]
    /\ UNCHANGED <<file, content, cut, broken>>

\* Mutant: retransmissions are not counted.
ReceiveTimeoutUncounted ==
    /\ dl.status = "downloading" /\ dl.ex = "waiting"
    /\ dl' = [dl EXCEPT !.ex = "sending"]
    /\ UNCHANGED <<file, content, cut, broken>>

\* Nothing arrives, or nothing that belongs to the exchange, until the timer
\* of the request runs out.
ReceiveTimeout ==
    /\ dl.status = "downloading" /\ dl.ex = "waiting"
    /\ dl' = IF dl.retry < MaxRetransmit
               THEN [dl EXCEPT !.retry = @ + 1, !.ex = "sending"]
               ELSE Finalized(dl, "timeout")
    /\ UNCHANGED <<file, content, cut, broken>>

\* An empty message: the timer and the number of retransmissions begin anew.
ReceiveEmpty ==
    /\ dl.status = "downloading" /\ dl.ex = "waiting"
    /\ dl' = [dl EXCEPT !.retry = 0]
    /\ UNCHANGED <<file, content, cut, broken>>

\* A network error, a message that cannot be decoded, a Reset or an error
\* response.
ReceiveError ==
    /\ dl.status = "downloading" /\ dl.ex = "waiting"
    /\ \/ dl' = Failed(dl, "network")
       \/ dl' = Failed(dl, "internal")
       \/ dl' = Finalized(dl, "invalid_response")
    /\ UNCHANGED <<file, content, cut, broken>>

\* Mutant: only the sizes of the two ETags are compared.
EtagSizeMismatch(etag) == dl.etag # None /\ etag = None

EtagMismatch(etag) == dl.etag # None /\ etag # dl.etag

\* A late response to an earlier request: the exchange ignores it, but its ETag
\* is looked at before.
ReceiveStray ==
    /\ dl.status = "downloading" /\ dl.ex = "waiting"
    /\ \E etag \in Versions :
          dl' = IF EtagMismatch(etag) THEN Failed(dl, "etag_mismatch")
                ELSE [dl EXCEPT !.etag = etag]
    /\ UNCHANGED <<file, content, cut, broken>>

\* The rest of handle_server_response() after the payload was written by the
\* callback; if that failed, it has terminated the download, and with it the
\* block transfer.
AfterPayload(d, more, separate, token, ack) ==
    CASE more /\ separate -> [d EXCEPT !.ex = "ack", !.retry = 0]
      [] more /\ ~separate /\ token -> [d EXCEPT !.ex = "sending", !.retry = 0]
      [] more /\ ~separate /\ ~token -> Finalized(d, "request")
      [] ~more /\ separate ->
           LET c == ExchangeCompletion(d, "success")
           IN CASE ack = "ok" -> [c EXCEPT !.ex = "finished", !.status = "finishing"]
                [] ack = "inprogress" -> [c EXCEPT !.ex = "last_ack", !.sending = TRUE]
                [] OTHER -> Failed(c, "network")
      [] OTHER -> Finalized(d, "success")

\* The assertion of the callback, that it has a file to write to.
WriteAsserts == file.open

\* The completion handler is called before the last acknowledgement is sent, so
\* that one in progress is never waited for.
LastAckPending(more, separate, ack) == ~more /\ separate /\ ack = "inprogress"

ReceiveBlock ==
    /\ dl.status = "downloading" /\ dl.ex = "waiting"
    /\ EtagMismatch(content) \/ WriteAsserts
    /\ UNCHANGED content
    /\ IF EtagMismatch(content)
         THEN dl' = Failed(dl, "etag_mismatch") /\ UNCHANGED <<file, cut, broken>>
         ELSE \E written, separate \in BOOLEAN, token \in RngResults, ack \in AckSent :
                LET d == [dl EXCEPT !.etag = content, !.block = @ + 1]
                    more == dl.block + 1 < NBlocks /\ written
                IN /\ cut' = (cut \/ (more /\ ~separate /\ ~token))
                   /\ broken' = (broken \/ LastAckPending(more, separate, ack))
                   /\ dl' = AfterPayload(IF written THEN d ELSE Terminate(d),
                                         more, separate, token, ack)
                   /\ file' = IF written
                                THEN [file EXCEPT !.blocks =
                                        Append(@, <<dl.uri, dl.block, content>>)]
                                ELSE file

(***************************************************************************)
(* STATUS_FINISHING and the statuses in which the downloader rests.        *)
(***************************************************************************)
FinishingEvent == IF EventDue("finishing") THEN Closed(file) ELSE file

StepFinishing(closed) ==
    /\ dl.status = "finishing"
    /\ closed = "ok" \/ dl.socket
    /\ file' = FinishingEvent
    /\ dl' = LET err == IF closed = "error" /\ dl.err = None THEN "network" ELSE dl.err
                 d == [dl EXCEPT !.reported = "finishing", !.sending = FALSE]
             IN IF closed = "inprogress" THEN d
                ELSE [d EXCEPT !.socket = FALSE, !.err = err,
                               !.status = IF err = None THEN "finished" ELSE "failed"]
    /\ UNCHANGED <<content, cut, broken>>

\* The callback for the two final statuses is part of the module FwUpdate.
StepResting ==
    /\ dl.status \notin Active
    /\ dl' = [dl EXCEPT !.reported = dl.status]
    /\ UNCHANGED <<content, cut, broken>>

\* The server offers another content (external).
NewContent == content' \in Versions \ {content} /\ UNCHANGED <<dl, file, cut, broken>>
=============================================================================

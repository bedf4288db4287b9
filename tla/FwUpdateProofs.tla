---------------------------- MODULE FwUpdateProofs ----------------------------
(***************************************************************************)
(* The image of a pulled firmware is whole whenever the Firmware Update    *)
(* Object says so, and the parties of a download stay in step, for every   *)
(* number of blocks, URIs and contents, until the end of a download is     *)
(* overtaken: the invariant is about the states in which broken is false.  *)
(***************************************************************************)
EXTENDS FwUpdate, SequenceTheorems, TLAPS

\* The first n blocks of content v of uri.
Blocks(uri, n, v) == [i \in 1..n |-> <<uri, i - 1, v>>]

\* The file holds a content of uri, unless a token was missing.
Holds(uri) == cut \/ \E v \in Versions : file.blocks = Blocks(uri, NBlocks, v)

\* The types that the proof needs.
DownloaderType ==
    [status : Statuses, reported : Statuses, err : Errors,
     etag : Versions \cup {None}, uri : Uris \cup {None},
     ex : {"finished", "sending", "ack", "waiting", "last_ack"},
     block : Nat, retry : Nat, socket : BOOLEAN, sending : BOOLEAN]

Types ==
    /\ fw \in [state : States, result : Results, uri : Uris \cup {None, Partial},
               started : BOOLEAN]
    /\ dl \in DownloaderType
    /\ file = [open |-> file.open, blocks |-> file.blocks]
    /\ file.open \in BOOLEAN /\ content \in Versions

\* What the downloader and the application's file have to do with each other.
Download ==
    /\ dl.ex # "finished" =>
         /\ dl.status = "downloading" /\ dl.block < NBlocks
         /\ dl.ex \in {"sending", "ack", "waiting"}
         /\ dl.block > 0 => dl.etag # None
         /\ file.blocks = Blocks(dl.uri, dl.block, dl.etag)
    /\ dl.status = "downloading" =>
         /\ file.open /\ dl.err = None /\ dl.reported = "starting"
         /\ dl.ex # "finished" \/ cut
    /\ dl.status = "starting" =>
         /\ dl.err = None /\ dl.etag = None /\ ~dl.sending
         /\ dl.reported = "starting" => file.open /\ file.blocks = <<>>
         /\ dl.reported # "starting" => ~file.open
    /\ dl.status \in {"finishing", "finished"} /\ dl.err = None => Holds(dl.uri)
    /\ dl.status = "finished" => dl.err = None
    /\ dl.status = "finishing" /\ dl.reported = "finishing" => ~file.open
    /\ dl.status \notin Active =>
         ~file.open /\ ~dl.socket /\ ~dl.sending /\ dl.reported # "starting"

\* What they have to do with the object.
Object ==
    /\ dl.status \in {"starting", "downloading"} => fw.state = "downloading"
    /\ fw.state = "downloading" => fw.uri = dl.uri
    /\ fw.state \in {"downloaded", "updating"} /\ via = "pull" =>
         ~file.open /\ Holds(fw.uri)

FwInv == Types /\ Download /\ Object

USE DEF Statuses, Active, Ended, Errors, States, Results, HandlerResults,
        NetResults, None, Partial

\* A block in sequence extends the beginning of a content.
LEMMA Appended ==
    ASSUME NEW uri, NEW v, NEW n \in Nat, NEW s, s = Blocks(uri, n, v)
    PROVE  Append(s, <<uri, n, v>>) = Blocks(uri, n + 1, v)
  BY DEF Blocks

\* An empty file is the beginning of every content.
LEMMA NoBlocks == ASSUME NEW uri, NEW v PROVE <<>> = Blocks(uri, 0, v)
  BY DEF Blocks

\* The type of a downloader that has closed its connection,
LEMMA EndedType ==
    ASSUME NEW d \in DownloaderType, NEW err \in Errors, NEW status \in Statuses
    PROVE  [d EXCEPT !.socket = FALSE, !.err = err, !.status = status] \in DownloaderType
<1> HIDE DEF Statuses, Errors
<1> QED BY Zenon DEF DownloaderType

\* and of one that was terminated.
LEMMA TerminatedType ==
    ASSUME NEW d \in DownloaderType, NEW err \in Errors, NEW status \in Statuses
    PROVE  [d EXCEPT !.err = err, !.status = status, !.ex = "finished"] \in DownloaderType
<1> HIDE DEF Statuses, Errors
<1> QED BY Zenon DEF DownloaderType

\* The types hold after a step that keeps those of the downloader.
LEMMA TypesKept ==
    ASSUME Types, UNCHANGED <<content, fw>>, dl' \in DownloaderType,
           file' = [open |-> file'.open, blocks |-> file'.blocks],
           file'.open \in BOOLEAN
    PROVE  Types'
<1> HIDE DEF Statuses, Errors, States, Results
<1> QED BY DEF Types

\* The invariant holds at the start.
LEMMA InitHolds == Init => FwInv
  BY DEF Init, FwInv, Types, Download, Object, DownloaderType,
         DownloaderInit, NewDownloader, Repr

\* A download that is terminated from the callback before it has a file ends,
\* unless the step overwrites its status.
LEMMA UnopenedHolds ==
    ASSUME FwInv, ~broken', UNCHANGED <<content, fwVars>>, dl.status = "starting",
           NEW connect \in NetResults, EventDue("starting"),
           NEW socket \in BOOLEAN, NEW prepared \in BOOLEAN, NEW token \in BOOLEAN,
           Connect(connect, FALSE, socket, prepared, token)
    PROVE  FwInv'
<1>0. dl \in DownloaderType /\ dl.ex = "finished"
  BY DEF FwInv, Types, Download
<1> DEFINE r == [dl EXCEPT !.reported = "starting", !.socket = socket]
           d == [r EXCEPT !.err = "terminated", !.status = "finishing", !.ex = "finished"]
<1>1. Terminate(r) = d
  BY <1>0 DEF Terminate, DownloaderType
<1>2. /\ file' = [open |-> FALSE, blocks |-> <<>>]
      /\ dl' = CASE connect = "inprogress" -> d
                 [] connect = "error" ->
                      [d EXCEPT !.status = "finishing", !.err = "network"]
                 [] OTHER -> StartNewExchange(d, prepared, token)
      /\ broken' = (broken \/ Overtaken(connect, FALSE, prepared))
  BY <1>1, Zenon DEF Connect
<1>3. connect # "ok" \/ ~prepared
  BY <1>2 DEF Overtaken
<1>4. PICK err \in {"terminated", "network", "internal"} :
        dl' = [d EXCEPT !.err = err, !.status = "finishing"]
  <2>1. d = [d EXCEPT !.err = "terminated", !.status = "finishing"]
    BY <1>0 DEF DownloaderType
  <2>2. dl' \in {d, [d EXCEPT !.status = "finishing", !.err = "network"],
                 [d EXCEPT !.status = "finishing", !.err = "internal"]}
    <3> HIDE DEF d
    <3> QED BY <1>2, <1>3 DEF StartNewExchange
  <2>3. \A e : [d EXCEPT !.status = "finishing", !.err = e]
                = [d EXCEPT !.err = e, !.status = "finishing"]
    BY <1>0 DEF DownloaderType
  <2> HIDE DEF d
  <2> QED BY <2>1, <2>2, <2>3, Zenon
<1>5. dl' \in DownloaderType
  <2>1. "finishing" \in Statuses /\ "starting" \in Statuses /\ err \in Errors
        /\ "terminated" \in Errors
    OBVIOUS
  <2> HIDE DEF Statuses, Errors, None
  <2>2. r \in DownloaderType
    BY <1>0, <2>1, Zenon DEF DownloaderType
  <2> HIDE DEF r
  <2>3. d \in DownloaderType
    BY <2>1, <2>2, Zenon DEF DownloaderType
  <2> HIDE DEF d
  <2> QED BY <1>4, <2>1, <2>3, Zenon DEF DownloaderType
<1>6. /\ dl'.status = "finishing" /\ dl'.err # None /\ dl'.ex = "finished"
      /\ dl'.reported = "starting" /\ dl'.uri = dl.uri
  BY <1>0, <1>4 DEF DownloaderType
<1>7. Types'
  BY <1>2, <1>5 DEF FwInv, Types, fwVars
<1>8. Download'
  BY <1>2, <1>6 DEF Download
<1>9. Object'
  BY <1>6 DEF FwInv, Object, fwVars
<1> QED BY <1>7, <1>8, <1>9 DEF FwInv

\* A step of the downloader that starts a download.
LEMMA StartingHolds ==
    ASSUME FwInv, ~broken', UNCHANGED fwVars,
           NEW connect \in NetResults, StepStarting(connect)
    PROVE  FwInv'
<1>0. PICK opened \in BOOLEAN, socket \in BOOLEAN, prepared \in BOOLEAN, token \in BOOLEAN :
        Connect(connect, opened, socket, prepared, token)
  BY DownloaderAssumption, Zenon DEF StepStarting
<1>1. CASE EventDue("starting") /\ ~opened
  <2>1. Connect(connect, FALSE, socket, prepared, token)
    BY <1>0, <1>1, Zenon
  <2>2. dl.status = "starting" /\ UNCHANGED <<content, fwVars>>
    BY DEF StepStarting
  <2> QED BY <1>1, <2>1, <2>2, UnopenedHolds
<1>2. CASE ~(EventDue("starting") /\ ~opened)
  <2>1. LET d == [dl EXCEPT !.reported = "starting", !.socket = socket]
        IN /\ file' = IF EventDue("starting") THEN [open |-> TRUE, blocks |-> <<>>]
                      ELSE file
           /\ dl' = CASE connect = "inprogress" -> d
                      [] connect = "error" ->
                           [d EXCEPT !.status = "finishing", !.err = "network"]
                      [] OTHER -> StartNewExchange(d, prepared, token)
           /\ cut' = (cut \/ (connect = "ok" /\ prepared /\ ~token))
    BY <1>0, <1>2 DEF Connect
  <2> USE DEF FwInv, Types, Download, Object, DownloaderType
  <2>2. dl.status = "starting" /\ content' = content /\ fw' = fw /\ via' = via
    BY DEF StepStarting, fwVars
  <2>3. file' = [open |-> file'.open, blocks |-> file'.blocks]
        /\ file'.open = TRUE /\ file'.blocks = <<>>
    BY <2>1, <2>2, Zenon DEF EventDue
  <2> DEFINE d == [dl EXCEPT !.reported = "starting", !.socket = socket]
  <2>4. \/ dl' = d
        \/ dl' = [d EXCEPT !.status = "finishing", !.err = "network"]
        \/ dl' = [d EXCEPT !.status = "finishing", !.err = "internal"]
        \/ dl' = [d EXCEPT !.status = "downloading", !.ex = "sending",
                           !.block = 0, !.retry = 0]
        \/ dl' = [d EXCEPT !.status = "downloading"] /\ cut'
    <3>1. ExchangeCompletion(d, "request") = d
      BY DEF ExchangeCompletion
    <3>2. dl' = CASE connect = "inprogress" -> d
                  [] connect = "error" ->
                       [d EXCEPT !.status = "finishing", !.err = "network"]
                  [] OTHER -> StartNewExchange(d, prepared, token)
      BY <2>1, Zenon
    <3>3. CASE connect # "ok"
      <4> HIDE DEF d
      <4> QED BY <3>2, <3>3
    <3>4. CASE connect = "ok"
      <4>1. dl' = StartNewExchange(d, prepared, token)
        <5> HIDE DEF d
        <5> QED BY <3>2, <3>4
      <4>2. prepared /\ ~token => cut'
        BY <2>1, <3>4, Zenon
      <4> HIDE DEF d
      <4> QED BY <3>1, <4>1, <4>2 DEF StartNewExchange
    <3> QED BY <3>3, <3>4, Zenon
  <2>5. CASE dl' = d
    BY <2>2, <2>3, <2>5, Zenon
  <2>6. CASE dl' = [d EXCEPT !.status = "finishing", !.err = "network"]
    <3>1. Types'
      BY <2>2, <2>3, <2>6, ZenonT(90)
    <3>2. Download'
      BY <2>2, <2>3, <2>6
    <3>3. Object'
      BY <2>2, <2>3, <2>6
    <3> QED BY <3>1, <3>2, <3>3
  <2>7. CASE dl' = [d EXCEPT !.status = "finishing", !.err = "internal"]
    <3>1. Types'
      BY <2>2, <2>3, <2>7, ZenonT(90)
    <3>2. Download'
      BY <2>2, <2>3, <2>7
    <3>3. Object'
      BY <2>2, <2>3, <2>7
    <3> QED BY <3>1, <3>2, <3>3
  <2>8. CASE dl' = [d EXCEPT !.status = "downloading", !.ex = "sending",
                             !.block = 0, !.retry = 0]
    <3>0. <<>> = Blocks(dl'.uri, 0, dl'.etag)
      BY NoBlocks
    <3>1. Types'
      BY <2>2, <2>3, <2>8, ZenonT(90)
    <3>2. Download'
      BY <2>2, <2>3, <2>8, <3>0, DownloaderAssumption
    <3>3. Object'
      BY <2>2, <2>3, <2>8
    <3> QED BY <3>1, <3>2, <3>3
  <2>9. CASE dl' = [d EXCEPT !.status = "downloading"] /\ cut'
    <3>1. Types'
      BY <2>2, <2>3, <2>9, ZenonT(90)
    <3>2. Download'
      BY <2>2, <2>3, <2>9
    <3>3. Object'
      BY <2>2, <2>3, <2>9
    <3> QED BY <3>1, <3>2, <3>3
  <2> QED BY <2>4, <2>5, <2>6, <2>7, <2>8, <2>9
<1> QED BY <1>1, <1>2

\* A download that fails, with the file still open, is in order.
LEMMA FailedHolds ==
    ASSUME FwInv, UNCHANGED <<file, content, fwVars>>, dl.status = "downloading",
           NEW error \in Errors \ {None}, NEW sending \in BOOLEAN,
           dl' = [dl EXCEPT !.sending = sending, !.err = error, !.ex = "finished",
                            !.status = "finishing"]
    PROVE  FwInv'
<1> USE DEF FwInv, Types, Download, Object, DownloaderType, fwVars
<1>1. Types'
  <2>1. dl \in DownloaderType /\ Types
    BY DEF FwInv, Types
  <2> HIDE DEF FwInv, Types, Download, Object
  <2>2. dl' \in DownloaderType
    <3> HIDE DEF Statuses, Errors, None
    <3>1. "finishing" \in Statuses
      BY DEF Statuses
    <3> QED BY <2>1, <3>1, Zenon DEF DownloaderType
  <2> QED BY <2>1, <2>2, TypesKept DEF Types, fwVars
<1>2. Download'
  OBVIOUS
<1>3. Object'
  BY DEF Holds
<1> QED BY <1>1, <1>2, <1>3

\* The completion handler records the first error.
LEMMA CompletionError ==
    ASSUME NEW d \in DownloaderType, d.err = None,
           NEW result \in {"invalid_response", "timeout", "internal"}
    PROVE  Finalized(d, result) = [d EXCEPT !.err = result, !.ex = "finished",
                                            !.status = "finishing"]
  BY DEF Finalized, ExchangeCompletion, DownloaderType

\* So is one that goes on with the same block.
LEMMA SameBlockHolds ==
    ASSUME FwInv, UNCHANGED <<file, content, fwVars>>, dl.ex # "finished",
           NEW ex \in {"sending", "ack", "waiting"}, NEW retry \in Nat,
           NEW sending \in BOOLEAN,
           dl' = [dl EXCEPT !.sending = sending, !.ex = ex, !.retry = retry]
    PROVE  FwInv'
<1> USE DEF FwInv, Types, Download, Object, DownloaderType, fwVars
<1>1. Types'
  BY ZenonT(90)
<1>2. Download'
  OBVIOUS
<1>3. Object'
  OBVIOUS
<1> QED BY <1>1, <1>2, <1>3

\* A send that is over, in progress, failed or too late keeps the invariant.
LEMMA SendHolds ==
    ASSUME FwInv, UNCHANGED fwVars, NEW sent \in NetResults, Send(sent)
    PROVE  FwInv'
<1>1. PICK late \in BOOLEAN :
        LET d == [dl EXCEPT !.sending = (sent = "inprogress")]
        IN dl' = CASE sent = "inprogress" -> IF late THEN Failed(d, "network") ELSE d
                   [] sent = "error" -> Failed(d, "network")
                   [] OTHER -> IF late THEN Finalized(d, "timeout")
                               ELSE [d EXCEPT !.ex = IF dl.ex = "ack" THEN "sending"
                                                                      ELSE "waiting"]
  BY DEF Send
<1>2. PICK sending \in BOOLEAN : sending = (sent = "inprogress")
  BY ZenonT(90)
<1> DEFINE d == [dl EXCEPT !.sending = sending]
<1>3. /\ dl \in DownloaderType /\ dl.status = "downloading" /\ dl.err = None
      /\ dl.ex \in {"sending", "ack", "waiting"}
      /\ UNCHANGED <<file, content, fwVars>>
  BY DEF FwInv, Types, Download, Send
<1>4. d \in DownloaderType /\ d.err = None
  BY <1>3 DEF DownloaderType
<1>5. \/ dl' = d
      \/ \E x \in {"sending", "waiting"} : dl' = [d EXCEPT !.ex = x]
      \/ \E e \in Errors \ {None} :
           dl' = [d EXCEPT !.err = e, !.ex = "finished", !.status = "finishing"]
  <2>1. dl' = CASE sent = "inprogress" -> IF late THEN Failed(d, "network") ELSE d
                [] sent = "error" -> Failed(d, "network")
                [] OTHER -> IF late THEN Finalized(d, "timeout")
                            ELSE [d EXCEPT !.ex = IF dl.ex = "ack" THEN "sending"
                                                                   ELSE "waiting"]
    BY <1>1, <1>2, Zenon
  <2>2. Finalized(d, "timeout") = [d EXCEPT !.err = "timeout", !.ex = "finished",
                                            !.status = "finishing"]
    BY <1>4, CompletionError, Zenon
  <2> HIDE DEF d
  <2> QED BY <2>1, <2>2, Zenon DEF Failed
<1>6. CASE dl' = d
  <2>1. dl' = [dl EXCEPT !.sending = sending, !.ex = dl.ex, !.retry = dl.retry]
    BY <1>3, <1>6, Zenon DEF DownloaderType
  <2> QED BY <1>3, <2>1, SameBlockHolds, Zenon DEF DownloaderType
<1>7. CASE \E x \in {"sending", "waiting"} : dl' = [d EXCEPT !.ex = x]
  <2>1. PICK x \in {"sending", "waiting"} : dl' = [d EXCEPT !.ex = x]
    BY <1>7, Zenon
  <2>2. dl' = [dl EXCEPT !.sending = sending, !.ex = x, !.retry = dl.retry]
    BY <1>3, <2>1, Zenon DEF DownloaderType
  <2> QED BY <1>3, <2>2, SameBlockHolds, Zenon DEF DownloaderType
<1>8. CASE \E e \in Errors \ {None} :
             dl' = [d EXCEPT !.err = e, !.ex = "finished", !.status = "finishing"]
  BY <1>3, <1>8, FailedHolds, Zenon
<1> QED BY <1>5, <1>6, <1>7, <1>8, Zenon

\* So does a timeout, which retransmits or ends the download,
LEMMA TimeoutHolds == ASSUME FwInv, UNCHANGED fwVars, ReceiveTimeout PROVE FwInv'
<1>1. /\ dl \in DownloaderType /\ dl.status = "downloading" /\ dl.err = None
      /\ dl.ex = "waiting" /\ UNCHANGED <<file, content, fwVars>>
  BY DEF FwInv, Types, Download, ReceiveTimeout
<1>2. CASE dl' = [dl EXCEPT !.retry = @ + 1, !.ex = "sending"]
  <2>1. dl.retry + 1 \in Nat /\ dl.sending \in BOOLEAN
    BY <1>1 DEF DownloaderType
  <2>2. dl' = [dl EXCEPT !.sending = dl.sending, !.ex = "sending",
                         !.retry = dl.retry + 1]
    BY <1>1, <1>2, Zenon DEF DownloaderType
  <2> QED BY <1>1, <2>1, <2>2, SameBlockHolds, Zenon
<1>3. CASE dl' = Finalized(dl, "timeout")
  <2>1. dl' = [dl EXCEPT !.err = "timeout", !.ex = "finished",
                         !.status = "finishing"]
    BY <1>1, <1>3, CompletionError, Zenon
  <2>2. dl' = [dl EXCEPT !.sending = dl.sending, !.err = "timeout",
                         !.ex = "finished", !.status = "finishing"]
    BY <1>1, <2>1, Zenon DEF DownloaderType
  <2> QED BY <1>1, <2>2, FailedHolds, Zenon DEF DownloaderType
<1> QED BY <1>2, <1>3 DEF ReceiveTimeout

\* an empty message, which counts them anew,
LEMMA EmptyHolds == ASSUME FwInv, UNCHANGED fwVars, ReceiveEmpty PROVE FwInv'
<1>1. /\ dl \in DownloaderType /\ dl.ex = "waiting" /\ UNCHANGED <<file, content, fwVars>>
      /\ dl' = [dl EXCEPT !.retry = 0]
  BY DEF FwInv, Types, ReceiveEmpty
<1>2. dl' = [dl EXCEPT !.sending = dl.sending, !.ex = "waiting", !.retry = 0]
  BY <1>1, Zenon DEF DownloaderType
<1>3. dl.sending \in BOOLEAN
  BY <1>1 DEF DownloaderType
<1> QED BY <1>1, <1>2, <1>3, SameBlockHolds

\* and so does everything that ends it with an error.
LEMMA ErrorHolds == ASSUME FwInv, UNCHANGED fwVars, ReceiveError PROVE FwInv'
<1>1. /\ dl \in DownloaderType /\ dl.status = "downloading" /\ dl.err = None
      /\ UNCHANGED <<file, content, fwVars>>
  BY DEF FwInv, Types, Download, ReceiveError
<1>2. PICK error \in {"network", "internal", "invalid_response"} :
        dl' = [dl EXCEPT !.err = error, !.ex = "finished", !.status = "finishing"]
  BY <1>1, CompletionError, Zenon DEF ReceiveError, Failed
<1>3. dl' = [dl EXCEPT !.sending = dl.sending, !.err = error, !.ex = "finished",
                       !.status = "finishing"]
  BY <1>1, <1>2, Zenon DEF DownloaderType
<1> QED BY <1>1, <1>3, FailedHolds, Zenon DEF DownloaderType

\* A stray response may give the download its ETag only before the first block.
LEMMA StrayHolds == ASSUME FwInv, UNCHANGED fwVars, ReceiveStray PROVE FwInv'
<1>1. /\ dl \in DownloaderType /\ dl.status = "downloading" /\ dl.err = None
      /\ dl.ex = "waiting" /\ dl.sending \in BOOLEAN /\ UNCHANGED <<file, content, fwVars>>
  BY DEF FwInv, Types, Download, ReceiveStray, DownloaderType
<1>2. PICK etag \in Versions : dl' = IF EtagMismatch(etag) THEN Failed(dl, "etag_mismatch")
                                    ELSE [dl EXCEPT !.etag = etag]
  BY DEF ReceiveStray
<1>3. CASE EtagMismatch(etag)
  <2>1. dl' = [dl EXCEPT !.err = "etag_mismatch", !.ex = "finished",
                         !.status = "finishing"]
    BY <1>2, <1>3 DEF Failed
  <2>2. dl' = [dl EXCEPT !.sending = dl.sending, !.err = "etag_mismatch",
                         !.ex = "finished", !.status = "finishing"]
    BY <1>1, <2>1, Zenon DEF DownloaderType
  <2>3. "etag_mismatch" \in Errors \ {None}
    OBVIOUS
  <2> QED BY <1>1, <2>2, <2>3, FailedHolds, Zenon
<1>4. CASE ~EtagMismatch(etag)
  <2>1. dl' = [dl EXCEPT !.etag = etag] /\ dl.etag \in {None, etag}
    BY <1>2, <1>4 DEF EtagMismatch
  <2>2. etag # None
    BY DownloaderAssumption
  <2>3. Types'
    BY <1>1, <2>1 DEF FwInv, Types, DownloaderType, fwVars
  <2>4. file.blocks = Blocks(dl.uri, dl.block, etag)
    <3>1. CASE dl.etag = etag
      BY <1>1, <3>1 DEF FwInv, Download
    <3>2. CASE dl.etag = None
      BY <1>1, <3>2, NoBlocks DEF FwInv, Download, DownloaderType
    <3> QED BY <2>1, <3>1, <3>2
  <2>5. Download'
    BY <1>1, <2>1, <2>2, <2>4 DEF FwInv, Download, DownloaderType
  <2>6. Object'
    BY <1>1, <2>1 DEF FwInv, Object, DownloaderType, Holds, fwVars
  <2> QED BY <2>3, <2>5, <2>6 DEF FwInv
<1> QED BY <1>3, <1>4

\* What becomes of the downloader after a block that was written, or not.
LEMMA AfterPayloadFails ==
    ASSUME NEW d \in DownloaderType, d.status = "downloading",
           NEW separate \in BOOLEAN, NEW token \in BOOLEAN, NEW ack \in NetResults,
           separate => ack # "inprogress"
    PROVE  AfterPayload(Terminate(d), FALSE, separate, token, ack) \in
              {Failed(d, "terminated"), Failed(d, "network")}
<1> DEFINE t == [d EXCEPT !.err = "terminated", !.status = "finishing", !.ex = "finished"]
<1>1. Terminate(d) = t
  BY DEF Terminate
<1>2. ExchangeCompletion(t, "success") = [t EXCEPT !.status = "finished"]
  BY DEF ExchangeCompletion
<1>3. AfterPayload(t, FALSE, separate, token, ack) \in
        {Finalized(t, "success"), Failed([t EXCEPT !.status = "finished"], "network"),
         [[t EXCEPT !.status = "finished"] EXCEPT !.ex = "finished", !.status = "finishing"]}
  <2> HIDE DEF t
  <2> QED BY <1>2, Zenon DEF AfterPayload
<1>4. /\ Finalized(t, "success") = [d EXCEPT !.err = "terminated", !.ex = "finished",
                                             !.status = "finishing"]
      /\ Failed([t EXCEPT !.status = "finished"], "network") =
           [d EXCEPT !.err = "network", !.ex = "finished", !.status = "finishing"]
      /\ [[t EXCEPT !.status = "finished"] EXCEPT !.ex = "finished", !.status = "finishing"] =
           [d EXCEPT !.err = "terminated", !.ex = "finished", !.status = "finishing"]
  BY <1>2, Zenon DEF Finalized, Failed, DownloaderType
<1> QED BY <1>1, <1>3, <1>4, Zenon DEF Failed

\* With more blocks to come the exchange goes on, or ends for want of a token.
LEMMA AfterPayloadMore ==
    ASSUME NEW d \in DownloaderType, d.err = None, NEW separate \in BOOLEAN,
           NEW token \in BOOLEAN, NEW ack,
           NEW n, n = AfterPayload(d, TRUE, separate, token, ack)
    PROVE  \/ n \in {[d EXCEPT !.ex = "ack", !.retry = 0],
                     [d EXCEPT !.ex = "sending", !.retry = 0]}
           \/ ~separate /\ ~token /\ n = [d EXCEPT !.ex = "finished", !.status = "finishing"]
<1>1. ExchangeCompletion(d, "request") = d
  BY DEF ExchangeCompletion
<1> QED BY <1>1, Zenon DEF AfterPayload, Finalized

\* After the last one it ends, with an error if the acknowledgement fails.
LEMMA AfterPayloadLast ==
    ASSUME NEW d \in DownloaderType, d.err = None,
           NEW separate \in BOOLEAN, NEW token \in BOOLEAN, NEW ack \in NetResults,
           separate => ack # "inprogress"
    PROVE  AfterPayload(d, FALSE, separate, token, ack) \in
              {Failed(d, None), Failed(d, "network")}
<1> DEFINE c == [d EXCEPT !.status = "finished"]
<1>1. ExchangeCompletion(d, "success") = c
  BY DEF ExchangeCompletion
<1>2. AfterPayload(d, FALSE, separate, token, ack) \in
        {Finalized(d, "success"), Failed(c, "network"),
         [c EXCEPT !.ex = "finished", !.status = "finishing"]}
  <2> HIDE DEF c
  <2> QED BY <1>1, Zenon DEF AfterPayload
<1>3. /\ Finalized(d, "success") = [d EXCEPT !.err = None, !.ex = "finished",
                                             !.status = "finishing"]
      /\ Failed(c, "network") = [d EXCEPT !.err = "network", !.ex = "finished",
                                          !.status = "finishing"]
      /\ [c EXCEPT !.ex = "finished", !.status = "finishing"] =
           [d EXCEPT !.err = None, !.ex = "finished", !.status = "finishing"]
  BY <1>1, ZenonT(90) DEF Finalized, Failed, DownloaderType
<1> QED BY <1>2, <1>3, Zenon DEF Failed

\* A block extends the image by the next one of the same content, or fails.
LEMMA BlockHolds ==
    ASSUME FwInv, ~broken', UNCHANGED fwVars, ReceiveBlock
    PROVE  FwInv'
<1>1. /\ dl \in DownloaderType /\ dl.status = "downloading" /\ dl.err = None
      /\ dl.ex = "waiting" /\ dl.reported = "starting" /\ dl.block < NBlocks
      /\ UNCHANGED <<content, fwVars>> /\ content \in Versions
      /\ file.open /\ file = [open |-> file.open, blocks |-> file.blocks]
      /\ fw.state = "downloading"
  BY DEF FwInv, Types, Download, Object, ReceiveBlock
<1>2. CASE EtagMismatch(content)
  <2>1. dl' = [dl EXCEPT !.err = "etag_mismatch", !.ex = "finished",
                         !.status = "finishing"] /\ file' = file
    BY <1>2 DEF ReceiveBlock, Failed
  <2>2. dl' = [dl EXCEPT !.sending = dl.sending, !.err = "etag_mismatch",
                         !.ex = "finished", !.status = "finishing"]
    BY <1>1, <2>1, Zenon DEF DownloaderType
  <2>3. dl.sending \in BOOLEAN /\ "etag_mismatch" \in Errors \ {None}
    BY <1>1 DEF DownloaderType
  <2>4. UNCHANGED <<file, content, fwVars>> /\ dl.status = "downloading"
    BY <1>1, <2>1
  <2> QED BY <2>2, <2>3, <2>4, FailedHolds, Zenon
<1>3. CASE ~EtagMismatch(content)
  <2> DEFINE d == [dl EXCEPT !.etag = content, !.block = dl.block + 1]
  <2>0. RngResults \subseteq BOOLEAN /\ AckSent \subseteq NetResults
    BY DownloaderAssumption
  <2>00. \E written, separate \in BOOLEAN, token \in RngResults, ack \in AckSent :
          /\ cut' = (cut \/ ((dl.block + 1 < NBlocks /\ written) /\ ~separate /\ ~token))
          /\ broken' = (broken \/ LastAckPending(dl.block + 1 < NBlocks /\ written,
                                                separate, ack))
          /\ dl' = AfterPayload(IF written THEN d ELSE Terminate(d),
                                dl.block + 1 < NBlocks /\ written, separate, token, ack)
          /\ file' = IF written
                       THEN [file EXCEPT !.blocks =
                               Append(@, <<dl.uri, dl.block, content>>)]
                       ELSE file
    BY <1>3, ZenonT(90) DEF ReceiveBlock
  <2>1. PICK written \in BOOLEAN, separate \in BOOLEAN, token \in BOOLEAN,
             ack \in NetResults :
          /\ cut' = (cut \/ ((dl.block + 1 < NBlocks /\ written) /\ ~separate /\ ~token))
          /\ broken' = (broken \/ LastAckPending(dl.block + 1 < NBlocks /\ written,
                                                separate, ack))
          /\ dl' = AfterPayload(IF written THEN d ELSE Terminate(d),
                                dl.block + 1 < NBlocks /\ written, separate, token, ack)
          /\ file' = IF written
                       THEN [file EXCEPT !.blocks =
                               Append(@, <<dl.uri, dl.block, content>>)]
                       ELSE file
    <3> HIDE DEF d, NetResults
    <3> QED BY <2>0, <2>00, ZenonT(90)
  <2>ack. ~(dl.block + 1 < NBlocks /\ written) => (separate => ack # "inprogress")
    BY <2>1, Zenon DEF LastAckPending
  <2>2. d \in DownloaderType /\ d.status = "downloading" /\ d.err = None
    <3>1. content \in Versions \cup {None} /\ dl.block + 1 \in Nat
      BY <1>1 DEF DownloaderType
    <3>2. dl \in DownloaderType /\ dl.status = "downloading" /\ dl.err = None
      BY <1>1
    <3> QED BY <3>1, <3>2, Zenon DEF DownloaderType
  <2>3. file.blocks = Blocks(dl.uri, dl.block, content)
    <3>1. CASE dl.block = 0
      BY <1>1, <3>1, NoBlocks DEF FwInv, Download
    <3>2. CASE dl.block # 0
      BY <1>1, <1>3, <3>2 DEF FwInv, Download, EtagMismatch, DownloaderType
    <3> QED BY <3>1, <3>2
  <2>4. CASE ~written
    <3>1. dl' = AfterPayload(Terminate(d), FALSE, separate, token, ack) /\ file' = file
      BY <2>1, <2>4, Zenon
    <3>2. PICK e \in {"terminated", "network"} :
            dl' = [d EXCEPT !.err = e, !.ex = "finished", !.status = "finishing"]
      <4> HIDE DEF d
      <4>1. dl' \in {Failed(d, "terminated"), Failed(d, "network")}
        BY <2>2, <2>4, <2>ack, <3>1, AfterPayloadFails, Zenon
      <4> QED BY <4>1, Zenon DEF Failed
    <3>3. Types'
      <4>1. dl' \in DownloaderType
        <5> HIDE DEF d
        <5> QED BY <2>2, <3>2, Zenon DEF DownloaderType
      <4> QED BY <1>1, <3>1, <4>1, Zenon DEF FwInv, Types, fwVars
    <3>4. Download'
      BY <1>1, <3>1, <3>2, ZenonT(90) DEF Download, DownloaderType
    <3>5. Object'
      BY <1>1, <3>1, <3>2, Zenon DEF FwInv, Object, DownloaderType, fwVars
    <3> QED BY <3>3, <3>4, <3>5 DEF FwInv
  <2>5. CASE written
    <3>1. /\ file' = [open |-> file'.open, blocks |-> file'.blocks] /\ file'.open
          /\ file'.open \in BOOLEAN
          /\ file'.blocks = Append(file.blocks, <<dl.uri, dl.block, content>>)
      BY <1>1, <2>1, <2>5, Zenon DEF FwInv, Types
    <3>2. file'.blocks = Blocks(dl.uri, dl.block + 1, content)
      BY <1>1, <2>3, <3>1, Appended DEF DownloaderType
    <3>3. CASE dl.block + 1 < NBlocks
      <4>1. dl' = AfterPayload(d, TRUE, separate, token, ack)
        BY <2>1, <2>5, <3>3, Zenon
      <4>2. CASE \E x \in {"ack", "sending"} : dl' = [d EXCEPT !.ex = x, !.retry = 0]
        <5>0. PICK x \in {"ack", "sending"} : dl' = [d EXCEPT !.ex = x, !.retry = 0]
          BY <4>2, Zenon
        <5>1. Types'
          <6>1. dl' \in DownloaderType
            <7> HIDE DEF d
            <7> QED BY <2>2, <5>0, Zenon DEF DownloaderType
          <6> QED BY <1>1, <3>1, <6>1 DEF FwInv, Types, fwVars
        <5>2. Download'
          BY <1>1, <3>1, <3>2, <3>3, <5>0, DownloaderAssumption DEF Download, DownloaderType
        <5>3. Object'
          BY <1>1, <5>0 DEF FwInv, Object, DownloaderType, fwVars
        <5> QED BY <5>1, <5>2, <5>3 DEF FwInv
      <4>3. CASE cut' /\ dl' = [d EXCEPT !.ex = "finished", !.status = "finishing"]
        <5>1. Types'
          <6>1. dl' \in DownloaderType
            <7> HIDE DEF d
            <7> QED BY <2>2, <4>3, Zenon DEF DownloaderType
          <6> QED BY <1>1, <3>1, <6>1 DEF FwInv, Types, fwVars
        <5>2. Download'
          BY <1>1, <3>1, <4>3 DEF Download, DownloaderType, Holds
        <5>3. Object'
          BY <1>1, <4>3 DEF FwInv, Object, DownloaderType, fwVars
        <5> QED BY <5>1, <5>2, <5>3 DEF FwInv
      <4>4. ~separate /\ ~token => cut'
        BY <2>1, <2>5, <3>3, Zenon
      <4>5. \/ \E x \in {"ack", "sending"} : dl' = [d EXCEPT !.ex = x, !.retry = 0]
            \/ cut' /\ dl' = [d EXCEPT !.ex = "finished", !.status = "finishing"]
        <5>1. ASSUME NEW n, n = AfterPayload(d, TRUE, separate, token, ack)
              PROVE  \/ n \in {[d EXCEPT !.ex = "ack", !.retry = 0],
                               [d EXCEPT !.ex = "sending", !.retry = 0]}
                     \/ /\ ~separate /\ ~token
                        /\ n = [d EXCEPT !.ex = "finished", !.status = "finishing"]
          <6> HIDE DEF d
          <6> QED BY <2>2, <5>1, AfterPayloadMore
        <5> HIDE DEF d
        <5> QED BY <4>1, <4>4, <5>1
      <4> QED BY <4>2, <4>3, <4>5, Zenon
    <3>4. CASE ~(dl.block + 1 < NBlocks)
      <4>1. dl' = AfterPayload(d, FALSE, separate, token, ack)
        BY <2>1, <2>5, <3>4, Zenon
      <4>2. PICK e \in {None, "network"} :
              dl' = [d EXCEPT !.err = e, !.ex = "finished", !.status = "finishing"]
        <5> HIDE DEF d
        <5>1. dl' \in {Failed(d, None), Failed(d, "network")}
          BY <2>2, <2>ack, <3>4, <4>1, AfterPayloadLast, Zenon
        <5> QED BY <5>1, Zenon DEF Failed
      <4>3. Types'
        <5>1. dl' \in DownloaderType
          <6> HIDE DEF d
          <6> QED BY <2>2, <4>2, Zenon DEF DownloaderType
        <5> QED BY <1>1, <3>1, <5>1 DEF FwInv, Types, fwVars
      <4>4. Holds(dl.uri)'
        <5>1. dl.block + 1 = NBlocks /\ dl'.uri = dl.uri
          BY <1>1, <3>4, <4>2, DownloaderAssumption DEF DownloaderType
        <5> QED BY <1>1, <3>2, <5>1 DEF Holds
      <4>5. Download'
        BY <1>1, <3>1, <4>2, <4>4 DEF Download, DownloaderType
      <4>6. Object'
        BY <1>1, <4>2 DEF FwInv, Object, DownloaderType, fwVars
      <4> QED BY <4>3, <4>5, <4>6 DEF FwInv
    <3> QED BY <3>3, <3>4
  <2> QED BY <2>4, <2>5
<1> QED BY <1>2, <1>3

\* The end of a download closes the file and keeps what is in it.
LEMMA FinishingHolds ==
    ASSUME FwInv, UNCHANGED fwVars, NEW closed \in NetResults, StepFinishing(closed)
    PROVE  FwInv'
<1> USE DEF FwInv, Types, DownloaderType, fwVars
<1>1. /\ dl.status = "finishing" /\ UNCHANGED <<content, cut, fwVars>>
      /\ file' = [open |-> FALSE, blocks |-> file.blocks]
  BY Zenon DEF StepFinishing, FinishingEvent, EventDue, Closed, Download
<1> DEFINE d == [dl EXCEPT !.reported = "finishing", !.sending = FALSE]
<1>2. \/ dl' = d
      \/ \E e \in Errors : /\ e # None \/ dl.err = None
                           /\ dl' = [d EXCEPT !.socket = FALSE, !.err = e,
                                       !.status = IF e = None THEN "finished" ELSE "failed"]
  <2> HIDE DEF d
  <2> QED BY Zenon DEF StepFinishing, d
<1>4. CASE dl' = d
  <2>1. Types'
    BY <1>1, <1>4, Zenon
  <2>2. Download'
    BY <1>1, <1>4 DEF Download, Holds
  <2>3. Object'
    BY <1>1, <1>4 DEF Object, Holds
  <2> QED BY <2>1, <2>2, <2>3
<1>5. CASE \E e \in Errors : /\ e # None \/ dl.err = None
                             /\ dl' = [d EXCEPT !.socket = FALSE, !.err = e,
                                         !.status = IF e = None THEN "finished" ELSE "failed"]
  <2>0. PICK e \in Errors : /\ e # None \/ dl.err = None
                            /\ dl' = [d EXCEPT !.socket = FALSE, !.err = e,
                                        !.status = IF e = None THEN "finished" ELSE "failed"]
    BY <1>5, Zenon
  <2>1. Types'
    <3>1. d \in DownloaderType
      BY ZenonT(90)
    <3>2. dl' \in DownloaderType
      <4> HIDE DEF d, FwInv, DownloaderType
      <4>1. (IF e = None THEN "finished" ELSE "failed") \in Statuses
        OBVIOUS
      <4> QED BY <2>0, <3>1, <4>1, EndedType, Zenon
    <3> QED BY <1>1, <3>2
  <2>2. Download'
    BY <1>1, <2>0 DEF Download, Holds
  <2>3. Object'
    BY <1>1, <2>0 DEF Object, Holds
  <2> QED BY <2>1, <2>2, <2>3
<1> QED BY <1>2, <1>4, <1>5

\* The exchange ends behind the status only for want of a token.
LEMMA FinishedExchangeHolds ==
    ASSUME FwInv, UNCHANGED fwVars, StepFinishedExchange PROVE FwInv'
<1> USE DEF FwInv, Types, DownloaderType, fwVars
<1>1. /\ dl.status = "downloading" /\ dl.ex = "finished" /\ UNCHANGED <<file, content, cut>>
      /\ dl' = [dl EXCEPT !.status = "finishing"]
  BY DEF StepFinishedExchange
<1>2. Types'
  BY <1>1, ZenonT(90)
<1>3. Download'
  BY <1>1 DEF Download, Holds
<1>4. Object'
  BY <1>1 DEF Object, Holds
<1> QED BY <1>2, <1>3, <1>4

\* The result of a download reaches the object.
LEMMA ReportHolds == ASSUME FwInv, StepReport PROVE FwInv'
<1> USE DEF FwInv, Types, DownloaderType
<1>1. /\ dl.status \notin Active /\ content' = content /\ cut' = cut
      /\ dl' = [dl EXCEPT !.reported = dl.status]
  BY DEF StepReport, StepResting
<1>2. CASE UNCHANGED <<file, fwVars>>
  <2>1. Types'
    BY <1>1, <1>2 DEF fwVars
  <2>2. Download'
    BY <1>1, <1>2 DEF Download, Holds
  <2>3. Object'
    BY <1>1, <1>2 DEF Object, Holds, fwVars
  <2> QED BY <2>1, <2>2, <2>3
<1>3. CASE /\ fw' = [Repr EXCEPT !.result = "error"]
           /\ file' = Closed(file)
  <2>1. /\ file' = [open |-> FALSE, blocks |-> file.blocks]
        /\ fw' = [state |-> "idle", result |-> "error", uri |-> None, started |-> FALSE]
    BY <1>3, Zenon DEF Closed, Repr
  <2>2. Types'
    BY <1>1, <2>1
  <2>3. Download'
    BY <1>1, <2>1 DEF Download, Holds
  <2>4. Object'
    BY <1>1, <2>1 DEF Object
  <2> QED BY <2>2, <2>3, <2>4
<1>4. CASE /\ dl.status = "finished" /\ fw.state = "downloading" /\ file' = file
           /\ fw' = [fw EXCEPT !.result = "initial", !.state = "downloaded"]
  <2>1. Types'
    BY <1>1, <1>4, ZenonT(90)
  <2>2. Download'
    BY <1>1, <1>4 DEF Download, Holds
  <2>3. Object'
    BY <1>1, <1>4 DEF Object, Download, Holds
  <2> QED BY <2>1, <2>2, <2>3
<1> QED BY <1>1, <1>2, <1>3, <1>4 DEF StepReport, SetDownloadResult, fwVars

(***************************************************************************)
(* The requests of the server and the calls of the application.            *)
(***************************************************************************)
\* The object changes, and neither the downloader nor the file does.
LEMMA ObjectHolds ==
    ASSUME FwInv, UNCHANGED dlVars,
           dl.status \notin {"starting", "downloading"},
           NEW state \in States \ {"downloading"}, NEW result \in Results,
           NEW uri \in Uris \cup {None, Partial}, NEW started \in BOOLEAN,
           fw' = [state |-> state, result |-> result, uri |-> uri, started |-> started],
           \/ state = "idle"
           \/ via' = "push"
           \/ fw.state \in {"downloaded", "updating"} /\ uri = fw.uri /\ via' = via
    PROVE  FwInv'
<1> USE DEF FwInv, dlVars
<1>1. Types'
  BY DEF Types
<1>2. Download'
  BY DEF Download, Holds
<1>3. Object'
  BY DEF Object, Holds
<1> QED BY <1>1, <1>2, <1>3

\* The same for an object that becomes or stays idle.
LEMMA IdleHolds ==
    ASSUME FwInv, UNCHANGED dlVars, dl.status \notin {"starting", "downloading"},
           NEW result \in Results, NEW uri \in Uris \cup {None, Partial},
           NEW started \in BOOLEAN,
           fw' = [state |-> "idle", result |-> result, uri |-> uri, started |-> started]
    PROVE  FwInv'
<1>1. "idle" \in States \ {"downloading"}
  OBVIOUS
<1> HIDE DEF States, Results, Partial, None
<1> QED BY <1>1, ObjectHolds

\* The reset handler closes the file and ends the download.
LEMMA ResetHolds ==
    ASSUME FwInv, NEW result \in Results, Reset(result) PROVE FwInv'
<1> USE DEF FwInv, Types, DownloaderType
<1>1. /\ file' = [open |-> FALSE, blocks |-> file.blocks] /\ content' = content /\ cut' = cut
      /\ fw' = [state |-> "idle", result |-> result, uri |-> None, started |-> FALSE]
      /\ dl' = Terminate(dl)
  BY Zenon DEF Reset, ResetHandler, Closed, Repr
<1>2. CASE dl.status \in {"starting", "downloading"}
  <2>0. dl' = [dl EXCEPT !.err = "terminated", !.status = "finishing", !.ex = "finished"]
    BY <1>1, <1>2 DEF Terminate
  <2>1. Types'
    <3>1. dl' \in DownloaderType
      <4> HIDE DEF DownloaderType
      <4> QED BY <2>0, TerminatedType, Zenon
    <3> QED BY <1>1, <3>1
  <2>2. Download'
    BY <1>1, <2>0 DEF Download
  <2>3. Object'
    BY <1>1, <2>0 DEF Object
  <2> QED BY <2>1, <2>2, <2>3
<1>3. CASE dl.status \notin {"starting", "downloading"}
  <2>0. dl' = dl
    BY <1>1, <1>3 DEF Terminate
  <2>1. Types'
    BY <1>1, <2>0
  <2>2. Download'
    BY <1>1, <1>3, <2>0 DEF Download, Holds
  <2>3. Object'
    BY <1>1, <1>3, <2>0 DEF Object
  <2> QED BY <2>1, <2>2, <2>3
<1> QED BY <1>2, <1>3

\* A request that is refused changes nothing the invariant speaks of.
LEMMA RefusedHolds == ASSUME FwInv, Refused PROVE FwInv'
  BY DEF Refused, dlVars, FwInv, Types, Download, Object, Holds

\* A push is taken only while nothing is downloaded.
LEMMA WritePackageHolds == ASSUME FwInv, WritePackage PROVE FwInv'
<1>1. PICK n \in {0, push} : IF fw.state # "idle" THEN Refused ELSE WritePackageChunk(n)
  BY DEF WritePackage
<1>2. CASE fw.state # "idle"
  BY <1>1, <1>2, RefusedHolds
<1>3. CASE fw.state = "idle" /\ WritePackageChunk(n)
  <2>1. PICK start \in HandlerResults, write \in HandlerResults, finish \in HandlerResults :
          \/ /\ fw' = [fw EXCEPT !.result = start] /\ UNCHANGED <<dlVars, via>>
          \/ Reset("error")
          \/ /\ UNCHANGED dlVars
             /\ \/ /\ fw' = [fw EXCEPT !.started = TRUE, !.result = "initial",
                                       !.state = "downloaded"]
                   /\ via' = "push"
                \/ fw' = [fw EXCEPT !.started = TRUE] /\ via' = via
    BY <1>3 DEF WritePackageChunk
  <2>2. /\ dl.status \notin {"starting", "downloading"}
        /\ fw.result \in Results /\ fw.uri \in Uris \cup {None, Partial}
        /\ fw.started \in BOOLEAN
    BY <1>3 DEF FwInv, Types, Object
  <2>3. CASE fw' = [fw EXCEPT !.result = start] /\ UNCHANGED <<dlVars, via>>
    <3>1. fw' = [state |-> "idle", result |-> start, uri |-> fw.uri,
                 started |-> fw.started]
      BY <1>3, <2>3 DEF FwInv, Types
    <3> QED BY <2>2, <2>3, <3>1, IdleHolds, Zenon
  <2>4. CASE Reset("error")
    BY <2>4, ResetHolds
  <2>5. CASE /\ UNCHANGED dlVars /\ via' = "push"
             /\ fw' = [fw EXCEPT !.started = TRUE, !.result = "initial",
                                 !.state = "downloaded"]
    <3>1. fw' = [state |-> "downloaded", result |-> "initial", uri |-> fw.uri,
                 started |-> TRUE]
      BY <1>3, <2>5, Zenon DEF FwInv, Types
    <3> QED BY <2>2, <2>5, <3>1, ObjectHolds, Zenon
  <2>6. CASE UNCHANGED dlVars /\ fw' = [fw EXCEPT !.started = TRUE] /\ via' = via
    <3>1. fw' = [state |-> "idle", result |-> fw.result, uri |-> fw.uri,
                 started |-> TRUE]
      BY <1>3, <2>6, Zenon DEF FwInv, Types
    <3> QED BY <2>2, <2>6, <3>1, IdleHolds, Zenon
  <2> QED BY <2>1, <2>3, <2>4, <2>5, <2>6
<1> QED BY <1>1, <1>2, <1>3

\* A pull starts a downloader that rests, and gives it the URI of the object.
LEMMA WriteUriHolds == ASSUME FwInv, WriteUri PROVE FwInv'
<1>1. CASE fw.state # "idle"
  BY <1>1, RefusedHolds DEF WriteUri
<1>2. CASE fw.state = "idle"
  <2>1. /\ \/ \E uri \in Uris : UriWriteHandler(uri)
           \/ fw' = [fw EXCEPT !.uri = Partial] /\ UNCHANGED <<dl, cut, broken>>
        /\ UNCHANGED <<file, content, broken, via>>
    BY <1>2 DEF WriteUri
  <2>2. /\ dl.status \notin {"starting", "downloading"}
        /\ fw.result \in Results /\ fw.started \in BOOLEAN
    BY <1>2 DEF FwInv, Types, Object
  <2>3. CASE \E uri \in Uris : /\ ~StartRefused(dl) /\ dl' = Start(dl, uri)
                               /\ fw' = [fw EXCEPT !.uri = uri, !.state = "downloading"]
    <3>1. PICK uri \in Uris : /\ ~StartRefused(dl) /\ dl' = Start(dl, uri)
                              /\ fw' = [fw EXCEPT !.uri = uri, !.state = "downloading"]
      BY <2>3, Zenon
    <3>2. /\ dl.status \notin Active
          /\ dl' = [dl EXCEPT !.uri = uri, !.err = None, !.status = "starting",
                              !.etag = None]
      BY <3>1 DEF StartRefused, Start
    <3>3. Types'
      BY <2>1, <3>1, <3>2, ZenonT(90) DEF FwInv, Types, DownloaderType
    <3>4. Download'
      BY <2>1, <3>1, <3>2 DEF FwInv, Types, Download, DownloaderType
    <3>5. Object'
      BY <2>1, <3>1, <3>2 DEF FwInv, Types, Object, DownloaderType
    <3> QED BY <3>3, <3>4, <3>5 DEF FwInv
  <2>4. CASE \E uri \in Uris \cup {Partial}, result \in Results :
               /\ fw' = [fw EXCEPT !.uri = uri, !.result = result] /\ UNCHANGED <<dl, cut, broken>>
    <3>1. PICK uri \in Uris \cup {Partial}, result \in Results :
            /\ fw' = [fw EXCEPT !.uri = uri, !.result = result] /\ UNCHANGED <<dl, cut, broken>>
      BY <2>4, Zenon
    <3>2. fw' = [state |-> "idle", result |-> result, uri |-> uri, started |-> fw.started]
      BY <1>2, <3>1, Zenon DEF FwInv, Types
    <3> QED BY <2>1, <2>2, <3>1, <3>2, IdleHolds, Zenon DEF dlVars
  <2>5. fw = [fw EXCEPT !.result = fw.result]
    BY DEF FwInv, Types
  <2>6. CASE fw' = [fw EXCEPT !.uri = Partial] /\ UNCHANGED <<dl, cut, broken>>
    <3>1. fw' = [fw EXCEPT !.uri = Partial, !.result = fw.result]
      BY <2>6, Zenon DEF FwInv, Types
    <3> QED BY <2>2, <2>4, <2>6, <3>1, Zenon
  <2> QED BY <2>1, <2>3, <2>4, <2>6, Zenon DEF UriWriteHandler
<1> QED BY <1>1, <1>2

\* The start of an update, whether it succeeds or fails, leaves the image alone.
LEMMA ExecuteHolds == ASSUME FwInv, ExecuteUpdate PROVE FwInv'
<1>1. CASE fw.state # "downloaded"
  BY <1>1, RefusedHolds DEF ExecuteUpdate
<1>2. CASE fw.state = "downloaded"
  <2>1. /\ \/ fw' = [fw EXCEPT !.state = "updating"]
           \/ fw' = [fw EXCEPT !.state = "idle", !.result = "error"]
        /\ UNCHANGED <<dlVars, via>>
    BY <1>2 DEF ExecuteUpdate
  <2>2. /\ dl.status \notin {"starting", "downloading"}
        /\ fw.result \in Results /\ fw.uri \in Uris \cup {None, Partial}
        /\ fw.started \in BOOLEAN
    BY <1>2 DEF FwInv, Types, Object
  <2>3. \/ fw' = [state |-> "updating", result |-> fw.result, uri |-> fw.uri,
                  started |-> fw.started]
        \/ fw' = [state |-> "idle", result |-> "error", uri |-> fw.uri,
                  started |-> fw.started]
    BY <2>1, Zenon DEF FwInv, Types
  <2> QED BY <1>2, <2>1, <2>2, <2>3, ObjectHolds
<1> QED BY <1>1, <1>2

\* The end of an update leaves the object idle.
LEMMA SetUpdateResultHolds == ASSUME FwInv, SetUpdateResult PROVE FwInv'
<1>1. PICK result \in HandlerResults :
        fw' = [fw EXCEPT !.state = "idle", !.result = result, !.started = FALSE]
  BY Zenon DEF SetUpdateResult
<1>2. /\ fw.state = "updating" /\ UNCHANGED <<dlVars, via>>
      /\ dl.status \notin {"starting", "downloading"}
      /\ fw.uri \in Uris \cup {None, Partial}
  BY DEF SetUpdateResult, FwInv, Types, Object
<1>3. fw' = [state |-> "idle", result |-> result, uri |-> fw.uri, started |-> FALSE]
  BY <1>1, Zenon DEF FwInv, Types
<1> QED BY <1>2, <1>3, ObjectHolds, Zenon

\* After a reboot the object and the downloader are new.
LEMMA RebootHolds == ASSUME content \in Versions, Reboot PROVE FwInv'
<1>1. /\ file' = [open |-> FALSE, blocks |-> <<>>] /\ content' = content
      /\ fw' = [state |-> "idle", result |-> "success", uri |-> None, started |-> FALSE]
      /\ dl' = NewDownloader
  BY Zenon DEF Reboot, Repr
<1>2. Types'
  BY <1>1 DEF Types, NewDownloader, DownloaderType
<1>3. Download'
  BY <1>1 DEF Download, NewDownloader
<1>4. Object'
  BY <1>1 DEF Object, NewDownloader
<1> QED BY <1>2, <1>3, <1>4 DEF FwInv

(***************************************************************************)
(* Every step keeps the invariant.                                         *)
(***************************************************************************)
\* Each action by its lemma.
LEMMA NextHolds == ASSUME FwInv, ~broken', [Next]_vars PROVE FwInv'
<1>1. CASE WritePackage
  BY <1>1, WritePackageHolds
<1>2. CASE WriteUri
  BY <1>2, WriteUriHolds
<1>3. CASE WriteReset
  BY <1>3, RefusedHolds, ResetHolds DEF WriteReset
<1>4. CASE ExecuteUpdate
  BY <1>4, ExecuteHolds
<1>5. CASE SetUpdateResult
  BY <1>5, SetUpdateResultHolds
<1>6. CASE Reboot
  BY <1>6, RebootHolds DEF FwInv, Types
<1>7. CASE Step
  <2>1. ASSUME NEW connect \in NetResults, StepStarting(connect), UNCHANGED fwVars
        PROVE  FwInv'
    BY <2>1, StartingHolds
  <2>2. ASSUME NEW sent \in NetResults, Send(sent), UNCHANGED fwVars PROVE FwInv'
    BY <2>2, SendHolds
  <2>3. ASSUME NEW closed \in NetResults, StepFinishing(closed), UNCHANGED fwVars
        PROVE  FwInv'
    BY <2>3, FinishingHolds
  <2>4. CASE StepFinishedExchange /\ UNCHANGED fwVars
    BY <2>4, FinishedExchangeHolds
  <2>5. CASE /\ UNCHANGED fwVars
             /\ \/ ReceiveTimeout \/ ReceiveEmpty \/ ReceiveError \/ ReceiveStray
                \/ ReceiveBlock
    BY <2>5, TimeoutHolds, EmptyHolds, ErrorHolds, StrayHolds, BlockHolds
  <2>6. CASE StepReport
    BY <2>6, ReportHolds
  <2> QED BY <1>7, <2>1, <2>2, <2>3, <2>4, <2>5, <2>6, Zenon DEF Step
<1>8. CASE NewContent /\ UNCHANGED fwVars
  BY <1>8 DEF NewContent, fwVars, FwInv, Types, Download, Object, Holds
<1>9. CASE UNCHANGED vars
  BY <1>9 DEF vars, dlVars, fwVars, FwInv, Types, Download, Object, Holds
<1> QED BY <1>1, <1>2, <1>3, <1>4, <1>5, <1>6, <1>7, <1>8, <1>9 DEF Next

(***************************************************************************)
(* The bounds of the counters, and what the file may hold.                 *)
(***************************************************************************)
Written == Uris \X (0..NBlocks - 1) \X Versions

\* The downloader's counters, and the URI of a download on its way.
Counters ==
    /\ dl.block \in 0..NBlocks /\ dl.retry \in 0..MaxRetransmit
    /\ dl.status \in {"starting", "downloading"} => dl.uri \in Uris

History ==
    /\ pkg \in 0..Mixed /\ push \in 0..NChunks - 1 /\ via \in {None, "push", "pull"}
    /\ cut \in BOOLEAN

Bounds == Counters /\ file.blocks \in Seq(Written) /\ History

\* A step that neither counts nor takes up a URI keeps the counters in bounds.
LEMMA CountersKept ==
    ASSUME Counters, dl'.block \in {dl.block, 0}, dl'.retry \in {dl.retry, 0},
           \/ dl'.uri = dl.uri /\ (dl'.status \in {"starting", "downloading"} =>
                                      dl.status \in {"starting", "downloading"})
           \/ dl'.status \notin {"starting", "downloading"}
           \/ dl'.uri \in Uris
    PROVE  Counters'
<1>1. 0 \in 0..NBlocks /\ 0 \in 0..MaxRetransmit
  BY DownloaderAssumption
<1> QED BY <1>1 DEF Counters

\* The steps of the downloader but for those that count.
LEMMA StepsKeepCounters ==
    ASSUME FwInv, Counters,
           \/ \E connect \in NetResults : StepStarting(connect)
           \/ \E sent \in NetResults : Send(sent)
           \/ \E closed \in NetResults : StepFinishing(closed)
           \/ StepFinishedExchange \/ ReceiveError \/ ReceiveEmpty \/ ReceiveStray
           \/ StepResting
    PROVE  Counters'
<1> USE DEF FwInv, Types, DownloaderType
<1> HIDE DEF Statuses, Errors, NetResults, States, Results
<1>1. ASSUME NEW connect \in NetResults, StepStarting(connect) PROVE Counters'
  <2>1. PICK opened, socket, prepared, token :
          Connect(connect, opened, socket, prepared, token)
    BY <1>1, Zenon DEF StepStarting
  <2> DEFINE r == [dl EXCEPT !.reported = "starting", !.socket = socket]
             d == IF EventDue("starting") /\ ~opened THEN Terminate(r) ELSE r
  <2>2. /\ d \in {r, [r EXCEPT !.err = "terminated", !.status = "finishing", !.ex = "finished"]}
        /\ r.block = dl.block /\ r.retry = dl.retry /\ r.uri = dl.uri
        /\ r.status = "starting" /\ dl.status = "starting"
    BY <1>1 DEF Terminate, StepStarting
  <2>3. dl' = CASE connect = "inprogress" -> d
                [] connect = "error" ->
                     [d EXCEPT !.status = "finishing", !.err = "network"]
                [] OTHER -> StartNewExchange(d, prepared, token)
    BY <2>1, Zenon DEF Connect
  <2>4. d.block = dl.block /\ d.retry = dl.retry /\ d.uri = dl.uri
    BY <2>2, Zenon
  <2>5. ExchangeCompletion(d, "request") = d
    BY DEF ExchangeCompletion
  <2>6. /\ dl'.block \in {d.block, 0} /\ dl'.retry \in {d.retry, 0}
        /\ dl'.uri = d.uri
    <3> HIDE DEF d
    <3> QED BY <2>3, <2>5 DEF StartNewExchange
  <2> QED BY <2>2, <2>4, <2>6, CountersKept
<1>2. ASSUME NEW sent \in NetResults, Send(sent) PROVE Counters'
  <2>1. /\ dl'.block = dl.block /\ dl'.retry = dl.retry /\ dl'.uri = dl.uri
        /\ dl.status = "downloading"
    BY <1>2, Zenon DEF Send, Failed, Finalized, ExchangeCompletion
  <2> QED BY <2>1, CountersKept
<1>3. ASSUME NEW closed \in NetResults, StepFinishing(closed) PROVE Counters'
  <2>1. /\ dl'.block = dl.block /\ dl'.retry = dl.retry /\ dl'.uri = dl.uri
        /\ dl'.status \in {"finishing", "finished", "failed"}
    BY <1>3, Zenon DEF StepFinishing
  <2> QED BY <2>1, CountersKept
<1>4. CASE StepFinishedExchange \/ ReceiveError \/ ReceiveEmpty \/ ReceiveStray \/ StepResting
  <2>1. /\ dl'.block = dl.block /\ dl'.retry \in {dl.retry, 0} /\ dl'.uri = dl.uri
        /\ dl.status = "downloading" \/ dl'.status = dl.status
    BY <1>4, Zenon DEF StepFinishedExchange, ReceiveError, ReceiveEmpty, ReceiveStray,
                StepResting, Failed, Finalized, ExchangeCompletion
  <2> QED BY <2>1, CountersKept
<1> QED BY <1>1, <1>2, <1>3, <1>4

\* A retransmission counts up to the configured number,
LEMMA TimeoutCounts == ASSUME FwInv, Counters, ReceiveTimeout PROVE Counters'
<1> USE DEF FwInv, Types, DownloaderType
<1> HIDE DEF Statuses, Errors, NetResults, States, Results
<1>1. dl.status = "downloading" /\ dl.retry \in Nat
  BY DEF ReceiveTimeout
<1>2. CASE dl.retry < MaxRetransmit
  <2>1. /\ dl'.block = dl.block /\ dl'.retry = dl.retry + 1 /\ dl'.uri = dl.uri
        /\ dl'.status = dl.status
    BY <1>2 DEF ReceiveTimeout
  <2>2. dl.retry + 1 \in 0..MaxRetransmit
    BY <1>1, <1>2, DownloaderAssumption
  <2> QED BY <2>1, <2>2 DEF Counters
<1>3. CASE ~(dl.retry < MaxRetransmit)
  <2>1. /\ dl'.block = dl.block /\ dl'.retry = dl.retry /\ dl'.uri = dl.uri
    BY <1>3 DEF ReceiveTimeout, Finalized, ExchangeCompletion
  <2> QED BY <1>1, <2>1, CountersKept
<1> QED BY <1>2, <1>3

\* and a block up to the last one.
LEMMA BlockCounts ==
    ASSUME FwInv, Bounds, ReceiveBlock PROVE Counters' /\ file'.blocks \in Seq(Written)
<1> DEFINE d == [dl EXCEPT !.etag = content, !.block = @ + 1]
<1>0. ASSUME ~EtagMismatch(content)
      PROVE  \E written, separate \in BOOLEAN, token \in RngResults, ack \in AckSent :
               /\ dl' = AfterPayload(IF written THEN d ELSE Terminate(d),
                                     dl.block + 1 < NBlocks /\ written, separate, token, ack)
               /\ file' = IF written
                            THEN [file EXCEPT !.blocks =
                                    Append(@, <<dl.uri, dl.block, content>>)]
                            ELSE file
  BY <1>0, ZenonT(60) DEF ReceiveBlock
<1> USE DEF FwInv, Types, DownloaderType
<1> HIDE DEF Statuses, Errors, NetResults, States, Results
<1>1. /\ dl.status = "downloading" /\ dl.ex = "waiting" /\ dl.block \in 0..NBlocks - 1
      /\ dl.uri \in Uris /\ content \in Versions
      /\ Counters /\ file.blocks \in Seq(Written)
  BY DownloaderAssumption DEF ReceiveBlock, Download, Bounds, Counters
<1>2. CASE EtagMismatch(content)
  <2>1. /\ dl'.block = dl.block /\ dl'.retry = dl.retry /\ dl'.uri = dl.uri /\ file' = file
    BY <1>2, Zenon DEF ReceiveBlock, Failed
  <2> QED BY <1>1, <2>1, CountersKept
<1>3. CASE ~EtagMismatch(content)
  <2>1. PICK written \in BOOLEAN, separate \in BOOLEAN, token \in RngResults, ack \in AckSent :
          /\ dl' = AfterPayload(IF written THEN d ELSE Terminate(d),
                                dl.block + 1 < NBlocks /\ written, separate, token, ack)
          /\ file' = IF written
                       THEN [file EXCEPT !.blocks = Append(@, <<dl.uri, dl.block, content>>)]
                       ELSE file
    BY <1>0, <1>3, Zenon
  <2>2. d.block = dl.block + 1 /\ d.retry = dl.retry /\ d.uri = dl.uri
    OBVIOUS
  <2>3. dl'.block = d.block /\ dl'.retry \in {d.retry, 0} /\ dl'.uri = d.uri
    <3> HIDE DEF d
    <3> QED BY <2>1 DEF AfterPayload, Terminate, Finalized, ExchangeCompletion, Failed
  <2>4. Counters'
    <3>1. dl.block + 1 \in 0..NBlocks /\ 0 \in 0..MaxRetransmit
      BY <1>1, DownloaderAssumption
    <3> QED BY <1>1, <2>2, <2>3, <3>1 DEF Counters
  <2>5. <<dl.uri, dl.block, content>> \in Written
    BY <1>1 DEF Written
  <2>6. file'.blocks \in {file.blocks, Append(file.blocks, <<dl.uri, dl.block, content>>)}
    <3>1. CASE written
      BY <2>1, <3>1
    <3>2. CASE ~written
      BY <2>1, <3>2
    <3> QED BY <3>1, <3>2
  <2>7. Append(file.blocks, <<dl.uri, dl.block, content>>) \in Seq(Written)
    BY <1>1, <2>5, AppendProperties, Zenon
  <2> QED BY <1>1, <2>4, <2>6, <2>7, Zenon
<1> QED BY <1>2, <1>3

\* Closing the file leaves what is in it,
LEMMA ClosedKeeps == ASSUME Types PROVE Closed(file).blocks = file.blocks
  BY DEF Types, Closed

\* and only a new download begins it anew.
LEMMA StepsKeepFile ==
    ASSUME FwInv, file.blocks \in Seq(Written),
           \/ \E connect \in NetResults : StepStarting(connect)
           \/ \E closed \in NetResults : StepFinishing(closed)
           \/ file' = Closed(file) \/ UNCHANGED file
    PROVE  file'.blocks \in Seq(Written)
<1>1. <<>> \in Seq(Written)
  BY EmptySeq
<1>2. ASSUME NEW connect \in NetResults, StepStarting(connect)
      PROVE  file'.blocks \in Seq(Written)
  <2>1. PICK opened, socket, prepared, token :
          Connect(connect, opened, socket, prepared, token)
    BY <1>2, Zenon DEF StepStarting
  <2>2. file' = IF EventDue("starting") THEN [open |-> opened, blocks |-> <<>>] ELSE file
    BY <2>1, Zenon DEF Connect
  <2> QED BY <1>1, <2>2
<1>3. ASSUME NEW closed \in NetResults, StepFinishing(closed)
      PROVE  file'.blocks \in Seq(Written)
  BY <1>3, ClosedKeeps DEF StepFinishing, FinishingEvent, FwInv
<1> QED BY <1>2, <1>3, ClosedKeeps DEF FwInv

\* The counters do not change with a reset,
LEMMA ResetBounds ==
    ASSUME FwInv, Bounds, NEW result, Reset(result) PROVE Bounds'
<1>0. dl \in DownloaderType /\ Counters
  BY DEF FwInv, Types, Bounds
<1>1. Counters'
  <2>1. dl'.block = dl.block /\ dl'.retry = dl.retry /\ dl'.uri = dl.uri
        /\ dl'.status \notin {"starting", "downloading"}
    BY <1>0 DEF Reset, ResetHandler, Terminate, DownloaderType
  <2> QED BY <1>0, <2>1, CountersKept
<1>2. History'
  <2>1. 0 \in 0..Mixed /\ 0 \in 0..NChunks - 1
    BY FwUpdateAssumption DEF Mixed
  <2> QED BY <2>1 DEF Bounds, History, Reset
<1> QED BY <1>1, <1>2, StepsKeepFile DEF Bounds, Reset, ResetHandler

\* nor with a request that is refused, nor when only the object changes.
LEMMA ObjectBounds ==
    ASSUME Bounds, UNCHANGED dlVars, push' \in {0, push}, pkg' \in {0, pkg},
           via' \in {via, "push"}
    PROVE  Bounds'
<1>1. 0 \in 0..Mixed /\ 0 \in 0..NChunks - 1
  BY FwUpdateAssumption DEF Mixed
<1> QED BY <1>1 DEF Bounds, Counters, History, dlVars

\* The chunks of a push are counted as the handlers get them.
LEMMA WritePackageBounds == ASSUME FwInv, Bounds, WritePackage PROVE Bounds'
<1>1. PICK n \in {0, push} : IF fw.state # "idle" THEN Refused ELSE WritePackageChunk(n)
  BY DEF WritePackage
<1>2. CASE fw.state # "idle"
  BY <1>1, <1>2, ObjectBounds DEF Refused
<1>3. CASE WritePackageChunk(n)
  <2>1. \/ push' = 0 /\ UNCHANGED <<dlVars, pkg, via>>
        \/ Reset("error")
        \/ /\ pkg' = Given(n) /\ push' = (n + 1) % NChunks /\ UNCHANGED dlVars
           /\ via' \in {via, "push"}
    BY <1>3 DEF WritePackageChunk
  <2>2. n \in 0..NChunks - 1 /\ NChunks \in Nat \ {0}
    BY FwUpdateAssumption DEF Bounds, History
  <2>3. (n + 1) % NChunks \in 0..NChunks - 1
    BY <2>2
  <2>4. Given(n) \in 0..Mixed
    BY <2>2 DEF Given, Mixed
  <2>5. CASE /\ pkg' = Given(n) /\ push' = (n + 1) % NChunks /\ UNCHANGED dlVars
             /\ via' \in {via, "push"}
    BY <2>3, <2>4, <2>5 DEF Bounds, Counters, History, dlVars
  <2> QED BY <2>1, <2>5, ObjectBounds, ResetBounds
<1> QED BY <1>1, <1>2, <1>3

\* A new download counts from where the last one left off until it connects.
LEMMA WriteUriBounds == ASSUME FwInv, Bounds, WriteUri PROVE Bounds'
<1>0. /\ dl \in DownloaderType /\ Counters /\ History
  BY DEF FwInv, Types, Bounds
<1>1. CASE fw.state # "idle"
  BY <1>1, ObjectBounds DEF WriteUri, Refused
<1>2. CASE \E uri \in Uris : dl' = Start(dl, uri) /\ cut' = FALSE
           /\ push' = 0 /\ UNCHANGED <<file, content, pkg, via>>
  <2>1. PICK uri \in Uris : dl' = Start(dl, uri)
    BY <1>2
  <2>2. dl'.block = dl.block /\ dl'.retry = dl.retry /\ dl'.uri \in Uris
    BY <1>0, <2>1 DEF Start, DownloaderType
  <2>3. Counters'
    BY <1>0, <2>2, CountersKept
  <2>4. 0 \in 0..NChunks - 1
    BY FwUpdateAssumption
  <2> QED BY <1>0, <1>2, <2>3, <2>4, Zenon DEF Bounds, History
<1>3. CASE UNCHANGED <<dl, cut, broken>> /\ push' = 0 /\ UNCHANGED <<file, content, pkg, via>>
  BY <1>3, ObjectBounds DEF dlVars
<1> QED BY <1>1, <1>2, <1>3, Zenon DEF WriteUri, UriWriteHandler

\* After a reboot everything is new.
LEMMA RebootBounds == ASSUME Reboot PROVE Bounds'
<1>1. /\ dl'.block = 0 /\ dl'.retry = 0 /\ dl'.status = "initial"
      /\ pkg' = 0 /\ push' = 0 /\ via' = None /\ cut' = FALSE /\ file'.blocks = <<>>
  BY DEF Reboot, NewDownloader
<1>2. /\ 0 \in 0..Mixed /\ 0 \in 0..NChunks - 1
      /\ 0 \in 0..NBlocks /\ 0 \in 0..MaxRetransmit
  BY FwUpdateAssumption, DownloaderAssumption DEF Mixed
<1>3. Counters'
  BY <1>1, <1>2 DEF Counters
<1>4. file'.blocks \in Seq(Written)
  BY <1>1, EmptySeq
<1>5. cut' \in BOOLEAN
  BY <1>1, Zenon
<1>6. History'
  <2> HIDE DEF None
  <2> QED BY <1>1, <1>2, <1>5, Zenon DEF History
<1> QED BY <1>3, <1>4, <1>6, Zenon DEF Bounds

\* The result of a download changes the object and closes the file.
LEMMA ReportBounds == ASSUME FwInv, Bounds, StepReport PROVE Bounds'
<1>1. /\ StepResting
      /\ file' = Closed(file) \/ UNCHANGED file
      /\ pkg' \in {0, pkg} /\ push' \in {0, push} /\ via' \in {via, "pull"} /\ cut' = cut
  BY DEF StepReport, StepResting, SetDownloadResult, fwVars
<1>2. 0 \in 0..Mixed /\ 0 \in 0..NChunks - 1
  BY FwUpdateAssumption DEF Mixed
<1>3. Counters' /\ file'.blocks \in Seq(Written)
  BY <1>1, StepsKeepCounters, StepsKeepFile DEF Bounds
<1> QED BY <1>1, <1>2, <1>3 DEF Bounds, History

\* The steps of the downloader leave the history of the object alone.
LEMMA StepBounds == ASSUME FwInv, Bounds, Step PROVE Bounds'
<1>0. Counters /\ file.blocks \in Seq(Written) /\ History
  BY DEF Bounds
<1>1. CASE StepReport
  BY <1>1, ReportBounds
<1>2. CASE ~StepReport
  <2>0. /\ \/ \E connect \in NetResults : StepStarting(connect)
           \/ StepFinishedExchange
           \/ \E sent \in NetResults : Send(sent)
           \/ ReceiveTimeout \/ ReceiveEmpty \/ ReceiveError \/ ReceiveStray
           \/ ReceiveBlock
           \/ \E closed \in NetResults : StepFinishing(closed)
        /\ UNCHANGED fwVars
    BY <1>2, Zenon DEF Step
  <2>1. ASSUME cut' \in BOOLEAN PROVE History'
    BY <1>0, <2>0, <2>1 DEF History, fwVars
  <2>2. CASE ReceiveBlock
    <3>1. cut' \in BOOLEAN
      BY <1>0, <2>2 DEF ReceiveBlock, History
    <3> QED BY <2>1, <2>2, <3>1, BlockCounts DEF Bounds
  <2>3. CASE \E connect \in NetResults : StepStarting(connect)
    <3>1. cut' \in BOOLEAN
      BY <2>3 DEF StepStarting, Connect
    <3>2. Counters' /\ file'.blocks \in Seq(Written)
      BY <1>0, <2>3, StepsKeepCounters, StepsKeepFile
    <3> QED BY <2>1, <3>1, <3>2 DEF Bounds
  <2>4. CASE \E closed \in NetResults : StepFinishing(closed)
    <3>1. cut' \in BOOLEAN
      BY <1>0, <2>4 DEF StepFinishing, History
    <3>2. Counters' /\ file'.blocks \in Seq(Written)
      BY <1>0, <2>4, StepsKeepCounters, StepsKeepFile
    <3> QED BY <2>1, <3>1, <3>2 DEF Bounds
  <2>5. CASE \/ StepFinishedExchange \/ ReceiveTimeout \/ ReceiveEmpty \/ ReceiveError
             \/ ReceiveStray
             \/ \E sent \in NetResults : Send(sent)
    <3>1. UNCHANGED <<file, cut>>
      BY <2>5, Zenon DEF StepFinishedExchange, ReceiveTimeout, ReceiveEmpty, ReceiveError,
                         ReceiveStray, Send
    <3>2. Counters'
      BY <1>0, <2>5, StepsKeepCounters, TimeoutCounts, Zenon
    <3> QED BY <1>0, <2>1, <3>1, <3>2 DEF Bounds, History
  <2> QED BY <2>0, <2>2, <2>3, <2>4, <2>5, Zenon
<1> QED BY <1>1, <1>2

\* Every step keeps the bounds.
LEMMA NextBounds == ASSUME FwInv, Bounds, [Next]_vars PROVE Bounds'
<1>1. CASE WritePackage \/ WriteUri \/ Reboot \/ Step
  BY <1>1, WritePackageBounds, WriteUriBounds, RebootBounds, StepBounds
<1>2. CASE WriteReset
  BY <1>2, ResetBounds, ObjectBounds DEF WriteReset, Refused
<1>3. CASE ExecuteUpdate \/ SetUpdateResult
  <2>1. UNCHANGED <<dlVars, pkg, via>> /\ push' = 0
    BY <1>3 DEF ExecuteUpdate, SetUpdateResult, Refused
  <2> QED BY <2>1, ObjectBounds
<1>4. CASE (NewContent /\ UNCHANGED fwVars) \/ UNCHANGED vars
  BY <1>4 DEF NewContent, vars, dlVars, fwVars, Bounds, Counters, History
<1> QED BY <1>1, <1>2, <1>3, <1>4 DEF Next

LEMMA InitBounds == Init => Bounds
<1>1. 0 \in 0..Mixed /\ 0 \in 0..NChunks - 1 /\ 0 \in 0..NBlocks /\ 0 \in 0..MaxRetransmit
  BY FwUpdateAssumption, DownloaderAssumption DEF Mixed
<1>2. <<>> \in Seq(Written)
  BY EmptySeq
<1> SUFFICES ASSUME Init PROVE Bounds
  OBVIOUS
<1>3. Counters /\ file.blocks = <<>>
  BY <1>1 DEF Init, DownloaderInit, NewDownloader, Counters
<1>4. History
  <2>1. cut \in BOOLEAN
    BY Zenon DEF Init, DownloaderInit
  <2> QED BY <1>1, <2>1, Zenon DEF Init, History
<1> QED BY <1>2, <1>3, <1>4, Zenon DEF Bounds

\* With the bounds, the state has its type.
LEMMA BoundsType == ASSUME FwInv, Bounds, broken \in BOOLEAN PROVE TypeOK
<1> HIDE DEF Statuses, Errors, States, Results, Partial, None
<1>1. dl \in [status : Statuses, reported : Statuses, err : Errors,
              etag : Versions \cup {None}, uri : Uris \cup {None},
              ex : {"finished", "sending", "ack", "waiting", "last_ack"},
              block : 0..NBlocks, retry : 0..MaxRetransmit,
              socket : BOOLEAN, sending : BOOLEAN]
  BY DEF FwInv, Types, DownloaderType, Bounds, Counters
<1>2. file \in [open : BOOLEAN, blocks : Seq(Uris \X (0..NBlocks - 1) \X Versions)]
  BY DEF FwInv, Types, Bounds, Written
<1> QED BY <1>1, <1>2 DEF FwInv, Types, Bounds, History, TypeOK

(***************************************************************************)
(* The inductive invariant.                                                *)
(***************************************************************************)
IInv ==
    /\ broken \in BOOLEAN /\ content \in Versions
    /\ ~broken => FwInv /\ Bounds

\* A download stays overtaken until the device starts anew.
LEMMA BrokenStays ==
    ASSUME [Next]_vars, ~Reboot PROVE broken => broken'
<1>1. ASSUME NEW connect \in NetResults, StepStarting(connect) PROVE broken => broken'
  BY <1>1 DEF StepStarting, Connect
<1>2. ASSUME NEW sent \in NetResults, Send(sent) PROVE broken => broken'
  BY <1>2 DEF Send
<1>3. ASSUME NEW closed \in NetResults, StepFinishing(closed) PROVE broken => broken'
  BY <1>3 DEF StepFinishing
<1>4. CASE ReceiveBlock
  BY <1>4 DEF ReceiveBlock
<1>5. CASE \/ StepFinishedExchange \/ ReceiveTimeout \/ ReceiveEmpty \/ ReceiveError
           \/ ReceiveStray \/ StepReport
  BY <1>5 DEF StepFinishedExchange, ReceiveTimeout, ReceiveEmpty, ReceiveError,
              ReceiveStray, StepReport, StepResting
<1>6. CASE Step
  BY <1>1, <1>2, <1>3, <1>4, <1>5, <1>6, Zenon DEF Step
<1>7. CASE WritePackage
  BY <1>7 DEF WritePackage, WritePackageChunk, Refused, Reset, dlVars
<1>8. CASE WriteUri \/ WriteReset \/ ExecuteUpdate \/ SetUpdateResult
  BY <1>8 DEF WriteUri, UriWriteHandler, WriteReset, ExecuteUpdate, SetUpdateResult,
              Refused, Reset, dlVars
<1>9. CASE NewContent \/ UNCHANGED vars
  BY <1>9 DEF NewContent, vars, dlVars
<1> QED BY <1>6, <1>7, <1>8, <1>9 DEF Next

\* The two variables have their types whatever happens.
LEMMA AlwaysTyped ==
    ASSUME broken \in BOOLEAN, content \in Versions, [Next]_vars
    PROVE  broken' \in BOOLEAN /\ content' \in Versions
<1>1. ASSUME NEW connect \in NetResults, StepStarting(connect)
      PROVE  broken' \in BOOLEAN /\ content' = content
  BY <1>1 DEF StepStarting, Connect
<1>2. ASSUME NEW sent \in NetResults, Send(sent) PROVE UNCHANGED <<broken, content>>
  BY <1>2 DEF Send
<1>3. ASSUME NEW closed \in NetResults, StepFinishing(closed)
      PROVE  UNCHANGED <<broken, content>>
  BY <1>3 DEF StepFinishing
<1>4. ASSUME ReceiveBlock PROVE broken' \in BOOLEAN /\ content' = content
  BY <1>4 DEF ReceiveBlock
<1>5. ASSUME \/ StepFinishedExchange \/ ReceiveTimeout \/ ReceiveEmpty \/ ReceiveError
             \/ ReceiveStray \/ StepReport
      PROVE  UNCHANGED <<broken, content>>
  BY <1>5 DEF StepFinishedExchange, ReceiveTimeout, ReceiveEmpty, ReceiveError,
              ReceiveStray, StepReport, StepResting
<1>6. CASE Step
  BY <1>1, <1>2, <1>3, <1>4, <1>5, <1>6 DEF Step
<1>7. CASE WritePackage
  BY <1>7 DEF WritePackage, WritePackageChunk, Refused, Reset, dlVars
<1>8. CASE WriteUri \/ WriteReset \/ ExecuteUpdate \/ SetUpdateResult
  BY <1>8 DEF WriteUri, UriWriteHandler, WriteReset, ExecuteUpdate, SetUpdateResult,
              Refused, Reset, dlVars
<1>9. CASE NewContent \/ UNCHANGED vars \/ Reboot
  BY <1>9 DEF NewContent, vars, dlVars, Reboot
<1> QED BY <1>6, <1>7, <1>8, <1>9 DEF Next

LEMMA InitInv == Init => IInv
<1>1. Init => broken \in BOOLEAN /\ content \in Versions
  BY DEF Init, DownloaderInit
<1> QED BY <1>1, InitHolds, InitBounds DEF IInv

LEMMA NextInv == IInv /\ [Next]_vars => IInv'
<1> SUFFICES ASSUME IInv, [Next]_vars PROVE IInv'
  OBVIOUS
<1>1. broken' \in BOOLEAN /\ content' \in Versions
  BY AlwaysTyped DEF IInv
<1>2. CASE Reboot
  BY <1>1, <1>2, RebootHolds, RebootBounds DEF IInv
<1>3. ASSUME ~Reboot, ~broken' PROVE FwInv' /\ Bounds'
  <2>1. ~broken /\ FwInv /\ Bounds
    BY <1>3, BrokenStays DEF IInv
  <2> QED BY <1>3, <2>1, NextHolds, NextBounds
<1> QED BY <1>1, <1>2, <1>3 DEF IInv

\* The three parties of a download stay in step, for every number of blocks,
\* chunks and retransmissions and until the end of a download is overtaken: the
\* assertions on its way hold, a downloader that rests has neither a connection
\* nor an exchange, the URI it points into is there while it is read, and no
\* counter leaves its bounds (coap_downloader.c, dm_fw_update.c,
\* firmware_update.c).
THEOREM PartiesAlwaysInStep == Spec => []PartiesInStep
<1>1. IInv => PartiesInStep
  <2> SUFFICES ASSUME FwInv, Bounds, broken \in BOOLEAN, ~broken PROVE PartiesInStep
    BY DEF IInv, PartiesInStep
  <2>1. TypeOK
    BY BoundsType
  <2>2. CallbackAsserts
    BY DEF FwInv, Download, CallbackAsserts, EventDue, StartAsserts, WriteAsserts
  <2>3. Released
    BY DEF FwInv, Download, Released
  <2>4. UriStable
    BY DEF FwInv, Object, UriStable
  <2> QED BY <2>1, <2>2, <2>3, <2>4 DEF PartiesInStep, InStep
<1> QED BY <1>1, InitInv, NextInv, PTL DEF Spec

\* An image the object calls downloaded is closed and whole, and of one content
\* of the object's URI, whatever the server, the network and the application do,
\* for every number of blocks, unless a token could not be created for the
\* download or the end of one was overtaken since the device started
\* (coap_downloader.c, dm_fw_update.c).
THEOREM PulledWholeAlways == Spec => []PulledWhole
<1>1. IInv => PulledWhole
  <2>1. ~broken => (FwInv => PulledWhole)
    BY Zenon DEF FwInv, Object, PulledWhole, Holds, Blocks
  <2> QED BY <2>1 DEF IInv, PulledWhole
<1> QED BY <1>1, InitInv, NextInv, PTL DEF Spec
=============================================================================

------------------------------- MODULE FwUpdate -------------------------------
(***************************************************************************)
(* The Firmware Update Object: dm/dm_fw_update.c, composed with the CoAP   *)
(* downloader.  The server pushes a package in chunks or has it pulled     *)
(* from a URI; requests of the server, steps of the downloader and calls   *)
(* of the application come in every order.                                 *)
(*                                                                         *)
(* The application's handlers are those of the tutorial on firmware        *)
(* updates, firmware_update.c; each of them may also fail.                 *)
(***************************************************************************)
EXTENDS Downloader

CONSTANT NChunks   \* chunks of a pushed package

ASSUME FwUpdateAssumption == NChunks \in Nat \ {0}

VARIABLES
    fw,      \* entity_ctx->repr
    push,    \* the chunk the server sends next, if its last one was accepted
    \* History, read by the properties only:
    pkg,     \* chunks the handlers were given in order since the last start
    via      \* how the package got here

fwVars == <<fw, pkg, push, via>>
vars == <<dlVars, fwVars>>

Partial == "partial"   \* a URI of which the last chunk is missing
Mixed == NChunks + 1   \* chunks of two packages, or out of order
States == {"idle", "downloading", "downloaded", "updating"}
Results == {"initial", "success", "error"}
HandlerResults == {"success", "error"}

Repr == [state |-> "idle", result |-> "initial", uri |-> None, started |-> FALSE]

Init ==
    /\ DownloaderInit
    /\ fw = Repr /\ pkg = 0 /\ push = 0 /\ via = None

\* The reset handler terminates the download and removes what was written.
ResetHandler == dl' = Terminate(dl) /\ file' = Closed(file)

Reset(result) ==
    /\ ResetHandler
    /\ fw' = [Repr EXCEPT !.result = result]
    /\ pkg' = 0 /\ push' = 0
    /\ UNCHANGED <<via, content, cut, broken>>

Refused == UNCHANGED <<dlVars, fw, pkg, via>> /\ push' = 0

(***************************************************************************)
(* A Write to the Package Resource, of chunk n.                            *)
(***************************************************************************)
\* What the handlers were given after chunk n; the start handler begins anew.
Given(n) == IF n = (IF fw.started THEN pkg ELSE 0) THEN n + 1 ELSE Mixed

WritePackageChunk(n) ==
    \E start, write, finish \in HandlerResults :
       IF ~fw.started /\ start # "success"
         THEN /\ fw' = [fw EXCEPT !.result = start]
              /\ push' = 0 /\ UNCHANGED <<dlVars, pkg, via>>
       ELSE IF write # "success" \/ (n = NChunks - 1 /\ finish # "success")
         THEN Reset("error")
       ELSE /\ pkg' = Given(n)
            /\ push' = (n + 1) % NChunks
            /\ IF n = NChunks - 1
                 THEN /\ fw' = [fw EXCEPT !.started = TRUE, !.result = "initial",
                                          !.state = "downloaded"]
                      /\ via' = "push"
                 ELSE fw' = [fw EXCEPT !.started = TRUE] /\ UNCHANGED via
            /\ UNCHANGED dlVars

\* The server goes on, or begins anew after it gave the last Write up.
WritePackage ==
    \E n \in {0, push} :
       IF fw.state # "idle" THEN Refused ELSE WritePackageChunk(n)

(***************************************************************************)
(* A Write to the Package URI Resource, in one chunk or two.               *)
(***************************************************************************)
UriWriteHandler(uri) ==
    \/ /\ ~StartRefused(dl)
       /\ dl' = Start(dl, uri) /\ cut' = FALSE
       /\ fw' = [fw EXCEPT !.uri = uri, !.state = "downloading"]
    \/ /\ fw' = [fw EXCEPT !.uri = uri, !.result = "error"]
       /\ UNCHANGED <<dl, cut>>

\* Mutant: a URI is refused only while the object is updating.
WriteUriAnyState ==
    IF fw.state = "updating" THEN Refused
    ELSE /\ \/ \E uri \in Uris : UriWriteHandler(uri)
            \/ fw' = [fw EXCEPT !.uri = Partial] /\ UNCHANGED <<dl, cut>>
         /\ push' = 0 /\ UNCHANGED <<file, content, broken, pkg, via>>

WriteUri ==
    IF fw.state # "idle" THEN Refused
    ELSE /\ \/ \E uri \in Uris : UriWriteHandler(uri)
            \/ fw' = [fw EXCEPT !.uri = Partial] /\ UNCHANGED <<dl, cut>>
         /\ push' = 0 /\ UNCHANGED <<file, content, broken, pkg, via>>

\* An empty Write to either of them.
WriteReset == IF fw.state = "updating" THEN Refused ELSE Reset("initial")

(***************************************************************************)
(* An Execute of the Update Resource.                                      *)
(***************************************************************************)
ExecuteUpdate ==
    IF fw.state # "downloaded" THEN Refused
    ELSE /\ \/ fw' = [fw EXCEPT !.state = "updating"]
            \/ fw' = [fw EXCEPT !.state = "idle", !.result = "error"]
         /\ push' = 0 /\ UNCHANGED <<dlVars, pkg, via>>

(***************************************************************************)
(* The application's calls.  After a reboot into the new firmware the      *)
(* object is installed anew and gets the result at once.                   *)
(***************************************************************************)
SetUpdateResult ==
    /\ fw.state = "updating"
    /\ \E result \in HandlerResults :
          fw' = [fw EXCEPT !.state = "idle", !.result = result, !.started = FALSE]
    /\ push' = 0 /\ UNCHANGED <<dlVars, pkg, via>>

Reboot ==
    /\ fw.state = "updating"
    /\ fw' = [Repr EXCEPT !.result = "success"]
    /\ dl' = NewDownloader /\ file' = [open |-> FALSE, blocks |-> <<>>]
    /\ pkg' = 0 /\ push' = 0 /\ via' = None
    /\ cut' = FALSE /\ broken' = FALSE /\ UNCHANGED content

SetDownloadResult(result) ==
    CASE fw.state # "downloading" -> UNCHANGED <<file, fwVars>>
      [] fw.state = "downloading" /\ result # "success" ->
           /\ fw' = [Repr EXCEPT !.result = result]
           /\ file' = Closed(file)
           /\ pkg' = 0 /\ push' = 0 /\ UNCHANGED via
      [] OTHER ->
           /\ fw' = [fw EXCEPT !.result = "initial", !.state = "downloaded"]
           /\ via' = "pull" /\ UNCHANGED <<file, pkg, push>>

\* The callback of the downloader passes its final status on, once.
StepReport ==
    /\ StepResting
    /\ IF dl.status \in Ended /\ EventDue(dl.status)
         THEN SetDownloadResult(IF dl.status = "finished" THEN "success" ELSE "error")
         ELSE UNCHANGED <<file, fwVars>>

Step ==
    \/ /\ \/ \E connect \in NetResults : StepStarting(connect)
          \/ StepFinishedExchange
          \/ \E sent \in NetResults : Send(sent)
          \/ ReceiveTimeout \/ ReceiveEmpty \/ ReceiveError \/ ReceiveStray \/ ReceiveBlock
          \/ \E closed \in NetResults : StepFinishing(closed)
       /\ UNCHANGED fwVars
    \/ StepReport

Next ==
    \/ WritePackage \/ WriteUri \/ WriteReset \/ ExecuteUpdate
    \/ SetUpdateResult \/ Reboot \/ Step
    \/ NewContent /\ UNCHANGED fwVars

\* The application calls the step function again and again, and what the net
\* API has in progress comes to an end.
Progress ==
    \/ /\ \/ \E connect \in NetResults \ {"inprogress"} : StepStarting(connect)
          \/ StepFinishedExchange
          \/ \E sent \in NetResults \ {"inprogress"} : Send(sent)
          \/ ReceiveTimeout \/ ReceiveError \/ ReceiveBlock
          \/ \E closed \in NetResults \ {"inprogress"} : StepFinishing(closed)
       /\ UNCHANGED fwVars
    \/ StepReport

Spec == Init /\ [][Next]_vars /\ WF_vars(Progress)

(***************************************************************************)
(* Properties.                                                             *)
(***************************************************************************)
\* The types of the object's and the downloader's state.
TypeOK ==
    /\ fw \in [state : States, result : Results, uri : Uris \cup {None, Partial},
              started : BOOLEAN]
    /\ pkg \in 0..Mixed /\ push \in 0..NChunks - 1 /\ via \in {None, "push", "pull"}
    /\ dl \in [status : Statuses, reported : Statuses, err : Errors,
              etag : Versions \cup {None}, uri : Uris \cup {None},
              ex : {"finished", "sending", "ack", "waiting", "last_ack"},
              block : 0..NBlocks, retry : 0..MaxRetransmit,
              socket : BOOLEAN, sending : BOOLEAN]
    /\ file \in [open : BOOLEAN,
                blocks : Seq(Uris \X (0..NBlocks - 1) \X Versions)]
    /\ content \in Versions /\ cut \in BOOLEAN /\ broken \in BOOLEAN

\* When the object says Downloaded or Updating after a pull, the application's
\* image is closed and holds every block, in order, of one content of the URI
\* in the object: no late result of an earlier download is taken for it, and
\* a content that changes on the way is not mixed with the old one.  The
\* exceptions, see the README: a download for which no token could be created,
\* and what follows, until the device starts anew, a download whose end has been
\* overtaken.
PulledWhole ==
    ~cut /\ ~broken /\ fw.state \in {"downloaded", "updating"} /\ via = "pull" =>
        /\ ~file.open
        /\ \E v \in Versions :
              file.blocks = [i \in 1..NBlocks |-> <<fw.uri, i - 1, v>>]

\* The assertions on the way of a download hold: the file is closed and nothing is
\* being sent when it starts, and the file is open when a block arrives.
CallbackAsserts ==
    /\ dl.status = "starting" => StartAsserts
    /\ dl.status = "downloading" => WriteAsserts

\* A downloader that rests has closed its connection and ended its exchange,
\* as the assertions of the next connect and of the next request need.
Released ==
    dl.status \notin Active => ~dl.socket /\ ~dl.sending /\ dl.ex = "finished"

\* The downloader points into the URI of the object and does not copy it:
\* while it reads it the object neither changes nor clears it.
UriStable ==
    dl.status \in {"starting", "downloading"} =>
        fw.state = "downloading" /\ fw.uri = dl.uri

\* The three parties of a download stay in step: what the callback asserts of
\* its file holds, a downloader that rests holds nothing, and the URI is there
\* for as long as it is read.
InStep == TypeOK /\ CallbackAsserts /\ Released /\ UriStable

\* They do until a download is overtaken at its end, by its last acknowledgement
\* or by the step that calls the callback, see the README.
PartiesInStep == ~broken => InStep

\* A download ends, whatever the network does, and the object does not stay in
\* the state Downloading.
AlwaysEnds == fw.state = "downloading" ~> fw.state # "downloading"

\* It does unless the server sends empty messages for ever, each of which gives
\* the request all its retransmissions again, or an assertion on what an
\* overtaken download has left stops the program.
DownloadEnds ==
    \/ []<><<ReceiveEmpty>>_vars
    \/ <>[](broken /\ dl.status = "starting" /\ ~StartAsserts)
    \/ AlwaysEnds

\* A pushed package is given to the handlers from a start, in order and
\* completely, before the object says Downloaded ("called for each chunk of
\* data, in order").
PushedWhole ==
    fw.state \in {"downloaded", "updating"} /\ via = "push" => pkg = NChunks
=============================================================================

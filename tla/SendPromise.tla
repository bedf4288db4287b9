------------------------------ MODULE SendPromise ------------------------------
(***************************************************************************)
(* What anj/lwm2m_send.h promises for anj_send_new_request(): once it has  *)
(* returned 0 "the request is queued and the finish handler will be called *)
(* with the final result", and requests "are processed FIFO; only one Send *)
(* request is processed at a time".                                        *)
(*                                                                         *)
(* Requests are numbered in the order in which they are accepted.          *)
(***************************************************************************)
EXTENDS Integers, Sequences

CONSTANT MaxRequests   \* bound: the requests that are accepted

VARIABLES phase,     \* where each request is
          reported   \* the results given to its finish handler

vars == <<phase, reported>>

Requests == 1 .. MaxRequests

Phases == {"unknown", "queued", "sending", "done"}

\* How a request ends: the errors are not told apart.
Results == {"success", "abort", "error"}

\* The types of the variables.
TypeOK == /\ phase \in [Requests -> Phases]
          /\ reported \in [Requests -> Seq(Results)]

Init == /\ phase = [r \in Requests |-> "unknown"]
        /\ reported = [r \in Requests |-> <<>>]

Pending(r) == phase[r] \in {"queued", "sending"}

\* No request accepted before r is still to be sent.
Oldest(r) == \A q \in 1 .. r - 1 : ~Pending(q)

Accept(r) ==
    /\ phase[r] = "unknown"
    /\ \A q \in 1 .. r - 1 : phase[q] # "unknown"
    /\ phase' = [phase EXCEPT ![r] = "queued"]
    /\ UNCHANGED reported

Begin(r) ==
    /\ phase[r] = "queued" /\ Oldest(r)
    /\ phase' = [phase EXCEPT ![r] = "sending"]
    /\ UNCHANGED reported

\* Only a request that has had its turn ends with another result than "abort".
Finish(r, result) ==
    /\ Pending(r)
    /\ result # "abort" => Oldest(r)
    /\ phase' = [phase EXCEPT ![r] = "done"]
    /\ reported' = [reported EXCEPT ![r] = Append(@, result)]

Next == \E r \in Requests : \/ Accept(r)
                            \/ Begin(r)
                            \/ \E result \in Results : Finish(r, result)

Finished(r) == \E result \in Results : Finish(r, result)

\* The order in which it all may happen, without a promise that it does.
Safety == Init /\ [][Next]_vars

\* The finish handler of an accepted request is called.
Answers == \A r \in Requests : WF_vars(Finished(r))

Spec == Safety /\ Answers
=============================================================================

------------------------------ MODULE NetContract ------------------------------
(***************************************************************************)
(* anj_net_api.h: what the functions of a transport promise their caller.  *)
(* A socket does not exist, is CLOSED or is CONNECTED.  Data pass only     *)
(* while it is CONNECTED; a call that returns ANJ_NET_EINPROGRESS has not  *)
(* changed it yet.  After an error of connect or close the header leaves   *)
(* the state open; it is then the one before, or CLOSED.                   *)
(*                                                                         *)
(* Of the caller the header asks that a call in progress is repeated       *)
(* "without any other anj_net_* calls being performed in between".  The    *)
(* callers do less, and so does this module: a close or a cleanup may come *)
(* first, and a receive in progress may be left for a while.               *)
(***************************************************************************)
CONSTANTS Calls, Results

VARIABLES sock,   \* "none", "closed" or "connected"
          last    \* the last call and its result

vars == <<sock, last>>

Init == /\ sock = "none"
        /\ last = [call |-> "none", res |-> "ok"]

\* The socket is created by the first attempt to connect it.
Created == IF sock = "none" THEN "closed" ELSE sock

\* The socket after a call, by its result.
After(call, res) ==
    CASE call = "connect" /\ res = "ok"                      -> {"connected"}
      [] call = "connect" /\ res = "inprogress"              -> {Created}
      [] call = "connect" /\ res \notin {"ok", "inprogress"} -> {"closed", sock}
      [] call = "close" /\ res = "ok"                        -> {"closed"}
      [] call = "close" /\ res \notin {"ok", "inprogress"}   -> {"closed", sock}
      [] call = "cleanup" /\ res # "inprogress"              -> {"none"}
      [] OTHER                                               -> {sock}

\* What is called when, and what it may answer.
Allowed(call, res) ==
    /\ call # "connect" => sock # "none"
    /\ call \in {"send", "recv"} => sock = "connected"
    /\ res = "again" => call = "recv"
    /\ res = "emsgsize" => call \in {"send", "recv"}
    /\ last.res = "inprogress" /\ last.call # "recv" =>
          call \in {last.call, "close", "cleanup"}
    /\ last.call = "cleanup" /\ last.res = "inprogress" => call = "cleanup"

Call(call, res) ==
    /\ Allowed(call, res)
    /\ sock' \in After(call, res)
    /\ last' = [call |-> call, res |-> res]

Next == \E call \in Calls, res \in Results : Call(call, res)

Spec == Init /\ [][Next]_vars
================================================================================

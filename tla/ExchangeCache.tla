----------------------------- MODULE ExchangeCache -----------------------------
(***************************************************************************)
(* exchange_cache.c: the answers given to the server's requests.  The most *)
(* recent one is kept whole, of CacheSize - 1 older ones only the Message  *)
(* ID; each until its lifetime is over.                                    *)
(*                                                                         *)
(* Times are the time left, Never is ANJ_TIME_MONOTONIC_INVALID.  An entry *)
(* with no time left is still valid, as expiration_time < time_now is      *)
(* false for it.  drop_expired() comes first in every operation, so it     *)
(* makes no difference that an entry is dropped here as soon as it expires.*)
(***************************************************************************)
EXTENDS Integers, Sequences, FiniteSets

CONSTANTS CacheSize,      \* ANJ_CACHE_ENTRIES_NUMBER
          CacheLifetime   \* get_exchange_lifetime()

ASSUME CacheAssumption == CacheSize \in Nat \ {0} /\ CacheLifetime \in Nat

Never == -1

NoEntry == [mid |-> 0, left |-> Never]

Valid(entry) == entry.left # Never

\* _anj_exchange_setup_cache()
EmptyCache == [recent |-> NoEntry, old |-> [i \in 1 .. CacheSize - 1 |-> NoEntry]]

Aged(entry) == IF entry.left > 0 THEN [entry EXCEPT !.left = @ - 1] ELSE NoEntry

\* drop_expired(), as time passes.
DropExpired(cache) == [recent |-> Aged(cache.recent),
                       old |-> [i \in DOMAIN cache.old |-> Aged(cache.old[i])]]

\* The slot that the most recent entry moves to: the first one that is free,
\* else the last one of those that expire first.
Candidate(old) ==
    IF \E i \in DOMAIN old : ~Valid(old[i])
      THEN CHOOSE i \in DOMAIN old :
              ~Valid(old[i]) /\ \A j \in DOMAIN old : j < i => Valid(old[j])
      ELSE CHOOSE i \in DOMAIN old :
              \A j \in DOMAIN old : /\ old[i].left <= old[j].left
                                    /\ j > i => old[i].left < old[j].left

\* _anj_exchange_cache_add()
CacheAdd(cache, mid) ==
    LET new == [mid |-> mid, left |-> CacheLifetime]
    IN IF CacheSize = 1 \/ ~Valid(cache.recent)
         THEN [cache EXCEPT !.recent = new]
         ELSE [recent |-> new,
               old |-> [cache.old EXCEPT ![Candidate(cache.old)] = cache.recent]]

\* _anj_exchange_cache_check()
CacheCheck(cache, mid) ==
    IF Valid(cache.recent) /\ cache.recent.mid = mid THEN "hit_recent"
    ELSE IF \E i \in DOMAIN cache.old :
               Valid(cache.old[i]) /\ cache.old[i].mid = mid
      THEN "hit_non_recent"
    ELSE "miss"

(***************************************************************************)
(* What the cache promises, against a log of all answers whose lifetime is *)
(* not over, the newest first: the newest CacheSize of them are kept,      *)
(* where those that expire at the same time count as equally old.          *)
(***************************************************************************)
LogAdd(log, mid) ==
    <<[mid |-> mid, left |-> CacheLifetime]>>
    \o SelectSeq(log, LAMBDA entry : entry.mid # mid)

LogAged(log) == SelectSeq([i \in DOMAIN log |-> Aged(log[i])], Valid)

Kept(log, i) ==
    Cardinality({j \in DOMAIN log : log[j].left >= log[i].left}) <= CacheSize

Promised(cache, log) ==
    /\ \A i \in DOMAIN log :
          Kept(log, i) => CacheCheck(cache, log[i].mid) # "miss"
    /\ log # <<>> => CacheCheck(cache, log[1].mid) = "hit_recent"
=============================================================================

------------------------------- MODULE Observe -------------------------------
(***************************************************************************)
(* Observations and notifications: observe/observe.c,                      *)
(* observe/notification.c and observe/observe_attr.c, as reg_session.c     *)
(* drives them.  One server is observing; its requests and the             *)
(* notifications to it share the one exchange, while the application       *)
(* changes the data model at any time.                                     *)
(*                                                                         *)
(* A path is the object or one of its resources.  Timestamps are kept as   *)
(* ages, up to MaxAge, which no period exceeds.                            *)
(***************************************************************************)
EXTENDS Integers, FiniteSets, Sequences

CONSTANTS NSlots,        \* ANJ_OBSERVE_MAX_OBSERVATIONS_NUMBER
          NAttrs,        \* ANJ_OBSERVE_MAX_WRITE_ATTRIBUTES_NUMBER
          Tokens, Resources,
          Multi,         \* the multi-instance ones of Resources
          Values,        \* of a resource
          ObserveAttrs,  \* attributes in an Observe request
          WriteAttrs,    \* attributes in a Write-Attributes request
          Blocks,        \* what a payload block of Observe-Composite may hold
          DefaultPmin, DefaultPmax, DefaultCon,   \* of the Server object
          Day,           \* 24 hours between confirmable notifications
          MaxAge,        \* bound of the ages, at least Day
          NumMod,        \* MAX_OBSERVE_NUMBER + 1
          ReadFails,     \* when a res_read handler may fail: subset of Occasions
          MaxEvents      \* bound: requests, resets and changes

Slots == 1..NSlots
NULL == 0
None == -1     \* an attribute that is not there
Unset == -2    \* an attribute given without a value: ANJ_ATTR_UINT_NONE, NaN
Obj == "obj"
NoToken == "none"
Paths == Resources \cup {Obj}
Formats == {"none", "senml"}
AttrNames == {"pmin", "pmax", "lt", "gt", "st", "con"}
Attrs == [AttrNames -> Int]
NoAttr == [a \in AttrNames |-> None]

\* A resource is read for a request or a notification, after a change by the
\* application, by it between the blocks of a request, or by the server.
Occasions == {"message", "change", "between blocks", "server"}

ASSUME ObserveAssumption ==
    /\ NSlots \in Nat \ {0} /\ NAttrs \in Nat \ {0}
    /\ Multi \subseteq Resources /\ Values \subseteq Nat
    /\ ObserveAttrs \subseteq Attrs /\ WriteAttrs \subseteq Attrs
    /\ Obj \notin Resources /\ NoToken \notin Tokens
    /\ Day \in Nat \ {0} /\ MaxAge \in Nat /\ Day <= MaxAge
    /\ NumMod \in Nat \ {0} /\ ReadFails \subseteq Occasions

VARIABLES
    obs,      \* observe_ctx.observations
    store,    \* observe_ctx.attributes_storage
    ctx,      \* the operation in progress
    xchg,     \* its exchange
    dm,       \* the data model: whether the object is there, and the values
    \* History, read by the properties only:
    dirty,    \* per token, what the application changed since its last message
    raced,    \* and what it changed while a notification was under way
    number,   \* per token, the number in its last notification
    accepted, \* the tokens whose observation the server was told to have
    hung,     \* a loop over a chain ran off it
    events    \* requests, resets and changes so far, for the bound

vars == <<obs, store, ctx, xchg, dm, dirty, raced, number, accepted,
          hung, events>>

Unused == [ssid |-> FALSE, path |-> Obj, token |-> NoToken, mid |-> NoToken,
           num |-> 0, fmt |-> "none", own |-> NoAttr, eff |-> NoAttr,
           active |-> FALSE, age |-> 0, conf |-> 0, last |-> 0, prev |-> NULL,
           send |-> FALSE]

NoCtx == [type |-> "none", proc |-> NULL, first |-> NULL, exists |-> FALSE,
          token |-> NoToken, fmt |-> "none", own |-> NoAttr]

IdleXchg == [phase |-> "idle", ok |-> FALSE, con |-> FALSE]

Smallest(S) == CHOOSE s \in S : \A t \in S : s <= t

\* A slot that is no longer in use.  The fields of x that are left out are
\* set before they are read again.
Released(x) == [Unused EXCEPT !.path = x.path, !.mid = x.mid, !.num = x.num,
                              !.eff = x.eff, !.active = x.active, !.last = x.last,
                              !.prev = x.prev]

Init ==
    /\ obs = [s \in Slots |-> Unused]
    /\ store = [i \in 1..NAttrs |-> [ssid |-> FALSE, path |-> Obj, attr |-> NoAttr]]
    /\ ctx = NoCtx /\ xchg = IdleXchg
    /\ dm = [there |-> TRUE, val |-> [r \in Resources |-> Smallest(Values)]]
    /\ dirty = [t \in Tokens |-> {}] /\ raced = dirty
    /\ number = [t \in Tokens |-> None]
    /\ accepted = {} /\ hung = FALSE /\ events = 0

(***************************************************************************)
(* The attributes: observe_attr.c.                                         *)
(***************************************************************************)
\* ~anj_uri_path_outside_base(path, base)
Below(base) == IF base = Obj THEN Paths ELSE {base}

Conditional(a) == \E n \in {"lt", "gt", "st"} : a[n] # None

Given(a, n) == a[n] >= 0

VerifyAttributes(a, path, composite) ==
    /\ ~(Given(a, "lt") /\ Given(a, "gt") /\ a.lt >= a.gt)
    /\ ~(/\ Given(a, "lt") /\ Given(a, "gt") /\ Given(a, "st")
         /\ a.lt + 2 * a.st >= a.gt)
    /\ Conditional(a) => ~composite /\ path # Obj
    /\ a.con \in {None, 0, 1}

UpdateAttr(a, new) ==
    [n \in AttrNames |-> CASE new[n] = None -> a[n]
                           [] new[n] = Unset -> None
                           [] OTHER -> new[n]]

RecordsFor(st, path) == {i \in DOMAIN st : st[i].ssid /\ st[i].path = path}

\* The attributes of path with those of the levels above it, in the order of
\* the levels.
Inherited(st, path) ==
    LET with(a, p) == IF RecordsFor(st, p) = {} THEN a
                      ELSE UpdateAttr(a, st[Smallest(RecordsFor(st, p))].attr)
    IN IF path = Obj THEN with(NoAttr, Obj) ELSE with(with(NoAttr, Obj), path)

\* _anj_observe_attributes_apply_condition(); every resource of the model is
\* readable and numeric.
AttributesApply == dm.there

(***************************************************************************)
(* Chains of the observations of a composite one.                          *)
(***************************************************************************)
Walk(o, s) ==
    LET at[k \in 0..NSlots] ==
            IF k = 0 THEN s
            ELSE IF at[k - 1] = NULL THEN NULL ELSE o[at[k - 1]].prev
    IN at

Chain(o, s) == {Walk(o, s)[k] : k \in 0..NSlots} \ {NULL}

\* Following prev from s ends at s again, or there is none to follow.
Closed(o, s) ==
    o[s].prev = NULL \/ \E k \in 1..NSlots : Walk(o, s)[k] = s

RemoveObservation(o, s) ==
    [x \in Slots |-> IF x \in Chain(o, s) THEN Released(o[x]) ELSE o[x]]

\* _anj_observe_refresh_timestamp()
RefreshTimestamp(o, s, confirmable) ==
    [x \in Slots |-> IF x \in Chain(o, s)
                     THEN [o[x] EXCEPT !.age = 0,
                                       !.conf = IF confirmable THEN 0 ELSE @]
                     ELSE o[x]]

(***************************************************************************)
(* The effective attributes.  fail: reading a resource fails.              *)
(***************************************************************************)
\* Conditions on the value of a multi-instance resource are dropped.
Disabled(a) == [a EXCEPT !.lt = None, !.gt = None, !.st = None]

\* _anj_observe_check_if_value_condition_attributes_should_be_disabled() of
\* observation x with the effective attributes a in data model d.
CheckConditions(x, a, d, fail) ==
    CASE ~Conditional(a) \/ (x.fmt # "none" /\ ~d.there) ->
           [ok |-> TRUE, eff |-> a, last |-> x.last]
      [] Conditional(a) /\ x.fmt = "none" /\ ~d.there ->
           [ok |-> FALSE, eff |-> a, last |-> x.last]
      [] Conditional(a) /\ d.there /\ x.path \in Multi ->
           [ok |-> TRUE, eff |-> Disabled(a), last |-> x.last]
      [] Conditional(a) /\ d.there /\ x.path \notin Multi ->
           [ok |-> ~fail, eff |-> a, last |-> IF fail THEN x.last ELSE d.val[x.path]]

\* calculate_effective_attr_set_init_values()
CalculateEffective(x, st, fail) ==
    LET raw == IF x.own # NoAttr THEN x.own ELSE Inherited(st, x.path)
        checked == CheckConditions(x, raw, dm, fail)
        set == [x EXCEPT !.eff = checked.eff, !.last = checked.last]
    IN [ok |-> checked.ok,
        obs |-> IF ~checked.ok THEN set
                ELSE [set EXCEPT !.active = VerifyAttributes(set.eff, x.path, FALSE)]]

(***************************************************************************)
(* Observe and Observe-Composite.                                          *)
(***************************************************************************)
Matching(t) == {s \in Slots : obs[s].ssid /\ obs[s].token = t}

\* add_observation(): w is the result so far.
AddObservation(w, path, own, fmt, token, fail) ==
    LET free == {s \in Slots : ~w.obs[s].ssid}
        s == Smallest(free)
        taken == [w.obs[s] EXCEPT !.ssid = TRUE, !.path = path, !.token = token,
                                  !.fmt = fmt, !.own = own, !.prev = w.proc]
        e == CalculateEffective(taken, store, fail)
    IN IF (own # NoAttr /\ ~AttributesApply) \/ free = {}
         THEN [w EXCEPT !.ok = FALSE]
         ELSE [ok |-> e.ok, obs |-> [w.obs EXCEPT ![s] = e.obs], proc |-> s]

\* _anj_observe_build_message(): paths that are not there are left out of a
\* composite one.
Builds(o, s, fail) == ~fail /\ (dm.there \/ o[s].prev # NULL)

Reply(ok) == xchg' = [IdleXchg EXCEPT !.phase = "sent", !.ok = ok]

\* observation_check_existence(): the options must be those of the request
\* that the observation was made with.
OptionsDiffer(x, path, own, fmt) ==
    \/ x.path # path /\ x.prev = NULL
    \/ x.own # own
    \/ x.fmt # fmt /\ x.prev # NULL

\* Something from outside happens; between exchanges, if it is the server's.
Event == events < MaxEvents /\ events' = events + 1

NewRequest == xchg.phase = "idle" /\ Event

Started(type, t) == [NoCtx EXCEPT !.type = type, !.token = t]

\* ANJ_OP_INF_OBSERVE
Observe(t, path, own, fail) ==
    /\ NewRequest
    /\ UNCHANGED <<store, dm, hung>>
    /\ LET old == Matching(t)
           c == Started("observe", t)
           w == AddObservation([ok |-> TRUE, obs |-> obs, proc |-> NULL],
                               path, own, "none", t, fail)
           respond(o, s) ==
               /\ obs' = RefreshTimestamp(o, s, TRUE)
               /\ ctx' = [c EXCEPT !.proc = s, !.exists = (old # {})]
               /\ Reply(Builds(o, s, fail))
           reject(o, s) == /\ obs' = o /\ ctx' = [c EXCEPT !.proc = s]
                           /\ Reply(FALSE)
       IN IF old # {}
          THEN IF OptionsDiffer(obs[Smallest(old)], path, own, "none")
               THEN reject(obs, NULL)
               ELSE respond(obs, Smallest(old))
          ELSE IF own # NoAttr /\ ~VerifyAttributes(own, path, FALSE)
               THEN reject(obs, NULL)
               ELSE IF w.ok THEN respond(w.obs, w.proc) ELSE reject(w.obs, w.proc)

\* ANJ_OP_INF_OBSERVE_COMP, up to its payload.
ObserveComposite(t, own) ==
    /\ NewRequest
    /\ UNCHANGED <<obs, store, dm, hung>>
    /\ LET old == Matching(t)
           c == [Started("observe", t) EXCEPT !.fmt = "senml", !.own = own]
           differ == old # {} /\ OptionsDiffer(obs[Smallest(old)], Obj, own, "senml")
           simple == old # {} /\ obs[Smallest(old)].prev = NULL
       IN IF \/ simple \/ differ     \* the path of the request is the root
             \/ old = {} /\ own # NoAttr /\ ~VerifyAttributes(own, Obj, TRUE)
          THEN ctx' = c /\ Reply(FALSE)
          ELSE /\ ctx' = [c EXCEPT !.exists = (old # {}),
                                   !.proc = IF old = {} THEN NULL ELSE Smallest(old)]
               /\ xchg' = [IdleXchg EXCEPT !.phase = "payload"]

\* Mutant of CloseChain: the chain is left open.
LeaveChain(o, first, proc) == o

CloseChain(o, first, proc) ==
    IF first = NULL THEN o ELSE [o EXCEPT ![first].prev = proc]

\* add_composite_observation(): a block with some paths; bad: then the
\* payload cannot be decoded.
CompositeBlock(paths, last, bad, fail) ==
    /\ xchg.phase = "payload"
    /\ bad => ~ctx.exists /\ last
    /\ UNCHANGED <<store, dm, hung, events>>
    /\ LET add[i \in 0..Len(paths)] ==
               IF i = 0 THEN [ok |-> TRUE, obs |-> obs, proc |-> ctx.proc]
               ELSE IF add[i - 1].ok
                    THEN AddObservation(add[i - 1], paths[i], ctx.own, ctx.fmt,
                                        ctx.token, fail)
                    ELSE add[i - 1]
           new == add[Len(paths)]
           first == IF ctx.first # NULL THEN ctx.first ELSE add[1].proc
           o == IF ctx.exists THEN obs ELSE CloseChain(new.obs, first, new.proc)
           s == IF ctx.exists THEN obs[ctx.proc].prev ELSE new.proc
           ok == (ctx.exists \/ new.ok) /\ ~bad
           done == ok /\ last
           builds == done /\ Builds(o, s, fail)
       IN /\ obs' = IF done THEN RefreshTimestamp(o, s, TRUE) ELSE o
          /\ ctx' = [ctx EXCEPT !.proc = s,
                                !.first = IF ctx.exists THEN NULL ELSE first]
          /\ IF ok /\ ~last THEN UNCHANGED xchg ELSE Reply(builds)

\* ANJ_OP_INF_CANCEL_OBSERVE and ANJ_OP_INF_CANCEL_OBSERVE_COMP
CancelObserve(t, fail) ==
    /\ NewRequest
    /\ UNCHANGED <<obs, store, dm, hung>>
    /\ LET s == IF Matching(t) = {} THEN NULL ELSE Smallest(Matching(t))
       IN /\ ctx' = [Started("cancel", t) EXCEPT !.proc = s]
          /\ Reply(s # NULL /\ Builds(obs, s, fail))

(***************************************************************************)
(* Write-Attributes: _anj_observe_write_attr_handle() and                  *)
(* refresh_after_write_attr().                                             *)
(***************************************************************************)
\* The storage after the request; a record that is empty or does not apply
\* is removed, an old one too.
Stored(path, new) ==
    LET old == RecordsFor(store, path)
        free == {i \in DOMAIN store : ~store[i].ssid}
        i == Smallest(IF old # {} THEN old ELSE free)
        a == IF old # {} THEN UpdateAttr(store[i].attr, new) ELSE new
        keep == VerifyAttributes(a, path, FALSE) /\ AttributesApply /\ a # NoAttr
    IN IF old = {} /\ free = {} THEN store
       ELSE [store EXCEPT ![i] = [ssid |-> keep, path |-> path, attr |-> a]]

\* Mutant of Refreshed: only the observations of the path itself.
RefreshedAt(st, path, fail) ==
    [s \in Slots |-> IF obs[s].ssid /\ obs[s].path = path
                     THEN CalculateEffective(obs[s], st, fail).obs ELSE obs[s]]

Refreshed(st, path, fail) ==
    [s \in Slots |-> IF obs[s].ssid /\ obs[s].path \in Below(path)
                     THEN CalculateEffective(obs[s], st, fail).obs ELSE obs[s]]

WriteAttributes(path, new, fail) ==
    /\ NewRequest
    /\ store' = Stored(path, new)
    /\ obs' = Refreshed(store', path, fail)
    /\ UNCHANGED <<ctx, xchg, dm, hung>>

(***************************************************************************)
(* Notifications: notification.c.                                          *)
(***************************************************************************)
\* get_min_max_period()
Pmin(x) == IF x.eff.pmin # None THEN x.eff.pmin ELSE DefaultPmin
Pmax(x) ==
    LET p == IF x.eff.pmax # None THEN x.eff.pmax ELSE DefaultPmax
    IN IF Pmin(x) > p THEN 0 ELSE p

Due(x, age) ==
    /\ x.active /\ x.ssid
    /\ age >= Pmin(x)
    /\ (Pmax(x) # 0 /\ Pmax(x) <= age) \/ x.send

DueSlots == {s \in Slots : Due(obs[s], obs[s].age)}

\* The slots of the chain whose last_sent_value create_notification() reads.
ValueRead(s) ==
    IF obs[s].prev = NULL THEN {x \in {s} : Conditional(obs[x].eff)}
    ELSE {x \in Chain(obs, s) :
            obs[x].active /\ Conditional(obs[x].eff) /\ dm.there}

WithCon(s) ==
    LET cons == {obs[x].eff.con : x \in Chain(obs, s)} \ {None}
    IN \/ IF cons = {} THEN DefaultCon ELSE 1 \in cons
       \/ obs[s].conf >= Day

\* The next Observe number, with sync_composite_observe_number().
Numbered(o, s) ==
    [x \in Slots |-> IF x \in Chain(o, s)
                     THEN [o[x] EXCEPT !.num = (o[s].num + 1) % NumMod] ELSE o[x]]

\* _anj_observe_process() with create_notification(), the reading of the
\* payload and _anj_observe_update_last_mid().
Process(fail) ==
    /\ xchg.phase = "idle"
    /\ DueSlots # {}
    /\ UNCHANGED <<store, dm, hung, events>>
    /\ LET s == Smallest(DueSlots)
           read == [x \in Slots |-> IF x \in ValueRead(s)
                                    THEN [obs[x] EXCEPT !.last = dm.val[obs[x].path]]
                                    ELSE obs[x]]
           o == RefreshTimestamp(Numbered(read, s), s, WithCon(s))
       IN \/ /\ ValueRead(s) # {} /\ fail
             /\ obs' = RemoveObservation(obs, s)
             /\ UNCHANGED <<ctx, xchg>>
          \/ /\ ValueRead(s) = {} \/ ~fail
             /\ ~Builds(obs, s, fail)
             /\ obs' = RemoveObservation(o, s)
             /\ UNCHANGED <<ctx, xchg>>
          \/ /\ Builds(obs, s, fail)
             /\ obs' = [o EXCEPT ![s].mid = obs[s].token]
             /\ ctx' = [Started("notify", obs[s].token) EXCEPT !.proc = s]
             /\ xchg' = [phase |-> "sent", ok |-> TRUE, con |-> WithCon(s)]

AtLeast0(n) == IF n < 0 THEN 0 ELSE n

\* Mutant of TimeToNext: held back changes are left out.
TimeToNextPmax ==
    LET left(x) == IF Pmax(x) = 0 THEN {} ELSE {AtLeast0(Pmax(x) - x.age)}
        times == UNION {left(obs[s]) : s \in {t \in Slots : obs[t].active /\ obs[t].ssid}}
                 \cup (IF DueSlots = {} THEN {} ELSE {0})
    IN IF times = {} THEN None ELSE Smallest(times)

\* anj_observe_time_to_next_notification()
TimeToNext ==
    LET left(x) ==
            (IF Pmax(x) = 0 THEN {} ELSE {AtLeast0(Pmax(x) - x.age)})
            \cup (IF x.send /\ x.age < Pmin(x) THEN {Pmin(x) - x.age} ELSE {})
        times == UNION {left(obs[s]) : s \in {t \in Slots : obs[t].active /\ obs[t].ssid}}
                 \cup (IF DueSlots = {} THEN {} ELSE {0})
    IN IF times = {} THEN None ELSE Smallest(times)

\* mark_notification_as_sent()
MarkSent(o, s) ==
    [x \in Slots |-> IF x \in Chain(o, s) THEN [o[x] EXCEPT !.send = FALSE]
                     ELSE o[x]]

\* Mutant of Completion: a notification that fails ends every observation.
CompletionEndsAll(result) ==
    LET s == ctx.proc
        removes == CASE ctx.type = "observe" -> result # "success" /\ s # NULL
                     [] ctx.type = "cancel" -> result = "success"
                     [] ctx.type = "notify" -> FALSE
    IN /\ obs' = IF removes THEN RemoveObservation(obs, s)
                 ELSE IF ctx.type = "notify"
                 THEN IF result = "error" THEN [x \in Slots |-> Released(obs[x])]
                      ELSE MarkSent(obs, s)
                 ELSE obs
       /\ hung' = (hung \/ (removes /\ ~Closed(obs, s)))

\* observe_exchange_completion() and notification_exchange_completion()
Completion(result) ==
    LET s == ctx.proc
        removes == CASE ctx.type = "observe" -> result # "success" /\ s # NULL
                     [] ctx.type = "cancel" -> result = "success"
                     [] ctx.type = "notify" -> result = "error"
    IN /\ obs' = IF removes THEN RemoveObservation(obs, s)
                 ELSE IF ctx.type = "notify" THEN MarkSent(obs, s) ELSE obs
       /\ hung' = (hung \/ (removes /\ ~Closed(obs, s)))

\* The exchange ends.  Only a confirmable notification is waited for.
Complete(result) ==
    /\ \/ xchg.phase = "sent"
       \/ xchg.phase = "payload" /\ result = "error"
    /\ result = "success" => xchg.ok
    /\ result = "timeout" => xchg.con
    /\ Completion(result)
    /\ ctx' = NoCtx /\ xchg' = IdleXchg
    /\ UNCHANGED <<store, dm, events>>

\* _anj_observe_cancel_observation_by_mid(): the server resets the last
\* notification of a token.
Reset(t) ==
    /\ NewRequest
    /\ LET hit == {s \in Slots : obs[s].ssid /\ obs[s].mid = t}
           gone == UNION {Chain(obs, s) : s \in hit}
       IN /\ hit # {}
          /\ obs' = [x \in Slots |->
                       IF x \in gone THEN Released(obs[x]) ELSE obs[x]]
          /\ hung' = (hung \/ \E s \in hit : ~Closed(obs, s))
    /\ UNCHANGED <<store, ctx, xchg, dm>>

\* _anj_observe_remove_all_observations(), when the client registers anew.
RemoveAllObservations ==
    /\ NewRequest
    /\ obs' = [s \in Slots |-> [Released(obs[s]) EXCEPT !.send = obs[s].send]]
    /\ UNCHANGED <<store, ctx, xchg, dm, hung>>

(***************************************************************************)
(* anj_observe_data_model_changed().  own: by a request of the server,     *)
(* which is handled between exchanges; ssid is then its Short Server ID.   *)
(***************************************************************************)
Concerned(x, own) == ~x.send /\ x.active /\ (IF own THEN ~x.ssid ELSE x.ssid)

Crossed(old, new, th) == (old <= th /\ new > th) \/ (old >= th /\ new < th)

Distance(a, b) == IF a > b THEN a - b ELSE b - a

\* check_attributes()
Met(a, old, new) ==
    \/ ~Conditional(a)
    \/ Given(a, "lt") /\ Crossed(old, new, a.lt)
    \/ Given(a, "gt") /\ Crossed(old, new, a.gt)
    \/ Given(a, "st") /\ Distance(old, new) >= a.st

\* The observation in slot s of w.obs is removed.
Removed(w, s) == [obs |-> RemoveObservation(w.obs, s),
                  hung |-> w.hung \/ ~Closed(w.obs, s)]

\* One slot after the other: the value of path is new.
Flagged(path, new, own, fail) ==
    LET visit[s \in 0..NSlots] ==
            IF s = 0 THEN [obs |-> obs, hung |-> hung]
            ELSE LET w == visit[s - 1]
                     x == w.obs[s]
                 IN CASE ~(Concerned(x, own) /\ path \in Below(x.path)) -> w
                      [] OTHER -> IF Conditional(x.eff) /\ fail THEN Removed(w, s)
                                  ELSE [w EXCEPT !.obs[s].send = Met(x.eff, x.last, new)]
    IN visit[NSlots]

\* The conditions of the composite observations can be evaluated in d now.
Reverified(d, fail) ==
    LET visit[s \in 0..NSlots] ==
            IF s = 0 THEN [obs |-> obs, hung |-> hung]
            ELSE LET w == visit[s - 1]
                     x == w.obs[s]
                     c == CheckConditions(x, x.eff, d, fail)
                     u == [w EXCEPT !.obs[s].eff = c.eff, !.obs[s].last = c.last,
                                    !.obs[s].active = VerifyAttributes(c.eff, x.path, FALSE)]
                 IN IF ~x.ssid \/ x.prev = NULL THEN w
                    ELSE IF c.ok THEN u ELSE Removed(u, s)
    IN visit[NSlots]

Occasion(own) == IF own THEN "server"
                 ELSE IF xchg.phase = "payload" THEN "between blocks" ELSE "change"

\* Mutant of ValueChanged: processing_observation is not restored.
ValueChangedAstray(r, v, own, fail) ==
    /\ dm.there /\ v # dm.val[r]
    /\ fail => Occasion(own) \in ReadFails
    /\ Event /\ (own => xchg.phase = "idle")
    /\ dm' = [dm EXCEPT !.val[r] = v]
    /\ LET f == Flagged(r, v, own, fail)
           hit == {s \in Slots : obs[s] # f.obs[s]}
       IN /\ obs' = f.obs /\ hung' = f.hung
          /\ ctx' = IF hit = {} \/ ctx.type # "notify" THEN ctx
                    ELSE [ctx EXCEPT !.proc = Smallest(hit)]
    /\ UNCHANGED <<store, xchg>>

ValueChanged(r, v, own, fail) ==
    /\ dm.there /\ v # dm.val[r]
    /\ fail => Occasion(own) \in ReadFails
    /\ Event /\ (own => xchg.phase = "idle")
    /\ dm' = [dm EXCEPT !.val[r] = v]
    /\ LET f == Flagged(r, v, own, fail) IN obs' = f.obs /\ hung' = f.hung
    /\ UNCHANGED <<store, ctx, xchg>>

\* The object instance comes back.
Added(v, own, fail) ==
    /\ ~dm.there
    /\ fail => Occasion(own) \in ReadFails
    /\ Event /\ (own => xchg.phase = "idle")
    /\ dm' = [there |-> TRUE, val |-> [r \in Resources |-> v]]
    /\ LET w == Reverified(dm', fail)
       IN /\ obs' = [s \in Slots |->
                       IF Concerned(w.obs[s], own)
                          /\ (w.obs[s].path = Obj \/ w.obs[s].prev # NULL)
                       THEN [w.obs[s] EXCEPT !.send = TRUE] ELSE w.obs[s]]
          /\ hung' = w.hung
    /\ UNCHANGED <<store, ctx, xchg>>

Deleted(own) ==
    /\ dm.there
    /\ Event /\ (own => xchg.phase = "idle")
    /\ dm' = [dm EXCEPT !.there = FALSE]
    /\ store' = [i \in DOMAIN store |-> [store[i] EXCEPT !.ssid = FALSE]]
    /\ obs' = [s \in Slots |->
                 IF obs[s].ssid /\ obs[s].prev = NULL
                 THEN Released(obs[s]) ELSE obs[s]]
    /\ UNCHANGED <<ctx, xchg, hung>>

\* Time passes.
Older(n) == IF n < MaxAge THEN n + 1 ELSE n

Tick ==
    /\ obs' = [s \in Slots |-> IF obs[s].ssid
                               THEN [obs[s] EXCEPT !.age = Older(@), !.conf = Older(@)]
                               ELSE obs[s]]
    /\ obs' # obs
    /\ UNCHANGED <<store, ctx, xchg, dm, hung, events>>

\* The history.  A message with token t leaves for the server, or the
\* exchange ends with success.
Told(t) == /\ xchg # xchg' /\ xchg'.ok /\ ctx'.token = t
           /\ ctx'.type \in {"observe", "notify"}

Changed == IF ~dm'.there THEN {}
           ELSE {r \in Resources : ~dm.there \/ dm'.val[r] # dm.val[r]}

\* by: who takes the step, the server with a request or anyone else.
History(by, success) ==
    LET after(t) == {s \in Slots : obs'[s].ssid /\ obs'[s].token = t}
        kept(t, old, new) ==
            CASE after(t) = {} \/ Told(t) -> {}
              [] OTHER -> IF by = "server"
                          THEN old \ (IF dm' = dm THEN Resources ELSE Changed)
                          ELSE old \cup new
        seen(t) == {r \in Changed : \E s \in after(t) :
                                      obs'[s].active /\ r \in Below(obs'[s].path)}
        racing(t) == ctx.type = "notify" /\ ctx.token = t
    IN /\ dirty' = [t \in Tokens |->
                      kept(t, dirty[t], IF racing(t) THEN {} ELSE seen(t))]
       /\ raced' = [t \in Tokens |->
                      kept(t, raced[t], IF racing(t) THEN seen(t) ELSE {})]
       /\ number' = [t \in Tokens |->
                       CASE after(t) = {} -> None
                         [] after(t) # {} /\ Told(t) /\ ctx'.type = "notify" ->
                              obs'[ctx'.proc].num
                         [] OTHER -> number[t]]
       /\ accepted' = {t \in Tokens : /\ after(t) # {}
                                      /\ \/ t \in accepted
                                         \/ success /\ ctx.token = t}

Results == {"success", "timeout", "error"}

Failing == {"message" \in ReadFails, FALSE}

\* What the server changes.
ServerChange ==
    \/ \E p \in Paths, a \in WriteAttrs, f \in Failing : WriteAttributes(p, a, f)
    \/ \E r \in Resources, v \in Values, f \in BOOLEAN : ValueChanged(r, v, TRUE, f)
    \/ \E v \in Values, f \in BOOLEAN : Added(v, TRUE, f)
    \/ Deleted(TRUE)

OtherStep ==
    \/ \E t \in Tokens, p \in Paths, a \in ObserveAttrs, f \in Failing :
         Observe(t, p, a, f)
    \/ \E t \in Tokens, a \in ObserveAttrs : ObserveComposite(t, a)
    \/ \E b \in Blocks, last, bad \in BOOLEAN, f \in Failing :
         CompositeBlock(b, last, bad, f)
    \/ \E t \in Tokens, f \in Failing : CancelObserve(t, f)
    \/ \E f \in Failing : Process(f)
    \/ \E t \in Tokens : Reset(t)
    \/ RemoveAllObservations
    \/ \E r \in Resources, v \in Values, f \in BOOLEAN : ValueChanged(r, v, FALSE, f)
    \/ \E v \in Values, f \in BOOLEAN : Added(v, FALSE, f)
    \/ Deleted(FALSE)
    \/ Tick

Next ==
    \/ ServerChange /\ History("server", FALSE)
    \/ OtherStep /\ History("other", FALSE)
    \/ \E result \in Results : Complete(result) /\ History("other", result = "success")

Spec == Init /\ [][Next]_vars
-----------------------------------------------------------------------------
Slot == [ssid : BOOLEAN, path : Paths, token : Tokens \cup {NoToken},
         mid : Tokens \cup {NoToken}, num : 0..NumMod - 1, fmt : Formats,
         own : Attrs, eff : Attrs, active : BOOLEAN, age : 0..MaxAge,
         conf : 0..MaxAge, last : Values \cup {0}, prev : Slots \cup {NULL},
         send : BOOLEAN]

\* The variables have the values that the fields of _anj_observe_ctx_t may have.
TypeOK ==
    /\ obs \in [Slots -> Slot]
    /\ \A i \in 1..NAttrs : store[i] \in [ssid : BOOLEAN, path : Paths, attr : Attrs]
    /\ ctx.proc \in Slots \cup {NULL} /\ ctx.first \in Slots \cup {NULL}
    /\ xchg \in [phase : {"idle", "payload", "sent"}, ok : BOOLEAN, con : BOOLEAN]
    /\ dm \in [there : BOOLEAN, val : [Resources -> Values]]
    /\ dirty \in [Tokens -> SUBSET Resources] /\ raced \in [Tokens -> SUBSET Resources]

\* The observations of a composite one form a ring: whichever of them is
\* handled, prev leads through all that have its token and back to it
\* (observe.c, add_composite_observation()), when some of its blocks are still
\* to come as well.
ChainsClosed ==
    \A s \in Slots : obs[s].ssid =>
        /\ Closed(obs, s)
        /\ Chain(obs, s) = Matching(obs[s].token)

\* The end of an exchange concerns its own observation only, whatever the
\* application changed in the meantime: "We might be in middle of handling
\* notification when this function is called" (anj_observe_data_model_changed()).
OnlyItsOwn ==
    [][xchg.phase # "idle" /\ xchg'.phase = "idle" =>
         \A s \in Slots : obs[s].ssid /\ obs[s].token # ctx.token => obs'[s] = obs[s]]_vars

\* Between exchanges a slot is in use only for an observation whose request
\* was answered with success, whatever failed on the way.
SlotsReleased ==
    xchg.phase = "idle" => \A s \in Slots : obs[s].ssid => obs[s].token \in accepted

\* All slots of an observation carry the number of its last notification, so
\* that the next one follows it whichever path causes it.
NumbersInStep ==
    \A t \in Tokens : number[t] # None => \A s \in Matching(t) : obs[s].num = number[t]

\* The table is in order between any two calls, whatever failed: rings are
\* closed, so that the loop of _anj_observe_remove_observation() ends
\* (assert(prev_observation)), carry one number, and no slot is left over.
TableInOrder == TypeOK /\ ~hung /\ ChainsClosed /\ NumbersInStep /\ SlotsReleased

\* The effective attributes of an observation are those that the server has
\* written to its path and above (refresh_after_write_attr()), also after a
\* Write-Attributes that was refused.
AttributesInForce ==
    \A s \in Slots :
        obs[s].ssid /\ obs[s].fmt = "none" /\ obs[s].own = NoAttr =>
            obs[s].eff = IF obs[s].path \in Multi
                         THEN Disabled(Inherited(store, obs[s].path))
                         ELSE Inherited(store, obs[s].path)

\* anj_observe_time_to_next_notification() is exact: a notification is due
\* after that time and not before, if nothing else happens.
TimeExact ==
    xchg.phase = "idle" =>
        \A d \in 0..MaxAge : (\E s \in Slots : Due(obs[s], obs[s].age + d))
                             <=> (TimeToNext # None /\ d >= TimeToNext)

\* Changes in the sets of c that the attributes of a slot ask to report.
Unreported(s, c) ==
    /\ obs[s].ssid /\ obs[s].active /\ dm.there
    /\ c[obs[s].token] \cap Below(obs[s].path) # {}
    /\ Conditional(obs[s].eff) => Met(obs[s].eff, obs[s].last, dm.val[obs[s].path])

\* No change is forgotten: what the application changed since the last message
\* of an observation is pending, if its attributes ask for it; except for
\* changes during a notification, and until the server itself writes to the
\* resource or to its attributes.
ChangesReported ==
    xchg.phase = "idle" =>
        \A s \in Slots : Unreported(s, dirty) => \E x \in Chain(obs, s) : obs[x].send

\* The same with changes during a notification, as AT-Observations.rst has it:
\* "A notification is sent whenever the observed value changes by at least
\* this amount since the last notification".
EveryChangeReported ==
    xchg.phase = "idle" =>
        \A s \in Slots : Unreported(s, raced) => \E x \in Chain(obs, s) : obs[x].send
=============================================================================

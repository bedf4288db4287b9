------------------------------ MODULE SendProofs ------------------------------
(***************************************************************************)
(* The queue of LwM2M Send requests is in order, and does what the header  *)
(* promises, for every queue size, every depth of nested calls and every   *)
(* behaviour of the finish handlers.                                       *)
(*                                                                         *)
(* The argument: the handler that the loop of anj_send_abort() calls is    *)
(* always the innermost call, as nothing else is aborted or completed      *)
(* while abort_in_progress is set.  The slots before the one it is at are  *)
(* gone through; what is in them was queued by the handlers.               *)
(***************************************************************************)
EXTENDS Lwm2mSend, TLAPS

\* What the library goes on with when the calls of a stack return.
Thens(s) == {s[i].then : i \in 1 .. Len(s)}

Finals == {"finalize", "finalize_leave"}

\* The calls that have not returned: the handler called by the loop is the
\* innermost one, nothing is about to end an exchange that is active or to abort
\* all beside it, and one that is no longer active is about to end.
StackInv ==
    /\ aborting => /\ stack # <<>> /\ Head(stack).then = "slot"
                   /\ Head(stack).slot \in Slots /\ ~Free(Head(stack).slot)
                   /\ "slot" \notin Thens(Tail(stack))
    /\ ~aborting => "slot" \notin Thens(stack)
    /\ active => /\ ~aborting /\ ~Free(1) /\ exchange = "send"
                 /\ Thens(stack) \cap (Finals \cup {"loop"}) = {}
    /\ exchange = "send" => active \/ Thens(stack) \cap Finals # {}

\* The slot that the loop of anj_send_abort() is at.
Front == IF aborting THEN Head(stack).slot ELSE QueueSize + 1

\* The slots that the loop has gone through, all of them if there is none: in
\* use without a gap, in the order of acceptance, by requests newer than it.
Ordered ==
    \A i, j \in Slots : i < j /\ j < Front =>
        /\ Free(i) => Free(j)
        /\ ~Free(j) => reqs[i].n < reqs[j].n
Fresh == \A i \in Slots : ~Free(i) /\ i < Front => reqs[i].n > mark

\* A request is in one slot from its acceptance until its handler is called; in
\* the loop, until the handler has returned.
Distinct ==
    \A i, j \in Slots : ~Free(i) /\ ~Free(j) /\ reqs[i].n = reqs[j].n => i = j
Waiting ==
    \A i \in Slots : ~Free(i) =>
        /\ reqs[i].n \in 1 .. accepted
        /\ told[reqs[i].n] = <<>> <=> i # Front
Present ==
    \A r \in 1 .. accepted : told[r] = <<>> =>
        \E i \in Slots : ~Free(i) /\ reqs[i].n = r
Unknown == \A r \in Requests : r > accepted => told[r] = <<>>

QueueInv ==
    /\ Ordered /\ Fresh /\ Distinct /\ Waiting /\ Present /\ Unknown
    /\ mark \in 0 .. accepted

\* The inductive invariant.
SendInv == TypeOK /\ StackInv /\ QueueInv

(***************************************************************************)
(* The call stack.                                                         *)
(***************************************************************************)
LEMMA EmptyStack == Thens(<<>>) = {} /\ <<>> \in Seq(Frames)
  BY DEF Thens

LEMMA FrameTypes ==
    /\ AbortLoop \in Frames /\ AbortCall \in Frames /\ CloseCall \in Frames
    /\ \A then \in {"return", "finalize", "leave", "finalize_leave"} :
           Handler(then, 0) \in Frames
    /\ \A slot \in Slots : Handler("slot", slot) \in Frames
  BY SendAssumption DEF Frames, Handler, Slots

LEMMA PushFrame ==
    ASSUME NEW s \in Seq(Frames), NEW f \in Frames
    PROVE  /\ <<f>> \o s \in Seq(Frames) /\ <<f>> \o s # <<>>
           /\ Head(<<f>> \o s) = f /\ Tail(<<f>> \o s) = s
           /\ Thens(<<f>> \o s) = {f.then} \cup Thens(s)
  <1> DEFINE t == <<f>> \o s
  <1>1. /\ t \in Seq(Frames) /\ t # <<>> /\ Len(t) = Len(s) + 1
        /\ Head(t) = f /\ t[1] = f /\ Tail(t) = s
    OBVIOUS
  <1>2. \A i \in 1 .. Len(s) : t[i + 1] = s[i]
    OBVIOUS
  <1>3. Thens(t) \subseteq {f.then} \cup Thens(s)
    <2>1. SUFFICES ASSUME NEW i \in 1 .. Len(t), i # 1 PROVE t[i].then \in Thens(s)
      BY <1>1 DEF Thens
    <2>2. i - 1 \in 1 .. Len(s) /\ t[i] = s[i - 1]
      BY <1>1, <1>2, <2>1
    <2> QED BY <2>2 DEF Thens
  <1>4. {f.then} \cup Thens(s) \subseteq Thens(t)
    <2>1. f.then \in Thens(t)
      BY <1>1 DEF Thens
    <2>2. SUFFICES ASSUME NEW i \in 1 .. Len(s) PROVE s[i].then \in Thens(t)
      BY <2>1 DEF Thens
    <2>3. i + 1 \in 1 .. Len(t) /\ t[i + 1] = s[i]
      BY <1>1, <1>2
    <2> QED BY <2>3 DEF Thens
  <1> QED BY <1>1, <1>3, <1>4

LEMMA PopFrame ==
    ASSUME NEW s \in Seq(Frames), s # <<>>
    PROVE  /\ Head(s) \in Frames /\ Tail(s) \in Seq(Frames)
           /\ Thens(s) = {Head(s).then} \cup Thens(Tail(s))
  <1>1. /\ Head(s) \in Frames /\ Tail(s) \in Seq(Frames)
        /\ s = <<Head(s)>> \o Tail(s)
    OBVIOUS
  <1> QED BY <1>1, PushFrame

(***************************************************************************)
(* What a step does to the queue.                                          *)
(***************************************************************************)
\* A step that leaves the queue and its histories alone.
LEMMA QueueKept ==
    ASSUME QueueInv, UNCHANGED <<ids, reqs, told, accepted, mark>>, Front' = Front
    PROVE  QueueInv'
  BY DEF QueueInv, Ordered, Fresh, Distinct, Waiting, Present, Unknown, Free

\* send_completion_callback() and anj_send_abort() of one request: it leaves its
\* slot, the ones behind it move up, and its handler is told.
Removed(slot) ==
    /\ ~aborting /\ ~aborting' /\ ~Free(slot)
    /\ ids' = Shifted(ids, slot, 0) /\ reqs' = Shifted(reqs, slot, Empty)
    /\ accepted' = accepted /\ mark' = mark
    /\ \E end \in Results :
          told' = [told EXCEPT ![reqs[slot].n] = Append(@, end)]

LEMMA ShiftedSlots ==
    ASSUME TypeOK, NEW slot \in Slots, Removed(slot)
    PROVE  /\ ids' \in [Slots -> 0 .. IdAll - 1]
           /\ reqs' \in [Slots -> {Empty} \cup [n : Requests, kind : Kinds]]
           /\ \A i \in Slots : i < slot => ids'[i] = ids[i] /\ reqs'[i] = reqs[i]
           /\ \A i \in Slots : i >= slot /\ i < QueueSize =>
                  ids'[i] = ids[i + 1] /\ reqs'[i] = reqs[i + 1]
           /\ ids'[QueueSize] = 0
  BY SendAssumption DEF TypeOK, Removed, Shifted, Slots

\* Where a request that stays comes from, and where it goes to.
LEMMA ShiftedRequests ==
    ASSUME TypeOK, NEW slot \in Slots, Removed(slot)
    PROVE  /\ \A i \in Slots : ~Free(i)' =>
                 LET from == IF i < slot THEN i ELSE i + 1
                 IN /\ from \in Slots /\ from # slot /\ ~Free(from)
                    /\ ids'[i] = ids[from] /\ reqs'[i] = reqs[from]
           /\ \A i \in Slots : ~Free(i) /\ i # slot =>
                 LET to == IF i < slot THEN i ELSE i - 1
                 IN /\ to \in Slots /\ ~Free(to)'
                    /\ ids'[to] = ids[i] /\ reqs'[to] = reqs[i]
  <1> USE SendAssumption
  <1>1. /\ \A i \in Slots : i < slot => ids'[i] = ids[i] /\ reqs'[i] = reqs[i]
        /\ \A i \in Slots : i >= slot /\ i < QueueSize =>
               ids'[i] = ids[i + 1] /\ reqs'[i] = reqs[i + 1]
        /\ ids'[QueueSize] = 0
    BY ShiftedSlots
  <1>2. ASSUME NEW i \in Slots, ~Free(i)'
        PROVE  LET from == IF i < slot THEN i ELSE i + 1
               IN /\ from \in Slots /\ from # slot /\ ~Free(from)
                  /\ ids'[i] = ids[from] /\ reqs'[i] = reqs[from]
    <2>1. CASE i < slot
      BY <1>1, <1>2, <2>1 DEF Free, Slots
    <2>2. CASE ~(i < slot)
      <3>1. i >= slot /\ i < QueueSize
        BY <1>1, <1>2, <2>2 DEF Free, Slots
      <3>2. ids'[i] = ids[i + 1] /\ reqs'[i] = reqs[i + 1]
        BY <1>1, <3>1
      <3> QED BY <1>2, <2>2, <3>1, <3>2 DEF Free, Slots
    <2> QED BY <2>1, <2>2
  <1>3. ASSUME NEW i \in Slots, ~Free(i), i # slot
        PROVE  LET to == IF i < slot THEN i ELSE i - 1
               IN /\ to \in Slots /\ ~Free(to)'
                  /\ ids'[to] = ids[i] /\ reqs'[to] = reqs[i]
    <2>1. CASE i < slot
      BY <1>1, <1>3, <2>1 DEF Free, Slots
    <2>2. CASE ~(i < slot)
      <3>1. /\ i - 1 \in Slots /\ i - 1 >= slot /\ i - 1 < QueueSize
            /\ (i - 1) + 1 = i
        BY <1>3, <2>2 DEF Slots
      <3>2. ids'[i - 1] = ids[i] /\ reqs'[i - 1] = reqs[i]
        BY <1>1, <3>1
      <3> QED BY <1>3, <2>2, <3>1, <3>2 DEF Free
    <2> QED BY <2>1, <2>2
  <1> QED BY <1>2, <1>3

LEMMA Tells ==
    ASSUME TypeOK, NEW r \in Requests, NEW end \in Results,
           told' = [told EXCEPT ![r] = Append(@, end)]
    PROVE  /\ told' \in [Requests -> Seq(Results)]
           /\ told'[r] # <<>>
           /\ \A q \in Requests : q # r => told'[q] = told[q]
  <1>1. told[r] \in Seq(Results)
    BY DEF TypeOK
  <1>2. Append(told[r], end) \in Seq(Results) /\ Append(told[r], end) # <<>>
    BY <1>1
  <1> QED BY <1>2 DEF TypeOK

LEMMA QueueRemoved ==
    ASSUME TypeOK, QueueInv, NEW slot \in Slots, Removed(slot)
    PROVE  QueueInv' /\ told' \in [Requests -> Seq(Results)]
  <1> DEFINE r == reqs[slot].n
  <1>1. /\ Front = QueueSize + 1 /\ Front' = QueueSize + 1
        /\ accepted \in 0 .. MaxRequests /\ accepted' = accepted /\ mark' = mark
    BY DEF Removed, Front, TypeOK
  <1>2. r \in 1 .. accepted /\ r \in Requests
    BY <1>1, SendAssumption DEF QueueInv, Waiting, Removed, Requests
  <1>3. /\ told' \in [Requests -> Seq(Results)] /\ told'[r] # <<>>
        /\ \A q \in Requests : q # r => told'[q] = told[q]
    BY <1>2, Tells DEF Removed
  <1>4. \A i \in Slots : ~Free(i) /\ i # slot => reqs[i].n # r
    BY DEF QueueInv, Distinct, Removed
  <1>5. Ordered'
    <2>1. SUFFICES ASSUME NEW i \in Slots, NEW j \in Slots, i < j
                   PROVE  /\ Free(i)' => Free(j)'
                          /\ ~Free(j)' => reqs'[i].n < reqs'[j].n
      BY DEF Ordered
    <2>2. SUFFICES ASSUME ~Free(j)' PROVE ~Free(i)' /\ reqs'[i].n < reqs'[j].n
      OBVIOUS
    <2> DEFINE a == IF i < slot THEN i ELSE i + 1
               b == IF j < slot THEN j ELSE j + 1
    <2>3. /\ b \in Slots /\ ~Free(b) /\ reqs'[j] = reqs[b]
      BY <2>2, ShiftedRequests
    <2>4. a \in Slots /\ a < b /\ a # slot
      BY <2>1, <2>3, SendAssumption DEF Slots
    <2>5. ~Free(a) /\ reqs[a].n < reqs[b].n
      BY <2>3, <2>4, <1>1, SendAssumption DEF QueueInv, Ordered, Slots
    <2>6. ids'[i] = ids[a] /\ reqs'[i] = reqs[a]
      <3>1. i < slot \/ (i >= slot /\ i < QueueSize)
        BY <2>1, SendAssumption DEF Slots
      <3>2. CASE i < slot
        BY <3>2, ShiftedSlots
      <3>3. CASE i >= slot /\ i < QueueSize
        <4>1. a = i + 1
          BY <3>3, SendAssumption DEF Slots
        <4> QED BY <3>3, <4>1, ShiftedSlots
      <3> QED BY <3>1, <3>2, <3>3
    <2> QED BY <2>3, <2>5, <2>6 DEF Free
  <1>6. Fresh'
    BY <1>1, ShiftedRequests, SendAssumption DEF QueueInv, Fresh, Slots
  <1>7. Distinct'
    <2>1. SUFFICES ASSUME NEW i \in Slots, NEW j \in Slots, ~Free(i)', ~Free(j)',
                          reqs'[i].n = reqs'[j].n
                   PROVE  i = j
      BY DEF Distinct
    <2> DEFINE a == IF i < slot THEN i ELSE i + 1
               b == IF j < slot THEN j ELSE j + 1
    <2>2. /\ a \in Slots /\ ~Free(a) /\ reqs'[i] = reqs[a] /\ a # slot
          /\ b \in Slots /\ ~Free(b) /\ reqs'[j] = reqs[b] /\ b # slot
      BY <2>1, ShiftedRequests
    <2>3. a = b
      BY <2>1, <2>2 DEF QueueInv, Distinct
    <2> QED BY <2>2, <2>3, SendAssumption DEF Slots
  <1>8. Waiting'
    <2>1. SUFFICES ASSUME NEW i \in Slots, ~Free(i)'
                   PROVE  /\ reqs'[i].n \in 1 .. accepted
                          /\ told'[reqs'[i].n] = <<>> /\ i # QueueSize + 1
      BY <1>1 DEF Waiting
    <2> DEFINE a == IF i < slot THEN i ELSE i + 1
    <2>2. a \in Slots /\ a # slot /\ ~Free(a) /\ reqs'[i] = reqs[a]
      BY <2>1, ShiftedRequests
    <2>3. reqs[a].n \in 1 .. accepted /\ told[reqs[a].n] = <<>>
      BY <2>2, <1>1, SendAssumption DEF QueueInv, Waiting, Slots
    <2>4. reqs[a].n # r /\ reqs[a].n \in Requests
      BY <2>2, <2>3, <1>1, <1>4, SendAssumption DEF Requests
    <2> QED BY <2>2, <2>3, <2>4, <1>3, SendAssumption DEF Slots
  <1>9. Present'
    <2>1. SUFFICES ASSUME NEW q \in 1 .. accepted, told'[q] = <<>>
                   PROVE  \E i \in Slots : ~Free(i)' /\ reqs'[i].n = q
      BY <1>1 DEF Present
    <2>2. q # r /\ q \in Requests /\ told[q] = <<>>
      <3>1. q \in Requests
        BY <1>1, SendAssumption DEF Requests
      <3>2. q # r
        BY <2>1, <1>3
      <3> QED BY <2>1, <3>1, <3>2, <1>3
    <2>3. PICK i \in Slots : ~Free(i) /\ reqs[i].n = q
      BY <2>2 DEF QueueInv, Present
    <2>4. i # slot
      BY <2>2, <2>3
    <2> QED BY <2>3, <2>4, ShiftedRequests
  <1>10. Unknown'
    BY <1>1, <1>2, <1>3, SendAssumption DEF QueueInv, Unknown, Requests
  <1> QED BY <1>1, <1>3, <1>5, <1>6, <1>7, <1>8, <1>9, <1>10 DEF QueueInv

\* anj_send_new_request(): the first slot that is free.
LEMMA QueueNew ==
    ASSUME SendInv, NEW k \in Kinds, NewRequest(k), Mark
    PROVE  /\ QueueInv'
           /\ ids' \in [Slots -> 0 .. IdAll - 1]
           /\ reqs' \in [Slots -> {Empty} \cup [n : Requests, kind : Kinds]]
           /\ counter' \in 0 .. IdAll - 1 /\ accepted' \in 0 .. MaxRequests
           /\ \A i \in Slots : ~Free(i) => ids'[i] = ids[i] /\ reqs'[i] = reqs[i]
  <1> USE SendAssumption
  <1>1. PICK slot \in Slots :
           /\ Free(slot) /\ \A i \in 1 .. slot - 1 : ~Free(i)
           /\ ids' = [ids EXCEPT ![slot] = NextId]
           /\ reqs' = [reqs EXCEPT ![slot] = [n |-> accepted + 1, kind |-> k]]
    BY DEF NewRequest
  <1>2. NextId \in 1 .. IdAll - 1
    <2>1. counter \in 0 .. IdAll - 1
      BY DEF SendInv, TypeOK
    <2>2. (counter + 1) % (IdAll + 1) = counter + 1
      BY <2>1
    <2> QED BY <2>1, <2>2 DEF NextId
  <1>3. /\ accepted \in Nat /\ accepted' = accepted + 1 /\ accepted + 1 \in Requests
        /\ accepted' \in 0 .. MaxRequests /\ told' = told /\ mark' = mark
        /\ counter' = NextId
    BY DEF SendInv, TypeOK, NewRequest, Mark, Requests
  <1>4. Front' = Front /\ slot # Front /\ Front \in Int
    BY <1>1 DEF SendInv, StackInv, Front, NewRequest, Slots
  <1>5. /\ ids' \in [Slots -> 0 .. IdAll - 1]
        /\ reqs' \in [Slots -> {Empty} \cup [n : Requests, kind : Kinds]]
        /\ ~Free(slot)' /\ reqs'[slot].n = accepted + 1
        /\ \A i \in Slots : i # slot => ids'[i] = ids[i] /\ reqs'[i] = reqs[i]
    BY <1>1, <1>2, <1>3 DEF SendInv, TypeOK, Free
  <1>6. \A i \in Slots : ~Free(i) => reqs[i].n \in 1 .. accepted /\ i # slot
    BY <1>1 DEF SendInv, QueueInv, Waiting
  <1>7. Ordered'
    <2>1. SUFFICES ASSUME NEW i \in Slots, NEW j \in Slots, i < j, j < Front
                   PROVE  /\ Free(i)' => Free(j)'
                          /\ ~Free(j)' => reqs'[i].n < reqs'[j].n
      BY <1>4 DEF Ordered
    <2>2. CASE j = slot
      <3>1. ~Free(i)
        BY <1>1, <2>1, <2>2 DEF Slots
      <3> QED BY <3>1, <2>2, <1>3, <1>5, <1>6 DEF Free
    <2>3. CASE i = slot
      BY <2>1, <2>3, <1>1, <1>5 DEF SendInv, QueueInv, Ordered, Free, Slots
    <2>4. CASE i # slot /\ j # slot
      BY <2>1, <2>4, <1>5 DEF SendInv, QueueInv, Ordered, Free
    <2> QED BY <2>2, <2>3, <2>4
  <1>8. Fresh'
    BY <1>3, <1>4, <1>5 DEF SendInv, QueueInv, Fresh, Free
  <1>9. Distinct'
    BY <1>3, <1>5, <1>6 DEF SendInv, QueueInv, Distinct, Free
  <1>10. Waiting'
    <2>1. told[accepted + 1] = <<>>
      BY <1>3 DEF SendInv, QueueInv, Unknown
    <2> QED BY <2>1, <1>3, <1>4, <1>5, <1>6 DEF SendInv, QueueInv, Waiting, Free
  <1>11. Present'
    <2>1. SUFFICES ASSUME NEW q \in 1 .. accepted + 1, told[q] = <<>>
                   PROVE  \E i \in Slots : ~Free(i)' /\ reqs'[i].n = q
      BY <1>3 DEF Present
    <2>2. CASE q = accepted + 1
      BY <2>2, <1>5
    <2>3. CASE q # accepted + 1
      <3>1. PICK i \in Slots : ~Free(i) /\ reqs[i].n = q
        BY <2>1, <2>3, <1>3 DEF SendInv, QueueInv, Present
      <3> QED BY <3>1, <1>5, <1>6 DEF Free
    <2> QED BY <2>2, <2>3
  <1>12. Unknown'
    BY <1>3 DEF SendInv, QueueInv, Unknown, Requests
  <1>13. mark' \in 0 .. accepted'
    BY <1>3 DEF SendInv, QueueInv
  <1> QED BY <1>2, <1>3, <1>5, <1>6, <1>7, <1>8, <1>9, <1>10, <1>11, <1>12, <1>13
          DEF QueueInv

\* The loop of anj_send_abort() calls the handler of a slot.
LoopAt(slot) ==
    /\ ~Free(slot) /\ aborting' /\ Head(stack').slot = slot
    /\ told' = [told EXCEPT ![reqs[slot].n] = Append(@, "abort")]
    /\ accepted' = accepted

\* The first one.
LEMMA QueueBegin ==
    ASSUME TypeOK, QueueInv, ~aborting, NEW slot \in Slots, LoopAt(slot),
           \A i \in Slots : i < slot => Free(i),
           UNCHANGED <<ids, reqs>>, mark' = accepted
    PROVE  QueueInv' /\ told' \in [Requests -> Seq(Results)]
  <1> USE SendAssumption
  <1> DEFINE r == reqs[slot].n
  <1>1. /\ accepted \in 0 .. MaxRequests /\ accepted' = accepted
        /\ Front' = slot /\ Front = QueueSize + 1
    BY DEF TypeOK, LoopAt, Front
  <1>2. r \in 1 .. accepted /\ r \in Requests
    BY <1>1 DEF QueueInv, Waiting, LoopAt, Requests
  <1>3. /\ told' \in [Requests -> Seq(Results)] /\ told'[r] # <<>>
        /\ \A q \in Requests : q # r => told'[q] = told[q]
    BY <1>2, Tells DEF LoopAt, Results
  <1>4. Ordered' /\ Fresh'
    BY <1>1 DEF Ordered, Fresh, Free, Slots
  <1>5. Distinct'
    BY DEF QueueInv, Distinct, Free
  <1>6. Waiting'
    <2>1. SUFFICES ASSUME NEW i \in Slots, ~Free(i)
                   PROVE  /\ reqs[i].n \in 1 .. accepted
                          /\ told'[reqs[i].n] = <<>> <=> i # slot
      BY <1>1 DEF Waiting, Free
    <2>2. /\ reqs[i].n \in 1 .. accepted /\ reqs[i].n \in Requests
          /\ told[reqs[i].n] = <<>>
      BY <2>1, <1>1 DEF QueueInv, Waiting, Slots, Requests
    <2>3. i # slot => reqs[i].n # r
      BY <2>1 DEF QueueInv, Distinct, LoopAt
    <2> QED BY <2>2, <2>3, <1>3
  <1>7. Present'
    <2>1. SUFFICES ASSUME NEW q \in 1 .. accepted, told'[q] = <<>>
                   PROVE  \E i \in Slots : ~Free(i) /\ reqs[i].n = q
      BY <1>1 DEF Present, Free
    <2>2. q \in Requests
      BY <1>1 DEF Requests
    <2>3. told[q] = <<>>
      BY <2>1, <2>2, <1>3
    <2> QED BY <2>3 DEF QueueInv, Present
  <1>8. Unknown'
    <2>1. SUFFICES ASSUME NEW q \in Requests, q > accepted PROVE told'[q] = <<>>
      BY <1>1 DEF Unknown
    <2>2. q # r
      BY <2>1, <1>1, <1>2 DEF Requests
    <2> QED BY <2>1, <2>2, <1>3 DEF QueueInv, Unknown
  <1> QED BY <1>1, <1>3, <1>4, <1>5, <1>6, <1>7, <1>8 DEF QueueInv

\* The handler of a slot has returned to the loop, which frees the slot.
Freed(slot) ==
    /\ aborting /\ slot = Head(stack).slot /\ ~Free(slot)
    /\ ids' = [ids EXCEPT ![slot] = 0] /\ reqs' = [reqs EXCEPT ![slot] = Empty]
    /\ accepted' = accepted /\ mark' = mark

LEMMA FreedTypes ==
    ASSUME TypeOK, NEW slot \in Slots, Freed(slot)
    PROVE  /\ ids' \in [Slots -> 0 .. IdAll - 1]
           /\ reqs' \in [Slots -> {Empty} \cup [n : Requests, kind : Kinds]]
           /\ \A i \in Slots : Free(i)' <=> Free(i) \/ i = slot
           /\ \A i \in Slots : i # slot => reqs'[i] = reqs[i]
  BY SendAssumption DEF TypeOK, Freed, Free

LEMMA FreedSlots ==
    ASSUME TypeOK, QueueInv, NEW slot \in Slots, Freed(slot), Front' \in Int,
           \A i \in Slots : i > slot /\ i < Front' => Free(i)
    PROVE  /\ Ordered' /\ Fresh' /\ Distinct'
           /\ \A i \in Slots : Free(i)' <=> Free(i) \/ i = slot
           /\ \A i \in Slots : ~Free(i)' => reqs'[i] = reqs[i]
  <1> USE SendAssumption
  <1>1. /\ \A i \in Slots : Free(i)' <=> Free(i) \/ i = slot
        /\ \A i \in Slots : i # slot => reqs'[i] = reqs[i]
    BY FreedTypes
  <1>2. Front = slot /\ mark' = mark
    BY DEF Freed, Front
  <1>3. \A i \in Slots : i < Front' /\ ~Free(i)' => i < slot
    BY <1>1 DEF Slots
  <1>4. Ordered'
    <2>1. SUFFICES ASSUME NEW i \in Slots, NEW j \in Slots, i < j, j < Front', ~Free(j)'
                   PROVE  ~Free(i)' /\ reqs'[i].n < reqs'[j].n
      BY DEF Ordered
    <2>2. i < slot /\ j < slot /\ ~Free(j)
      BY <2>1, <1>1, <1>3 DEF Slots
    <2>3. ~Free(i) /\ reqs[i].n < reqs[j].n
      BY <2>1, <2>2, <1>2 DEF QueueInv, Ordered
    <2>4. i # slot /\ j # slot
      BY <2>2 DEF Slots
    <2> QED BY <2>3, <2>4, <1>1
  <1>5. Fresh'
    BY <1>1, <1>2, <1>3 DEF QueueInv, Fresh
  <1>6. Distinct'
    BY <1>1 DEF QueueInv, Distinct
  <1> QED BY <1>1, <1>4, <1>5, <1>6

\* The loop ends.
LEMMA QueueLoopEnds ==
    ASSUME TypeOK, QueueInv, NEW slot \in Slots, Freed(slot), ~aborting', told' = told,
           \A i \in Slots : i > slot => Free(i)
    PROVE  QueueInv'
  <1> USE SendAssumption
  <1>1. /\ accepted \in 0 .. MaxRequests /\ accepted' = accepted /\ mark' = mark
        /\ Front = slot /\ Front' = QueueSize + 1 /\ Front' \in Int
    BY DEF TypeOK, Freed, Front
  <1>2. /\ Ordered' /\ Fresh' /\ Distinct'
        /\ \A i \in Slots : Free(i)' <=> Free(i) \/ i = slot
        /\ \A i \in Slots : ~Free(i)' => reqs'[i] = reqs[i]
    BY <1>1, FreedSlots
  <1>3. Waiting'
    BY <1>1, <1>2 DEF QueueInv, Waiting, Slots
  <1>4. Present'
    <2>1. SUFFICES ASSUME NEW q \in 1 .. accepted, told[q] = <<>>
                   PROVE  \E i \in Slots : ~Free(i)' /\ reqs'[i].n = q
      BY <1>1 DEF Present
    <2>2. PICK i \in Slots : ~Free(i) /\ reqs[i].n = q
      BY <2>1 DEF QueueInv, Present
    <2>3. i # slot
      BY <2>1, <2>2, <1>1 DEF QueueInv, Waiting
    <2> QED BY <2>2, <2>3, <1>2
  <1>5. Unknown'
    BY <1>1 DEF QueueInv, Unknown
  <1> QED BY <1>1, <1>2, <1>3, <1>4, <1>5 DEF QueueInv

\* The loop goes on at another slot.
LEMMA QueueLoopGoesOn ==
    ASSUME TypeOK, QueueInv, NEW slot \in Slots, Freed(slot),
           NEW next \in Slots, LoopAt(next), next > slot,
           \A i \in Slots : i > slot /\ i < next => Free(i)
    PROVE  QueueInv' /\ told' \in [Requests -> Seq(Results)]
  <1> USE SendAssumption
  <1> DEFINE r == reqs[next].n
  <1>1. /\ accepted \in 0 .. MaxRequests /\ accepted' = accepted /\ mark' = mark
        /\ Front = slot /\ Front' = next /\ Front' \in Int
    BY DEF TypeOK, Freed, Front, LoopAt, Slots
  <1>2. /\ Ordered' /\ Fresh' /\ Distinct'
        /\ \A i \in Slots : Free(i)' <=> Free(i) \/ i = slot
        /\ \A i \in Slots : ~Free(i)' => reqs'[i] = reqs[i]
    BY <1>1, FreedSlots
  <1>3. r \in 1 .. accepted /\ r \in Requests
    BY <1>1 DEF QueueInv, Waiting, LoopAt, Requests
  <1>4. /\ told' \in [Requests -> Seq(Results)] /\ told'[r] # <<>>
        /\ \A q \in Requests : q # r => told'[q] = told[q]
    BY <1>3, Tells DEF LoopAt, Results
  <1>5. Waiting'
    <2>1. SUFFICES ASSUME NEW i \in Slots, ~Free(i), i # slot
                   PROVE  /\ reqs[i].n \in 1 .. accepted
                          /\ told'[reqs[i].n] = <<>> <=> i # next
      BY <1>1, <1>2 DEF Waiting
    <2>2. /\ reqs[i].n \in 1 .. accepted /\ reqs[i].n \in Requests
          /\ told[reqs[i].n] = <<>>
      BY <2>1, <1>1 DEF QueueInv, Waiting, Requests
    <2>3. i # next => reqs[i].n # r
      BY <2>1 DEF QueueInv, Distinct, LoopAt
    <2> QED BY <2>2, <2>3, <1>4
  <1>6. Present'
    <2>1. SUFFICES ASSUME NEW q \in 1 .. accepted, told'[q] = <<>>
                   PROVE  \E i \in Slots : ~Free(i)' /\ reqs'[i].n = q
      BY <1>1 DEF Present
    <2>2. told[q] = <<>>
      BY <2>1, <1>1, <1>4 DEF Requests
    <2>3. PICK i \in Slots : ~Free(i) /\ reqs[i].n = q
      BY <2>2 DEF QueueInv, Present
    <2>4. i # slot
      BY <2>2, <2>3, <1>1 DEF QueueInv, Waiting
    <2> QED BY <2>3, <2>4, <1>2
  <1>7. Unknown'
    <2>1. SUFFICES ASSUME NEW q \in Requests, q > accepted PROVE told'[q] = <<>>
      BY <1>1 DEF Unknown
    <2>2. q # r
      BY <2>1, <1>1, <1>3 DEF Requests
    <2> QED BY <2>1, <2>2, <1>4 DEF QueueInv, Unknown
  <1> QED BY <1>1, <1>2, <1>4, <1>5, <1>6, <1>7 DEF QueueInv

(***************************************************************************)
(* What a step is for the promise.                                         *)
(***************************************************************************)
Refined == Promise!Next \/ UNCHANGED Promise!vars

LEMMA PhasesKept ==
    ASSUME UNCHANGED <<told, accepted, active>>, active => reqs'[1] = reqs[1]
    PROVE  Refined
  <1>1. \A r \in Requests : Phase(r)' = Phase(r)
    BY DEF Phase
  <1>2. [r \in Requests |-> Phase(r)]' = [r \in Requests |-> Phase(r)]
    BY <1>1
  <1> QED BY <1>2 DEF Refined, Promise!vars

\* A handler is called: the request was pending, and the oldest one if it has
\* another result than "abort".
LEMMA Finishes ==
    ASSUME TypeOK, NEW r \in Requests, r <= accepted, told[r] = <<>>, accepted' = accepted,
           NEW end \in Results, told' = [told EXCEPT ![r] = Append(@, end)],
           end # "abort" => \A q \in 1 .. r - 1 : told[q] # <<>>,
           \A q \in Requests : q # r =>
               ((active' /\ reqs'[1].n = q) <=> (active /\ reqs[1].n = q))
    PROVE  Refined
  <1> DEFINE phase == [q \in Requests |-> Phase(q)]
  <1>1. /\ told' \in [Requests -> Seq(Results)] /\ told'[r] # <<>>
        /\ \A q \in Requests : q # r => told'[q] = told[q]
    BY Tells
  <1>2. phase[r] \in {"queued", "sending"} /\ Phase(r)' = "done"
    BY <1>1, SendAssumption DEF Phase, TypeOK, Requests
  <1>3. \A q \in Requests : q # r => Phase(q)' = Phase(q)
    BY <1>1 DEF Phase
  <1>4. phase' = [phase EXCEPT ![r] = "done"]
    BY <1>2, <1>3
  <1>5. end # "abort" => \A q \in 1 .. r - 1 : phase[q] = "done"
    BY SendAssumption DEF Phase, Requests
  <1>6. Promise!Finish(r, end)
    BY <1>2, <1>4, <1>5 DEF Promise!Finish, Promise!Pending, Promise!Oldest
  <1> QED BY <1>6 DEF Refined, Promise!Next, Promise!Requests, Promise!Results, Results, Requests

\* The first slot holds the oldest request, except within the loop.
LEMMA FirstIsOldest ==
    ASSUME TypeOK, QueueInv, ~aborting, ~Free(1)
    PROVE  /\ reqs[1].n \in Requests /\ reqs[1].n <= accepted /\ told[reqs[1].n] = <<>>
           /\ \A q \in 1 .. reqs[1].n - 1 : told[q] # <<>>
  <1> USE SendAssumption
  <1>1. /\ Front = QueueSize + 1 /\ 1 \in Slots /\ 1 # QueueSize + 1
        /\ accepted \in 0 .. MaxRequests
    BY DEF Front, Slots, TypeOK
  <1>2. reqs[1].n \in 1 .. accepted /\ told[reqs[1].n] = <<>>
    BY <1>1 DEF QueueInv, Waiting
  <1>3. ASSUME NEW q \in 1 .. reqs[1].n - 1, told[q] = <<>> PROVE FALSE
    <2>1. q \in 1 .. accepted
      BY <1>1, <1>2
    <2>2. PICK i \in Slots : ~Free(i) /\ reqs[i].n = q
      BY <1>3, <2>1 DEF QueueInv, Present
    <2>3. i # 1
      BY <1>2, <2>2
    <2>4. 1 < i /\ i < Front
      BY <1>1, <2>3 DEF Slots
    <2>5. reqs[1].n < reqs[i].n
      BY <1>1, <2>2, <2>4 DEF QueueInv, Ordered
    <2> QED BY <1>2, <2>2, <2>5
  <1> QED BY <1>1, <1>2, <1>3 DEF Requests

(***************************************************************************)
(* The operations that the actions are made of.                            *)
(***************************************************************************)
Sessions == {"registering", "registered", "leaving", "closed", "shut"}

\* The result that a handler is told.
End(result) ==
    IF SendResult(result) \in {"success", "abort"} THEN SendResult(result) ELSE "error"

LEMMA CompletionSafe ==
    ASSUME SendInv, ~aborting, ~Free(1), NEW result,
           NEW then \in {"finalize", "leave", "finalize_leave"},
           NEW rest \in Seq(Frames), "slot" \notin Thens(rest),
           Completion(result, then, rest), Mark,
           exchange' \in {"none", "send", "other"}, session' \in Sessions,
           mute' \in BOOLEAN, exchange' = "send" => then \in Finals
    PROVE  SendInv' /\ Refined
  <1> USE SendAssumption
  <1> DEFINE r == reqs[1].n
  <1>1. 1 \in Slots
    BY DEF Slots
  <1>2. /\ ids' = Shifted(ids, 1, 0) /\ reqs' = Shifted(reqs, 1, Empty)
        /\ active' = FALSE /\ aborting' = aborting /\ counter' = counter
        /\ accepted' = accepted /\ mark' = mark
        /\ told' = [told EXCEPT ![r] = Append(@, End(result))]
        /\ stack' = <<Handler(then, 0)>> \o rest
    BY DEF Completion, Tell, End, Mark
  <1>3. End(result) \in Results
    BY DEF End, Results
  <1>4. Removed(1)
    BY <1>2, <1>3 DEF Removed
  <1>5. QueueInv' /\ told' \in [Requests -> Seq(Results)]
    BY <1>1, <1>4, QueueRemoved DEF SendInv
  <1>6. /\ stack' \in Seq(Frames) /\ stack' # <<>>
        /\ Thens(stack') = {then} \cup Thens(rest)
    <2>1. Handler(then, 0) \in Frames /\ Handler(then, 0).then = then
      BY FrameTypes DEF Handler
    <2> QED BY <1>2, <2>1, PushFrame
  <1>7. TypeOK'
    BY <1>1, <1>2, <1>4, <1>5, <1>6, ShiftedSlots DEF SendInv, TypeOK, Sessions
  <1>8. StackInv'
    BY <1>2, <1>6 DEF StackInv, Finals, Thens
  <1>9. Refined
    <2>1. /\ r \in Requests /\ r <= accepted /\ told[r] = <<>>
          /\ \A q \in 1 .. r - 1 : told[q] # <<>>
      BY FirstIsOldest DEF SendInv
    <2> QED BY <1>2, <1>3, <2>1, Finishes DEF SendInv
  <1> QED BY <1>5, <1>7, <1>8, <1>9 DEF SendInv

\* A step that changes no more than the stack and the environment.
LEMMA StackStep ==
    ASSUME SendInv, UNCHANGED <<ids, reqs, active, aborting, counter, told, accepted>>,
           Mark, stack' \in Seq(Frames), ~aborting \/ stack' = stack,
           ~aborting => "slot" \notin Thens(stack'),
           exchange' \in {"none", "send", "other"}, session' \in Sessions,
           mute' \in BOOLEAN,
           active => /\ exchange' = "send"
                     /\ Thens(stack') \cap (Finals \cup {"loop"}) = {},
           exchange' = "send" => active \/ Thens(stack') \cap Finals # {}
    PROVE  SendInv' /\ Refined
  <1>1. mark' = mark /\ Front' = Front
    BY DEF Mark, Front
  <1>2. QueueInv'
    BY <1>1, QueueKept DEF SendInv
  <1>3. TypeOK'
    BY DEF SendInv, TypeOK, Sessions, Free
  <1>4. StackInv'
    BY DEF SendInv, StackInv, Free, Thens
  <1>5. Refined
    BY PhasesKept
  <1> QED BY <1>2, <1>3, <1>4, <1>5 DEF SendInv

LEMMA TerminateSafe ==
    ASSUME SendInv, exchange = "send" => active,
           NEW rest \in Seq(Frames), ~aborting \/ rest = stack,
           ~aborting => "slot" \notin Thens(rest),
           Terminate(rest), Mark, session' \in Sessions, mute' \in BOOLEAN
    PROVE  SendInv' /\ Refined
  <1>1. exchange \in {"none", "send", "other"}
    BY DEF SendInv, TypeOK
  <1>2. CASE exchange = "send"
    <2>1. ~aborting /\ ~Free(1)
      BY <1>2 DEF SendInv, StackInv
    <2>2. Completion("terminated", "finalize", rest) /\ exchange' = exchange
      BY <1>2 DEF Terminate
    <2> QED BY <1>2, <2>1, <2>2, CompletionSafe DEF Finals
  <1>3. CASE exchange # "send"
    <2>1. /\ stack' = rest /\ exchange' = "none"
          /\ UNCHANGED <<ids, reqs, active, aborting, counter, told, accepted>>
      BY <1>1, <1>3 DEF Terminate, ctx, hist
    <2>2. ~active
      BY <1>3 DEF SendInv, StackInv
    <2> QED BY <2>1, <2>2, StackStep
  <1> QED BY <1>2, <1>3

LEMMA AbortAllSafe ==
    ASSUME SendInv, ~aborting,
           NEW rest \in Seq(Frames), "slot" \notin Thens(rest),
           active => Thens(rest) \cap (Finals \cup {"loop"}) = {},
           exchange = "send" => active \/ Thens(rest) \cap Finals # {},
           AbortAll(rest), Mark, session' \in Sessions, mute' \in BOOLEAN
    PROVE  SendInv' /\ Refined
  <1> DEFINE looping == <<AbortLoop>> \o rest
  <1>1. /\ looping \in Seq(Frames) /\ "slot" \notin Thens(looping)
        /\ Thens(looping) = {"loop"} \cup Thens(rest)
    <2>1. AbortLoop \in Frames /\ AbortLoop.then = "loop"
      BY FrameTypes DEF AbortLoop
    <2>2. looping \in Seq(Frames) /\ Thens(looping) = {"loop"} \cup Thens(rest)
      BY <2>1, PushFrame
    <2> QED BY <2>2
  <1> HIDE DEF looping
  <1>2. exchange \in {"none", "send", "other"} /\ (active => exchange = "send")
    BY DEF SendInv, TypeOK
  <1>3. CASE ~Free(1) /\ active
    <2>1. Terminate(looping)
      BY <1>3 DEF AbortAll, looping
    <2> QED BY <1>1, <1>3, <2>1, TerminateSafe
  <1>4. CASE Free(1) \/ ~active
    <2>1. /\ stack' = rest \/ (stack' = looping /\ ~active)
          /\ exchange' = exchange
          /\ UNCHANGED <<ids, reqs, active, aborting, counter, told, accepted>>
      BY <1>4 DEF AbortAll, ctx, hist, looping
    <2>2. CASE stack' = rest
      BY <1>2, <2>1, <2>2, StackStep
    <2>3. CASE stack' = looping /\ ~active
      BY <1>1, <1>2, <2>1, <2>3, StackStep
    <2> QED BY <2>1, <2>2, <2>3
  <1> QED BY <1>3, <1>4

LEMMA AbortOneSafe ==
    ASSUME SendInv, NEW id, id # 0, AbortOne(id, stack), Mark,
           session' = session, mute' = mute
    PROVE  SendInv' /\ Refined
  <1> USE SendAssumption
  <1>1. /\ ~aborting /\ ~Free(1) /\ stack \in Seq(Frames) /\ "slot" \notin Thens(stack)
        /\ session' \in Sessions /\ mute' \in BOOLEAN
    BY DEF AbortOne, SendInv, TypeOK, StackInv, Sessions
  <1>2. CASE active /\ ids[1] = id
    BY <1>1, <1>2, TerminateSafe DEF AbortOne
  <1>3. CASE ~(active /\ ids[1] = id)
    <2>1. PICK slot \in Slots : ids[slot] = id /\ AbortQueued(slot, stack)
      BY <1>3 DEF AbortOne
    <2> DEFINE r == reqs[slot].n
    <2>2. /\ ids' = Shifted(ids, slot, 0) /\ reqs' = Shifted(reqs, slot, Empty)
          /\ UNCHANGED <<active, aborting, counter, exchange, accepted, mark>>
          /\ told' = [told EXCEPT ![r] = Append(@, "abort")]
          /\ stack' = <<Handler("return", 0)>> \o stack
      BY <2>1 DEF AbortQueued, Tell, Mark
    <2>3. Removed(slot)
      BY <1>1, <2>1, <2>2 DEF Removed, Free, Results
    <2>4. QueueInv' /\ told' \in [Requests -> Seq(Results)]
      BY <2>3, QueueRemoved DEF SendInv
    <2>5. /\ stack' \in Seq(Frames) /\ stack' # <<>>
          /\ Thens(stack') = {"return"} \cup Thens(stack)
      <3>1. Handler("return", 0) \in Frames /\ Handler("return", 0).then = "return"
        BY FrameTypes DEF Handler
      <3> QED BY <1>1, <2>2, <3>1, PushFrame
    <2>6. active => slot # 1 /\ ids'[1] = ids[1] /\ reqs'[1] = reqs[1]
      <3>1. active => slot # 1
        BY <1>3, <2>1
      <3>2. slot # 1 => 1 \in Slots /\ 1 < slot
        BY DEF Slots
      <3> QED BY <2>3, <3>1, <3>2, ShiftedSlots DEF SendInv
    <2>7. TypeOK'
      BY <1>1, <2>2, <2>3, <2>4, <2>5, <2>6, ShiftedSlots DEF SendInv, TypeOK, Free
    <2>8. StackInv'
      BY <1>1, <2>2, <2>5, <2>6 DEF SendInv, StackInv, Finals, Thens, Free
    <2>9. Refined
      <3>1. slot # Front /\ ~Free(slot)
        BY <1>1, <2>1 DEF Front, Slots, Free
      <3>2. r \in 1 .. accepted /\ told[r] = <<>> /\ r \in Requests
        BY <3>1 DEF SendInv, QueueInv, Waiting, TypeOK, Requests
      <3>3. \A q \in Requests : q # r =>
               ((active' /\ reqs'[1].n = q) <=> (active /\ reqs[1].n = q))
        BY <2>2, <2>6
      <3>4. r <= accepted /\ "abort" \in Results
        BY <3>2 DEF SendInv, TypeOK, Results
      <3> HIDE DEF r
      <3> QED BY <2>2, <3>2, <3>3, <3>4, Finishes DEF SendInv
    <2> QED BY <2>4, <2>7, <2>8, <2>9 DEF SendInv
  <1> QED BY <1>2, <1>3

(***************************************************************************)
(* The actions.                                                            *)
(***************************************************************************)
LEMMA NoCall ==
    ASSUME SendInv, stack = <<>>
    PROVE  ~aborting /\ (exchange = "send" => active) /\ Thens(stack) = {}
  BY EmptyStack DEF SendInv, StackInv

LEMMA NewRequestSafe ==
    ASSUME SendInv, NEW k \in Kinds, NewRequest(k), Mark
    PROVE  SendInv' /\ Refined
  <1>1. /\ UNCHANGED <<active, aborting, exchange, session, mute, stack, told>>
        /\ accepted' = accepted + 1 /\ accepted < MaxRequests
    BY DEF NewRequest, env
  <1>2. /\ QueueInv'
        /\ ids' \in [Slots -> 0 .. IdAll - 1]
        /\ reqs' \in [Slots -> {Empty} \cup [n : Requests, kind : Kinds]]
        /\ counter' \in 0 .. IdAll - 1 /\ accepted' \in 0 .. MaxRequests
        /\ \A i \in Slots : ~Free(i) => ids'[i] = ids[i] /\ reqs'[i] = reqs[i]
    BY QueueNew
  <1>3. 1 \in Slots
    BY SendAssumption DEF Slots
  <1>4. TypeOK'
    BY <1>1, <1>2, <1>3 DEF SendInv, TypeOK, Free
  <1>5. StackInv'
    BY <1>1, <1>2, <1>3 DEF SendInv, StackInv, Free
  <1>6. Refined
    <2> DEFINE phase == [q \in Requests |-> Phase(q)]
    <2>0. PICK r : r = accepted + 1
      OBVIOUS
    <2>1. r \in Requests /\ accepted \in Nat /\ told[r] = <<>> /\ r = accepted + 1
      BY <1>1, <2>0, SendAssumption DEF SendInv, TypeOK, QueueInv, Unknown, Requests
    <2>2. active => reqs'[1] = reqs[1] /\ reqs[1].n # r
      <3>1. active => ~Free(1)
        BY DEF SendInv, StackInv
      <3>2. ~Free(1) => reqs[1].n \in 1 .. accepted
        BY <1>3 DEF SendInv, QueueInv, Waiting
      <3> QED BY <1>2, <1>3, <2>1, <3>1, <3>2
    <2>3. phase[r] = "unknown" /\ Phase(r)' = "queued"
      BY <1>1, <2>1, <2>2 DEF Phase
    <2>4. \A q \in Requests : q # r => Phase(q)' = Phase(q)
      BY <1>1, <2>1, <2>2, SendAssumption DEF Phase, Requests
    <2>5. phase' = [phase EXCEPT ![r] = "queued"]
      BY <2>3, <2>4
    <2>6. \A q \in 1 .. r - 1 : phase[q] # "unknown"
      BY <2>1, SendAssumption DEF Phase, Requests
    <2>7. Promise!Accept(r)
      BY <1>1, <2>3, <2>5, <2>6 DEF Promise!Accept
    <2> QED BY <2>1, <2>7 DEF Refined, Promise!Next, Promise!Requests, Requests
  <1> QED BY <1>2, <1>4, <1>5, <1>6 DEF SendInv

LEMMA AppCallsSafe ==
    ASSUME SendInv, AppCalls, Mark
    PROVE  SendInv' /\ Refined
  <1>1. CASE \E k \in Kinds : NewRequest(k)
    BY <1>1, NewRequestSafe
  <1>2. CASE \E id \in Ids : Abort(id)
    <2>1. PICK id \in Ids : Abort(id)
      BY <1>2
    <2>2. id # 0 /\ AbortOne(id, stack) /\ session' = session /\ mute' = mute
      BY <2>1 DEF Ids, Abort
    <2> QED BY <2>2, AbortOneSafe
  <1>3. CASE AppAbortAll
    <2>1. /\ ~aborting /\ AbortAll(stack) /\ session' \in Sessions /\ mute' \in BOOLEAN
          /\ stack \in Seq(Frames)
      BY <1>3 DEF AppAbortAll, SendInv, TypeOK, Sessions
    <2> QED BY <2>1, AbortAllSafe DEF SendInv, StackInv
  <1>4. CASE Leave
    <2>1. /\ exchange = "send" => active
          /\ Terminate(stack) /\ session' \in Sessions /\ mute' \in BOOLEAN
          /\ stack \in Seq(Frames)
      BY <1>4 DEF Leave, SendInv, TypeOK, Sessions
    <2> QED BY <2>1, TerminateSafe DEF SendInv, StackInv
  <1> QED BY <1>1, <1>2, <1>3, <1>4 DEF AppCalls

\* A step of the loop: it calls the handler of the next slot, or ends.
LEMMA LoopCalls ==
    ASSUME TypeOK, NEW rest \in Seq(Frames), NEW slot \in Slots,
           aborting', stack' = <<Handler("slot", slot)>> \o rest
    PROVE  /\ stack' \in Seq(Frames) /\ stack' # <<>> /\ Tail(stack') = rest
           /\ Head(stack').then = "slot" /\ Head(stack').slot = slot
  <1>1. /\ Handler("slot", slot) \in Frames /\ Handler("slot", slot).slot = slot
        /\ Handler("slot", slot).then = "slot"
    BY FrameTypes DEF Handler
  <1> QED BY <1>1, PushFrame

LEMMA BeginLoopSafe ==
    ASSUME SendInv, BeginLoop, Mark
    PROVE  SendInv' /\ Refined
  <1> USE SendAssumption
  <1>1. /\ stack # <<>> /\ Head(stack).kind = "loop"
        /\ UNCHANGED <<ids, reqs, active, counter, exchange, session, mute, accepted>>
        /\ Loop(1, ids, Tail(stack))
    BY DEF BeginLoop, env
  <1>2. /\ Tail(stack) \in Seq(Frames) /\ Head(stack).then = "loop"
        /\ Thens(stack) = {"loop"} \cup Thens(Tail(stack))
    <2>1. /\ Head(stack) \in Frames /\ Tail(stack) \in Seq(Frames)
          /\ Thens(stack) = {Head(stack).then} \cup Thens(Tail(stack))
      BY <1>1, PopFrame DEF SendInv, TypeOK
    <2>2. Head(stack).then = "loop"
      BY <1>1, <2>1 DEF Frames, AbortLoop, AbortCall, CloseCall
    <2> QED BY <2>1, <2>2
  <1>3. /\ ~aborting /\ ~active /\ "slot" \notin Thens(Tail(stack))
        /\ exchange = "send" => Thens(Tail(stack)) \cap Finals # {}
    BY <1>2 DEF SendInv, StackInv, Finals
  <1>4. CASE aborting' = FALSE /\ stack' = Tail(stack) /\ told' = told
    BY <1>1, <1>2, <1>3, <1>4, StackStep DEF SendInv, TypeOK, Sessions
  <1>5. ASSUME NEW slot \in Slots, ~Free(slot), \A i \in Slots : ~Free(i) => slot <= i,
               aborting' = TRUE, stack' = <<Handler("slot", slot)>> \o Tail(stack),
               told' = [told EXCEPT ![reqs[slot].n] = Append(@, "abort")]
        PROVE  SendInv' /\ Refined
    <2>1. /\ stack' \in Seq(Frames) /\ stack' # <<>> /\ Tail(stack') = Tail(stack)
          /\ Head(stack').then = "slot" /\ Head(stack').slot = slot
      BY <1>2, <1>5, LoopCalls DEF SendInv
    <2>2. LoopAt(slot) /\ mark' = accepted
      BY <1>1, <1>3, <1>5, <2>1 DEF LoopAt, Mark
    <2>3. \A i \in Slots : i < slot => Free(i)
      BY <1>5 DEF Slots
    <2>4. QueueInv' /\ told' \in [Requests -> Seq(Results)]
      BY <1>1, <1>3, <2>2, <2>3, QueueBegin DEF SendInv
    <2>5. TypeOK'
      BY <1>1, <1>3, <1>5, <2>1, <2>4 DEF SendInv, TypeOK
    <2>6. Thens(stack') = {"slot"} \cup Thens(Tail(stack))
      BY <2>1, PopFrame
    <2>7. StackInv'
      BY <1>1, <1>3, <1>5, <2>1, <2>6 DEF StackInv, Free, Thens
    <2>8. Refined
      <3>1. slot # Front
        BY <1>3 DEF Front, Slots
      <3>2. /\ reqs[slot].n \in Requests /\ reqs[slot].n <= accepted
            /\ told[reqs[slot].n] = <<>>
        BY <1>5, <3>1 DEF SendInv, QueueInv, Waiting, TypeOK, Requests
      <3> QED BY <1>1, <1>3, <1>5, <3>2, Finishes DEF SendInv, Results
    <2> QED BY <2>4, <2>5, <2>7, <2>8 DEF SendInv
  <1> QED BY <1>1, <1>4, <1>5 DEF Loop, Tell, Slots, Free

LEMMA ReturnSafe ==
    ASSUME SendInv, Return, Mark
    PROVE  SendInv' /\ Refined
  <1> USE SendAssumption
  <1> DEFINE top == Head(stack)
             rest == Tail(stack)
  <1>1. /\ stack # <<>> /\ top \in Frames /\ rest \in Seq(Frames)
        /\ Thens(stack) = {top.then} \cup Thens(rest)
    BY PopFrame DEF Return, InHandler, SendInv, TypeOK
  <1>2. CASE top.then = "slot"
    <2> DEFINE slot == top.slot
    <2>1. /\ aborting /\ ~active /\ slot \in Slots /\ ~Free(slot)
          /\ "slot" \notin Thens(rest)
          /\ exchange = "send" => Thens(rest) \cap Finals # {}
      BY <1>1, <1>2 DEF SendInv, StackInv, Finals
    <2>2. /\ ids' = [ids EXCEPT ![slot] = 0]
          /\ reqs' = [reqs EXCEPT ![slot] = Empty]
          /\ Loop(slot + 1, ids', rest)
          /\ UNCHANGED <<active, counter, exchange, session, mute, accepted>>
      BY <1>2 DEF Return, env
    <2>3. mark' = mark
      BY <2>1 DEF Mark
    <2>4. Freed(slot)
      BY <2>1, <2>2, <2>3 DEF Freed
    <2>5. \A i \in Slots : i # slot => ids'[i] = ids[i] /\ reqs'[i] = reqs[i]
      BY <2>2 DEF SendInv, TypeOK
    <2>6. /\ ids' \in [Slots -> 0 .. IdAll - 1]
          /\ reqs' \in [Slots -> {Empty} \cup [n : Requests, kind : Kinds]]
      <3> HIDE DEF slot
      <3> QED BY <2>1, <2>4, FreedTypes DEF SendInv
    <2>7. ASSUME \A i \in Slots : i > slot => Free(i),
                 aborting' = FALSE, stack' = rest, told' = told
          PROVE  SendInv' /\ Refined
      <3>1. QueueInv'
        BY <2>1, <2>4, <2>7, QueueLoopEnds DEF SendInv
      <3>2. TypeOK'
        BY <1>1, <2>1, <2>2, <2>6, <2>7 DEF SendInv, TypeOK
      <3>3. StackInv'
        BY <2>1, <2>2, <2>7 DEF StackInv, Thens
      <3>4. Refined
        BY <2>1, <2>2, <2>7, PhasesKept
      <3> QED BY <3>1, <3>2, <3>3, <3>4 DEF SendInv
    <2>8. ASSUME NEW next \in Slots, next > slot, ~Free(next),
                 \A i \in Slots : i > slot /\ ~Free(i) => next <= i,
                 aborting' = TRUE, stack' = <<Handler("slot", next)>> \o rest,
                 told' = [told EXCEPT ![reqs[next].n] = Append(@, "abort")]
          PROVE  SendInv' /\ Refined
      <3>1. /\ stack' \in Seq(Frames) /\ stack' # <<>> /\ Tail(stack') = rest
            /\ Head(stack').then = "slot" /\ Head(stack').slot = next
        BY <1>1, <2>8, LoopCalls DEF SendInv
      <3>2. LoopAt(next)
        BY <2>2, <2>8, <3>1 DEF LoopAt
      <3>3. \A i \in Slots : i > slot /\ i < next => Free(i)
        BY <2>8 DEF Slots
      <3>4. QueueInv' /\ told' \in [Requests -> Seq(Results)]
        BY <2>1, <2>4, <2>8, <3>2, <3>3, QueueLoopGoesOn DEF SendInv
      <3>5. TypeOK'
        BY <2>1, <2>2, <2>6, <2>8, <3>1, <3>4 DEF SendInv, TypeOK
      <3>6. Thens(stack') = {"slot"} \cup Thens(rest)
        BY <3>1, PopFrame
      <3>7. ids'[next] # 0
        BY <2>1, <2>5, <2>8 DEF Free, Slots
      <3>8. StackInv'
        BY <2>1, <2>2, <2>8, <3>1, <3>6, <3>7 DEF StackInv, Thens, Free
      <3>9. Refined
        <4>1. next # Front
          BY <2>1, <2>8 DEF Front, Slots
        <4>2. /\ reqs[next].n \in Requests /\ reqs[next].n <= accepted
              /\ told[reqs[next].n] = <<>>
          BY <2>8, <4>1 DEF SendInv, QueueInv, Waiting, TypeOK, Requests
        <4> QED BY <2>1, <2>2, <2>8, <4>2, Finishes DEF SendInv, Results
      <3> QED BY <3>4, <3>5, <3>8, <3>9 DEF SendInv
    <2> DEFINE used == {i \in slot + 1 .. QueueSize : ids'[i] # 0}
    <2>9. \A i \in Slots : i \in used <=> i > slot /\ ~Free(i)
      BY <2>1, <2>5 DEF Slots, Free
    <2>10. CASE used = {} /\ aborting' = FALSE /\ stack' = rest /\ told' = told
      BY <2>7, <2>9, <2>10
    <2>11. ASSUME NEW next \in used, \A i \in used : next <= i,
                  aborting' = TRUE, stack' = <<Handler("slot", next)>> \o rest,
                  told' = [told EXCEPT ![reqs[next].n] = Append(@, "abort")]
           PROVE  SendInv' /\ Refined
      <3>1. next \in Slots
        BY <2>1, <2>11 DEF Slots
      <3> HIDE DEF used
      <3> QED BY <2>8, <2>9, <2>11, <3>1
    <2> QED BY <2>2, <2>10, <2>11 DEF Loop, Tell
  <1>3. CASE top.then # "slot"
    <2>1. ~aborting /\ "slot" \notin Thens(rest)
      BY <1>1, <1>3 DEF SendInv, StackInv
    <2>2. /\ stack' = rest
          /\ exchange' = IF top.then \in Finals THEN "none" ELSE exchange
          /\ session' = IF top.then \in {"leave", "finalize_leave"}
                          THEN "leaving" ELSE session
          /\ UNCHANGED <<ids, reqs, active, aborting, counter, told, accepted, mute>>
      BY <1>3 DEF Return, ctx, hist, Finals
    <2>3. /\ exchange' \in {"none", "send", "other"} /\ session' \in Sessions
          /\ mute' \in BOOLEAN
      BY <2>2 DEF SendInv, TypeOK, Sessions
    <2>4. active => /\ exchange' = "send"
                    /\ Thens(rest) \cap (Finals \cup {"loop"}) = {}
      BY <1>1, <2>2 DEF SendInv, StackInv
    <2>5. exchange' = "send" => active \/ Thens(rest) \cap Finals # {}
      BY <1>1, <2>2 DEF SendInv, StackInv
    <2> QED BY <1>1, <2>1, <2>2, <2>3, <2>4, <2>5, StackStep
  <1> QED BY <1>2, <1>3

LEMMA AbortsSafe ==
    ASSUME SendInv, Aborts, Mark
    PROVE  SendInv' /\ Refined
  <1>1. CASE BeginLoop
    BY <1>1, BeginLoopSafe
  <1>2. CASE BeginAbort
    <2>1. /\ stack # <<>> /\ Head(stack).kind = "abort" /\ AbortAll(Tail(stack))
          /\ session' \in Sessions /\ mute' \in BOOLEAN
      BY <1>2 DEF BeginAbort, SendInv, TypeOK, Sessions
    <2>2. /\ Head(stack) \in Frames /\ Tail(stack) \in Seq(Frames)
          /\ Thens(stack) = {Head(stack).then} \cup Thens(Tail(stack))
      BY <2>1, PopFrame DEF SendInv, TypeOK
    <2>3. Head(stack).then = "abort"
      BY <2>1, <2>2 DEF Frames, AbortLoop, AbortCall, CloseCall
    <2>4. /\ ~aborting /\ "slot" \notin Thens(Tail(stack))
          /\ active => Thens(Tail(stack)) \cap (Finals \cup {"loop"}) = {}
          /\ exchange = "send" => active \/ Thens(Tail(stack)) \cap Finals # {}
      BY <2>2, <2>3 DEF SendInv, StackInv, Finals
    <2> QED BY <2>1, <2>2, <2>4, AbortAllSafe
  <1> QED BY <1>1, <1>2 DEF Aborts

LEMMA ProcessSafe ==
    ASSUME SendInv, Process, Mark
    PROVE  SendInv' /\ Refined
  <1> USE SendAssumption
  <1>1. /\ stack = <<>> /\ exchange = "none" /\ ~Free(1)
        /\ active' = TRUE /\ exchange' = "send"
        /\ UNCHANGED <<ids, reqs, aborting, counter, session, mute, stack, accepted,
                       told>>
    BY DEF Process, Idle
  <1>2. ~aborting /\ ~active /\ Thens(stack) = {} /\ mark' = mark /\ Front' = Front
    BY <1>1, NoCall DEF SendInv, StackInv, Mark, Front
  <1>3. QueueInv'
    BY <1>1, <1>2, QueueKept DEF SendInv
  <1>4. TypeOK'
    BY <1>1 DEF SendInv, TypeOK, Free
  <1>5. StackInv'
    BY <1>1, <1>2 DEF StackInv, Free, Thens
  <1>6. Refined
    <2> DEFINE phase == [q \in Requests |-> Phase(q)]
    <2>0. PICK r : r = reqs[1].n
      OBVIOUS
    <2>1. /\ r \in Requests /\ r <= accepted /\ told[r] = <<>> /\ r = reqs[1].n
          /\ \A q \in 1 .. r - 1 : told[q] # <<>>
      BY <1>1, <1>2, <2>0, FirstIsOldest DEF SendInv
    <2>2. accepted \in Nat
      BY DEF SendInv, TypeOK
    <2>3. phase[r] = "queued" /\ Phase(r)' = "sending"
      BY <1>1, <1>2, <2>1, <2>2 DEF Phase, Requests
    <2>4. \A q \in Requests : q # r => Phase(q)' = Phase(q)
      BY <1>1, <1>2, <2>1 DEF Phase
    <2>5. phase' = [phase EXCEPT ![r] = "sending"]
      BY <2>3, <2>4
    <2>6. \A q \in 1 .. r - 1 : phase[q] = "done"
      BY <2>1 DEF Phase, Requests
    <2>7. Promise!Begin(r)
      BY <1>1, <2>3, <2>5, <2>6 DEF Promise!Begin, Promise!Oldest, Promise!Pending
    <2> QED BY <2>1, <2>7 DEF Refined, Promise!Next, Promise!Requests, Requests
  <1> QED BY <1>3, <1>4, <1>5, <1>6 DEF SendInv

LEMMA ProcessingSafe ==
    ASSUME SendInv, Processing, Mark
    PROVE  SendInv' /\ Refined
  <1>1. ASSUME Idle
        PROVE  /\ stack = <<>> /\ exchange = "none" /\ ~aborting /\ ~active
               /\ Thens(stack) = {} /\ stack \in Seq(Frames)
               /\ session \in Sessions /\ mute \in BOOLEAN
    BY <1>1, NoCall DEF Idle, SendInv, StackInv, TypeOK, Sessions
  <1>2. CASE ProcessMuted
    <2>1. Idle /\ AbortAll(stack) /\ session' = session /\ mute' = mute
      BY <1>2 DEF ProcessMuted, Idle
    <2> QED BY <1>1, <2>1, AbortAllSafe
  <1>3. CASE ProcessRefused
    <2>1. ids[1] # 0 /\ AbortOne(ids[1], stack) /\ session' = session /\ mute' = mute
      BY <1>3 DEF ProcessRefused, Idle, Free
    <2> QED BY <2>1, AbortOneSafe
  <1>4. CASE Process
    BY <1>4, ProcessSafe
  <1>5. ASSUME NEW result \in {"request", "protocol"}, ProcessFails(result)
        PROVE  SendInv' /\ Refined
    <2>1. Idle /\ ~Free(1) /\ session' = session /\ mute' = mute
      BY <1>5 DEF ProcessFails
    <2>2. CASE Completion(result, "leave", stack) /\ exchange' = exchange
      BY <1>1, <2>1, <2>2, CompletionSafe
    <2>3. CASE Completion(result, "finalize_leave", stack) /\ exchange' = "send"
      BY <1>1, <2>1, <2>3, CompletionSafe DEF Finals
    <2> QED BY <1>5, <2>2, <2>3 DEF ProcessFails, Idle
  <1> QED BY <1>2, <1>3, <1>4, <1>5 DEF Processing

LEMMA ExchangingSafe ==
    ASSUME SendInv, Exchanging, Mark
    PROVE  SendInv' /\ Refined
  <1>1. ASSUME stack = <<>>
        PROVE  /\ ~aborting /\ Thens(stack) = {} /\ stack \in Seq(Frames)
               /\ exchange = "send" => active /\ ~Free(1)
               /\ exchange \in {"none", "send", "other"}
               /\ session \in Sessions /\ mute \in BOOLEAN
    BY <1>1, NoCall DEF SendInv, StackInv, TypeOK, Sessions
  <1>2. CASE NextBlock
    <2>1. /\ stack = <<>> /\ UNCHANGED <<ids, reqs, active, aborting, counter, exchange,
                                        session, mute, stack, accepted, told>>
      BY <1>2 DEF NextBlock
    <2> QED BY <1>1, <2>1, StackStep DEF SendInv, StackInv
  <1>3. ASSUME NEW result \in ExchangeResults, NEW leaves \in BOOLEAN,
               Complete(result, leaves)
        PROVE  SendInv' /\ Refined
    <2>1. /\ stack = <<>> /\ exchange = "send"
          /\ UNCHANGED <<exchange, session, mute>>
          /\ Completion(result, IF leaves THEN "finalize_leave" ELSE "finalize", stack)
      BY <1>3 DEF Complete
    <2>2. /\ (IF leaves THEN "finalize_leave" ELSE "finalize") \in Finals
          /\ Finals \subseteq {"finalize", "leave", "finalize_leave"}
      BY DEF Finals
    <2> HIDE DEF Finals
    <2> QED BY <1>1, <2>1, <2>2, CompletionSafe
  <1> QED BY <1>2, <1>3 DEF Exchanging

\* The steps of the session that concern no request.
LEMMA SessionSafe ==
    ASSUME SendInv, Mark,
           OtherBegins \/ OtherEnds \/ Disconnect \/ RegisterDone \/ CloseDown
    PROVE  SendInv' /\ Refined
  <1>1. ASSUME stack = <<>>
        PROVE  /\ ~aborting /\ Thens(stack) = {} /\ stack \in Seq(Frames)
               /\ exchange = "send" <=> active
               /\ exchange \in {"none", "send", "other"}
               /\ session \in Sessions /\ mute \in BOOLEAN
    BY <1>1, NoCall DEF SendInv, StackInv, TypeOK, Sessions
  <1>2. CASE OtherBegins \/ OtherEnds \/ Disconnect \/ RegisterDone
    <2>1. /\ stack = <<>> /\ stack' = stack
          /\ UNCHANGED <<ids, reqs, active, aborting, counter, told, accepted>>
          /\ exchange' = exchange \/ (exchange # "send" /\ exchange' \in {"none", "other"})
          /\ session' \in Sessions /\ mute' \in BOOLEAN
      BY <1>1, <1>2
      DEF OtherBegins, OtherEnds, Disconnect, RegisterDone, Idle, ctx, hist, Sessions
    <2> QED BY <1>1, <2>1, StackStep
  <1>3. CASE CloseDown
    <2>1. /\ stack = <<CloseCall>> /\ stack' = <<>> /\ exchange' = exchange
          /\ UNCHANGED <<ids, reqs, active, aborting, counter, told, accepted>>
          /\ session' \in Sessions /\ mute' \in BOOLEAN
      BY <1>3 DEF CloseDown, ctx, hist, SendInv, TypeOK, Sessions
    <2>2. Thens(stack) = {"close"} /\ Head(stack).then = "close"
      <3>1. /\ stack \in Seq(Frames) /\ stack # <<>> /\ Tail(stack) = <<>>
            /\ Head(stack) = CloseCall
        BY <2>1 DEF SendInv, TypeOK
      <3>2. Thens(stack) = {CloseCall.then} \cup {}
        BY <3>1, PopFrame, EmptyStack
      <3> QED BY <3>1, <3>2 DEF CloseCall
    <2>3. /\ ~aborting /\ exchange \in {"none", "send", "other"}
          /\ exchange = "send" <=> active
      BY <2>2 DEF SendInv, StackInv, TypeOK, Finals
    <2> QED BY <2>1, <2>3, EmptyStack, StackStep
  <1> QED BY <1>2, <1>3

\* The two calls that abort what there is, between sessions and at the end.
LEMMA EndsSafe ==
    ASSUME SendInv, Mark, StartRegister \/ Shutdown
    PROVE  SendInv' /\ Refined
  <1>1. /\ stack = <<>> /\ session' \in Sessions /\ mute' \in BOOLEAN
    BY DEF StartRegister, Shutdown, SendInv, TypeOK, Sessions
  <1>2. ~aborting /\ (exchange = "send" => active) /\ Thens(stack) = {}
    BY <1>1, NoCall
  <1>3. CASE StartRegister
    BY <1>1, <1>2, <1>3, EmptyStack, AbortAllSafe DEF StartRegister
  <1>4. CASE Shutdown
    <2> DEFINE rest == <<AbortCall, CloseCall>>
    <2>1. rest \in Seq(Frames) /\ "slot" \notin Thens(rest)
      BY FrameTypes DEF Thens, AbortCall, CloseCall
    <2>2. Terminate(rest)
      BY <1>4 DEF Shutdown
    <2> QED BY <1>1, <1>2, <2>1, <2>2, TerminateSafe
  <1> QED BY <1>3, <1>4

LEMMA SendInit ==
    ASSUME Init
    PROVE  SendInv /\ Promise!Init
  <1> USE SendAssumption
  <1>1. TypeOK
    <2>1. told \in [Requests -> Seq(Results)] /\ stack \in Seq(Frames)
      BY DEF Init
    <2>2. /\ ids \in [Slots -> 0 .. IdAll - 1]
          /\ reqs \in [Slots -> {Empty} \cup [n : Requests, kind : Kinds]]
      BY DEF Init
    <2>3. counter \in 0 .. IdAll - 1 /\ accepted \in 0 .. MaxRequests
      BY DEF Init
    <2>4. /\ active = FALSE /\ aborting = FALSE /\ mute = FALSE /\ exchange = "none"
          /\ session = "registering"
      BY DEF Init
    <2> QED BY <2>1, <2>2, <2>3, <2>4 DEF TypeOK
  <1>2. StackInv
    BY EmptyStack DEF Init, StackInv
  <1>3. QueueInv
    BY DEF Init, QueueInv, Ordered, Fresh, Distinct, Waiting, Present, Unknown, Free
  <1>4. \A r \in Requests : Phase(r) = "unknown"
    BY DEF Init, Phase, Requests
  <1>5. Promise!Init
    BY <1>4 DEF Init, Promise!Init, Promise!Requests, Requests
  <1> QED BY <1>1, <1>2, <1>3, <1>5 DEF SendInv

LEMMA SendStep ==
    ASSUME SendInv, [Next]_vars
    PROVE  SendInv' /\ Refined
  <1>1. CASE UNCHANGED vars
    <2>1. UNCHANGED <<ids, reqs, active, aborting, counter, exchange, session, mute,
                      stack, accepted, told, mark>>
      BY <1>1 DEF vars, ctx, env, hist
    <2>2. Front' = Front
      BY <2>1 DEF Front
    <2>3. QueueInv' /\ Refined
      BY <2>1, <2>2, QueueKept, PhasesKept DEF SendInv
    <2>4. TypeOK' /\ StackInv'
      BY <2>1 DEF SendInv, TypeOK, StackInv, Free, Thens
    <2> QED BY <2>3, <2>4 DEF SendInv
  <1>2. CASE Next
    BY <1>2, AppCallsSafe, ReturnSafe, AbortsSafe, ProcessingSafe, ExchangingSafe,
       SessionSafe, EndsSafe DEF Next
  <1> QED BY <1>1, <1>2

(***************************************************************************)
(* The queue of requests_queue[] and ids[] is in order at every step, for  *)
(* every size of it and whatever the finish handlers call: outside of the  *)
(* loop of anj_send_abort(ANJ_SEND_ID_ALL) the requests are in its first   *)
(* slots, an active exchange concerns the first of them, and none is left  *)
(* that a loop before should have aborted.                                 *)
(***************************************************************************)
THEOREM QueueAlwaysInOrder == Spec => []QueueInOrder
  <1>1. Init => SendInv
    BY SendInit
  <1>2. SendInv /\ [Next]_vars => SendInv'
    BY SendStep
  <1>3. SendInv => QueueInOrder
    <2>1. SUFFICES ASSUME SendInv PROVE NoGaps /\ LoopExact
      BY DEF SendInv, QueueInOrder
    <2>2. ~aborting => Front = QueueSize + 1
      BY DEF Front
    <2>3. NoGaps
      <3>1. SUFFICES ASSUME ~aborting, NEW i \in 1 .. QueueSize - 1, Free(i)
                     PROVE  Free(i + 1)
        BY DEF NoGaps
      <3>2. /\ i \in Slots /\ i + 1 \in Slots /\ i < i + 1 /\ i + 1 < Front
        BY <2>2, <3>1, SendAssumption DEF Slots
      <3> QED BY <2>1, <3>1, <3>2 DEF SendInv, QueueInv, Ordered
    <2>4. LoopExact
      <3>1. SUFFICES ASSUME ~aborting, NEW i \in Slots, ~Free(i)
                     PROVE  reqs[i].n > mark
        BY DEF LoopExact
      <3>2. i < Front
        BY <2>2, <3>1, SendAssumption DEF Slots
      <3> QED BY <2>1, <3>1, <3>2 DEF SendInv, QueueInv, Fresh
    <2> QED BY <2>3, <2>4
  <1> QED BY <1>1, <1>2, <1>3, PTL DEF Spec

(***************************************************************************)
(* Every step of the queue is one that the header promises, or concerns no *)
(* request: anj_send_new_request() accepts in order, a request is sent     *)
(* when those before it have ended, and its finish handler is called once, *)
(* with another result than ANJ_SEND_ERR_ABORT only in its turn.           *)
(***************************************************************************)
THEOREM PromiseAlwaysKept == Spec => Promise!Safety
  <1>1. Init => SendInv /\ Promise!Init
    BY SendInit
  <1>2. SendInv /\ [Next]_vars => SendInv'
    BY SendStep
  <1>3. SendInv /\ [Next]_vars => [Promise!Next]_(Promise!vars)
    BY SendStep DEF Refined
  <1> QED BY <1>1, <1>2, <1>3, PTL DEF Spec, Promise!Safety
=============================================================================

------------------------------ MODULE LinksProof ------------------------------
\* Proofs about the clients that call another process (Rpc) and about the chat
\* adapters that own their connections (Sockets). The two share no state; one
\* module holds both, as MCLinks does for TLC.
EXTENDS Rpc, Sockets, SequenceTheorems, TLAPS

-----------------------------------------------------------------------------
\* Queues of messages that each stand for a call: what is on the wire and what
\* the other side has written.

\* A queue holds at most one message of each call, each under the call's own
\* id, and only of calls in S.
QueueOf(q, S) ==
  /\ \A k \in 1 .. Len(q) : q[k].tag = q[k].of /\ q[k].of \in S
  /\ \A j, k \in 1 .. Len(q) : q[j].of = q[k].of => j = k

\* An empty queue is a queue of any set of calls.
LEMMA QueueEmpty == ASSUME NEW S PROVE QueueOf(<<>>, S)
BY DEF QueueOf

\* A queue of no calls is empty.
LEMMA QueueNone ==
  ASSUME NEW T, NEW q \in Seq(T), NEW S, S = {}, QueueOf(q, S)
  PROVE  q = <<>>
<1>1. Len(q) \in Nat
  OBVIOUS
<1>2. \A k \in 1 .. Len(q) : FALSE
  BY DEF QueueOf
<1>3. Len(q) = 0
  BY <1>1, <1>2
<1> QED
  BY <1>3, EmptySeq

\* A queue of some calls is a queue of more calls.
LEMMA QueueMore ==
  ASSUME NEW q, NEW S, NEW R, S \subseteq R, QueueOf(q, S)
  PROVE  QueueOf(q, R)
BY DEF QueueOf

\* Taking the first message leaves none of its call behind.
LEMMA QueueTail ==
  ASSUME NEW T, NEW q \in Seq(T), q # <<>>, NEW S, QueueOf(q, S)
  PROVE  /\ Head(q) \in T /\ Tail(q) \in Seq(T)
         /\ Head(q).of \in S /\ Head(q).tag = Head(q).of
         /\ QueueOf(Tail(q), S \ {Head(q).of})
<1>1. /\ Len(q) \in Nat \ {0} /\ Head(q) = q[1] /\ Head(q) \in T /\ Tail(q) \in Seq(T)
      /\ Len(Tail(q)) = Len(q) - 1
      /\ \A k \in 1 .. Len(Tail(q)) : Tail(q)[k] = q[k + 1]
  BY HeadTailProperties, EmptySeq, LenProperties
<1>2. 1 \in 1 .. Len(q) /\ \A k \in 1 .. Len(Tail(q)) : k + 1 \in 1 .. Len(q) /\ k + 1 # 1
  BY <1>1
<1>3. Head(q).of \in S /\ Head(q).tag = Head(q).of
  BY <1>1, <1>2 DEF QueueOf
<1>4. \A k \in 1 .. Len(Tail(q)) :
        Tail(q)[k].tag = Tail(q)[k].of /\ Tail(q)[k].of \in S /\ Tail(q)[k].of # Head(q).of
  BY <1>1, <1>2 DEF QueueOf
<1>5. ASSUME NEW j \in 1 .. Len(Tail(q)), NEW k \in 1 .. Len(Tail(q)), Tail(q)[j].of = Tail(q)[k].of
      PROVE  j = k
  <2>1. j + 1 = k + 1
    BY <1>1, <1>2, <1>5 DEF QueueOf
  <2> QED
    BY <2>1, <1>1
<1> QED
  BY <1>1, <1>3, <1>4, <1>5 DEF QueueOf

\* A message of a call that has none in the queue may be appended.
LEMMA QueueAppend ==
  ASSUME NEW T, NEW q \in Seq(T), NEW S, QueueOf(q, S),
         NEW m \in T, m.tag = m.of, m.of \notin S
  PROVE  Append(q, m) \in Seq(T) /\ QueueOf(Append(q, m), S \union {m.of})
<1>1. /\ Len(q) \in Nat /\ Append(q, m) \in Seq(T)
      /\ Len(Append(q, m)) = Len(q) + 1
      /\ \A k \in 1 .. Len(q) : Append(q, m)[k] = q[k]
      /\ Append(q, m)[Len(q) + 1] = m
  BY AppendProperties, LenProperties
<1>2. \A k \in 1 .. Len(Append(q, m)) : k \in 1 .. Len(q) \/ k = Len(q) + 1
  BY <1>1
<1>3. \A k \in 1 .. Len(Append(q, m)) :
        /\ Append(q, m)[k].tag = Append(q, m)[k].of
        /\ Append(q, m)[k].of \in S \union {m.of}
  BY <1>1, <1>2 DEF QueueOf
<1>4. ASSUME NEW j \in 1 .. Len(Append(q, m)), NEW k \in 1 .. Len(Append(q, m)),
             Append(q, m)[j].of = Append(q, m)[k].of
      PROVE  j = k
  BY <1>1, <1>2, <1>4 DEF QueueOf
<1> QED
  BY <1>1, <1>3, <1>4 DEF QueueOf
-----------------------------------------------------------------------------
\* The inductive invariant of Rpc.

Requests == [tag : CallIds, of : CallIds]

\* The part of the types that the argument uses; connections, prefixes and
\* timers are left out of it.
RpcTypes ==
  /\ client \in Clients
  /\ next \in 0 .. MaxCalls
  /\ pc \in [CallIds -> {"new", "registered", "waiting", "leaving", "done"}]
  /\ tag \in [CallIds -> 0 .. MaxCalls]
  /\ chan \in [CallIds -> [closed : BOOLEAN, buf : Replies]]
  /\ outcome \in [CallIds -> [kind : {"none", "answered", "failed"}, of : 0 .. MaxCalls]]
  /\ wire \in Seq(Requests)
  /\ lines \in Seq(Replies)
  /\ reader \in [pc : {"top", "read", "deliver", "exit"}, reply : Replies, to : 0 .. MaxCalls]
  /\ mu \in 0 .. Owner
  /\ alive \in BOOLEAN /\ crashed \in BOOLEAN

\* Ids are given in order, a call has its own number as id, and a call that is
\* still in progress has returned nothing.
CallsInOrder ==
  \A i \in CallIds :
    /\ pc[i] = "new" <=> i > next
    /\ pc[i] \in {"new", "registered", "waiting"} => outcome[i].kind = "none"
    /\ client # "mcp" /\ pc[i] \in {"registered", "waiting", "leaving"} => tag[i] = i

\* The table maps an id to the call that has it, while that call is in progress;
\* an MCP client has none.
TableOfActive ==
  /\ table \in [DOMAIN table -> CallIds]
  /\ client = "mcp" => DOMAIN table = {}
  /\ \A t \in DOMAIN table :
       t \in CallIds /\ table[t] = t /\ pc[t] \in {"registered", "waiting", "leaving"}

\* What the other side has performed had been sent.
ServedWereSent == served \subseteq {i \in CallIds : pc[i] \notin {"new", "registered"}}

\* The calls that may have a request on the wire: sent and not performed; with
\* an MCP client also still waited for.
OnWire == {i \in CallIds : /\ i \notin served /\ pc[i] \notin {"new", "registered"}
                           /\ client = "mcp" => pc[i] = "waiting"}

\* The calls that may have an unread answer: performed; with the core proxy the
\* channel is still open, with an MCP client the call is still waited for.
OnLines == {i \in served : /\ client = "core" => ~chan[i].closed
                           /\ client = "mcp" => pc[i] = "waiting"}

\* The two directions of the stream; a dead other side reads nothing.
StreamInv ==
  /\ QueueOf(wire, OnWire) /\ QueueOf(lines, OnLines)
  /\ \A k \in 1 .. Len(lines) : lines[k].kind # "none"
  /\ ~alive => wire = <<>>

\* A channel holds an answer to its own call only. The core's reader closes one
\* only with an answer, OneBot only in Stop.
ChannelInv ==
  \A i \in CallIds :
    /\ chan[i].buf # NoReply => chan[i].buf.of = i /\ i \in served
    /\ chan[i].closed => /\ client = "core" => i \in served
                         /\ client = "onebot" => stop \in {"closed", "done"}

\* Between lookup and send OneBot's listener holds an answer to the very call
\* whose channel it is about to use.
ListenerInv ==
  reader.pc = "deliver" =>
    /\ client = "onebot" /\ reader.to \in CallIds /\ reader.reply \in Replies
    /\ reader.reply.of = reader.to /\ reader.to \in served

\* The MCP mutex: Start holds it with at most one call in progress; afterwards
\* whoever waits for a line holds it.
McpMutex ==
  client = "mcp" =>
    /\ mu = Owner => \A i, j \in CallIds : {pc[i], pc[j]} \cap {"new", "done"} = {} => i = j
    /\ mu # Owner => \A i \in CallIds : pc[i] = "waiting" => mu = i
    /\ \A i \in CallIds : pc[i] # "leaving"

RpcInv ==
  /\ RpcTypes /\ CallsInOrder /\ TableOfActive /\ ServedWereSent
  /\ StreamInv /\ ChannelInv /\ ListenerInv /\ McpMutex
  /\ PanicOnlyAtStop
-----------------------------------------------------------------------------
\* Numbers of calls are positive, and the owner of the mutex is none of them.
LEMMA CallNumbers ==
  /\ MaxCalls \in Nat \ {0} /\ 0 \in 0 .. MaxCalls /\ Owner \in 0 .. Owner /\ 0 \in 0 .. Owner /\ Owner # 0
  /\ \A i \in CallIds : i \in Nat /\ i # 0 /\ i # Owner /\ i \in 0 .. MaxCalls /\ i \in 0 .. Owner
BY RpcAssumption DEF CallIds, Owner

\* The constant records have the types the variables need.
LEMMA RecordTypes ==
  /\ Failure \in [kind : {"none", "answered", "failed"}, of : 0 .. MaxCalls]
  /\ Failure.kind = "failed"
  /\ NoReply \in Replies /\ NoReply.kind = "none"
  /\ Idle \in [pc : {"top", "read", "deliver", "exit"}, reply : Replies, to : 0 .. MaxCalls]
  /\ Idle.pc = "read"
  /\ \A m \in Replies : /\ Answer(m) \in [kind : {"none", "answered", "failed"}, of : 0 .. MaxCalls]
                        /\ Answer(m).kind = "answered" /\ Answer(m).of = m.of
                        /\ m.of \in 0 .. MaxCalls
BY CallNumbers DEF Failure, NoReply, Replies, Idle, Answer

\* A step that leaves the stream alone keeps its part of the invariant if no
\* call on it loses its right to be there.
LEMMA StreamFrame ==
  ASSUME StreamInv, UNCHANGED <<wire, lines, alive>>, OnWire \subseteq OnWire', OnLines \subseteq OnLines'
  PROVE  StreamInv'
BY QueueMore DEF StreamInv

\* A call that is made has the next number; nothing of it is on the stream.
LEMMA NewCall ==
  ASSUME RpcInv, NEW i \in CallIds, i = next + 1, next' = i,
         NEW x \in {"registered", "done"}, pc' = [pc EXCEPT ![i] = x],
         UNCHANGED <<client, chan, served>>
  PROVE  /\ pc[i] = "new" /\ i \notin served /\ i \notin DOMAIN table
         /\ next' \in 0 .. MaxCalls
         /\ \A j \in CallIds : pc'[j] = "new" <=> j > next'
         /\ ServedWereSent' /\ OnWire \subseteq OnWire' /\ OnLines \subseteq OnLines'
<1>1. next \in Nat /\ i > next /\ pc \in [CallIds -> {"new", "registered", "waiting", "leaving", "done"}]
  BY CallNumbers DEF RpcInv, RpcTypes
<1>2. pc[i] = "new" /\ i \notin served /\ i \notin DOMAIN table
  BY <1>1 DEF RpcInv, CallsInOrder, ServedWereSent, TableOfActive
<1>3. \A j \in CallIds : pc'[j] = "new" <=> j > next'
  BY <1>1, CallNumbers DEF RpcInv, CallsInOrder
<1>4. ServedWereSent'
  BY <1>1, <1>2 DEF RpcInv, ServedWereSent
<1>5. OnWire \subseteq OnWire' /\ OnLines \subseteq OnLines'
  BY <1>1, <1>2 DEF OnWire, OnLines
<1> QED
  BY <1>2, <1>3, <1>4, <1>5, CallNumbers

\* Adding the new call to the table maps its id to it.
LEMMA Registered ==
  ASSUME NEW i \in CallIds, table \in [DOMAIN table -> CallIds],
         table' = [t \in DOMAIN table \union {i} |-> IF t = i THEN i ELSE table[t]]
  PROVE  /\ table' \in [DOMAIN table' -> CallIds]
         /\ DOMAIN table' = DOMAIN table \union {i}
         /\ \A t \in DOMAIN table' : table'[t] = IF t = i THEN i ELSE table[t]
OBVIOUS

\* Returning from a call sets its outcome.
LEMMA OutcomeTyped ==
  ASSUME RpcTypes, NEW i \in CallIds,
         NEW w \in [kind : {"none", "answered", "failed"}, of : 0 .. MaxCalls],
         outcome' = [outcome EXCEPT ![i] = w]
  PROVE  /\ outcome' \in [CallIds -> [kind : {"none", "answered", "failed"}, of : 0 .. MaxCalls]]
         /\ outcome'[i] = w
         /\ \A j \in CallIds : j # i => outcome'[j] = outcome[j]
BY DEF RpcTypes

\* A step that empties the wire, because the other side is gone, and leaves the
\* unread answers alone or loses them too.
LEMMA StreamCut ==
  ASSUME RpcTypes, StreamInv, wire' = <<>>,
         lines' = <<>> \/ (lines' = lines /\ OnLines \subseteq OnLines')
  PROVE  wire' \in Seq(Requests) /\ lines' \in Seq(Replies) /\ StreamInv'
<1>1. wire' \in Seq(Requests) /\ lines' \in Seq(Replies)
  <2>1. \A T : <<>> \in Seq(T)
    BY EmptySeq
  <2> QED
    BY <2>1 DEF RpcTypes
<1>2. QueueOf(wire', OnWire')
  BY QueueEmpty
<1>3. QueueOf(lines', OnLines') /\ \A k \in 1 .. Len(lines') : lines'[k].kind # "none"
  BY QueueEmpty, QueueMore DEF StreamInv
<1> QED
  BY <1>1, <1>2, <1>3 DEF StreamInv

\* The first unread answer belongs to a call that may have one, and no other
\* answer of that call is behind it.
LEMMA FirstLine ==
  ASSUME RpcTypes, StreamInv, lines # <<>>
  PROVE  /\ Head(lines) \in Replies /\ Tail(lines) \in Seq(Replies)
         /\ Head(lines).of \in OnLines /\ Head(lines).tag = Head(lines).of
         /\ Head(lines).kind # "none"
         /\ QueueOf(Tail(lines), OnLines \ {Head(lines).of})
         /\ \A k \in 1 .. Len(Tail(lines)) : Tail(lines)[k].kind # "none"
<1>1. lines \in Seq(Replies) /\ QueueOf(lines, OnLines)
  BY DEF RpcTypes, StreamInv
<1>2. /\ Len(lines) \in Nat \ {0} /\ Head(lines) = lines[1]
      /\ Len(Tail(lines)) = Len(lines) - 1
      /\ \A k \in 1 .. Len(Tail(lines)) : Tail(lines)[k] = lines[k + 1]
  BY <1>1, HeadTailProperties, EmptySeq, LenProperties
<1>3. 1 \in 1 .. Len(lines) /\ \A k \in 1 .. Len(Tail(lines)) : k + 1 \in 1 .. Len(lines)
  BY <1>2
<1> QED
  BY <1>1, <1>2, <1>3, QueueTail DEF StreamInv

\* Putting an answer into a channel, or closing it, changes that part only.
LEMMA ChannelChange ==
  ASSUME RpcTypes, NEW c \in CallIds, NEW m \in Replies,
         \/ chan' = chan
         \/ chan' = [chan EXCEPT ![c].buf = m]
         \/ chan' = [chan EXCEPT ![c].closed = TRUE]
  PROVE  /\ chan' \in [CallIds -> [closed : BOOLEAN, buf : Replies]]
         /\ \A j \in CallIds \ {c} : chan'[j] = chan[j]
         /\ chan'[c].closed = chan[c].closed \/ chan' = [chan EXCEPT ![c].closed = TRUE]
         /\ chan'[c].buf = chan[c].buf \/ chan'[c].buf = m
<1> DEFINE p == [chan[c] EXCEPT !.buf = m]
           q == [chan[c] EXCEPT !.closed = TRUE]
<1>1. chan[c] \in [closed : BOOLEAN, buf : Replies] /\ chan \in [CallIds -> [closed : BOOLEAN, buf : Replies]]
  BY DEF RpcTypes
<1>2. /\ p \in [closed : BOOLEAN, buf : Replies] /\ p.closed = chan[c].closed /\ p.buf = m
      /\ q \in [closed : BOOLEAN, buf : Replies] /\ q.buf = chan[c].buf
  BY <1>1
<1>3. \/ chan' = chan
      \/ chan' = [chan EXCEPT ![c] = p]
      \/ chan' = [chan EXCEPT ![c] = q] /\ chan' = [chan EXCEPT ![c].closed = TRUE]
  OBVIOUS
<1> HIDE DEF p, q
<1> QED
  BY <1>1, <1>2, <1>3

-----------------------------------------------------------------------------
\* Every step keeps the invariant, action by action.

\* A OneBot API request is registered, or refused for want of a connection.
LEMMA KeepOneBotCall ==
  ASSUME RpcInv, ~crashed, NEW i \in CallIds, OneBotCall(i)
  PROVE  RpcInv'
<1> USE DEF RpcInv, callVars, farVars, OneBotCall, IsNext, Register, NextId
<1>1. i = next + 1 /\ \E x \in {"registered", "done"} : pc' = [pc EXCEPT ![i] = x]
  OBVIOUS
<1>2. /\ pc[i] = "new" /\ i \notin served /\ i \notin DOMAIN table /\ next' \in 0 .. MaxCalls
      /\ \A j \in CallIds : pc'[j] = "new" <=> j > next'
      /\ ServedWereSent' /\ OnWire \subseteq OnWire' /\ OnLines \subseteq OnLines'
  BY <1>1, NewCall
<1>3. RpcTypes'
  <2>1. outcome' \in [CallIds -> [kind : {"none", "answered", "failed"}, of : 0 .. MaxCalls]]
    BY RecordTypes, OutcomeTyped DEF RpcTypes
  <2>2. tag' \in [CallIds -> 0 .. MaxCalls]
    BY <1>1, CallNumbers DEF RpcTypes
  <2> QED
    BY <1>2, <2>1, <2>2 DEF RpcTypes
<1>4. CallsInOrder'
  <2>1. CASE link = 0
    BY <1>2, <2>1, RecordTypes DEF RpcTypes, CallsInOrder
  <2>2. CASE link # 0
    BY <1>1, <1>2, <2>2, CallNumbers DEF RpcTypes, CallsInOrder
  <2> QED
    BY <2>1, <2>2
<1>5. TableOfActive'
  <2>1. CASE link = 0
    BY <1>2, <2>1 DEF RpcTypes, TableOfActive
  <2>2. CASE link # 0
    BY <1>1, <1>2, <2>2, Registered DEF RpcTypes, TableOfActive
  <2> QED
    BY <2>1, <2>2
<1>6. ServedWereSent'
  BY <1>2
<1>7. StreamInv'
  BY <1>2, StreamFrame
<1>8. ChannelInv' /\ ListenerInv' /\ McpMutex' /\ PanicOnlyAtStop'
  BY DEF RpcTypes, ChannelInv, ListenerInv, McpMutex, PanicOnlyAtStop
<1> QED
  BY <1>3, <1>4, <1>5, <1>6, <1>7, <1>8

\* A call to the core is registered.
LEMMA KeepCoreCall ==
  ASSUME RpcInv, ~crashed, NEW i \in CallIds, CoreCall(i)
  PROVE  RpcInv'
<1> USE DEF RpcInv, callVars, farVars, CoreCall, IsNext, Register, NextId
<1>1. i = next + 1 /\ \E x \in {"registered", "done"} : pc' = [pc EXCEPT ![i] = x]
  OBVIOUS
<1>2. /\ pc[i] = "new" /\ i \notin served /\ i \notin DOMAIN table /\ next' \in 0 .. MaxCalls
      /\ \A j \in CallIds : pc'[j] = "new" <=> j > next'
      /\ ServedWereSent' /\ OnWire \subseteq OnWire' /\ OnLines \subseteq OnLines'
  BY <1>1, NewCall
<1>3. RpcTypes'
  BY <1>2, RecordTypes, CallNumbers DEF RpcTypes
<1>4. CallsInOrder'
  BY <1>2, RecordTypes, CallNumbers DEF RpcTypes, CallsInOrder
<1>5. TableOfActive'
  BY <1>1, <1>2, Registered DEF RpcTypes, TableOfActive
<1>6. ServedWereSent'
  BY <1>2
<1>7. StreamInv'
  BY <1>2, StreamFrame
<1>8. ChannelInv' /\ ListenerInv' /\ McpMutex' /\ PanicOnlyAtStop'
  BY DEF RpcTypes, ChannelInv, ListenerInv, McpMutex, PanicOnlyAtStop
<1> QED
  BY <1>3, <1>4, <1>5, <1>6, <1>7, <1>8

\* The request is written, or the write fails.
LEMMA KeepWrite ==
  ASSUME RpcInv, ~crashed, NEW i \in CallIds, Write(i)
  PROVE  RpcInv'
<1> USE DEF RpcInv, callVars, farVars, Write, Leave
<1>1. tag[i] = i /\ i \notin served /\ i \notin OnWire /\ client # "mcp" /\ outcome[i].kind = "none"
  BY DEF RpcTypes, CallsInOrder, ServedWereSent, OnWire
<1>2. OnWire \union {i} \subseteq OnWire' /\ OnLines \subseteq OnLines'
  BY <1>1 DEF RpcTypes, OnWire, OnLines
<1>3. [tag |-> i, of |-> i] \in Requests
  BY DEF Requests
<1>4. Append(wire, [tag |-> i, of |-> i]) \in Seq(Requests)
      /\ QueueOf(Append(wire, [tag |-> i, of |-> i]), OnWire \union {i})
  <2>1. wire \in Seq(Requests) /\ QueueOf(wire, OnWire)
    BY DEF RpcTypes, StreamInv
  <2>2. [tag |-> i, of |-> i].tag = [tag |-> i, of |-> i].of /\ [tag |-> i, of |-> i].of = i
    OBVIOUS
  <2> QED
    BY <1>1, <1>3, <2>1, <2>2, QueueAppend
<1>5. RpcTypes'
  <2>1. outcome' \in [CallIds -> [kind : {"none", "answered", "failed"}, of : 0 .. MaxCalls]]
    BY RecordTypes, OutcomeTyped DEF RpcTypes
  <2>2. wire' \in Seq(Requests)
    BY <1>1, <1>4 DEF RpcTypes
  <2> QED
    BY <2>1, <2>2 DEF RpcTypes
<1>6. TableOfActive'
  BY DEF RpcTypes, TableOfActive
<1>7. StreamInv'
  <2>1. CASE UNCHANGED wire
    BY <2>1, <1>2, StreamFrame
  <2>2. CASE alive /\ wire' = Append(wire, [tag |-> i, of |-> i])
    <3>1. QueueOf(wire', OnWire')
      BY <2>2, <1>2, <1>4, QueueMore
    <3>2. QueueOf(lines', OnLines')
      BY <1>2, QueueMore DEF StreamInv
    <3> QED
      BY <2>2, <3>1, <3>2 DEF StreamInv
  <2> QED
    BY <2>1, <2>2, <1>1
<1>8. CallsInOrder' /\ ServedWereSent' /\ ChannelInv' /\ ListenerInv' /\ McpMutex' /\ PanicOnlyAtStop'
  BY DEF RpcTypes, CallsInOrder, ServedWereSent, ChannelInv, ListenerInv, McpMutex, PanicOnlyAtStop
<1> QED
  BY <1>5, <1>6, <1>7, <1>8

\* The caller receives what its channel holds.
LEMMA KeepReceive ==
  ASSUME RpcInv, ~crashed, NEW i \in CallIds, Receive(i)
  PROVE  RpcInv'
<1> USE DEF RpcInv, callVars, farVars, Receive, Leave
<1>1. chan[i].buf \in Replies /\ outcome' = [outcome EXCEPT ![i] = IF chan[i].buf # NoReply THEN Answer(chan[i].buf) ELSE Failure]
  BY DEF RpcTypes
<1>2. (IF chan[i].buf # NoReply THEN Answer(chan[i].buf) ELSE Failure)
        \in [kind : {"none", "answered", "failed"}, of : 0 .. MaxCalls]
  BY <1>1, RecordTypes
<1>3. RpcTypes'
  <2>1. outcome' \in [CallIds -> [kind : {"none", "answered", "failed"}, of : 0 .. MaxCalls]]
    BY <1>1, <1>2, OutcomeTyped
  <2> QED
    BY <2>1 DEF RpcTypes
<1>4. TableOfActive'
  BY DEF RpcTypes, TableOfActive
<1>5. StreamInv'
  <2>1. OnWire \subseteq OnWire' /\ OnLines \subseteq OnLines'
    BY DEF RpcTypes, OnWire, OnLines
  <2> QED
    BY <2>1, StreamFrame
<1>6. CallsInOrder' /\ ServedWereSent' /\ ChannelInv' /\ ListenerInv' /\ McpMutex' /\ PanicOnlyAtStop'
  BY DEF RpcTypes, CallsInOrder, ServedWereSent, ChannelInv, ListenerInv, McpMutex, PanicOnlyAtStop
<1> QED
  BY <1>3, <1>4, <1>5, <1>6

\* A timer fires or a context is done.
LEMMA KeepExpire ==
  ASSUME RpcInv, ~crashed, NEW i \in CallIds, Expire(i)
  PROVE  RpcInv'
<1> USE DEF RpcInv, callVars, farVars, Expire
<1>1. StreamInv'
  <2>1. OnWire \subseteq OnWire' /\ OnLines \subseteq OnLines'
    BY DEF RpcTypes, OnWire, OnLines
  <2> QED
    BY <2>1, StreamFrame
<1>2. RpcTypes' /\ CallsInOrder' /\ TableOfActive' /\ ServedWereSent' /\ ChannelInv' /\ ListenerInv' /\ McpMutex' /\ PanicOnlyAtStop'
  BY DEF RpcTypes, CallsInOrder, TableOfActive, ServedWereSent, ChannelInv, ListenerInv, McpMutex, PanicOnlyAtStop
<1> QED
  BY <1>1, <1>2

\* The caller stops waiting.
LEMMA KeepGiveUp ==
  ASSUME RpcInv, ~crashed, NEW i \in CallIds, GiveUp(i)
  PROVE  RpcInv'
<1> USE DEF RpcInv, callVars, farVars, GiveUp, Leave
<1>1. RpcTypes'
  BY RecordTypes DEF RpcTypes
<1>2. TableOfActive'
  BY DEF RpcTypes, TableOfActive
<1>3. StreamInv'
  <2>1. OnWire \subseteq OnWire' /\ OnLines \subseteq OnLines'
    BY DEF RpcTypes, OnWire, OnLines
  <2> QED
    BY <2>1, StreamFrame
<1>4. CallsInOrder' /\ ServedWereSent' /\ ChannelInv' /\ ListenerInv' /\ McpMutex' /\ PanicOnlyAtStop'
  BY DEF RpcTypes, CallsInOrder, ServedWereSent, ChannelInv, ListenerInv, McpMutex, PanicOnlyAtStop
<1> QED
  BY <1>1, <1>2, <1>3, <1>4

\* The deferred function removes the call from the table.
LEMMA KeepForget ==
  ASSUME RpcInv, ~crashed, NEW i \in CallIds, Forget(i)
  PROVE  RpcInv'
<1> USE DEF RpcInv, callVars, farVars, Forget, Restrict
<1>1. client # "mcp" /\ tag[i] = i
  BY DEF CallsInOrder, McpMutex
<1>2. TableOfActive'
  <2>1. table' = [t \in DOMAIN table \ {i} |-> table[t]]
    BY <1>1
  <2>2. table' \in [DOMAIN table' -> CallIds] /\ DOMAIN table' = DOMAIN table \ {i}
    BY <2>1 DEF TableOfActive
  <2>3. \A t \in DOMAIN table' : table'[t] = t /\ t \in CallIds /\ pc'[t] = pc[t]
    BY <2>1 DEF TableOfActive, RpcTypes
  <2> QED
    BY <1>1, <2>2, <2>3 DEF TableOfActive
<1>3. StreamInv'
  <2>1. OnWire \subseteq OnWire' /\ OnLines \subseteq OnLines'
    BY <1>1 DEF RpcTypes, OnWire, OnLines
  <2> QED
    BY <2>1, StreamFrame
<1>4. RpcTypes' /\ CallsInOrder' /\ ServedWereSent' /\ ChannelInv' /\ ListenerInv' /\ McpMutex' /\ PanicOnlyAtStop'
  BY DEF RpcTypes, CallsInOrder, ServedWereSent, ChannelInv, ListenerInv, McpMutex, PanicOnlyAtStop
<1> QED
  BY <1>2, <1>3, <1>4

\* An MCP tool is looked up.
LEMMA KeepMcpExecute ==
  ASSUME RpcInv, ~crashed, NEW i \in CallIds, McpExecute(i)
  PROVE  RpcInv'
<1> USE DEF RpcInv, callVars, farVars, McpExecute, IsNext
<1>1. i = next + 1 /\ \E x \in {"registered", "done"} : pc' = [pc EXCEPT ![i] = x]
  OBVIOUS
<1>2. /\ pc[i] = "new" /\ i \notin served /\ i \notin DOMAIN table /\ next' \in 0 .. MaxCalls
      /\ \A j \in CallIds : pc'[j] = "new" <=> j > next'
      /\ ServedWereSent' /\ OnWire \subseteq OnWire' /\ OnLines \subseteq OnLines'
  BY <1>1, NewCall
<1>3. RpcTypes'
  <2>1. outcome' \in [CallIds -> [kind : {"none", "answered", "failed"}, of : 0 .. MaxCalls]]
    BY RecordTypes, OutcomeTyped DEF RpcTypes
  <2> QED
    BY <1>2, <2>1 DEF RpcTypes
<1>4. CallsInOrder'
  <2>1. CASE outcome' = outcome /\ pc'[i] = "registered"
    BY <1>2, <2>1 DEF RpcTypes, CallsInOrder
  <2>2. CASE outcome' = [outcome EXCEPT ![i] = Failure] /\ pc'[i] = "done"
    BY <1>2, <2>2, RecordTypes DEF RpcTypes, CallsInOrder
  <2> QED
    BY <2>1, <2>2 DEF RpcTypes
<1>5. ServedWereSent'
  BY <1>2
<1>6. StreamInv'
  BY <1>2, StreamFrame
<1>7. TableOfActive' /\ ChannelInv' /\ ListenerInv' /\ McpMutex' /\ PanicOnlyAtStop'
  BY DEF RpcTypes, TableOfActive, ChannelInv, ListenerInv, McpMutex, PanicOnlyAtStop
<1> QED
  BY <1>3, <1>4, <1>5, <1>6, <1>7

\* Start of the MCP client makes its next call.
LEMMA KeepMcpStartCall ==
  ASSUME RpcInv, ~crashed, NEW i \in CallIds, McpStartCall(i)
  PROVE  RpcInv'
<1> USE DEF RpcInv, callVars, farVars, McpStartCall, IsNext
<1>1. i = next + 1 /\ \E x \in {"registered", "done"} : pc' = [pc EXCEPT ![i] = x]
  OBVIOUS
<1>2. /\ pc[i] = "new" /\ i \notin served /\ i \notin DOMAIN table /\ next' \in 0 .. MaxCalls
      /\ \A j \in CallIds : pc'[j] = "new" <=> j > next'
      /\ ServedWereSent' /\ OnWire \subseteq OnWire' /\ OnLines \subseteq OnLines'
  BY <1>1, NewCall
<1>3. RpcTypes'
  BY <1>2, RecordTypes, CallNumbers DEF RpcTypes
<1>4. CallsInOrder'
  BY <1>2, RecordTypes, CallNumbers DEF RpcTypes, CallsInOrder
<1>5. ServedWereSent'
  BY <1>2
<1>6. StreamInv'
  BY <1>2, StreamFrame
<1>7. TableOfActive' /\ ChannelInv' /\ ListenerInv' /\ McpMutex' /\ PanicOnlyAtStop'
  BY DEF RpcTypes, TableOfActive, ChannelInv, ListenerInv, McpMutex, PanicOnlyAtStop
<1> QED
  BY <1>3, <1>4, <1>5, <1>6, <1>7

\* The MCP client writes its request under the mutex: nobody else waits, so
\* nothing is on the stream.
LEMMA KeepMcpWrite ==
  ASSUME RpcInv, ~crashed, NEW i \in CallIds, McpWrite(i)
  PROVE  RpcInv'
<1> USE DEF RpcInv, callVars, farVars, McpWrite, McpEnd
<1>1. \A j \in CallIds : pc[j] # "waiting"
  BY CallNumbers DEF RpcTypes, McpMutex
<1>2. OnWire = {} /\ OnLines = {} /\ i \notin served
  BY <1>1 DEF OnWire, OnLines, ServedWereSent
<1>3. wire = <<>> /\ lines = <<>>
  BY <1>2, QueueNone DEF RpcTypes, StreamInv
<1>4. OnWire \subseteq OnWire' /\ OnLines \subseteq OnLines'
  BY <1>2
<1>5. outcome' \in [CallIds -> [kind : {"none", "answered", "failed"}, of : 0 .. MaxCalls]]
  BY RecordTypes, OutcomeTyped DEF RpcTypes
<1>6. RpcTypes'
  <2>1. CASE link = 0 \/ ~alive
    <3>1. wire' = <<>> /\ lines' = <<>> /\ alive' \in BOOLEAN /\ mu' \in 0 .. Owner
      BY <1>3, <2>1, CallNumbers DEF RpcTypes
    <3> QED
      BY <1>3, <1>5, <2>1, <3>1 DEF RpcTypes
  <2>2. CASE ~(link = 0 \/ ~alive)
    <3>1. wire' \in Seq(Requests)
      <4>1. [tag |-> i, of |-> i] \in Requests
        BY DEF Requests
      <4>2. wire' = Append(wire, [tag |-> i, of |-> i])
        BY <2>2
      <4>3. wire \in Seq(Requests)
        BY DEF RpcTypes
      <4> QED
        BY <4>1, <4>2, <4>3, AppendProperties
    <3>2. mu' \in 0 .. Owner /\ tag' \in [CallIds -> 0 .. MaxCalls]
      <4>1. tag' = [tag EXCEPT ![i] = i] /\ (mu' = mu \/ mu' = i)
        BY <2>2
      <4>2. mu \in 0 .. Owner /\ tag \in [CallIds -> 0 .. MaxCalls]
        BY DEF RpcTypes
      <4> HIDE DEF McpWrite, McpEnd
      <4> QED
        BY <4>1, <4>2, CallNumbers
    <3> QED
      BY <1>5, <2>2, <3>1, <3>2 DEF RpcTypes
  <2> QED
    BY <2>1, <2>2
<1>7. CallsInOrder'
  <2>1. CASE link = 0 \/ ~alive
    BY <2>1, RecordTypes DEF RpcTypes, CallsInOrder
  <2>2. CASE ~(link = 0 \/ ~alive)
    BY <2>2 DEF RpcTypes, CallsInOrder
  <2> QED
    BY <2>1, <2>2
<1>8. TableOfActive'
  BY DEF RpcTypes, TableOfActive
<1>9. ServedWereSent'
  BY <1>2 DEF RpcTypes, ServedWereSent
<1>10. StreamInv'
  <2>1. CASE link = 0 \/ ~alive
    BY <1>3, <2>1, StreamCut
  <2>2. CASE ~(link = 0 \/ ~alive)
    <3>1. i \in OnWire'
      BY <1>2, <2>2 DEF RpcTypes, OnWire
    <3>2. wire' = Append(<<>>, [tag |-> i, of |-> i])
      BY <1>3, <2>2
    <3>3. QueueOf(wire', OnWire')
      BY <3>1, <3>2 DEF QueueOf
    <3>4. QueueOf(lines', OnLines') /\ lines' = <<>>
      BY <1>3, QueueEmpty
    <3> QED
      BY <2>2, <3>3, <3>4 DEF StreamInv
  <2> QED
    BY <2>1, <2>2
<1>11. McpMutex'
  <2>1. CASE link = 0 \/ ~alive
    BY <1>1, <2>1, CallNumbers DEF RpcTypes, McpMutex
  <2>2. CASE ~(link = 0 \/ ~alive)
    BY <1>1, <2>2, CallNumbers DEF RpcTypes, McpMutex
  <2> QED
    BY <2>1, <2>2
<1>12. ChannelInv' /\ ListenerInv' /\ PanicOnlyAtStop'
  BY DEF RpcTypes, ChannelInv, ListenerInv, PanicOnlyAtStop
<1> QED
  BY <1>6, <1>7, <1>8, <1>9, <1>10, <1>11, <1>12

\* The MCP client takes the next line: it can only be the answer to its own
\* request, and nothing is left on the stream.
LEMMA KeepMcpRead ==
  ASSUME RpcInv, ~crashed, NEW i \in CallIds, McpRead(i)
  PROVE  RpcInv'
<1> USE DEF RpcInv, callVars, farVars, McpRead, McpEnd
<1> DEFINE w == IF lines # <<>> /\ Head(lines).kind = "result" THEN Answer(Head(lines)) ELSE Failure
<1>1. /\ pc' = [pc EXCEPT ![i] = "done"] /\ outcome' = [outcome EXCEPT ![i] = w]
      /\ mu' = IF mu = Owner /\ phase = "initialize" /\ w # Failure THEN mu ELSE 0
      /\ UNCHANGED <<alive, wire>> \/ (alive' = FALSE /\ wire' = <<>>)
      /\ \/ lines # <<>> /\ lines' = Tail(lines)
         \/ lines = <<>> /\ lines' = <<>> /\ ~alive
  <2>1. CASE lines # <<>>
    <3>1. w = IF Head(lines).kind = "result" THEN Answer(Head(lines)) ELSE Failure
      BY <2>1
    <3> HIDE DEF w
    <3> QED
      BY <2>1, <3>1
  <2>2. CASE lines = <<>>
    <3>1. w = Failure
      BY <2>2
    <3> HIDE DEF w
    <3> QED
      BY <2>2, <3>1
  <2> QED
    BY <2>1, <2>2
<1>2. \A j \in CallIds : pc[j] = "waiting" => j = i
  BY CallNumbers DEF RpcTypes, McpMutex
<1>3. ASSUME lines # <<>>
      PROVE  /\ Head(lines) \in Replies /\ Head(lines).of = i /\ i \in served
             /\ Tail(lines) = <<>>
  <2>1. OnLines \subseteq {i}
    BY <1>2 DEF OnLines, ServedWereSent
  <2>2. /\ Head(lines) \in Replies /\ Tail(lines) \in Seq(Replies)
        /\ Head(lines).of \in OnLines /\ QueueOf(Tail(lines), OnLines \ {Head(lines).of})
    BY <1>3, FirstLine
  <2>3. Head(lines).of = i /\ OnLines \ {Head(lines).of} = {} /\ i \in served
    BY <2>1, <2>2 DEF OnLines
  <2> QED
    BY <2>2, <2>3, QueueNone
<1>4. wire = <<>>
  <2>1. CASE lines # <<>>
    <3>1. OnWire = {}
      BY <1>2, <1>3, <2>1 DEF OnWire
    <3> QED
      BY <3>1, QueueNone DEF RpcTypes, StreamInv
  <2>2. CASE lines = <<>>
    BY <1>1, <2>2 DEF StreamInv
  <2> QED
    BY <2>1, <2>2
<1>5. wire' = <<>> /\ lines' = <<>>
  BY <1>1, <1>3, <1>4
<1>6. w \in [kind : {"none", "answered", "failed"}, of : 0 .. MaxCalls]
  BY <1>3, RecordTypes
<1>7. outcome' \in [CallIds -> [kind : {"none", "answered", "failed"}, of : 0 .. MaxCalls]]
  BY <1>1, <1>6, OutcomeTyped
<1> HIDE DEF w
<1>10. RpcTypes'
  <2>1. alive' \in BOOLEAN /\ mu' \in 0 .. Owner
    BY <1>1, CallNumbers DEF RpcTypes
  <2> QED
    BY <1>1, <1>5, <1>7, <2>1 DEF RpcTypes
<1>11. StreamInv'
  BY <1>5, StreamCut
<1>12. McpMutex'
  BY <1>1, <1>2, CallNumbers DEF RpcTypes, McpMutex
<1>13. CallsInOrder' /\ TableOfActive' /\ ServedWereSent' /\ ChannelInv' /\ ListenerInv' /\ PanicOnlyAtStop'
  BY DEF RpcTypes, CallsInOrder, TableOfActive, ServedWereSent, ChannelInv, ListenerInv, PanicOnlyAtStop
<1> QED
  BY <1>10, <1>11, <1>12, <1>13

\* The listener looks the answer up: it finds the call of that answer.
LEMMA KeepListenRead ==
  ASSUME RpcInv, ~crashed, ListenRead
  PROVE  RpcInv'
<1> USE DEF RpcInv, callVars, farVars, ListenRead, Lookup
<1> DEFINE m == Head(lines)
<1>1. /\ m \in Replies /\ Tail(lines) \in Seq(Replies) /\ m.of \in OnLines /\ m.tag = m.of
      /\ QueueOf(Tail(lines), OnLines \ {m.of})
      /\ \A k \in 1 .. Len(Tail(lines)) : Tail(lines)[k].kind # "none"
  BY FirstLine
<1>2. m.of \in served /\ m.of \in CallIds
  BY <1>1 DEF OnLines, ServedWereSent
<1>3. Lookup(m) # 0 => Lookup(m) = m.of
  BY <1>1 DEF TableOfActive, Lookup
<1> HIDE DEF m
<1>6. RpcTypes'
  <2>1. reader' \in [pc : {"top", "read", "deliver", "exit"}, reply : Replies, to : 0 .. MaxCalls]
    <3>1. reader' = Idle \/ (reader' = [pc |-> "deliver", reply |-> m, to |-> Lookup(m)] /\ Lookup(m) # 0)
      BY DEF m
    <3> QED
      BY <1>1, <1>2, <1>3, <3>1, RecordTypes, CallNumbers
  <2> QED
    BY <1>1, <2>1 DEF RpcTypes
<1>7. StreamInv'
  <2>1. OnLines \ {m.of} \subseteq OnLines' /\ OnWire \subseteq OnWire'
    BY DEF OnLines, OnWire
  <2>2. QueueOf(lines', OnLines') /\ QueueOf(wire', OnWire')
    BY <1>1, <2>1, QueueMore DEF StreamInv
  <2> QED
    BY <1>1, <2>2 DEF StreamInv
<1>8. ListenerInv'
  <2>1. reader' = Idle \/ (reader' = [pc |-> "deliver", reply |-> m, to |-> Lookup(m)] /\ Lookup(m) # 0)
    BY DEF m
  <2> QED
    BY <1>1, <1>2, <1>3, <2>1, RecordTypes DEF ListenerInv
<1>9. CallsInOrder' /\ TableOfActive' /\ ServedWereSent' /\ ChannelInv' /\ McpMutex' /\ PanicOnlyAtStop'
  BY DEF RpcTypes, CallsInOrder, TableOfActive, ServedWereSent, ChannelInv, McpMutex, PanicOnlyAtStop
<1> QED
  BY <1>6, <1>7, <1>8, <1>9

\* The listener sends on the channel: if it is closed, Stop has closed it.
LEMMA KeepListenDeliver ==
  ASSUME RpcInv, ~crashed, ListenDeliver
  PROVE  RpcInv'
<1> USE DEF RpcInv, callVars, farVars, ListenDeliver
<1>1. /\ client = "onebot" /\ reader.to \in CallIds /\ reader.reply \in Replies
      /\ reader.reply.of = reader.to /\ reader.to \in served
  BY DEF ListenerInv
<1>2. chan' = chan \/ chan' = [chan EXCEPT ![reader.to].buf = reader.reply]
  OBVIOUS
<1>3. /\ chan' \in [CallIds -> [closed : BOOLEAN, buf : Replies]]
      /\ \A j \in CallIds \ {reader.to} : chan'[j] = chan[j]
      /\ chan'[reader.to].buf = chan[reader.to].buf \/ chan'[reader.to].buf = reader.reply
  BY <1>1, <1>2, ChannelChange
<1>4. chan'[reader.to].closed = chan[reader.to].closed
  BY <1>1, <1>2 DEF RpcTypes
<1>5. crashed' = chan[reader.to].closed
  BY <1>1 DEF RpcTypes
<1>6. RpcTypes'
  <2>1. crashed' \in BOOLEAN
    BY <1>1, <1>5 DEF RpcTypes
  <2> QED
    BY <1>3, <2>1, RecordTypes DEF RpcTypes
<1>7. StreamInv'
  <2>1. OnWire \subseteq OnWire' /\ OnLines \subseteq OnLines'
    BY <1>1 DEF OnWire, OnLines
  <2> QED
    BY <2>1, StreamFrame
<1>8. ChannelInv'
  BY <1>1, <1>3, <1>4 DEF ChannelInv
<1>9. ListenerInv'
  BY RecordTypes DEF ListenerInv
<1>10. PanicOnlyAtStop'
  BY <1>1, <1>5 DEF ChannelInv, PanicOnlyAtStop
<1>11. CallsInOrder' /\ TableOfActive' /\ ServedWereSent' /\ McpMutex'
  BY DEF RpcTypes, CallsInOrder, TableOfActive, ServedWereSent, McpMutex
<1> QED
  BY <1>6, <1>7, <1>8, <1>9, <1>10, <1>11

\* The listener sees that the context is done.
LEMMA KeepListenReturns ==
  ASSUME RpcInv, ~crashed, ListenReturns
  PROVE  RpcInv'
<1> USE DEF RpcInv, callVars, farVars, ListenReturns
<1>1. RpcTypes'
  BY DEF RpcTypes
<1>2. StreamInv'
  <2>1. OnWire \subseteq OnWire' /\ OnLines \subseteq OnLines'
    BY DEF RpcTypes, OnWire, OnLines
  <2> QED
    BY <2>1, StreamFrame
<1>3. ListenerInv'
  BY DEF RpcTypes, ListenerInv
<1>4. CallsInOrder' /\ TableOfActive' /\ ServedWereSent' /\ ChannelInv' /\ McpMutex' /\ PanicOnlyAtStop'
  BY DEF RpcTypes, CallsInOrder, TableOfActive, ServedWereSent, ChannelInv, McpMutex, PanicOnlyAtStop
<1> QED
  BY <1>1, <1>2, <1>3, <1>4

\* The listener drops the connection after a read error.
LEMMA KeepListenFails ==
  ASSUME RpcInv, ~crashed, ListenFails
  PROVE  RpcInv'
<1> USE DEF RpcInv, callVars, farVars, ListenFails
<1>1. wire' \in Seq(Requests) /\ lines' \in Seq(Replies) /\ StreamInv'
  <2>1. wire' = <<>>
    BY DEF StreamInv
  <2> QED
    BY <2>1, StreamCut
<1>2. RpcTypes'
  BY <1>1, CallNumbers DEF RpcTypes
<1>3. StreamInv'
  BY <1>1
<1>4. CallsInOrder' /\ TableOfActive' /\ ServedWereSent' /\ ChannelInv' /\ ListenerInv' /\ McpMutex' /\ PanicOnlyAtStop'
  BY DEF RpcTypes, CallsInOrder, TableOfActive, ServedWereSent, ChannelInv, ListenerInv, McpMutex, PanicOnlyAtStop
<1> QED
  BY <1>2, <1>3, <1>4

\* OneBot connects again.
LEMMA KeepReconnect ==
  ASSUME RpcInv, ~crashed, Reconnect
  PROVE  RpcInv'
<1> USE DEF RpcInv, callVars, farVars, Reconnect
<1>1. RpcTypes'
  BY RecordTypes DEF RpcTypes
<1>2. ListenerInv'
  BY RecordTypes DEF ListenerInv
<1>3. CallsInOrder' /\ TableOfActive' /\ ServedWereSent' /\ StreamInv' /\ ChannelInv' /\ McpMutex' /\ PanicOnlyAtStop'
  BY DEF RpcTypes, CallsInOrder, TableOfActive, ServedWereSent, StreamInv, ChannelInv, McpMutex, PanicOnlyAtStop, OnWire, OnLines
<1> QED
  BY <1>1, <1>2, <1>3

\* The core's reader checks whether to go on.
LEMMA KeepCoreTop ==
  ASSUME RpcInv, ~crashed, CoreTop
  PROVE  RpcInv'
<1> USE DEF RpcInv, callVars, farVars, CoreTop
<1>1. RpcTypes'
  BY DEF RpcTypes
<1>2. StreamInv'
  <2>1. OnWire \subseteq OnWire' /\ OnLines \subseteq OnLines'
    BY DEF RpcTypes, OnWire, OnLines
  <2> QED
    BY <2>1, StreamFrame
<1>3. ListenerInv'
  BY DEF RpcTypes, ListenerInv
<1>4. CallsInOrder' /\ TableOfActive' /\ ServedWereSent' /\ ChannelInv' /\ McpMutex' /\ PanicOnlyAtStop'
  BY DEF RpcTypes, CallsInOrder, TableOfActive, ServedWereSent, ChannelInv, McpMutex, PanicOnlyAtStop
<1> QED
  BY <1>1, <1>2, <1>3, <1>4

\* The core's reader delivers: the channel is not closed, because no answer of
\* a call follows another.
LEMMA KeepCoreRead ==
  ASSUME RpcInv, ~crashed, CoreRead
  PROVE  RpcInv'
<1> USE DEF RpcInv, callVars, farVars, CoreRead, CoreDeliver, Lookup
<1> DEFINE m == Head(lines)
<1>1. /\ m \in Replies /\ Tail(lines) \in Seq(Replies) /\ m.of \in OnLines /\ m.tag = m.of
      /\ QueueOf(Tail(lines), OnLines \ {m.of})
      /\ \A k \in 1 .. Len(Tail(lines)) : Tail(lines)[k].kind # "none"
  BY FirstLine
<1>2. m.of \in served /\ m.of \in CallIds
  BY <1>1 DEF OnLines, ServedWereSent
<1>3. Lookup(m) # 0 => Lookup(m) = m.of
  BY <1>1 DEF TableOfActive, Lookup
<1>4. ~chan[m.of].closed
  BY <1>1 DEF OnLines
<1>5. /\ \/ chan' = chan
         \/ chan' = [chan EXCEPT ![m.of].buf = m]
         \/ chan' = [chan EXCEPT ![m.of].closed = TRUE]
      /\ crashed' = crashed \/ crashed' = (crashed \/ chan[m.of].closed)
  BY <1>3
<1> HIDE DEF m
<1>6. /\ chan' \in [CallIds -> [closed : BOOLEAN, buf : Replies]]
      /\ \A j \in CallIds \ {m.of} : chan'[j] = chan[j]
      /\ chan'[m.of].buf = chan[m.of].buf \/ chan'[m.of].buf = m
  BY <1>1, <1>2, <1>5, ChannelChange
<1>7. crashed' \in BOOLEAN /\ ~crashed'
  BY <1>4, <1>5 DEF RpcTypes
<1>10. RpcTypes'
  BY <1>1, <1>6, <1>7 DEF RpcTypes, m
<1>11. StreamInv'
  <2>1. OnLines \ {m.of} \subseteq OnLines' /\ OnWire \subseteq OnWire'
    BY <1>6 DEF OnLines, OnWire, ServedWereSent
  <2>2. QueueOf(lines', OnLines') /\ QueueOf(wire', OnWire')
    BY <1>1, <2>1, QueueMore DEF StreamInv, m
  <2> QED
    BY <1>1, <2>2 DEF StreamInv, m
<1>12. ChannelInv'
  BY <1>2, <1>6 DEF ChannelInv
<1>13. ListenerInv'
  BY DEF RpcTypes, ListenerInv
<1>14. PanicOnlyAtStop'
  BY <1>7 DEF PanicOnlyAtStop
<1>15. CallsInOrder' /\ TableOfActive' /\ ServedWereSent' /\ McpMutex'
  BY DEF RpcTypes, CallsInOrder, TableOfActive, ServedWereSent, McpMutex
<1> QED
  BY <1>10, <1>11, <1>12, <1>13, <1>14, <1>15

\* The core's reader sees the end of the stream.
LEMMA KeepCoreEof ==
  ASSUME RpcInv, ~crashed, CoreEof
  PROVE  RpcInv'
<1> USE DEF RpcInv, callVars, farVars, CoreEof
<1>1. RpcTypes'
  BY DEF RpcTypes
<1>2. StreamInv'
  <2>1. OnWire \subseteq OnWire' /\ OnLines \subseteq OnLines'
    BY DEF RpcTypes, OnWire, OnLines
  <2> QED
    BY <2>1, StreamFrame
<1>3. ListenerInv'
  BY DEF RpcTypes, ListenerInv
<1>4. CallsInOrder' /\ TableOfActive' /\ ServedWereSent' /\ ChannelInv' /\ McpMutex' /\ PanicOnlyAtStop'
  BY DEF RpcTypes, CallsInOrder, TableOfActive, ServedWereSent, ChannelInv, McpMutex, PanicOnlyAtStop
<1> QED
  BY <1>1, <1>2, <1>3, <1>4

\* Stop of OneBot cancels the context.
LEMMA KeepStopCancel ==
  ASSUME RpcInv, ~crashed, StopCancel
  PROVE  RpcInv'
<1> USE DEF RpcInv, callVars, farVars, StopCancel
<1>1. RpcTypes' /\ CallsInOrder' /\ TableOfActive' /\ ServedWereSent' /\ StreamInv' /\ ChannelInv' /\ ListenerInv' /\ McpMutex' /\ PanicOnlyAtStop'
  BY DEF RpcTypes, CallsInOrder, TableOfActive, ServedWereSent, StreamInv, ChannelInv, ListenerInv, McpMutex, PanicOnlyAtStop, OnWire, OnLines
<1> QED
  BY <1>1

\* Stop of OneBot closes the channels of pending calls.
LEMMA KeepStopPending ==
  ASSUME RpcInv, ~crashed, StopPending
  PROVE  RpcInv'
<1> USE DEF RpcInv, callVars, farVars, StopPending
<1>1. RpcTypes'
  <2>1. chan' \in [CallIds -> [closed : BOOLEAN, buf : Replies]]
    BY DEF RpcTypes
  <2> QED
    BY <2>1 DEF RpcTypes
<1>2. TableOfActive'
  BY DEF TableOfActive
<1>3. StreamInv'
  <2>1. OnWire \subseteq OnWire' /\ OnLines \subseteq OnLines'
    BY DEF OnWire, OnLines
  <2> QED
    BY <2>1, StreamFrame
<1>4. ChannelInv'
  BY DEF RpcTypes, ChannelInv
<1>5. CallsInOrder' /\ ServedWereSent' /\ ListenerInv' /\ McpMutex' /\ PanicOnlyAtStop'
  BY DEF RpcTypes, CallsInOrder, ServedWereSent, ListenerInv, McpMutex, PanicOnlyAtStop
<1> QED
  BY <1>1, <1>2, <1>3, <1>4, <1>5

\* Stop of OneBot closes the connection.
LEMMA KeepStopConn ==
  ASSUME RpcInv, ~crashed, StopConn
  PROVE  RpcInv'
<1> USE DEF RpcInv, callVars, farVars, StopConn
<1>1. wire' \in Seq(Requests) /\ lines' \in Seq(Replies) /\ StreamInv'
  BY StreamCut
<1>2. RpcTypes'
  BY <1>1, CallNumbers DEF RpcTypes
<1>3. StreamInv'
  BY <1>1
<1>4. CallsInOrder' /\ TableOfActive' /\ ServedWereSent' /\ ChannelInv' /\ ListenerInv' /\ McpMutex' /\ PanicOnlyAtStop'
  BY DEF RpcTypes, CallsInOrder, TableOfActive, ServedWereSent, ChannelInv, ListenerInv, McpMutex, PanicOnlyAtStop
<1> QED
  BY <1>2, <1>3, <1>4

\* Stop of the core proxy takes the mutex.
LEMMA KeepCoreStop ==
  ASSUME RpcInv, ~crashed, CoreStop
  PROVE  RpcInv'
<1> USE DEF RpcInv, callVars, farVars, CoreStop
<1>1. RpcTypes'
  BY CallNumbers DEF RpcTypes
<1>2. CallsInOrder' /\ TableOfActive' /\ ServedWereSent' /\ StreamInv' /\ ChannelInv' /\ ListenerInv' /\ McpMutex' /\ PanicOnlyAtStop'
  BY DEF RpcTypes, CallsInOrder, TableOfActive, ServedWereSent, StreamInv, ChannelInv, ListenerInv, McpMutex, PanicOnlyAtStop, OnWire, OnLines
<1> QED
  BY <1>1, <1>2

\* Stop of the core proxy returns from Wait.
LEMMA KeepCoreWaited ==
  ASSUME RpcInv, ~crashed, CoreWaited
  PROVE  RpcInv'
<1> USE DEF RpcInv, callVars, farVars, CoreWaited
<1>1. wire' \in Seq(Requests) /\ lines' \in Seq(Replies) /\ StreamInv'
  <2>1. wire' = <<>>
    BY DEF StreamInv
  <2> QED
    BY <2>1, StreamCut
<1>2. RpcTypes'
  BY <1>1, CallNumbers DEF RpcTypes
<1>3. StreamInv'
  BY <1>1
<1>4. CallsInOrder' /\ TableOfActive' /\ ServedWereSent' /\ ChannelInv' /\ ListenerInv' /\ McpMutex' /\ PanicOnlyAtStop'
  BY DEF RpcTypes, CallsInOrder, TableOfActive, ServedWereSent, ChannelInv, ListenerInv, McpMutex, PanicOnlyAtStop
<1> QED
  BY <1>2, <1>3, <1>4

\* The MCP client is stopped.
LEMMA KeepMcpStop ==
  ASSUME RpcInv, ~crashed, McpStop
  PROVE  RpcInv'
<1> USE DEF RpcInv, callVars, farVars, McpStop
<1>1. wire' \in Seq(Requests) /\ lines' \in Seq(Replies) /\ StreamInv'
  BY StreamCut
<1>2. RpcTypes'
  BY <1>1, CallNumbers DEF RpcTypes
<1>3. StreamInv'
  BY <1>1
<1>4. CallsInOrder' /\ TableOfActive' /\ ServedWereSent' /\ ChannelInv' /\ ListenerInv' /\ McpMutex' /\ PanicOnlyAtStop'
  BY DEF RpcTypes, CallsInOrder, TableOfActive, ServedWereSent, ChannelInv, ListenerInv, McpMutex, PanicOnlyAtStop
<1> QED
  BY <1>2, <1>3, <1>4

\* The other side performs the first request on the wire and answers it.
LEMMA KeepServe ==
  ASSUME RpcInv, ~crashed, Serve
  PROVE  RpcInv'
<1> USE DEF RpcInv, callVars, farVars, Serve, Kinds
<1> DEFINE r == Head(wire)
<1>1. /\ r \in Requests /\ Tail(wire) \in Seq(Requests) /\ r.of \in OnWire /\ r.tag = r.of
      /\ QueueOf(Tail(wire), OnWire \ {r.of})
  <2>1. wire \in Seq(Requests) /\ QueueOf(wire, OnWire)
    BY DEF RpcTypes, StreamInv
  <2> QED
    BY <2>1, QueueTail
<1>2. r.of \in CallIds /\ r.of \notin served /\ pc[r.of] \notin {"new", "registered"}
      /\ (client = "mcp" => pc[r.of] = "waiting")
  BY <1>1 DEF OnWire
<1>3. PICK k \in {"result", "error", "junk"} : lines' = Append(lines, [tag |-> r.tag, of |-> r.of, kind |-> k])
  OBVIOUS
<1>4. served' = served \union {r.of} /\ wire' = Tail(wire)
  OBVIOUS
<1> HIDE DEF r
<1> DEFINE m == [tag |-> r.tag, of |-> r.of, kind |-> k]
<1>5. m \in Replies /\ m.tag = m.of /\ m.of = r.of /\ m.kind # "none"
  BY <1>1, <1>2, CallNumbers DEF Replies
<1> HIDE DEF m
<1>6. lines' \in Seq(Replies) /\ QueueOf(lines', OnLines \union {r.of})
  <2>1. lines \in Seq(Replies) /\ QueueOf(lines, OnLines) /\ r.of \notin OnLines
    BY <1>2 DEF RpcTypes, StreamInv, OnLines
  <2> QED
    BY <1>3, <1>5, <2>1, QueueAppend DEF m
<1>7. \A j \in 1 .. Len(lines') : lines'[j].kind # "none"
  <2>1. /\ Len(lines) \in Nat /\ Len(lines') = Len(lines) + 1
        /\ \A j \in 1 .. Len(lines) : lines'[j] = lines[j]
        /\ lines'[Len(lines) + 1] = m
    BY <1>3, <1>5, AppendProperties, LenProperties DEF RpcTypes, m
  <2> QED
    BY <1>5, <2>1 DEF StreamInv
<1>12. RpcTypes'
  BY <1>1, <1>4, <1>6 DEF RpcTypes
<1>13. ServedWereSent'
  BY <1>2, <1>4 DEF ServedWereSent
<1>14. StreamInv'
  <2>1. OnWire \ {r.of} \subseteq OnWire' /\ OnLines \subseteq OnLines'
    BY <1>4 DEF OnWire, OnLines
  <2>2. r.of \in OnLines'
    BY <1>2, <1>4 DEF OnLines, ChannelInv
  <2>3. QueueOf(wire', OnWire') /\ QueueOf(lines', OnLines')
    BY <1>1, <1>4, <1>6, <2>1, <2>2, QueueMore
  <2> QED
    BY <1>7, <2>3 DEF StreamInv
<1>15. CallsInOrder' /\ TableOfActive' /\ ChannelInv' /\ ListenerInv' /\ McpMutex' /\ PanicOnlyAtStop'
  BY DEF RpcTypes, CallsInOrder, TableOfActive, ChannelInv, ListenerInv, McpMutex, PanicOnlyAtStop
<1> QED
  BY <1>12, <1>13, <1>14, <1>15

\* The other side goes away.
LEMMA KeepVanish ==
  ASSUME RpcInv, ~crashed, Vanish
  PROVE  RpcInv'
<1> USE DEF RpcInv, callVars, farVars, Vanish
<1>1. wire' \in Seq(Requests) /\ lines' \in Seq(Replies) /\ StreamInv'
  BY StreamCut DEF OnLines
<1>2. RpcTypes'
  BY <1>1, CallNumbers DEF RpcTypes
<1>3. StreamInv'
  BY <1>1
<1>4. CallsInOrder' /\ TableOfActive' /\ ServedWereSent' /\ ChannelInv' /\ ListenerInv' /\ McpMutex' /\ PanicOnlyAtStop'
  BY DEF RpcTypes, CallsInOrder, TableOfActive, ServedWereSent, ChannelInv, ListenerInv, McpMutex, PanicOnlyAtStop
<1> QED
  BY <1>2, <1>3, <1>4
-----------------------------------------------------------------------------
\* The initial states satisfy the invariant.
LEMMA RpcInitInv == RpcInit => RpcInv
<1> SUFFICES ASSUME RpcInit PROVE RpcInv
  OBVIOUS
<1>0. /\ client \in Clients /\ next = 0 /\ table = <<>> /\ wire = <<>> /\ lines = <<>> /\ served = {}
      /\ pc = [i \in CallIds |-> "new"] /\ tag = [i \in CallIds |-> 0]
      /\ chan = [i \in CallIds |-> Fresh] /\ outcome = [i \in CallIds |-> Pending]
      /\ mu = Owner \/ mu = 0
      /\ alive = TRUE /\ crashed = FALSE
  BY DEF RpcInit
<1>1. RpcTypes
  <2>1. chan \in [CallIds -> [closed : BOOLEAN, buf : Replies]]
    BY <1>0, RecordTypes DEF Fresh
  <2>2. outcome \in [CallIds -> [kind : {"none", "answered", "failed"}, of : 0 .. MaxCalls]]
    <3>1. Pending \in [kind : {"none", "answered", "failed"}, of : 0 .. MaxCalls]
      BY CallNumbers DEF Pending
    <3> QED
      BY <1>0, <3>1
  <2>3. reader \in [pc : {"top", "read", "deliver", "exit"}, reply : Replies, to : 0 .. MaxCalls]
    BY RecordTypes DEF RpcInit
  <2>4. wire \in Seq(Requests) /\ lines \in Seq(Replies)
    BY <1>0, EmptySeq
  <2>5. tag \in [CallIds -> 0 .. MaxCalls] /\ next \in 0 .. MaxCalls /\ mu \in 0 .. Owner
    BY <1>0, CallNumbers
  <2> QED
    BY <1>0, <2>1, <2>2, <2>3, <2>4, <2>5 DEF RpcTypes
<1>2. CallsInOrder
  BY <1>0, CallNumbers DEF CallsInOrder, Pending
<1>3. TableOfActive
  BY <1>0 DEF TableOfActive
<1>4. StreamInv
  BY <1>0, QueueEmpty DEF StreamInv
<1>5. ChannelInv
  BY DEF RpcInit, ChannelInv, Fresh
<1>6. ListenerInv
  BY DEF RpcInit, ListenerInv, Idle
<1>7. McpMutex /\ ServedWereSent /\ PanicOnlyAtStop
  BY DEF RpcInit, McpMutex, ServedWereSent, PanicOnlyAtStop
<1> QED
  BY <1>1, <1>2, <1>3, <1>4, <1>5, <1>6, <1>7 DEF RpcInv

\* So does every state a step leads to.
LEMMA RpcNextInv == RpcInv /\ [RpcNext]_rpcVars => RpcInv'
<1> SUFFICES ASSUME RpcInv, [RpcNext]_rpcVars PROVE RpcInv'
  OBVIOUS
<1>1. ASSUME ~crashed, NEW i \in CallIds, CallStep(i) PROVE RpcInv'
  BY <1>1, KeepOneBotCall, KeepCoreCall, KeepWrite, KeepReceive, KeepExpire, KeepGiveUp,
     KeepForget, KeepMcpExecute, KeepMcpStartCall, KeepMcpWrite, KeepMcpRead DEF CallStep
<1>2. ASSUME ~crashed, ReaderStep PROVE RpcInv'
  BY <1>2, KeepListenRead, KeepListenDeliver, KeepListenReturns, KeepListenFails,
     KeepReconnect, KeepCoreTop, KeepCoreRead, KeepCoreEof DEF ReaderStep
<1>3. ASSUME ~crashed, StopStep PROVE RpcInv'
  BY <1>3, KeepStopCancel, KeepStopPending, KeepStopConn, KeepCoreStop, KeepCoreWaited,
     KeepMcpStop DEF StopStep
<1>4. ASSUME ~crashed, Serve \/ Vanish PROVE RpcInv'
  BY <1>4, KeepServe, KeepVanish
<1>5. CASE UNCHANGED rpcVars
  <2>1. UNCHANGED <<client, next, pc, tag, chan, outcome, table, wire, lines, served, alive, reader, mu, stop, crashed>>
    BY <1>5 DEF rpcVars, callVars, farVars
  <2>2. StreamInv'
    <3>1. OnWire \subseteq OnWire' /\ OnLines \subseteq OnLines'
      BY <2>1 DEF OnWire, OnLines
    <3> QED
      BY <2>1, <3>1, StreamFrame DEF RpcInv
  <2>3. RpcTypes' /\ CallsInOrder' /\ TableOfActive' /\ ServedWereSent' /\ ChannelInv'
        /\ ListenerInv' /\ McpMutex' /\ PanicOnlyAtStop'
    BY <2>1 DEF RpcInv, RpcTypes, CallsInOrder, TableOfActive, ServedWereSent, ChannelInv,
                ListenerInv, McpMutex, PanicOnlyAtStop
  <2> QED
    BY <2>2, <2>3 DEF RpcInv
<1> QED
  BY <1>1, <1>2, <1>3, <1>4, <1>5 DEF RpcNext

\* The invariant holds in every state of the three clients, for any number of
\* calls and connections.
THEOREM RpcInvariant == RpcSpec => []RpcInv
BY RpcInitInv, RpcNextInv, PTL DEF RpcSpec

\* onebot.go and proxy.go send on a closed channel, or close one twice, only
\* once Stop has closed the channels of pending calls.
THEOREM RpcPanicsOnlyAtStop == RpcSpec => []PanicOnlyAtStop
<1>1. RpcInv => PanicOnlyAtStop
  BY DEF RpcInv
<1> QED
  BY <1>1, RpcInvariant, PTL

\* Calls that are over leave nothing in the table of channels: a late answer
\* finds no one (sendAPIRequest's and ProcessMessage's deferred deletes).
TableDrained == (\A i \in CallIds : pc[i] \in {"new", "done"}) => table = <<>>

\* The table of channels is empty whenever no call is in progress.
THEOREM RpcTableDrained == RpcSpec => []TableDrained
<1>1. RpcInv => TableDrained
  <2> SUFFICES ASSUME RpcInv, \A i \in CallIds : pc[i] \in {"new", "done"} PROVE table = <<>>
    BY DEF TableDrained
  <2>1. DOMAIN table = {} /\ table \in [DOMAIN table -> CallIds]
    BY DEF RpcInv, TableOfActive
  <2> QED
    BY <2>1
<1> QED
  BY <1>1, RpcInvariant, PTL

-----------------------------------------------------------------------------
\* Rpc implements Calls.

\* The abstract outcomes, of the refinement mapping.
Outcomes == [i \in CallIds |-> AbstractOutcome(i)]

\* Returning a failure from a call that has returned nothing yet changes its
\* abstract outcome, from "none", and no other.
LEMMA OutcomesFail ==
  ASSUME RpcTypes, NEW i \in CallIds,
         outcome[i].kind = "none", outcome' = [outcome EXCEPT ![i] = Failure]
  PROVE  Outcomes[i] = "none" /\ Outcomes' = [Outcomes EXCEPT ![i] = "failed"]
<1>1. outcome'[i] = Failure /\ \A j \in CallIds : j # i => outcome'[j] = outcome[j]
  BY RecordTypes, OutcomeTyped
<1>2. AbstractOutcome(i) = "none" /\ AbstractOutcome(i)' = "failed"
  BY <1>1, RecordTypes DEF AbstractOutcome
<1>3. \A j \in CallIds : j # i => AbstractOutcome(j)' = AbstractOutcome(j)
  BY <1>1 DEF AbstractOutcome
<1> QED
  BY <1>2, <1>3 DEF Outcomes

\* So does returning an answer to the call itself.
LEMMA OutcomesAnswer ==
  ASSUME RpcTypes, NEW i \in CallIds, NEW m \in Replies, m.of = i,
         outcome[i].kind = "none", outcome' = [outcome EXCEPT ![i] = Answer(m)]
  PROVE  Outcomes[i] = "none" /\ Outcomes' = [Outcomes EXCEPT ![i] = "answered"]
<1>1. outcome'[i] = Answer(m) /\ \A j \in CallIds : j # i => outcome'[j] = outcome[j]
  BY RecordTypes, OutcomeTyped
<1>2. AbstractOutcome(i) = "none" /\ AbstractOutcome(i)' = "answered"
  BY <1>1, RecordTypes DEF AbstractOutcome
<1>3. \A j \in CallIds : j # i => AbstractOutcome(j)' = AbstractOutcome(j)
  BY <1>1 DEF AbstractOutcome
<1> QED
  BY <1>2, <1>3 DEF Outcomes

\* A call that returns without an answer is a failure of the abstract client.
LEMMA FailRefines ==
  ASSUME RpcInv, NEW i \in CallIds, pc[i] \in {"registered", "waiting"},
         outcome' = [outcome EXCEPT ![i] = Failure], UNCHANGED <<next, served>>
  PROVE  Promise!Fail(i)
<1>1. outcome[i].kind = "none" /\ i \in 1 .. next
  BY CallNumbers DEF RpcInv, RpcTypes, CallsInOrder
<1>2. Outcomes[i] = "none" /\ Outcomes' = [Outcomes EXCEPT ![i] = "failed"]
  BY <1>1, OutcomesFail DEF RpcInv
<1> QED
  BY <1>1, <1>2 DEF Promise!Fail, Outcomes

\* A call that returns an answer of its own that was performed is answered.
LEMMA AnswerRefines ==
  ASSUME RpcInv, NEW i \in CallIds, pc[i] = "waiting", i \in served, NEW m \in Replies, m.of = i,
         outcome' = [outcome EXCEPT ![i] = Answer(m)], UNCHANGED <<next, served>>
  PROVE  Promise!Answer(i)
<1>1. outcome[i].kind = "none"
  BY DEF RpcInv, CallsInOrder
<1>2. Outcomes[i] = "none" /\ Outcomes' = [Outcomes EXCEPT ![i] = "answered"]
  BY <1>1, OutcomesAnswer DEF RpcInv
<1> QED
  BY <1>2 DEF Promise!Answer, Outcomes

\* A new call that goes on is an abstract Ask, one that is turned down a Refuse.
LEMMA CallRefines ==
  ASSUME RpcInv, NEW i \in CallIds, i = next + 1, next' = i, UNCHANGED served,
         outcome' = outcome \/ outcome' = [outcome EXCEPT ![i] = Failure]
  PROVE  Promise!Ask(i) \/ Promise!Refuse(i)
<1>1. next \in Nat /\ i \notin 1 .. next /\ 1 .. next' = (1 .. next) \union {i}
  <2>1. next \in Nat
    BY CallNumbers DEF RpcInv, RpcTypes
  <2>2. \A j : j \in 1 .. next' <=> j \in (1 .. next) \union {i}
    BY <2>1
  <2> QED
    BY <2>1, <2>2
<1>2. CASE outcome' = outcome
  <2>1. Outcomes' = Outcomes
    BY <1>2 DEF Outcomes, AbstractOutcome
  <2> QED
    BY <1>1, <2>1 DEF Promise!Ask, Outcomes
<1>3. CASE outcome' = [outcome EXCEPT ![i] = Failure]
  <2>1. outcome[i].kind = "none"
    BY <1>1, CallNumbers DEF RpcInv, RpcTypes, CallsInOrder
  <2>2. Outcomes[i] = "none" /\ Outcomes' = [Outcomes EXCEPT ![i] = "failed"]
    BY <1>3, <2>1, OutcomesFail DEF RpcInv
  <2> QED
    BY <1>1, <2>2 DEF Promise!Refuse, Outcomes
<1> QED
  BY <1>2, <1>3

\* A step that changes no call's number, outcome or performance is a stutter.
LEMMA Stutters ==
  ASSUME UNCHANGED <<next, served, outcome>>
  PROVE  UNCHANGED Promise!vars
BY DEF Promise!vars, AbstractOutcome

\* Every step of the clients is a step of the abstract one, or a stutter.
LEMMA RpcStepRefines == RpcInv /\ [RpcNext]_rpcVars => [Promise!Next]_(Promise!vars)
<1> SUFFICES ASSUME RpcInv, [RpcNext]_rpcVars PROVE Promise!Next \/ UNCHANGED Promise!vars
  OBVIOUS
<1>1. ASSUME NEW i \in CallIds,
             OneBotCall(i) \/ CoreCall(i) \/ McpExecute(i) \/ McpStartCall(i)
      PROVE  Promise!Next
  <2>1. /\ i = next + 1 /\ next' = i /\ UNCHANGED served
        /\ outcome' = outcome \/ outcome' = [outcome EXCEPT ![i] = Failure]
    BY <1>1 DEF OneBotCall, CoreCall, McpExecute, McpStartCall, IsNext, farVars
  <2> QED
    BY <2>1, CallRefines DEF Promise!Next
<1>2. ASSUME NEW i \in CallIds, Write(i) PROVE Promise!Next \/ UNCHANGED Promise!vars
  <2>1. CASE outcome' = [outcome EXCEPT ![i] = Failure]
    BY <1>2, <2>1, FailRefines DEF Write, Promise!Next
  <2>2. CASE UNCHANGED outcome
    BY <1>2, <2>2, Stutters DEF Write
  <2> QED
    BY <1>2, <2>1, <2>2 DEF Write, Leave
<1>3. ASSUME NEW i \in CallIds, Receive(i) PROVE Promise!Next
  <2>1. CASE chan[i].buf # NoReply
    <3>1. chan[i].buf \in Replies /\ chan[i].buf.of = i /\ i \in served
      BY <2>1 DEF RpcInv, RpcTypes, ChannelInv
    <3>2. pc[i] = "waiting" /\ outcome' = [outcome EXCEPT ![i] = Answer(chan[i].buf)]
          /\ UNCHANGED <<next, served>>
      BY <1>3, <2>1 DEF Receive, Leave, farVars
    <3> QED
      BY <3>1, <3>2, AnswerRefines DEF Promise!Next
  <2>2. CASE chan[i].buf = NoReply
    BY <1>3, <2>2, FailRefines DEF Receive, Leave, farVars, Promise!Next
  <2> QED
    BY <2>1, <2>2
<1>4. ASSUME NEW i \in CallIds, GiveUp(i) PROVE Promise!Next
  BY <1>4, FailRefines DEF GiveUp, Leave, farVars, Promise!Next
<1>5. ASSUME NEW i \in CallIds, Expire(i) \/ Forget(i) PROVE UNCHANGED Promise!vars
  BY <1>5, Stutters DEF Expire, Forget, farVars
<1>6. ASSUME NEW i \in CallIds, McpWrite(i) PROVE Promise!Next \/ UNCHANGED Promise!vars
  <2>1. CASE link = 0 \/ ~alive
    BY <1>6, <2>1, FailRefines DEF McpWrite, McpEnd, Promise!Next
  <2>2. CASE ~(link = 0 \/ ~alive)
    BY <1>6, <2>2, Stutters DEF McpWrite
  <2> QED
    BY <2>1, <2>2
<1>7. ASSUME NEW i \in CallIds, McpRead(i) PROVE Promise!Next
  <2>1. CASE outcome' = [outcome EXCEPT ![i] = Failure]
    BY <1>7, <2>1, FailRefines DEF McpRead, Promise!Next
  <2>2. CASE lines # <<>> /\ outcome' = [outcome EXCEPT ![i] = Answer(Head(lines))]
    <3>1. Head(lines) \in Replies /\ Head(lines).of \in OnLines
      BY <2>2, FirstLine DEF RpcInv
    <3>2. \A j \in CallIds : pc[j] = "waiting" => j = i
      BY <1>7, CallNumbers DEF McpRead, RpcInv, RpcTypes, McpMutex
    <3>3. Head(lines).of = i /\ i \in served
      BY <1>7, <3>1, <3>2 DEF McpRead, RpcInv, OnLines, ServedWereSent
    <3> QED
      BY <1>7, <2>2, <3>1, <3>3, AnswerRefines DEF McpRead, Promise!Next
  <2> QED
    BY <1>7, <2>1, <2>2 DEF McpRead, McpEnd
<1>8. ASSUME ReaderStep PROVE UNCHANGED Promise!vars
  BY <1>8, Stutters DEF ReaderStep, ListenRead, ListenDeliver, ListenReturns, ListenFails,
     Reconnect, CoreTop, CoreRead, CoreEof, callVars, farVars
<1>9. ASSUME StopStep \/ Vanish PROVE UNCHANGED Promise!vars
  BY <1>9, Stutters DEF StopStep, StopCancel, StopPending, StopConn, CoreStop, CoreWaited,
     McpStop, Vanish, callVars, farVars
<1>10. ASSUME Serve PROVE Promise!Next
  <2>1. wire # <<>> /\ wire \in Seq(Requests) /\ QueueOf(wire, OnWire)
    BY <1>10 DEF Serve, RpcInv, RpcTypes, StreamInv
  <2>2. Head(wire).of \in OnWire
    BY <2>1, QueueTail
  <2>3. Head(wire).of \in CallIds /\ Head(wire).of \in (1 .. next) \ served
    BY <2>2, CallNumbers DEF OnWire, RpcInv, RpcTypes, CallsInOrder
  <2>4. served' = served \union {Head(wire).of} /\ UNCHANGED <<next, outcome>>
    BY <1>10 DEF Serve, callVars
  <2>5. Promise!Serve(Head(wire).of)
    BY <2>3, <2>4 DEF Promise!Serve, AbstractOutcome
  <2> QED
    BY <2>3, <2>5 DEF Promise!Next
<1>11. CASE UNCHANGED rpcVars
  BY <1>11, Stutters DEF rpcVars, callVars, farVars
<1> QED
  BY <1>1, <1>2, <1>3, <1>4, <1>5, <1>6, <1>7, <1>8, <1>9, <1>10, <1>11 DEF RpcNext, CallStep

\* Whatever is late, lost or closed, each call of the three clients ends at most
\* once, with the answer to that very call or a failure, and is performed at
\* most once: the table of onebot.go and proxy.go and the mutex of
\* mcp_client.go never give one caller the answer of another.
THEOREM RpcImplementsCalls == RpcSpec => ImplementsCalls
<1>1. RpcInit => Promise!Init
  <2> SUFFICES ASSUME RpcInit PROVE Promise!Init
    OBVIOUS
  <2>1. 1 .. next = {}
    <3>1. next = 0
      BY DEF RpcInit
    <3> QED
      BY <3>1
  <2>2. \A i \in CallIds : AbstractOutcome(i) = "none"
    BY DEF RpcInit, AbstractOutcome, Pending
  <2> QED
    BY <2>1, <2>2 DEF RpcInit, Promise!Init
<1> QED
  BY <1>1, RpcStepRefines, RpcInvariant, PTL DEF RpcSpec, Promise!Spec, ImplementsCalls
-----------------------------------------------------------------------------
\* The inductive invariant of Sockets.

DialSteps == {"off", "wait", "dialing", "dialed", "stored", "accepted"}

\* The part of the types that the argument uses.
SocketTypes ==
  /\ reconnects \in BOOLEAN /\ running \in BOOLEAN /\ done \in BOOLEAN
  /\ sock \in [Socks -> {"none", "open", "lost", "ended", "closed"}]
  /\ cur \in Socks \union {0} /\ taken \in Socks \union {0}
  /\ readers \subseteq Socks /\ members \subseteq Socks /\ late \subseteq Socks
  /\ dialer \in [at : DialSteps, sock : Socks \union {0}]
  /\ dialer.at \in {"dialed", "stored", "accepted"} <=> dialer.sock # 0

\* Before Start has succeeded there is nothing.
BeforeStart ==
  stopping = "no" /\ ~running =>
    /\ dialer = Off /\ cur = 0 /\ readers = {} /\ members = {}
    /\ \A n \in Socks : sock[n] = "none"

\* Somebody is responsible for every open connection: it is in the field, among
\* the devices, in the hands of Stop or of the goroutine that has just made it,
\* or it was put in place behind Stop's back.
OpenIsHeld ==
  \A n \in Socks : sock[n] = "open" =>
    \/ n \in late \/ cur = n \/ taken = n \/ n \in members
    \/ dialer.sock = n /\ dialer.at \in {"dialed", "accepted"}

\* How far Stop has come, and what it leaves. Only MaixCam has devices, and it
\* has no other connection.
StopProgress ==
  /\ IF adapter = "maixcam" THEN cur = 0 ELSE members = {}
  /\ stopping # "no" => ~running
  /\ taken # 0 => stopping = "taken"
  /\ stopping \in {"taken", "done"} /\ cur # 0 => cur \in late
  /\ stopping = "taken" => adapter = "xmpp"
  /\ stopping = "done" => members \subseteq late

\* What a dialer that is about to replace the connection may rely on: there is
\* none, or it is dead; XMPP's may also find the context done, and then its
\* dial fails.
DialerInv ==
  /\ dialer.at \in {"dialing", "dialed", "stored"} => adapter \in {"onebot", "xmpp"}
  /\ dialer.at = "accepted" => adapter = "maixcam"
  /\ adapter = "onebot" /\ dialer.at \in {"dialing", "dialed"} => cur = 0
  /\ adapter = "xmpp" /\ dialer.at \in {"wait", "dialing"} => cur = 0 \/ Dead(cur) \/ done
  /\ adapter = "xmpp" /\ dialer.at = "dialed" => cur = 0 \/ Dead(cur)

\* A running XMPP adapter reads at most the connection in the field, and none
\* while it reconnects.
XmppReaders ==
  adapter = "xmpp" /\ running => readers \subseteq {cur} /\ (dialer.at # "off" => readers = {})

SocketsInv ==
  /\ SocketTypes /\ BeforeStart /\ OpenIsHeld /\ StopProgress /\ DialerInv /\ XmppReaders

\* No connection has the number 0.
LEMMA ZeroIsNoSocket == 0 \notin Socks /\ \A n \in Socks : n # 0
BY SocketsAssumption DEF Socks


\* Start of OneBot.
LEMMA KeepOneBotStart == ASSUME SocketsInv, OneBotStart PROVE SocketsInv'
<1> USE ZeroIsNoSocket DEF SocketsInv, OneBotStart, Connected, Unused, Wait, Off
<1>1. SocketTypes'
  <2>1. dialer' \in {Off, Wait}
    OBVIOUS
  <2>2. dialer' \in [at : DialSteps, sock : Socks \union {0}]
        /\ (dialer'.at \in {"dialed", "stored", "accepted"} <=> dialer'.sock # 0)
    BY <2>1 DEF Off, Wait, DialSteps
  <2>3. running' \in BOOLEAN
    BY DEF SocketTypes
  <2> QED
    BY <2>2, <2>3 DEF SocketTypes
<1>2. BeforeStart'
  BY DEF SocketTypes, DialSteps, Dead, Off, Wait, BeforeStart
<1>3. OpenIsHeld'
  BY DEF SocketTypes, DialSteps, Dead, Off, Wait, OpenIsHeld
<1>4. StopProgress'
  BY DEF SocketTypes, DialSteps, Dead, Off, Wait, StopProgress
<1>5. DialerInv'
  BY DEF SocketTypes, BeforeStart, Off, Wait, DialerInv
<1>6. XmppReaders'
  BY DEF SocketTypes, BeforeStart, Off, Wait, XmppReaders
<1> QED
  BY <1>1, <1>2, <1>3, <1>4, <1>5, <1>6

\* Start of XMPP.
LEMMA KeepXmppStart == ASSUME SocketsInv, XmppStart PROVE SocketsInv'
<1> USE ZeroIsNoSocket DEF SocketsInv, XmppStart, Connected, Unused
<1>1. SocketTypes'
  BY DEF SocketTypes, DialSteps, Off, Wait
<1>2. BeforeStart'
  BY DEF SocketTypes, DialSteps, Dead, Off, Wait, BeforeStart
<1>3. OpenIsHeld'
  BY DEF SocketTypes, DialSteps, Dead, Off, Wait, OpenIsHeld
<1>4. StopProgress'
  BY DEF SocketTypes, DialSteps, Dead, Off, Wait, StopProgress
<1>5. DialerInv'
  BY DEF SocketTypes, BeforeStart, Off, DialerInv
<1>6. XmppReaders'
  BY DEF SocketTypes, BeforeStart, Off, XmppReaders
<1> QED
  BY <1>1, <1>2, <1>3, <1>4, <1>5, <1>6

\* Start of WhatsApp.
LEMMA KeepWhatsAppStart == ASSUME SocketsInv, WhatsAppStart PROVE SocketsInv'
BY ZeroIsNoSocket DEF SocketsInv, SocketTypes, BeforeStart, OpenIsHeld, StopProgress, DialerInv, XmppReaders, DialSteps, Dead, WhatsAppStart, Connected, Unused

\* Start of MaixCam.
LEMMA KeepMaixCamStart == ASSUME SocketsInv, MaixCamStart PROVE SocketsInv'
BY ZeroIsNoSocket DEF SocketsInv, SocketTypes, BeforeStart, OpenIsHeld, StopProgress, DialerInv, XmppReaders, DialSteps, Dead, MaixCamStart, Wait, Off

\* reconnectLoop returns.
LEMMA KeepLoopReturns == ASSUME SocketsInv, LoopReturns PROVE SocketsInv'
BY ZeroIsNoSocket DEF SocketsInv, SocketTypes, BeforeStart, OpenIsHeld, StopProgress, DialerInv, XmppReaders, DialSteps, Dead, LoopReturns, Wait, Off

\* reconnectLoop dials.
LEMMA KeepDial == ASSUME SocketsInv, Dial PROVE SocketsInv'
<1> USE ZeroIsNoSocket DEF SocketsInv, Dial, Wait
<1>1. SocketTypes'
  BY DEF SocketTypes, DialSteps, Off, Wait
<1>2. BeforeStart'
  BY DEF SocketTypes, DialSteps, Dead, Off, Wait, BeforeStart
<1>3. OpenIsHeld'
  BY DEF SocketTypes, DialSteps, Dead, Off, Wait, OpenIsHeld
<1>4. StopProgress'
  BY DEF SocketTypes, DialSteps, Dead, Off, Wait, StopProgress
<1>5. DialerInv'
  BY DEF SocketTypes, DialSteps, Dead, Off, Wait, DialerInv
<1>6. XmppReaders'
  BY DEF SocketTypes, DialSteps, Dead, Off, Wait, XmppReaders
<1> QED
  BY <1>1, <1>2, <1>3, <1>4, <1>5, <1>6

\* The dial fails.
LEMMA KeepDialFails == ASSUME SocketsInv, DialFails PROVE SocketsInv'
<1> USE ZeroIsNoSocket DEF SocketsInv, DialFails, Wait
<1>1. SocketTypes'
  BY DEF SocketTypes, DialSteps, Off, Wait
<1>2. BeforeStart'
  BY DEF SocketTypes, DialSteps, Dead, Off, Wait, BeforeStart
<1>3. OpenIsHeld'
  BY DEF SocketTypes, DialSteps, Dead, Off, Wait, OpenIsHeld
<1>4. StopProgress'
  BY DEF SocketTypes, DialSteps, Dead, Off, Wait, StopProgress
<1>5. DialerInv'
  BY DEF SocketTypes, DialSteps, Dead, Off, Wait, DialerInv
<1>6. XmppReaders'
  BY DEF SocketTypes, DialSteps, Dead, Off, Wait, XmppReaders
<1> QED
  BY <1>1, <1>2, <1>3, <1>4, <1>5, <1>6

\* The dial succeeds.
LEMMA KeepDialSucceeds == ASSUME SocketsInv, DialSucceeds PROVE SocketsInv'
<1> USE ZeroIsNoSocket DEF SocketsInv, DialSucceeds, Unused
<1>1. SocketTypes'
  BY DEF SocketTypes, DialSteps, Off, Wait
<1>2. BeforeStart'
  BY DEF SocketTypes, DialSteps, Dead, Off, Wait, BeforeStart
<1>3. OpenIsHeld'
  BY DEF SocketTypes, DialSteps, Dead, Off, Wait, OpenIsHeld
<1>4. StopProgress'
  BY DEF SocketTypes, DialSteps, Dead, Off, Wait, StopProgress
<1>5. DialerInv'
  BY DEF SocketTypes, DialSteps, Dead, Off, Wait, DialerInv
<1>6. XmppReaders'
  BY DEF SocketTypes, DialSteps, Dead, Off, Wait, XmppReaders
<1> QED
  BY <1>1, <1>2, <1>3, <1>4, <1>5, <1>6

\* The new connection is stored: the one it replaces is dead.
LEMMA KeepStore == ASSUME SocketsInv, Store PROVE SocketsInv'
<1> USE ZeroIsNoSocket DEF SocketsInv, Store
<1>1. SocketTypes'
  BY DEF SocketTypes, DialSteps, Off, Wait
<1>2. BeforeStart'
  BY DEF SocketTypes, DialSteps, Dead, Off, Wait, BeforeStart
<1>3. OpenIsHeld'
  BY DEF SocketTypes, DialerInv, OpenIsHeld, Dead
<1>4. StopProgress'
  BY DEF SocketTypes, DialSteps, Dead, Off, Wait, StopProgress
<1>5. DialerInv'
  BY DEF SocketTypes, DialSteps, Dead, Off, Wait, DialerInv
<1>6. XmppReaders'
  BY DEF SocketTypes, DialSteps, Dead, Off, Wait, XmppReaders
<1> QED
  BY <1>1, <1>2, <1>3, <1>4, <1>5, <1>6

\* The new connection is read.
LEMMA KeepStartReader == ASSUME SocketsInv, StartReader PROVE SocketsInv'
BY ZeroIsNoSocket DEF SocketsInv, SocketTypes, BeforeStart, OpenIsHeld, StopProgress, DialerInv, XmppReaders, DialSteps, Dead, StartReader, Wait, Off

\* MaixCam accepts a device.
LEMMA KeepAccept == ASSUME SocketsInv, Accept PROVE SocketsInv'
<1> USE ZeroIsNoSocket DEF SocketsInv, Accept, Unused, Wait
<1>1. SocketTypes'
  BY DEF SocketTypes, DialSteps, Off, Wait
<1>2. BeforeStart'
  BY DEF SocketTypes, DialSteps, Dead, Off, Wait, BeforeStart
<1>3. OpenIsHeld'
  BY DEF SocketTypes, DialSteps, Dead, Off, Wait, OpenIsHeld
<1>4. StopProgress'
  BY DEF SocketTypes, DialSteps, Dead, Off, Wait, StopProgress
<1>5. DialerInv'
  BY DEF SocketTypes, DialSteps, Dead, Off, Wait, DialerInv
<1>6. XmppReaders'
  BY DEF SocketTypes, DialSteps, Dead, Off, Wait, XmppReaders
<1> QED
  BY <1>1, <1>2, <1>3, <1>4, <1>5, <1>6

\* The device is added to the clients.
LEMMA KeepAddClient == ASSUME SocketsInv, AddClient PROVE SocketsInv'
<1> USE ZeroIsNoSocket DEF SocketsInv, AddClient, Wait
<1>1. SocketTypes'
  BY DEF SocketTypes, DialSteps, Off, Wait
<1>2. BeforeStart'
  BY DEF SocketTypes, DialSteps, Dead, Off, Wait, BeforeStart
<1>3. OpenIsHeld'
  BY DEF SocketTypes, DialSteps, Dead, Off, Wait, OpenIsHeld
<1>4. StopProgress'
  BY DEF SocketTypes, DialerInv, StopProgress
<1>5. DialerInv'
  BY DEF SocketTypes, DialSteps, Dead, Off, Wait, DialerInv
<1>6. XmppReaders'
  BY DEF SocketTypes, DialerInv, XmppReaders
<1> QED
  BY <1>1, <1>2, <1>3, <1>4, <1>5, <1>6

\* The acceptor returns.
LEMMA KeepAcceptFails == ASSUME SocketsInv, AcceptFails PROVE SocketsInv'
BY ZeroIsNoSocket DEF SocketsInv, SocketTypes, BeforeStart, OpenIsHeld, StopProgress, DialerInv, XmppReaders, DialSteps, Dead, AcceptFails, Wait, Off

\* A connection breaks.
LEMMA KeepLose == ASSUME SocketsInv, NEW n \in Socks, Lose(n) PROVE SocketsInv'
BY ZeroIsNoSocket DEF SocketsInv, SocketTypes, BeforeStart, OpenIsHeld, StopProgress, DialerInv, XmppReaders, DialSteps, Dead, Lose

\* listen of OneBot fails.
LEMMA KeepOneBotReadFails == ASSUME SocketsInv, NEW n \in Socks, OneBotReadFails(n) PROVE SocketsInv'
BY ZeroIsNoSocket DEF SocketsInv, SocketTypes, BeforeStart, OpenIsHeld, StopProgress, DialerInv, XmppReaders, DialSteps, Dead, OneBotReadFails

\* Serve of XMPP returns.
LEMMA KeepXmppServeReturns == ASSUME SocketsInv, NEW n \in Socks, XmppServeReturns(n) PROVE SocketsInv'
BY ZeroIsNoSocket DEF SocketsInv, SocketTypes, BeforeStart, OpenIsHeld, StopProgress, DialerInv, XmppReaders, DialSteps, Dead, XmppServeReturns, Wait

\* listen of WhatsApp fails.
LEMMA KeepWhatsAppReadFails == ASSUME SocketsInv, NEW n \in Socks, WhatsAppReadFails(n) PROVE SocketsInv'
BY ZeroIsNoSocket DEF SocketsInv, SocketTypes, BeforeStart, OpenIsHeld, StopProgress, DialerInv, XmppReaders, DialSteps, Dead, WhatsAppReadFails

\* The handler of a device ends.
LEMMA KeepMaixCamReadFails == ASSUME SocketsInv, NEW n \in Socks, MaixCamReadFails(n) PROVE SocketsInv'
BY ZeroIsNoSocket DEF SocketsInv, SocketTypes, BeforeStart, OpenIsHeld, StopProgress, DialerInv, XmppReaders, DialSteps, Dead, MaixCamReadFails

\* A reader finds the context done.
LEMMA KeepReaderSeesDone == ASSUME SocketsInv, NEW n \in Socks, ReaderSeesDone(n) PROVE SocketsInv'
BY ZeroIsNoSocket DEF SocketsInv, SocketTypes, BeforeStart, OpenIsHeld, StopProgress, DialerInv, XmppReaders, DialSteps, Dead, ReaderSeesDone, Wait

\* The context is canceled.
LEMMA KeepCancel == ASSUME SocketsInv, Cancel PROVE SocketsInv'
BY ZeroIsNoSocket DEF SocketsInv, SocketTypes, BeforeStart, OpenIsHeld, StopProgress, DialerInv, XmppReaders, DialSteps, Dead, Cancel

\* Stop clears running.
LEMMA KeepStopFlag == ASSUME SocketsInv, StopFlag PROVE SocketsInv'
BY ZeroIsNoSocket DEF SocketsInv, SocketTypes, BeforeStart, OpenIsHeld, StopProgress, DialerInv, XmppReaders, DialSteps, Dead, StopFlag

\* Stop of OneBot closes the connection in the field.
LEMMA KeepOneBotStop == ASSUME SocketsInv, OneBotStop PROVE SocketsInv'
<1> USE ZeroIsNoSocket DEF SocketsInv, OneBotStop
<1>1. SocketTypes'
  BY DEF SocketTypes, DialSteps, Off, Wait
<1>2. BeforeStart'
  BY DEF SocketTypes, DialSteps, Dead, Off, Wait, BeforeStart
<1>3. OpenIsHeld'
  BY DEF SocketTypes, DialSteps, Dead, Off, Wait, OpenIsHeld
<1>4. StopProgress'
  BY DEF SocketTypes, DialSteps, Dead, Off, Wait, StopProgress
<1>5. DialerInv'
  BY DEF SocketTypes, DialSteps, Dead, Off, Wait, DialerInv
<1>6. XmppReaders'
  BY DEF SocketTypes, DialSteps, Dead, Off, Wait, XmppReaders
<1> QED
  BY <1>1, <1>2, <1>3, <1>4, <1>5, <1>6

\* Stop of XMPP takes the session from the field.
LEMMA KeepXmppTake == ASSUME SocketsInv, XmppTake PROVE SocketsInv'
BY ZeroIsNoSocket DEF SocketsInv, SocketTypes, BeforeStart, OpenIsHeld, StopProgress, DialerInv, XmppReaders, DialSteps, Dead, XmppTake

\* Stop of XMPP closes the session it has taken.
LEMMA KeepXmppClose == ASSUME SocketsInv, XmppClose PROVE SocketsInv'
<1> USE ZeroIsNoSocket DEF SocketsInv, XmppClose
<1>1. SocketTypes'
  BY DEF SocketTypes, DialSteps, Off, Wait
<1>2. BeforeStart'
  BY DEF SocketTypes, DialSteps, Dead, Off, Wait, BeforeStart
<1>3. OpenIsHeld'
  BY DEF SocketTypes, DialSteps, Dead, Off, Wait, OpenIsHeld
<1>4. StopProgress'
  BY DEF SocketTypes, DialSteps, Dead, Off, Wait, StopProgress
<1>5. DialerInv'
  BY DEF SocketTypes, DialSteps, Dead, Off, Wait, DialerInv
<1>6. XmppReaders'
  BY DEF SocketTypes, DialSteps, Dead, Off, Wait, XmppReaders
<1> QED
  BY <1>1, <1>2, <1>3, <1>4, <1>5, <1>6

\* Stop of WhatsApp.
LEMMA KeepWhatsAppStop == ASSUME SocketsInv, WhatsAppStop PROVE SocketsInv'
<1> USE ZeroIsNoSocket DEF SocketsInv, WhatsAppStop
<1>1. SocketTypes'
  BY DEF SocketTypes, DialSteps, Off, Wait
<1>2. BeforeStart'
  BY DEF SocketTypes, DialSteps, Dead, Off, Wait, BeforeStart
<1>3. OpenIsHeld'
  BY DEF SocketTypes, DialSteps, Dead, Off, Wait, OpenIsHeld
<1>4. StopProgress'
  BY DEF SocketTypes, DialSteps, Dead, Off, Wait, StopProgress
<1>5. DialerInv'
  BY DEF SocketTypes, DialSteps, Dead, Off, Wait, DialerInv
<1>6. XmppReaders'
  BY DEF SocketTypes, DialSteps, Dead, Off, Wait, XmppReaders
<1> QED
  BY <1>1, <1>2, <1>3, <1>4, <1>5, <1>6

\* Stop of MaixCam closes every device.
LEMMA KeepMaixCamStop == ASSUME SocketsInv, MaixCamStop PROVE SocketsInv'
<1> USE ZeroIsNoSocket DEF SocketsInv, MaixCamStop
<1>1. SocketTypes'
  BY DEF SocketTypes, DialSteps, Off, Wait
<1>2. BeforeStart'
  BY DEF SocketTypes, DialSteps, Dead, Off, Wait, BeforeStart
<1>3. OpenIsHeld'
  BY DEF SocketTypes, DialSteps, Dead, Off, Wait, OpenIsHeld
<1>4. StopProgress'
  BY DEF SocketTypes, DialSteps, Dead, Off, Wait, StopProgress
<1>5. DialerInv'
  BY DEF SocketTypes, DialSteps, Dead, Off, Wait, DialerInv
<1>6. XmppReaders'
  BY DEF SocketTypes, DialSteps, Dead, Off, Wait, XmppReaders
<1> QED
  BY <1>1, <1>2, <1>3, <1>4, <1>5, <1>6

\* Sending and hearing messages leave the connections alone.
LEMMA KeepMessages ==
  ASSUME SocketsInv, UNCHANGED <<adapter, reconnects, running, done, stopping, sock, cur, taken,
                                 readers, members, dialer, late>>
  PROVE  SocketsInv'
BY DEF SocketsInv, SocketTypes, BeforeStart, OpenIsHeld, StopProgress, DialerInv, XmppReaders, Dead

\* The initial states satisfy the invariant.
LEMMA SocketsInitInv == SocketsInit => SocketsInv
<1> SUFFICES ASSUME SocketsInit PROVE SocketsInv
  OBVIOUS
<1>1. reconnects \in BOOLEAN
  BY DEF SocketsInit
<1>2. SocketTypes
  BY <1>1, ZeroIsNoSocket DEF SocketsInit, SocketTypes, Off, DialSteps
<1>3. BeforeStart /\ OpenIsHeld /\ StopProgress /\ DialerInv /\ XmppReaders
  BY DEF SocketsInit, BeforeStart, OpenIsHeld, StopProgress, DialerInv, XmppReaders, Off
<1> QED
  BY <1>2, <1>3 DEF SocketsInv

\* So does every state a step leads to.
LEMMA SocketsNextInv == SocketsInv /\ [SocketsNext]_sockVars => SocketsInv'
<1> SUFFICES ASSUME SocketsInv, [SocketsNext]_sockVars PROVE SocketsInv'
  OBVIOUS
<1>1. CASE StartStep
  BY <1>1, KeepOneBotStart, KeepXmppStart, KeepWhatsAppStart, KeepMaixCamStart DEF StartStep
<1>2. CASE DialStep
  BY <1>2, KeepLoopReturns, KeepDial, KeepDialFails, KeepDialSucceeds, KeepStore, KeepStartReader
     DEF DialStep
<1>3. CASE AcceptStep
  BY <1>3, KeepAccept, KeepAddClient, KeepAcceptFails DEF AcceptStep
<1>4. CASE ShutStep
  BY <1>4, KeepCancel, KeepStopFlag, KeepOneBotStop, KeepXmppTake, KeepXmppClose,
     KeepWhatsAppStop, KeepMaixCamStop DEF ShutStep
<1>5. ASSUME NEW n \in Socks, Lose(n) \/ ReadStep(n) PROVE SocketsInv'
  BY <1>5, KeepLose, KeepOneBotReadFails, KeepXmppServeReturns, KeepWhatsAppReadFails,
     KeepMaixCamReadFails, KeepReaderSeesDone DEF ReadStep
<1>6. CASE Reply
  BY <1>6, KeepMessages DEF Reply, XmppSend, WhatsAppSend, MaixCamSend, Said
<1>7. ASSUME NEW n \in Socks, MessageStep(n) PROVE SocketsInv'
  BY <1>7, KeepMessages DEF MessageStep, XmppDirect, XmppRoom, WhatsAppMessage, MaixCamDetection, Hears
<1>8. CASE UNCHANGED sockVars
  BY <1>8, KeepMessages DEF sockVars
<1> QED
  BY <1>1, <1>2, <1>3, <1>4, <1>5, <1>6, <1>7, <1>8 DEF SocketsNext

\* The invariant holds in every state of the four adapters, for any number of
\* connections.
THEOREM SocketsInvariant == SocketsSpec => []SocketsInv
BY SocketsInitInv, SocketsNextInv, PTL DEF SocketsSpec

\* After Stop of onebot.go, xmpp.go, whatsapp.go or maixcam.go a connection is
\* open only if reconnectLoop or the acceptor put it in place after Stop had
\* begun, or is about to.
THEOREM SocketsClosedByStop == SocketsSpec => []LeftOpenOnlyByRace
<1>1. SocketsInv => LeftOpenOnlyByRace
  BY ZeroIsNoSocket DEF SocketsInv, LeftOpenOnlyByRace, SocketTypes, OpenIsHeld, StopProgress
<1> QED
  BY <1>1, SocketsInvariant, PTL
=============================================================================

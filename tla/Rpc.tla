--------------------------------- MODULE Rpc ---------------------------------
\* The three clients of the program that call another process over a stream:
\*   "onebot"  pkg/channels/onebot.go: API calls with an echo over the
\*             WebSocket on which events arrive too, each with a timeout;
\*   "core"    pkg/core/proxy.go: JSON-RPC to the child process tinyclaw-core,
\*             each call with its caller's context;
\*   "mcp"     pkg/tools/mcp_client.go: JSON-RPC to an MCP server, one call at
\*             a time under the client's mutex, answers matched by order.
\* The first two keep a table from the id of a request to the channel its
\* caller waits on; a reader goroutine looks answers up in it. Which client a
\* behaviour is about is chosen in the initial state.
EXTENDS Naturals, Sequences, FiniteSetsExt, Functions

CONSTANTS
  Clients,    \* the clients to consider, a subset of {"onebot", "core", "mcp"}
  MaxCalls,   \* bound: calls made in a behaviour
  Limit,      \* the same bound for each client, at most MaxCalls
  MaxConns,   \* bound: connections OneBot makes
  Prefixes    \* prefixes RegisterMCPServer is called with, "" for none

ASSUME RpcAssumption ==
  /\ Clients \subseteq {"onebot", "core", "mcp"}
  /\ MaxCalls \in Nat \ {0} /\ MaxConns \in Nat \ {0}
  /\ Limit \in [Clients -> 1 .. MaxCalls]

VARIABLES
  client,     \* which client
  prefix,     \* MCP: the prefix its tools are registered with
  next,       \* calls made so far; also the id counter
  pc,         \* of each call: "new", "registered", "waiting", "leaving", "done"
  tag,        \* of each call: the id its request carries
  conn,       \* OneBot: the connection a call took at its start
  expired,    \* calls whose timeout has passed or whose context is done
  table,      \* pending / callbacks: id to the call whose channel it holds
  chan,       \* of each call: its channel, of capacity one
  outcome,    \* of each call: what it returned
  wire,       \* requests written and not yet read by the other side
  lines,      \* what the other side has written and nobody has read
  served,     \* calls the other side has performed
  link,       \* the connection the client holds, 0 for none
  alive,      \* whether the other side is still there
  reader,     \* the reader goroutine
  mu,         \* the mutex of "core" and "mcp": 0, a call, or Owner
  phase,      \* MCP: how far Start has come
  stop,       \* how far Stop has come
  crashed     \* a send on a closed channel, or a second close

callVars == <<pc, tag, conn, expired, chan, outcome, next>>
farVars  == <<wire, lines, served, alive>>
rpcVars  == <<client, prefix, callVars, table, farVars, link, reader, mu, phase, stop, crashed>>
-----------------------------------------------------------------------------
CallIds == 1 .. MaxCalls
Owner   == MaxCalls + 1                      \* Start or Stop holds the mutex
IsNext(i) == i = next + 1 /\ i <= Limit[client]
NoReply == [tag |-> 0, of |-> 0, kind |-> "none"]
Replies == [tag : 0 .. MaxCalls, of : 0 .. MaxCalls, kind : {"none", "result", "error", "junk"}]
Pending == [kind |-> "none", of |-> 0]
Failure == [kind |-> "failed", of |-> 0]
Answer(m) == [kind |-> "answered", of |-> m.of]
Fresh   == [closed |-> FALSE, buf |-> NoReply]
Idle    == [pc |-> "read", reply |-> NoReply, to |-> 0]

\* The connected client: after connect (OneBot), after Start (core), and after
\* the MCP server's process has been started, inside Start.
RpcInit ==
  /\ client \in Clients
  /\ prefix \in IF client = "mcp" THEN Prefixes ELSE {""}
  /\ next = 0
  /\ pc = [i \in CallIds |-> "new"]
  /\ tag = [i \in CallIds |-> 0]
  /\ conn = [i \in CallIds |-> 0]
  /\ expired = {}
  /\ table = <<>>
  /\ chan = [i \in CallIds |-> Fresh]
  /\ outcome = [i \in CallIds |-> Pending]
  /\ wire = <<>> /\ lines = <<>> /\ served = {}
  /\ link = 1 /\ alive = TRUE
  /\ reader = IF client = "core" THEN [Idle EXCEPT !.pc = "top"] ELSE Idle
  /\ mu = IF client = "mcp" THEN Owner ELSE 0
  /\ phase = IF client = "mcp" THEN "initialize" ELSE "ready"
  /\ stop = "no"
  /\ crashed = FALSE
-----------------------------------------------------------------------------
\* Calls through a table of channels (OneBot and the core proxy).

\* Mutant: the counter is read and never raised.
NextIdStuck == 1

\* The id of a request is a counter nobody else has (the echo adds the time).
NextId == next + 1

Register(i) ==
  /\ tag' = [tag EXCEPT ![i] = NextId]
  /\ table' = [t \in DOMAIN table \union {NextId} |-> IF t = NextId THEN i ELSE table[t]]
  /\ pc' = [pc EXCEPT ![i] = "registered"]

\* sendAPIRequest without a connection returns at once.
OneBotCall(i) ==
  /\ client = "onebot" /\ IsNext(i)
  /\ next' = i
  /\ IF link = 0
       THEN /\ pc' = [pc EXCEPT ![i] = "done"]
            /\ outcome' = [outcome EXCEPT ![i] = Failure]
            /\ UNCHANGED <<tag, table, conn>>
       ELSE /\ Register(i)
            /\ conn' = [conn EXCEPT ![i] = link]
            /\ UNCHANGED outcome
  /\ UNCHANGED <<client, prefix, expired, chan, farVars, link, reader, mu, phase, stop, crashed>>

CoreCall(i) ==
  /\ client = "core" /\ IsNext(i)
  /\ next' = i
  /\ Register(i)
  /\ UNCHANGED <<client, prefix, conn, expired, chan, outcome, farVars, link, reader, mu, phase, stop, crashed>>

\* The call is over for its caller; the deferred delete is still to come.
Leave(i, what) ==
  /\ pc' = [pc EXCEPT ![i] = "leaving"]
  /\ outcome' = [outcome EXCEPT ![i] = what]

\* conn.WriteMessage: an error on a closed connection; on one whose other side
\* is gone the request may also vanish. sendRequest: an error once stdin is
\* closed or the process has exited; it waits for the mutex Stop holds.
Write(i) ==
  /\ client \in {"onebot", "core"} /\ pc[i] = "registered"
  /\ client = "core" => mu = 0
  /\ \/ /\ IF client = "onebot" THEN conn[i] # link \/ ~alive ELSE ~alive \/ stop # "no"
        /\ Leave(i, Failure)
        /\ UNCHANGED wire
     \/ /\ IF client = "onebot" THEN conn[i] = link ELSE alive /\ stop = "no"
        /\ wire' = IF alive THEN Append(wire, [tag |-> tag[i], of |-> i]) ELSE wire
        /\ pc' = [pc EXCEPT ![i] = "waiting"]
        /\ UNCHANGED outcome
  /\ UNCHANGED <<client, prefix, next, tag, conn, expired, chan, table, lines, served, alive, link, reader, mu, phase, stop, crashed>>

\* A closed channel yields nil: no answer for fetchSelfID, which cannot parse
\* it, and an unmarshalling error in ProcessMessage.
Receive(i) ==
  /\ client \in {"onebot", "core"} /\ pc[i] = "waiting"
  /\ \/ chan[i].buf # NoReply /\ Leave(i, Answer(chan[i].buf))
     \/ chan[i].buf = NoReply /\ chan[i].closed /\ Leave(i, Failure)
  /\ UNCHANGED <<client, prefix, next, tag, conn, expired, chan, table, farVars, link, reader, mu, phase, stop, crashed>>

\* The caller's context, or the timer of the select.
Expire(i) ==
  /\ pc[i] = "waiting" \/ (client = "core" /\ pc[i] = "registered")
  /\ client \in {"onebot", "core"} /\ i \notin expired
  /\ expired' = expired \union {i}
  /\ UNCHANGED <<client, prefix, pc, tag, conn, chan, outcome, next, table, farVars, link, reader, mu, phase, stop, crashed>>

\* Mutant: the select has no case for the context.
GiveUpAtStop(i) ==
  /\ client \in {"onebot", "core"} /\ pc[i] = "waiting"
  /\ client = "onebot" /\ (i \in expired \/ stop # "no")
  /\ Leave(i, Failure)
  /\ UNCHANGED <<client, prefix, next, tag, conn, expired, chan, table, farVars, link, reader, mu, phase, stop, crashed>>

GiveUp(i) ==
  /\ client \in {"onebot", "core"} /\ pc[i] = "waiting"
  /\ i \in expired \/ (client = "onebot" /\ stop # "no")
  /\ Leave(i, Failure)
  /\ UNCHANGED <<client, prefix, next, tag, conn, expired, chan, table, farVars, link, reader, mu, phase, stop, crashed>>

\* Mutant: the deferred function also closes the channel.
ForgetCloses(i) ==
  /\ pc[i] = "leaving"
  /\ table' = Restrict(table, DOMAIN table \ {tag[i]})
  /\ chan' = [chan EXCEPT ![i].closed = TRUE]
  /\ pc' = [pc EXCEPT ![i] = "done"]
  /\ UNCHANGED <<client, prefix, next, tag, conn, expired, outcome, farVars, link, reader, mu, phase, stop, crashed>>

Forget(i) ==
  /\ pc[i] = "leaving"
  /\ table' = Restrict(table, DOMAIN table \ {tag[i]})
  /\ pc' = [pc EXCEPT ![i] = "done"]
  /\ UNCHANGED <<client, prefix, next, tag, conn, expired, chan, outcome, farVars, link, reader, mu, phase, stop, crashed>>
-----------------------------------------------------------------------------
\* The reader goroutines.

Lookup(m) == IF m.tag \in DOMAIN table THEN table[m.tag] ELSE 0

\* listen: the lookup is under pendingMu, the send after it is not. Once the
\* context is done it may return at the top of its loop.
ListenRead ==
  /\ client = "onebot" /\ reader.pc = "read" /\ link # 0 /\ lines # <<>>
  /\ LET m == Head(lines) IN
       reader' = IF m.kind = "junk" \/ Lookup(m) = 0
                   THEN Idle
                   ELSE [pc |-> "deliver", reply |-> m, to |-> Lookup(m)]
  /\ lines' = Tail(lines)
  /\ UNCHANGED <<client, prefix, callVars, table, wire, served, alive, link, mu, phase, stop, crashed>>

\* A send that does not block: a full channel drops the answer.
ListenDeliver ==
  /\ reader.pc = "deliver"
  /\ IF chan[reader.to].closed
       THEN crashed' = TRUE /\ UNCHANGED chan
       ELSE /\ chan' = IF chan[reader.to].buf = NoReply
                         THEN [chan EXCEPT ![reader.to].buf = reader.reply]
                         ELSE chan
            /\ UNCHANGED crashed
  /\ reader' = Idle
  /\ UNCHANGED <<client, prefix, pc, tag, conn, expired, outcome, next, table, farVars, link, mu, phase, stop>>

ListenReturns ==
  /\ client = "onebot" /\ reader.pc = "read" /\ stop # "no"
  /\ reader' = [reader EXCEPT !.pc = "exit"]
  /\ UNCHANGED <<client, prefix, callVars, table, farVars, link, mu, phase, stop, crashed>>

\* A read error: the connection is dropped unless Stop has done it.
ListenFails ==
  /\ client = "onebot" /\ reader.pc = "read" /\ ~alive
  /\ reader' = [reader EXCEPT !.pc = "exit"]
  /\ link' = 0
  /\ lines' = <<>>
  /\ UNCHANGED <<client, prefix, callVars, table, wire, served, alive, mu, phase, stop, crashed>>

Reconnect ==
  /\ client = "onebot" /\ link = 0 /\ stop = "no" /\ reader.pc = "exit"
  /\ link' = 1 + Max(Range(conn))           \* calls of earlier ones know it
  /\ link' <= MaxConns
  /\ alive' = TRUE
  /\ reader' = Idle
  /\ UNCHANGED <<client, prefix, callVars, table, wire, lines, served, mu, phase, stop, crashed>>

\* readResponses: lookup and delivery in one critical section of callbackMu; an
\* error answer closes the channel, a result waits for room in it.
CoreTop ==
  /\ client = "core" /\ reader.pc = "top" /\ mu = 0
  /\ reader' = [reader EXCEPT !.pc = IF stop = "no" THEN "read" ELSE "exit"]
  /\ UNCHANGED <<client, prefix, callVars, table, farVars, link, mu, phase, stop, crashed>>

CoreDeliver(m, i) ==
  IF m.kind = "error"
    THEN /\ crashed' = (crashed \/ chan[i].closed)
         /\ chan' = [chan EXCEPT ![i].closed = TRUE]
    ELSE /\ chan[i].buf = NoReply
         /\ crashed' = (crashed \/ chan[i].closed)
         /\ chan' = [chan EXCEPT ![i].buf = m]

CoreRead ==
  /\ client = "core" /\ reader.pc = "read" /\ lines # <<>>
  /\ LET m == Head(lines) IN
       IF m.kind = "junk" \/ Lookup(m) = 0
         THEN UNCHANGED <<chan, crashed>>
         ELSE CoreDeliver(m, Lookup(m))
  /\ lines' = Tail(lines)
  /\ reader' = [reader EXCEPT !.pc = "top"]
  /\ UNCHANGED <<client, prefix, pc, tag, conn, expired, outcome, next, table, wire, served, alive, link, mu, phase, stop>>

\* End of file: the reader returns, running stays true and nobody is told.
CoreEof ==
  /\ client = "core" /\ reader.pc = "read" /\ lines = <<>> /\ ~alive
  /\ reader' = [reader EXCEPT !.pc = "exit"]
  /\ UNCHANGED <<client, prefix, callVars, table, farVars, link, mu, phase, stop, crashed>>
-----------------------------------------------------------------------------
\* MCP: one call at a time.

\* A proxy asks its client for the name it is registered under; the client
\* knows the server's own names.
ProxyKnown == prefix = ""

\* Execute, first half: the tool must be known, which takes the mutex.
McpExecute(i) ==
  /\ client = "mcp" /\ IsNext(i) /\ mu = 0
  /\ next' = i
  /\ IF phase = "ready" /\ ProxyKnown
       THEN pc' = [pc EXCEPT ![i] = "registered"] /\ UNCHANGED outcome
       ELSE /\ pc' = [pc EXCEPT ![i] = "done"]
            /\ outcome' = [outcome EXCEPT ![i] = Failure]
  /\ UNCHANGED <<client, prefix, tag, conn, expired, chan, table, farVars, link, reader, mu, phase, stop, crashed>>

\* Start: initialize, then tools/list, under the mutex from beginning to end.
McpStartCall(i) ==
  /\ client = "mcp" /\ IsNext(i) /\ mu = Owner /\ phase # "ready"
  /\ \A j \in CallIds : pc[j] \in {"new", "done"}
  /\ next' = i
  /\ pc' = [pc EXCEPT ![i] = "registered"]
  /\ UNCHANGED <<client, prefix, tag, conn, expired, chan, outcome, table, farVars, link, reader, mu, phase, stop, crashed>>

\* A call of Start that fails stops the process; its last one ends Start.
McpEnd(i, what) ==
  /\ pc' = [pc EXCEPT ![i] = "done"]
  /\ outcome' = [outcome EXCEPT ![i] = what]
  /\ mu' = IF mu = Owner /\ phase = "initialize" /\ what # Failure THEN mu ELSE 0
  /\ IF mu # Owner
       THEN UNCHANGED <<phase, link, alive, wire>>
       ELSE IF what = Failure
         THEN phase' = "failed" /\ link' = 0 /\ alive' = FALSE /\ wire' = <<>>
         ELSE /\ phase' = IF phase = "initialize" THEN "list" ELSE "ready"
              /\ UNCHANGED <<link, alive, wire>>

McpWrite(i) ==
  /\ client = "mcp" /\ pc[i] = "registered"
  /\ mu = 0 \/ (mu = Owner /\ phase # "ready")
  /\ IF link = 0 \/ ~alive
       THEN McpEnd(i, Failure) /\ UNCHANGED tag
       ELSE /\ tag' = [tag EXCEPT ![i] = i]
            /\ wire' = Append(wire, [tag |-> i, of |-> i])
            /\ pc' = [pc EXCEPT ![i] = "waiting"]
            /\ mu' = IF mu = Owner THEN mu ELSE i
            /\ UNCHANGED <<outcome, phase, link, alive>>
  /\ UNCHANGED <<client, prefix, next, conn, expired, chan, table, lines, served, reader, stop, crashed>>

\* The next line is the answer, whatever its id.
McpRead(i) ==
  /\ client = "mcp" /\ pc[i] = "waiting" /\ mu \in {i, Owner}
  /\ \/ /\ lines # <<>>
        /\ McpEnd(i, IF Head(lines).kind = "result" THEN Answer(Head(lines)) ELSE Failure)
        /\ lines' = Tail(lines)
     \/ /\ lines = <<>> /\ ~alive
        /\ McpEnd(i, Failure)
        /\ UNCHANGED lines
  /\ UNCHANGED <<client, prefix, next, tag, conn, expired, chan, table, served, reader, stop, crashed>>

McpStop ==
  /\ client = "mcp" /\ mu = 0 /\ stop = "no"
  /\ stop' = "done"
  /\ link' = 0 /\ alive' = FALSE /\ wire' = <<>> /\ lines' = <<>>
  /\ UNCHANGED <<client, prefix, callVars, table, served, reader, mu, phase, crashed>>
-----------------------------------------------------------------------------
\* Stop. OneBot cancels the context, closes the channels of pending calls, and
\* closes the connection, in that order; the core proxy closes stdin and waits
\* for the process to exit, holding the mutex.

StopCancel ==
  /\ client = "onebot" /\ stop = "no"
  /\ stop' = "cancelled"
  /\ UNCHANGED <<client, prefix, callVars, table, farVars, link, reader, mu, phase, crashed>>

StopPending ==
  /\ client = "onebot" /\ stop = "cancelled"
  /\ stop' = "closed"
  /\ chan' = [i \in CallIds |-> IF i \in Range(table) THEN [chan[i] EXCEPT !.closed = TRUE] ELSE chan[i]]
  /\ table' = <<>>
  /\ UNCHANGED <<client, prefix, pc, tag, conn, expired, outcome, next, farVars, link, reader, mu, phase, crashed>>

StopConn ==
  /\ client = "onebot" /\ stop = "closed"
  /\ stop' = "done"
  /\ link' = 0 /\ alive' = FALSE /\ wire' = <<>> /\ lines' = <<>>
  /\ UNCHANGED <<client, prefix, callVars, table, served, reader, mu, phase, crashed>>

CoreStop ==
  /\ client = "core" /\ stop = "no" /\ mu = 0
  /\ stop' = "waiting"
  /\ mu' = Owner
  /\ UNCHANGED <<client, prefix, callVars, table, farVars, link, reader, phase, crashed>>

\* Wait returns and closes the pipe: what has not been read is lost.
CoreWaited ==
  /\ client = "core" /\ stop = "waiting" /\ ~alive
  /\ stop' = "done"
  /\ mu' = 0
  /\ lines' = <<>>
  /\ UNCHANGED <<client, prefix, callVars, table, wire, served, alive, link, reader, phase, crashed>>
-----------------------------------------------------------------------------
\* The other side: it performs the requests in the order they come and answers
\* each with one message, possibly much later, possibly one no client can read;
\* it may go away at any time. (An MCP server that also writes lines nobody asked
\* for would shift every later answer: the client takes the next line.)

Kinds == IF client = "onebot" THEN {"result", "junk"} ELSE {"result", "error", "junk"}

Serve ==
  /\ alive /\ wire # <<>>
  /\ \E k \in Kinds :
       lines' = Append(lines, [tag |-> Head(wire).tag, of |-> Head(wire).of, kind |-> k])
  /\ served' = served \union {Head(wire).of}
  /\ wire' = Tail(wire)
  /\ UNCHANGED <<client, prefix, callVars, table, alive, link, reader, mu, phase, stop, crashed>>

Vanish ==
  /\ alive /\ link # 0
  /\ alive' = FALSE
  /\ wire' = <<>>
  /\ UNCHANGED <<client, prefix, callVars, table, lines, served, link, reader, mu, phase, stop, crashed>>
-----------------------------------------------------------------------------
CallStep(i) ==
  \/ OneBotCall(i) \/ CoreCall(i) \/ Write(i) \/ Receive(i) \/ Expire(i)
  \/ GiveUp(i) \/ Forget(i)
  \/ McpExecute(i) \/ McpStartCall(i) \/ McpWrite(i) \/ McpRead(i)

ReaderStep ==
  \/ ListenRead \/ ListenDeliver \/ ListenReturns \/ ListenFails \/ Reconnect
  \/ CoreTop \/ CoreRead \/ CoreEof

StopStep == StopCancel \/ StopPending \/ StopConn \/ CoreStop \/ CoreWaited \/ McpStop

\* A panic ends the process.
RpcNext ==
  /\ ~crashed
  /\ \/ \E i \in CallIds : CallStep(i)
     \/ ReaderStep \/ StopStep \/ Serve \/ Vanish

\* What the code guarantees: a call that can go on does, the timer of an API
\* request fires, reader and Stop run; the core exits when its stdin is closed.
\* Nothing makes the other side answer.
RpcFairness ==
  /\ \A i \in CallIds :
       /\ WF_rpcVars(~crashed /\ (Write(i) \/ Receive(i) \/ GiveUp(i) \/ Forget(i)))
       /\ WF_rpcVars(~crashed /\ client = "onebot" /\ Expire(i))
       /\ WF_rpcVars(~crashed /\ (McpWrite(i) \/ McpRead(i)))
  /\ WF_rpcVars(~crashed /\ CoreWaited)
  /\ WF_rpcVars(~crashed /\ stop = "waiting" /\ Vanish)

RpcSpec == RpcInit /\ [][RpcNext]_rpcVars
-----------------------------------------------------------------------------
\* The state is what the declarations say, and a mutex owned by a call is owned
\* by one that is waiting for its line.
RpcTypeOK ==
  /\ client \in Clients /\ prefix \in Prefixes \union {""}
  /\ next \in 0 .. MaxCalls
  /\ pc \in [CallIds -> {"new", "registered", "waiting", "leaving", "done"}]
  /\ tag \in [CallIds -> 0 .. MaxCalls]
  /\ conn \in [CallIds -> 0 .. MaxConns]
  /\ expired \subseteq CallIds
  /\ DOMAIN table \subseteq CallIds /\ Range(table) \subseteq CallIds
  /\ chan \in [CallIds -> [closed : BOOLEAN, buf : Replies]]
  /\ outcome \in [CallIds -> [kind : {"none", "answered", "failed"}, of : 0 .. MaxCalls]]
  /\ served \subseteq CallIds
  /\ link \in 0 .. MaxConns /\ alive \in BOOLEAN
  /\ reader.pc \in {"top", "read", "deliver", "exit"} /\ reader.to \in 0 .. MaxCalls
  /\ mu \in 0 .. Owner
  /\ mu \in CallIds => pc[mu] = "waiting"

\* Every call of the three clients ends at most once, with the answer to that
\* call or a failure, and is performed at most once, although answers come late,
\* callers leave early and connections are replaced.
AbstractOutcome(i) ==
  CASE outcome[i].kind = "none" -> "none"
    [] outcome[i].kind = "answered" -> IF outcome[i].of = i THEN "answered" ELSE "mixed up"
    [] OTHER -> "failed"

Promise == INSTANCE Calls WITH
  Calls <- CallIds, asked <- 1 .. next, served <- served,
  outcome <- [i \in CallIds |-> AbstractOutcome(i)]

ImplementsCalls == Promise!Spec

\* A send on a closed channel or a second close, which ends the process, needs
\* Stop: the listener has looked a channel up, Stop closes it, the listener
\* sends. A caller that times out or leaves never causes one.
PanicOnlyAtStop == crashed => stop \in {"closed", "done"}

\* Nobody is kept for ever in a call: an API request ends by its timeout, a call
\* to the core once its caller's context is done, even if the process has gone
\* without answering, and an MCP call once the server has gone. When all calls
\* are over the table is empty, so a late answer finds nothing.
MustEnd(i) ==
  CASE client = "onebot" -> TRUE
    [] client = "core" -> i \in expired
    [] client = "mcp" -> ~alive

CallsEnd ==
  /\ \A i \in CallIds : (pc[i] \notin {"new", "done"} /\ MustEnd(i)) ~> (pc[i] = "done" \/ crashed)
  /\ []((\A i \in CallIds : pc[i] \in {"new", "done"}) => table = <<>>)
=============================================================================

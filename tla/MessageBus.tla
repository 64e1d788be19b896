------------------------------ MODULE MessageBus ------------------------------
(***************************************************************************)
(* pkg/bus/bus.go.  Two bounded Go channels (inbound, outbound) and a      *)
(* handler table behind one sync.RWMutex.  PublishInbound/PublishOutbound  *)
(* keep the read lock while they block on a full channel; Close takes the  *)
(* write lock, so it waits behind every blocked publisher, and while it    *)
(* waits no new reader gets in (Go's writer preference).                   *)
(*                                                                         *)
(* A call is a goroutine step sequence:                                    *)
(*   reader  idle -> rwait -> rheld -> (send ->) idle                      *)
(*   writer  idle -> wwait -> drain -> wheld -> idle                       *)
(***************************************************************************)
EXTENDS Integers, Sequences

CONSTANTS Procs,     \* goroutines that call the bus
          Channels,  \* keys of the handler table
          Capacity,  \* buffer of each channel: 100 in the code
          MaxCalls,  \* bound: calls each goroutine makes
          NoProc     \* "the write lock has no owner"

ASSUME CapacityAssumption == Capacity \in Nat \ {0}
ASSUME MaxCallsAssumption == MaxCalls \in Nat
ASSUME NoProcAssumption == NoProc \notin Procs

Dirs == {"inbound", "outbound"}

(* A message is its publisher and the number of that publisher's call.     *)
Messages == Procs \X (1..MaxCalls)

(* What ConsumeInbound or SubscribeOutbound returned last: nothing yet, a  *)
(* message, the zero message with ok = true, or ok = false.                *)
NoResult == "none"
AMessage == "message"
ZeroMessage == "zero"
NotOk == "notok"

(* The calls of the bus, by the lock they take.                            *)
ReaderOps == [op: {"publish"}, dir: Dirs] \cup [op: {"get"}, ch: Channels]
WriterOps == [op: {"close"}] \cup [op: {"register"}, ch: Channels]

VARIABLES
  queue,     \* [Dirs -> Seq(Messages)]: the buffers of the two Go channels
  closed,    \* MessageBus.closed; both channels are closed with it
  handlers,  \* channels that have a handler
  readers,   \* goroutines that hold the read lock
  announced, \* the writer that holds or waits for the write lock
  pc, call,  \* each goroutine's position and the call it is making
  calls,     \* how many calls each goroutine has begun
  canceled,  \* per direction: the consumer's context is done
  result,    \* per direction: what the consumer got last
  panicked,  \* a send on, or a close of, a closed channel
  log, got   \* history: everything accepted, how much of it was delivered

lockVars == <<readers, announced>>
callVars == <<call, calls>>
histVars == <<log, got>>
vars == <<queue, closed, handlers, readers, announced, pc, call, calls,
          canceled, result, panicked, log, got>>

Init ==
  /\ queue = [d \in Dirs |-> <<>>]
  /\ closed = FALSE
  /\ handlers = {}
  /\ readers = {}
  /\ announced = NoProc
  /\ pc = [p \in Procs |-> "idle"]
  /\ call = [p \in Procs |-> [op |-> "close"]]
  /\ calls = [p \in Procs |-> 0]
  /\ canceled = [d \in Dirs |-> FALSE]
  /\ result = [d \in Dirs |-> NoResult]
  /\ panicked = FALSE
  /\ log = [d \in Dirs |-> <<>>]
  /\ got = [d \in Dirs |-> 0]

-------------------------------------------------------------------------------
(* sync.RWMutex                                                            *)

Begin(p, c, at) ==
  /\ pc[p] = "idle"
  /\ calls[p] < MaxCalls
  /\ calls' = [calls EXCEPT ![p] = @ + 1]
  /\ call' = [call EXCEPT ![p] = c]
  /\ pc' = [pc EXCEPT ![p] = at]
  /\ UNCHANGED <<queue, closed, handlers, lockVars, canceled, result, panicked,
                 histVars>>

RLock(p) ==
  /\ pc[p] = "rwait"
  /\ announced = NoProc
  /\ readers' = readers \cup {p}
  /\ pc' = [pc EXCEPT ![p] = "rheld"]
  /\ UNCHANGED <<queue, closed, handlers, announced, callVars, canceled, result,
                 panicked, histVars>>

(* The deferred RUnlock and the return of the call.                        *)
RUnlock(p) ==
  /\ readers' = readers \ {p}
  /\ pc' = [pc EXCEPT ![p] = "idle"]
  /\ UNCHANGED <<announced, callVars>>

(* Lock first keeps new readers out, then waits for the readers inside.    *)
AnnounceWriter(p) ==
  /\ pc[p] = "wwait"
  /\ announced = NoProc
  /\ announced' = p
  /\ pc' = [pc EXCEPT ![p] = "drain"]
  /\ UNCHANGED <<queue, closed, handlers, readers, callVars, canceled, result,
                 panicked, histVars>>

(* Mutant: the writer enters while readers are still inside.               *)
LockWithoutDrain(p) ==
  /\ pc[p] = "drain"
  /\ pc' = [pc EXCEPT ![p] = "wheld"]
  /\ UNCHANGED <<queue, closed, handlers, lockVars, callVars, canceled, result,
                 panicked, histVars>>

Lock(p) ==
  /\ pc[p] = "drain"
  /\ readers = {}
  /\ pc' = [pc EXCEPT ![p] = "wheld"]
  /\ UNCHANGED <<queue, closed, handlers, lockVars, callVars, canceled, result,
                 panicked, histVars>>

(* Mutant: an early return that leaves the write lock taken.               *)
UnlockForgotten(p) ==
  /\ pc' = [pc EXCEPT ![p] = "idle"]
  /\ UNCHANGED <<readers, announced, callVars>>

Unlock(p) ==
  /\ announced' = NoProc
  /\ pc' = [pc EXCEPT ![p] = "idle"]
  /\ UNCHANGED <<readers, callVars>>

-------------------------------------------------------------------------------
(* PublishInbound and PublishOutbound                                      *)

(* Mutant: RUnlock before the send instead of a deferred one.              *)
PublishCheckUnlocksEarly(p) ==
  /\ pc[p] = "rheld"
  /\ call[p].op = "publish"
  /\ \/ closed /\ RUnlock(p)
     \/ /\ ~closed
        /\ pc' = [pc EXCEPT ![p] = "send"]
        /\ readers' = readers \ {p}
        /\ UNCHANGED <<announced, callVars>>
  /\ UNCHANGED <<queue, closed, handlers, canceled, result, panicked, histVars>>

PublishCheck(p) ==
  /\ pc[p] = "rheld"
  /\ call[p].op = "publish"
  /\ \/ /\ closed
        /\ RUnlock(p)
     \/ /\ ~closed
        /\ pc' = [pc EXCEPT ![p] = "send"]
        /\ UNCHANGED <<lockVars, callVars>>
  /\ UNCHANGED <<queue, closed, handlers, canceled, result, panicked, histVars>>

(* Mutant: a full buffer makes room by forgetting its oldest message.      *)
SendDropsOldest(p) ==
  /\ pc[p] = "send"
  /\ LET d == call[p].dir
         m == <<p, calls[p]>>
     IN /\ queue' = [queue EXCEPT ![d] = IF Len(@) < Capacity THEN Append(@, m)
                                         ELSE Append(Tail(@), m)]
        /\ log' = [log EXCEPT ![d] = Append(@, m)]
  /\ RUnlock(p)
  /\ UNCHANGED <<closed, handlers, canceled, result, got, panicked>>

Send(p) ==
  /\ pc[p] = "send"
  /\ LET d == call[p].dir
         m == <<p, calls[p]>>
     IN \/ /\ ~closed
           /\ Len(queue[d]) < Capacity
           /\ queue' = [queue EXCEPT ![d] = Append(@, m)]
           /\ log' = [log EXCEPT ![d] = Append(@, m)]
           /\ UNCHANGED panicked
        \/ /\ closed
           /\ panicked' = TRUE
           /\ UNCHANGED <<queue, log>>
  /\ RUnlock(p)
  /\ UNCHANGED <<closed, handlers, canceled, result, got>>

(* GetHandler                                                              *)
GetHandler(p) ==
  /\ pc[p] = "rheld"
  /\ call[p].op = "get"
  /\ RUnlock(p)
  /\ UNCHANGED <<queue, closed, handlers, canceled, result, panicked, histVars>>

(* RegisterHandler                                                         *)
RegisterHandler(p) ==
  /\ pc[p] = "wheld"
  /\ call[p].op = "register"
  /\ handlers' = handlers \cup {call[p].ch}
  /\ Unlock(p)
  /\ UNCHANGED <<queue, closed, canceled, result, panicked, histVars>>

(* Close; close() of a channel that is already closed panics.              *)
CloseAgain(p) == closed /\ UNCHANGED <<closed, panicked>>

CloseFirst(p) == ~closed /\ closed' = TRUE /\ UNCHANGED panicked

Close(p) ==
  /\ pc[p] = "wheld"
  /\ call[p].op = "close"
  /\ CloseAgain(p) \/ CloseFirst(p)
  /\ Unlock(p)
  /\ UNCHANGED <<queue, handlers, canceled, result, histVars>>

-------------------------------------------------------------------------------
(* ConsumeInbound and SubscribeOutbound: a select over the channel and the *)
(* context.  Every ready case may be chosen.                               *)

Receive(d) ==
  /\ queue[d] # <<>>
  /\ queue' = [queue EXCEPT ![d] = Tail(@)]
  /\ result' = [result EXCEPT ![d] = AMessage]
  /\ got' = [got EXCEPT ![d] = @ + 1]
  /\ UNCHANGED <<closed, handlers, lockVars, pc, callVars, canceled, panicked, log>>

(* Mutant: a consumer that looks at closed before it drains the buffer.    *)
ReceiveClosedFirst(d) ==
  /\ closed
  /\ result' = [result EXCEPT ![d] = ZeroMessage]
  /\ UNCHANGED <<queue, closed, handlers, lockVars, pc, callVars, canceled,
                 panicked, histVars>>

(* A receive from a closed and empty channel is the zero message, ok=true. *)
ReceiveClosed(d) ==
  /\ closed
  /\ queue[d] = <<>>
  /\ result' = [result EXCEPT ![d] = ZeroMessage]
  /\ UNCHANGED <<queue, closed, handlers, lockVars, pc, callVars, canceled,
                 panicked, histVars>>

ReceiveCanceled(d) ==
  /\ canceled[d]
  /\ result' = [result EXCEPT ![d] = NotOk]
  /\ UNCHANGED <<queue, closed, handlers, lockVars, pc, callVars, canceled,
                 panicked, histVars>>

(* The owner of the consumer's context cancels it.                         *)
Cancel(d) ==
  /\ ~canceled[d]
  /\ canceled' = [canceled EXCEPT ![d] = TRUE]
  /\ UNCHANGED <<queue, closed, handlers, lockVars, pc, callVars, result,
                 panicked, histVars>>

-------------------------------------------------------------------------------
ProcStep(p) ==
  \/ RLock(p) \/ AnnounceWriter(p) \/ Lock(p)
  \/ PublishCheck(p) \/ Send(p) \/ GetHandler(p)
  \/ RegisterHandler(p) \/ Close(p)

Next ==
  \/ \E p \in Procs :
       \/ \E c \in ReaderOps : Begin(p, c, "rwait")
       \/ \E c \in WriterOps : Begin(p, c, "wwait")
       \/ ProcStep(p)
  \/ \E d \in Dirs :
       Receive(d) \/ ReceiveClosed(d) \/ ReceiveCanceled(d) \/ Cancel(d)

Spec == Init /\ [][Next]_vars

(* Go schedules every runnable goroutine; a consumer whose context is not  *)
(* done keeps calling Consume.  A caller never has to begin a call.        *)
Fairness ==
  /\ \A p \in Procs : WF_vars(ProcStep(p))
  /\ \A d \in Dirs : WF_vars(~canceled[d] /\ Receive(d))

FairSpec == Spec /\ Fairness

-------------------------------------------------------------------------------
(* The shape of every variable of the bus and of its callers (bus.go:8).   *)
TypeOK ==
  /\ queue \in [Dirs -> Seq(Messages)]
  /\ closed \in BOOLEAN
  /\ handlers \subseteq Channels
  /\ readers \subseteq Procs
  /\ announced \in Procs \cup {NoProc}
  /\ pc \in [Procs -> {"idle", "rwait", "rheld", "send", "wwait", "drain", "wheld"}]
  /\ call \in [Procs -> ReaderOps \cup WriterOps]
  /\ calls \in [Procs -> 0..MaxCalls]
  /\ canceled \in [Dirs -> BOOLEAN]
  /\ result \in [Dirs -> {NoResult, AMessage, ZeroMessage, NotOk}]
  /\ panicked \in BOOLEAN
  /\ log \in [Dirs -> Seq(Messages)]
  /\ got \in [Dirs -> Nat]

(* No goroutine ever sends on a closed channel or closes one twice, which  *)
(* would panic the process: closed is read under the read lock that the    *)
(* publisher keeps until its send is done (bus.go:25-30, 74-81).           *)
NoPanic == ~panicked

(* A consumer is handed the zero message of a closed channel only after    *)
(* everything ever accepted in that direction was delivered (bus.go:35).   *)
ZeroOnlyWhenDrained ==
  \A d \in Dirs : result[d] = ZeroMessage => closed /\ got[d] = Len(log[d])

(* The bus is, in each direction, a bounded queue that loses, duplicates   *)
(* and reorders nothing and accepts nothing once closed (bus.go:24-58).    *)
Fifo == INSTANCE BusFifo
ImplementsFifo == Fifo!Spec

(* Every call returns - a blocked publisher, a Close behind it and the     *)
(* calls kept out by that Close - as long as no consumer has been canceled *)
(* (bus.go:25-30, 74).                                                     *)
CallsReturn ==
  \A p \in Procs : (pc[p] # "idle") ~> (pc[p] = "idle" \/ \E d \in Dirs : canceled[d])

-------------------------------------------------------------------------------
(* Who may be where while the lock is held.                                *)
ReadersWhere == \A p \in Procs : p \in readers <=> pc[p] \in {"rheld", "send"}
WriterWhere == \A p \in Procs : p = announced <=> pc[p] \in {"drain", "wheld"}
Exclusion == \A p \in Procs : pc[p] = "wheld" => readers = {}
SenderSeesOpen == \A p \in Procs : pc[p] = "send" => ~closed
CallMatchesPc ==
  \A p \in Procs :
    /\ pc[p] \in {"rwait", "rheld"} => call[p] \in ReaderOps
    /\ pc[p] = "send" => call[p] \in [op: {"publish"}, dir: Dirs]
    /\ pc[p] # "idle" => calls[p] \in 1..MaxCalls

(* q is what is left of l once its first g elements are taken.             *)
Undelivered(q, l, g) ==
  /\ Len(l) = g + Len(q)
  /\ \A i \in 1..Len(q) : q[i] = l[g + i]

(* The buffers hold exactly the part of the log not yet delivered.         *)
QueueIsLogSuffix ==
  \A d \in Dirs :
    /\ Undelivered(queue[d], log[d], got[d])
    /\ Len(queue[d]) =< Capacity

IndInv ==
  /\ TypeOK /\ NoPanic
  /\ ReadersWhere /\ WriterWhere /\ Exclusion /\ SenderSeesOpen
  /\ CallMatchesPc /\ QueueIsLogSuffix /\ ZeroOnlyWhenDrained

===============================================================================

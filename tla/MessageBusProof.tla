--------------------------- MODULE MessageBusProof ----------------------------
(***************************************************************************)
(* The bus never panics and implements the two abstract queues of BusFifo, *)
(* for every number of callers, every capacity and every number of calls.  *)
(* IndInv adds to the properties where each goroutine can be while a lock  *)
(* is held, that a publisher between its check of closed and its send sees *)
(* the bus open, and that a buffer is the undelivered suffix of the log.   *)
(***************************************************************************)
EXTENDS MessageBus, TLAPS

(* Appending at one index of a family of sequences.                        *)
LEMMA AppendAt ==
  ASSUME NEW D, NEW S, NEW f \in [D -> Seq(S)], NEW d \in D, NEW m \in S
  PROVE  [f EXCEPT ![d] = Append(@, m)] \in [D -> Seq(S)]
<1>1. Append(f[d], m) \in Seq(S)
  OBVIOUS
<1> QED
  BY <1>1

(* Appending one message to a log and to its undelivered suffix.           *)
LEMMA SuffixAppend ==
  ASSUME NEW S, NEW q \in Seq(S), NEW l \in Seq(S), NEW g \in Nat, NEW m \in S,
         Undelivered(q, l, g)
  PROVE  Undelivered(Append(q, m), Append(l, m), g)
<1> USE DEF Undelivered
<1>1. Len(Append(q, m)) = Len(q) + 1 /\ Len(Append(l, m)) = Len(l) + 1
  OBVIOUS
<1>2. ASSUME NEW i \in 1..Len(q) PROVE Append(q, m)[i] = Append(l, m)[g + i]
  <2>1. Append(q, m)[i] = q[i]
    OBVIOUS
  <2>2. g + i \in 1..Len(l)
    OBVIOUS
  <2>3. Append(l, m)[g + i] = l[g + i]
    BY <2>2
  <2> QED
    BY <2>1, <2>3
<1>3. Append(q, m)[Len(q) + 1] = Append(l, m)[g + (Len(q) + 1)]
  <2>1. Append(q, m)[Len(q) + 1] = m /\ Append(l, m)[Len(l) + 1] = m
    OBVIOUS
  <2>2. g + (Len(q) + 1) = Len(l) + 1
    OBVIOUS
  <2> QED
    BY <2>1, <2>2
<1> QED
  BY <1>1, <1>2, <1>3

(* Delivering the head of the suffix.                                      *)
LEMMA SuffixTail ==
  ASSUME NEW S, NEW q \in Seq(S), NEW l \in Seq(S), NEW g \in Nat, q # <<>>,
         Undelivered(q, l, g)
  PROVE  Undelivered(Tail(q), l, g + 1) /\ Len(Tail(q)) =< Len(q)
<1> USE DEF Undelivered
<1>1. Len(Tail(q)) = Len(q) - 1 /\ Len(q) \in Nat
  OBVIOUS
<1>2. ASSUME NEW i \in 1..Len(Tail(q)) PROVE Tail(q)[i] = l[(g + 1) + i]
  <2>1. Tail(q)[i] = q[i + 1] /\ i + 1 \in 1..Len(q)
    BY <1>1
  <2>2. q[i + 1] = l[g + (i + 1)] /\ g + (i + 1) = (g + 1) + i
    BY <2>1
  <2> QED
    BY <2>1, <2>2
<1> QED
  BY <1>1, <1>2

(* An open bus with empty buffers and no call under way satisfies the       *)
(* invariant.                                                               *)
LEMMA InitInd == Init => IndInv
<1> SUFFICES ASSUME Init PROVE IndInv
  OBVIOUS
<1> USE CapacityAssumption, MaxCallsAssumption, NoProcAssumption DEF Init
<1>1. TypeOK
  <2>1. [op |-> "close"] \in WriterOps
    BY DEF WriterOps
  <2>2. call \in [Procs -> ReaderOps \cup WriterOps]
    BY <2>1
  <2>3. queue \in [Dirs -> Seq(Messages)] /\ log \in [Dirs -> Seq(Messages)]
    OBVIOUS
  <2>4. canceled \in [Dirs -> BOOLEAN] /\ closed \in BOOLEAN /\ panicked \in BOOLEAN
    BY Zenon
  <2>5. calls \in [Procs -> 0..MaxCalls] /\ got \in [Dirs -> Nat]
    OBVIOUS
  <2>6. result \in [Dirs -> {NoResult, AMessage, ZeroMessage, NotOk}]
    OBVIOUS
  <2>7. pc \in [Procs -> {"idle", "rwait", "rheld", "send", "wwait", "drain", "wheld"}]
    OBVIOUS
  <2> QED
    BY <2>2, <2>3, <2>4, <2>5, <2>6, <2>7 DEF TypeOK
<1>2. NoPanic /\ ReadersWhere /\ WriterWhere /\ Exclusion /\ SenderSeesOpen
  BY DEF NoPanic, ReadersWhere, WriterWhere, Exclusion, SenderSeesOpen
<1>3. CallMatchesPc
  BY DEF CallMatchesPc
<1>4. QueueIsLogSuffix
  BY DEF QueueIsLogSuffix, Undelivered
<1>5. ZeroOnlyWhenDrained
  BY DEF ZeroOnlyWhenDrained, NoResult, ZeroMessage
<1> QED
  BY <1>1, <1>2, <1>3, <1>4, <1>5 DEF IndInv

(* The lock part of the invariant, on its own: it does not depend on what  *)
(* the buffers hold.                                                       *)
LockInv == ReadersWhere /\ WriterWhere /\ Exclusion

(* Every step keeps the lock discipline: a writer holds the lock alone.     *)
LEMMA LockInvNext == IndInv /\ [Next]_vars => LockInv'
<1> SUFFICES ASSUME IndInv, [Next]_vars PROVE LockInv'
  OBVIOUS
<1> USE NoProcAssumption DEF IndInv, TypeOK, ReadersWhere, WriterWhere, Exclusion, LockInv
<1>1. ASSUME NEW p \in Procs, NEW c \in ReaderOps, Begin(p, c, "rwait") PROVE LockInv'
  BY <1>1 DEF Begin, lockVars
<1>2. ASSUME NEW p \in Procs, NEW c \in WriterOps, Begin(p, c, "wwait") PROVE LockInv'
  BY <1>2 DEF Begin, lockVars
<1>3. ASSUME NEW p \in Procs, RLock(p) PROVE LockInv'
  BY <1>3 DEF RLock
<1>4. ASSUME NEW p \in Procs, AnnounceWriter(p) PROVE LockInv'
  BY <1>4 DEF AnnounceWriter
<1>5. ASSUME NEW p \in Procs, Lock(p) PROVE LockInv'
  BY <1>5 DEF Lock, lockVars
<1>6. ASSUME NEW p \in Procs, PublishCheck(p) PROVE LockInv'
  BY <1>6 DEF PublishCheck, RUnlock, lockVars
<1>7. ASSUME NEW p \in Procs, Send(p) PROVE LockInv'
  BY <1>7 DEF Send, RUnlock
<1>8. ASSUME NEW p \in Procs, GetHandler(p) PROVE LockInv'
  BY <1>8 DEF GetHandler, RUnlock
<1>9. ASSUME NEW p \in Procs, RegisterHandler(p) PROVE LockInv'
  BY <1>9 DEF RegisterHandler, Unlock
<1>10. ASSUME NEW p \in Procs, Close(p) PROVE LockInv'
  BY <1>10 DEF Close, Unlock
<1>11. ASSUME NEW d \in Dirs, Receive(d) \/ ReceiveClosed(d) \/ ReceiveCanceled(d) \/ Cancel(d)
       PROVE LockInv'
  BY <1>11 DEF Receive, ReceiveClosed, ReceiveCanceled, Cancel, lockVars
<1>12. CASE UNCHANGED vars
  BY <1>12 DEF vars
<1> QED
  BY <1>1, <1>2, <1>3, <1>4, <1>5, <1>6, <1>7, <1>8, <1>9, <1>10, <1>11, <1>12 DEF Next, ProcStep

(* The types and the call each position belongs to.                       *)
LEMMA TypeNext == IndInv /\ [Next]_vars => TypeOK' /\ CallMatchesPc'
<1> DEFINE Good == TypeOK' /\ CallMatchesPc'
<1> SUFFICES ASSUME IndInv, [Next]_vars PROVE Good
  OBVIOUS
<1> USE MaxCallsAssumption, NoProcAssumption
    DEF IndInv, TypeOK, CallMatchesPc, lockVars, callVars, histVars
<1>1. ASSUME NEW p \in Procs, NEW c \in ReaderOps, Begin(p, c, "rwait") PROVE Good
  BY <1>1 DEF Begin
<1>2. ASSUME NEW p \in Procs, NEW c \in WriterOps, Begin(p, c, "wwait") PROVE Good
  BY <1>2 DEF Begin
<1>3. ASSUME NEW p \in Procs, RLock(p) \/ AnnounceWriter(p) \/ Lock(p) PROVE Good
  BY <1>3 DEF RLock, AnnounceWriter, Lock
<1>4. ASSUME NEW p \in Procs, PublishCheck(p) PROVE Good
  BY <1>4 DEF PublishCheck, RUnlock, ReaderOps
<1>5. ASSUME NEW p \in Procs, Send(p) PROVE Good
  <2>1. call[p].dir \in Dirs /\ <<p, calls[p]>> \in Messages
    BY <1>5 DEF Send, Messages
  <2>2. queue' \in [Dirs -> Seq(Messages)] /\ log' \in [Dirs -> Seq(Messages)]
    <3>1. queue \in [Dirs -> Seq(Messages)] /\ log \in [Dirs -> Seq(Messages)]
      OBVIOUS
    <3>2. /\ [queue EXCEPT ![call[p].dir] = Append(@, <<p, calls[p]>>)] \in [Dirs -> Seq(Messages)]
          /\ [log EXCEPT ![call[p].dir] = Append(@, <<p, calls[p]>>)] \in [Dirs -> Seq(Messages)]
      <4> HIDE DEF IndInv, TypeOK, CallMatchesPc
      <4> QED
        BY <2>1, <3>1, AppendAt
    <3> QED
      BY <1>5, <3>1, <3>2, Zenon DEF Send
  <2> QED
    BY <1>5, <2>2 DEF Send, RUnlock
<1>6. ASSUME NEW p \in Procs, GetHandler(p) PROVE Good
  BY <1>6 DEF GetHandler, RUnlock
<1>7. ASSUME NEW p \in Procs, RegisterHandler(p) PROVE Good
  <2>1. call[p].ch \in Channels
    BY <1>7 DEF RegisterHandler, ReaderOps, WriterOps
  <2> QED
    BY <1>7, <2>1 DEF RegisterHandler, Unlock
<1>8. ASSUME NEW p \in Procs, Close(p) PROVE Good
  BY <1>8 DEF Close, CloseAgain, CloseFirst, Unlock
<1>9. ASSUME NEW d \in Dirs, Receive(d) PROVE Good
  <2>1. Tail(queue[d]) \in Seq(Messages)
    BY <1>9 DEF Receive
  <2> QED
    BY <1>9, <2>1 DEF Receive
<1>10. ASSUME NEW d \in Dirs, ReceiveClosed(d) \/ ReceiveCanceled(d) \/ Cancel(d) PROVE Good
  BY <1>10 DEF ReceiveClosed, ReceiveCanceled, Cancel
<1>11. CASE UNCHANGED vars
  BY <1>11 DEF vars
<1> QED
  BY <1>1, <1>2, <1>3, <1>4, <1>5, <1>6, <1>7, <1>8, <1>9, <1>10, <1>11 DEF Next, ProcStep

(* What the lock buys: nobody sends on, or closes, a closed channel; the   *)
(* buffers stay the undelivered suffix of the log.                         *)
DataInv == NoPanic /\ SenderSeesOpen /\ QueueIsLogSuffix /\ ZeroOnlyWhenDrained

(* Every step keeps what the lock protects: no panic, no sender on a closed *)
(* channel, buffers that are the rest of the log.                           *)
LEMMA DataNext == IndInv /\ [Next]_vars => DataInv'
<1> SUFFICES ASSUME IndInv, [Next]_vars PROVE DataInv'
  OBVIOUS
<1> USE CapacityAssumption, NoProcAssumption
    DEF IndInv, TypeOK, DataInv, NoPanic, SenderSeesOpen, QueueIsLogSuffix,
        ZeroOnlyWhenDrained, lockVars, callVars, histVars
<1>1. ASSUME NEW p \in Procs, NEW c \in ReaderOps, Begin(p, c, "rwait") PROVE DataInv'
  BY <1>1 DEF Begin
<1>2. ASSUME NEW p \in Procs, NEW c \in WriterOps, Begin(p, c, "wwait") PROVE DataInv'
  BY <1>2 DEF Begin
<1>3. ASSUME NEW p \in Procs, RLock(p) \/ AnnounceWriter(p) \/ Lock(p) PROVE DataInv'
  BY <1>3 DEF RLock, AnnounceWriter, Lock
<1>4. ASSUME NEW p \in Procs, PublishCheck(p) PROVE DataInv'
  BY <1>4 DEF PublishCheck, RUnlock
<1>5. ASSUME NEW p \in Procs, Send(p) PROVE DataInv'
  <2>1. /\ call[p].dir \in Dirs /\ <<p, calls[p]>> \in Messages /\ ~closed
        /\ pc' = [pc EXCEPT ![p] = "idle"]
        /\ UNCHANGED <<closed, got, result, panicked>>
    BY <1>5 DEF Send, RUnlock, CallMatchesPc, Messages
  <2> DEFINE dir == call[p].dir
             m == <<p, calls[p]>>
  <2>2. /\ Len(queue[dir]) < Capacity
        /\ queue' = [queue EXCEPT ![dir] = Append(@, m)]
        /\ log' = [log EXCEPT ![dir] = Append(@, m)]
    BY <1>5, <2>1 DEF Send
  <2>3. QueueIsLogSuffix'
    <3> SUFFICES ASSUME NEW d \in Dirs
                 PROVE  Undelivered(queue'[d], log'[d], got[d]) /\ Len(queue'[d]) =< Capacity
      BY <2>1
    <3>1. CASE d = dir
      <4> HIDE DEF m
      <4>1. queue'[d] = Append(queue[d], m) /\ log'[d] = Append(log[d], m)
        BY <2>1, <2>2, <3>1
      <4>2. queue[d] \in Seq(Messages) /\ log[d] \in Seq(Messages) /\ m \in Messages
            /\ got[d] \in Nat
        BY <2>1 DEF m
      <4>3. Undelivered(Append(queue[d], m), Append(log[d], m), got[d])
        BY <4>2, SuffixAppend
      <4>4. Len(Append(queue[d], m)) =< Capacity
        BY <4>2, <2>2, <3>1
      <4> QED
        BY <4>1, <4>3, <4>4, Zenon
    <3>2. CASE d # dir
      BY <2>1, <2>2, <3>2
    <3> QED
      BY <3>1, <3>2
  <2> QED
    BY <2>1, <2>3
<1>6. ASSUME NEW p \in Procs, GetHandler(p) PROVE DataInv'
  BY <1>6 DEF GetHandler, RUnlock
<1>7. ASSUME NEW p \in Procs, RegisterHandler(p) PROVE DataInv'
  BY <1>7 DEF RegisterHandler, Unlock
<1>8. ASSUME NEW p \in Procs, Close(p) PROVE DataInv'
  BY <1>8 DEF Close, CloseAgain, CloseFirst, Unlock, ReadersWhere, Exclusion
<1>9. ASSUME NEW d \in Dirs, Receive(d) PROVE DataInv'
  <2>1. queue[d] \in Seq(Messages) /\ queue[d] # <<>> /\ log[d] \in Seq(Messages)
    BY <1>9 DEF Receive
  <2>2. /\ queue' = [queue EXCEPT ![d] = Tail(@)]
        /\ got' = [got EXCEPT ![d] = @ + 1]
        /\ result' = [result EXCEPT ![d] = AMessage]
        /\ UNCHANGED <<closed, pc, panicked, log>>
    BY <1>9 DEF Receive
  <2>3. QueueIsLogSuffix'
    <3>1. Undelivered(Tail(queue[d]), log[d], got[d] + 1) /\ Len(Tail(queue[d])) =< Len(queue[d])
      BY <2>1, SuffixTail
    <3>2. ASSUME NEW e \in Dirs, e # d
          PROVE  queue'[e] = queue[e] /\ got'[e] = got[e] /\ log'[e] = log[e]
      BY <2>2, <3>2
    <3>3. queue'[d] = Tail(queue[d]) /\ got'[d] = got[d] + 1 /\ log'[d] = log[d]
      BY <2>2
    <3>4. Len(Tail(queue[d])) \in Nat /\ Len(queue[d]) \in Nat
      BY <2>1
    <3>5. Len(Tail(queue[d])) =< Capacity
      BY <3>1, <3>4
    <3>6. ASSUME NEW e \in Dirs
          PROVE  Undelivered(queue'[e], log'[e], got'[e]) /\ Len(queue'[e]) =< Capacity
      <4>1. CASE e = d
        BY <4>1, <3>1, <3>3, <3>5, Zenon
      <4>2. CASE e # d
        BY <4>2, <3>2
      <4> QED
        BY <4>1, <4>2
    <3> QED
      BY <3>6
  <2>4. ZeroOnlyWhenDrained'
    BY <2>1, <2>2 DEF AMessage, ZeroMessage, Undelivered
  <2> QED
    BY <2>2, <2>3, <2>4
<1>10. ASSUME NEW d \in Dirs, ReceiveClosed(d) PROVE DataInv'
  BY <1>10 DEF ReceiveClosed, Undelivered
<1>11. ASSUME NEW d \in Dirs, ReceiveCanceled(d) \/ Cancel(d) PROVE DataInv'
  BY <1>11 DEF ReceiveCanceled, Cancel, NotOk, ZeroMessage
<1>12. CASE UNCHANGED vars
  BY <1>12 DEF vars
<1> QED
  BY <1>1, <1>2, <1>3, <1>4, <1>5, <1>6, <1>7, <1>8, <1>9, <1>10, <1>11, <1>12 DEF Next, ProcStep

(* The inductive invariant holds in every reachable state of the bus.      *)
THEOREM BusInvariant == Spec => []IndInv
<1>1. IndInv /\ [Next]_vars => IndInv'
  BY LockInvNext, TypeNext, DataNext DEF IndInv, LockInv, DataInv
<1> QED
  BY InitInd, <1>1, PTL DEF Spec

(* No goroutine ever sends on a closed channel or closes one twice, so the *)
(* bus never panics the process (bus.go:24-31, 42-49, 73-82).              *)
THEOREM BusNeverPanics == Spec => []NoPanic
  BY BusInvariant, PTL DEF IndInv

(* A consumer sees a closed channel's zero message only once everything    *)
(* accepted was delivered to it (bus.go:33-40, 51-58).                     *)
THEOREM BusZeroOnlyWhenDrained == Spec => []ZeroOnlyWhenDrained
  BY BusInvariant, PTL DEF IndInv

(* One step of the bus is a step of the abstract queues, or changes        *)
(* nothing they can see.                                                   *)
LEMMA StepRefines == IndInv /\ [Next]_vars => [Fifo!Next]_(Fifo!vars)
<1> SUFFICES ASSUME IndInv, [Next]_vars PROVE [Fifo!Next]_(Fifo!vars)
  OBVIOUS
<1> USE DEF Fifo!vars, Fifo!Next, lockVars, callVars, histVars
<1>1. ASSUME NEW p \in Procs, Send(p) PROVE [Fifo!Next]_(Fifo!vars)
  <2>1. ~closed /\ call[p].dir \in Dirs /\ <<p, calls[p]>> \in Messages
    BY <1>1 DEF Send, IndInv, SenderSeesOpen, CallMatchesPc, Messages
  <2>2. Len(log[call[p].dir]) - got[call[p].dir] < Capacity
    <3>1. Len(queue[call[p].dir]) < Capacity
      BY <1>1, <2>1 DEF Send
    <3>2. /\ Len(log[call[p].dir]) = got[call[p].dir] + Len(queue[call[p].dir])
          /\ got[call[p].dir] \in Nat
          /\ queue[call[p].dir] \in Seq(Messages)
      BY <2>1 DEF IndInv, TypeOK, QueueIsLogSuffix, Undelivered
    <3> QED
      BY <3>1, <3>2, CapacityAssumption
  <2>3. Fifo!Accept(call[p].dir, <<p, calls[p]>>)
    BY <1>1, <2>1, <2>2 DEF Send, Fifo!Accept
  <2> QED
    BY <2>1, <2>3
<1>2. ASSUME NEW d \in Dirs, Receive(d) PROVE [Fifo!Next]_(Fifo!vars)
  <2>1. queue[d] \in Seq(Messages) /\ queue[d] # <<>> /\ got[d] \in Nat
        /\ Len(log[d]) = got[d] + Len(queue[d])
    BY <1>2 DEF Receive, IndInv, TypeOK, QueueIsLogSuffix, Undelivered
  <2>2. got[d] < Len(log[d])
    BY <2>1
  <2>3. Fifo!Deliver(d)
    BY <1>2, <2>2 DEF Receive, Fifo!Deliver
  <2> QED
    BY <2>3
<1>3. ASSUME NEW p \in Procs, Close(p) PROVE [Fifo!Next]_(Fifo!vars)
  BY <1>3 DEF Close, CloseAgain, CloseFirst, Fifo!Close
<1>4. ASSUME NEW p \in Procs, NEW c, NEW at, Begin(p, c, at) PROVE UNCHANGED Fifo!vars
  BY <1>4 DEF Begin
<1>5. ASSUME NEW p \in Procs, RLock(p) \/ AnnounceWriter(p) \/ Lock(p) PROVE UNCHANGED Fifo!vars
  BY <1>5 DEF RLock, AnnounceWriter, Lock
<1>6. ASSUME NEW p \in Procs, PublishCheck(p) \/ GetHandler(p) \/ RegisterHandler(p)
      PROVE  UNCHANGED Fifo!vars
  BY <1>6 DEF PublishCheck, GetHandler, RegisterHandler
<1>7. ASSUME NEW d \in Dirs, ReceiveClosed(d) \/ ReceiveCanceled(d) \/ Cancel(d)
      PROVE  UNCHANGED Fifo!vars
  BY <1>7 DEF ReceiveClosed, ReceiveCanceled, Cancel
<1>8. CASE UNCHANGED vars
  BY <1>8 DEF vars
<1> QED
  BY <1>1, <1>2, <1>3, <1>4, <1>5, <1>6, <1>7, <1>8 DEF Next, ProcStep

(* With its RWMutex and blocking sends, bus.go implements in each direction *)
(* a bounded queue that loses, duplicates and reorders nothing and accepts *)
(* nothing once closed.                                                    *)
THEOREM BusImplementsFifo == Spec => ImplementsFifo
<1>1. Init => Fifo!Init
  BY DEF Init, Fifo!Init
<1> QED
  BY <1>1, StepRefines, BusInvariant, PTL DEF Spec, Fifo!Spec, ImplementsFifo
===============================================================================

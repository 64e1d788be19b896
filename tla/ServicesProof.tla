---------------------------- MODULE ServicesProof -----------------------------
(***************************************************************************)
(* Proofs about the gateway process and the campaign runner: nothing is    *)
(* sent to a channel that has not been started, for any channels, any      *)
(* capacity, any number of starts and crashes, and whoever publishes when; *)
(* and the kill switch of a campaign stops it, for any number of steps,    *)
(* backends, guardrails and any interleaving of Stop, the time limit, the  *)
(* tools and run.                                                          *)
(***************************************************************************)
EXTENDS Gateway, Campaign, TLAPS

-------------------------------------------------------------------------------
(* The gateway.                                                            *)

Early == {"down", "built", "beating", "devices"}
Late  == {"serving", "canceled", "unserved", "quiet", "stopping"}

Shapes ==
  /\ channel \in [Channels -> {"absent", "off", "running", "failed", "stopped"}]
  /\ step \in Early \union Late \union {"starting"}
  /\ disp \in [pc : {"off", "take", "look", "send"}, to : Targets \union {None}]
  /\ out \in Seq(Targets)

Turns ==
  /\ worker \in [Workers -> [pc : {"idle", "turn"}, to : Targets \union {None}]]
  /\ \A w \in Workers : worker[w].pc = "turn" => worker[w].to \in Targets
  /\ mem \in [Managers -> Targets \union {None}]
  /\ file \in Targets \union {None} /\ old \in Targets \union {None}

\* The dispatcher starts with the channels; while one of them is not started yet,
\* StartAll holds the mutex that the dispatcher's lookup needs.
StartsLocked ==
  /\ step \in Early => disp.pc = "off"
  /\ step = "starting" /\ (\E c \in Channels : channel[c] = "off") => mlock = "start"
  /\ step \in Late => \A c \in Channels : channel[c] # "off"

SendsLate == disp.pc = "send" => disp.to \in Channels /\ channel[disp.to] # "off"

StartInv == Shapes /\ Turns /\ StartsLocked /\ SendsLate
-------------------------------------------------------------------------------
\* Before the first start nothing is queued and no dispatcher runs.
LEMMA StartInvInit == GatewayInit => StartInv
<1>1. SUFFICES ASSUME GatewayInit PROVE StartInv
  OBVIOUS
<1>2. Shapes
  BY <1>1 DEF GatewayInit, Shapes, Early, NoMsg
<1>3. Turns
  BY <1>1 DEF GatewayInit, Turns, Quiet, IdleTurn, Targets
<1>4. StartsLocked /\ SendsLate
  BY <1>1 DEF GatewayInit, StartsLocked, SendsLate, Early, Late, NoMsg
<1>5. QED BY <1>2, <1>3, <1>4 DEF StartInv

\* Start-up keeps the invariant: the mutex is taken before the dispatcher runs
\* and given back when no channel is left to start.
LEMMA StartInvBoot == ASSUME StartInv, Boot PROVE StartInv'
<1> USE DEF StartInv, Early, Late
<1>1. CASE Build
  <2>1. step' = "built" /\ disp' = disp /\ out' = out /\ worker' = worker /\ old' = old /\ step = "down"
        /\ file' = NewManager
        /\ mem' = [mem EXCEPT !["agent"] = NewManager, !["heartbeat"] = NewManager]
    BY <1>1 DEF Build
  <2>2. channel' \in [Channels -> {"absent", "off", "running", "failed", "stopped"}]
    BY <1>1 DEF Build, InitChannels
  <2>3. Shapes'
    BY <2>1, <2>2 DEF Shapes
  <2>4. NewManager \in Targets \union {None}
    BY DEF NewManager, Turns
  <2>5. Turns'
    BY <2>1, <2>4 DEF Turns, Managers
  <2>6. StartsLocked' /\ SendsLate'
    BY <2>1 DEF StartsLocked, SendsLate
  <2>7. QED BY <2>3, <2>5, <2>6
<1>2. CASE StartHeartbeat
  BY <1>2 DEF StartHeartbeat, Shapes, Turns, StartsLocked, SendsLate
<1>3. CASE StartDevices
  <2>1. NewManager \in Targets \union {None}
    BY DEF NewManager, Turns
  <2>2. Turns'
    BY <1>3, <2>1 DEF StartDevices, Turns, Managers
  <2>3. QED BY <1>3, <2>2 DEF StartDevices, Shapes, StartsLocked, SendsLate
<1>4. CASE StartAll
  <2>1. /\ step = "devices" /\ step' = "starting"
        /\ UNCHANGED <<channel, out, worker, mem, file, old>>
        /\ disp' = disp \/ disp' = [disp EXCEPT !.pc = "take"]
    BY <1>4 DEF StartAll
  <2>2. (\E c \in Channels : channel[c] = "off") => mlock' = "start"
    BY <1>4 DEF StartAll
  <2>3. disp'.pc # "send" /\ disp' \in [pc : {"off", "take", "look", "send"}, to : Targets \union {None}]
    BY <2>1 DEF StartsLocked, Shapes
  <2>4. QED BY <2>1, <2>2, <2>3 DEF Shapes, Turns, StartsLocked, SendsLate
<1>5. ASSUME NEW c \in Channels, StartChannel(c) PROVE StartInv'
  <2>1. /\ step = "starting" /\ channel[c] = "off"
        /\ UNCHANGED <<step, disp, mlock, out, worker, mem, file, old>>
    BY <1>5 DEF StartChannel
  <2>2. PICK s \in {"running", "failed"} : channel' = [channel EXCEPT ![c] = s]
    BY <1>5 DEF StartChannel
  <2>3. Shapes' /\ Turns'
    BY <2>1, <2>2 DEF Shapes, Turns
  <2>4. \A d \in Channels : channel'[d] = "off" => channel[d] = "off"
    BY <2>2 DEF Shapes
  <2>5. StartsLocked'
    BY <2>1, <2>4 DEF StartsLocked
  <2>6. SendsLate'
    BY <2>1, <2>4 DEF SendsLate
  <2>7. QED BY <2>3, <2>5, <2>6
<1>6. CASE Serve
  BY <1>6 DEF Serve, Shapes, Turns, StartsLocked, SendsLate
<1>7. QED BY <1>1, <1>2, <1>3, <1>4, <1>5, <1>6 DEF Boot

\* The dispatcher keeps the invariant: its lookup finds the mutex free only when
\* no channel is left to start.
LEMMA StartInvDispatcher == ASSUME StartInv, Dispatcher PROVE StartInv'
<1> USE DEF StartInv, Early, Late
<1>1. CASE Take
  <2>1. Head(out) \in Targets /\ Tail(out) \in Seq(Targets)
    BY <1>1 DEF Take, Shapes
  <2>2. QED BY <1>1, <2>1 DEF Take, Shapes, Turns, StartsLocked, SendsLate
<1>2. CASE DispatchEnds
  BY <1>2 DEF DispatchEnds, NoMsg, Shapes, Turns, StartsLocked, SendsLate
<1>3. CASE Look
  <2>1. disp.pc = "look" /\ UNCHANGED <<step, channel, mlock, out, worker, mem, file, old>>
    BY <1>3 DEF Look
  <2>2. step \notin Early
    BY <2>1 DEF StartsLocked
  <2>3. CASE disp' = [pc |-> "take", to |-> None]
    BY <2>1, <2>2, <2>3 DEF Shapes, Turns, StartsLocked, SendsLate
  <2>4. CASE /\ mlock = "free" /\ disp.to \in Channels /\ channel[disp.to] # "absent"
             /\ disp' = [disp EXCEPT !.pc = "send"]
    <3>1. disp'.to = disp.to /\ disp'.pc = "send"
          /\ disp' \in [pc : {"off", "take", "look", "send"}, to : Targets \union {None}]
      BY <2>4 DEF Shapes
    <3>2. channel[disp.to] # "off"
      BY <2>2, <2>4 DEF StartsLocked, Shapes
    <3>3. QED BY <2>1, <2>2, <2>4, <3>1, <3>2 DEF Shapes, Turns, StartsLocked, SendsLate
  <2>5. QED BY <1>3, <2>3, <2>4 DEF Look
<1>4. CASE Send
  BY <1>4 DEF Send, Shapes, Turns, StartsLocked, SendsLate
<1>5. QED BY <1>1, <1>2, <1>3, <1>4 DEF Dispatcher

\* A turn that begins works for a chat and records it.
LEMMA BeginTyped ==
  ASSUME Turns, NEW w \in Workers, NEW c \in Targets, Begin(w, c), UNCHANGED old
  PROVE  Turns'
<1>1. worker' = [worker EXCEPT ![w] = [pc |-> "turn", to |-> c]]
  BY DEF Begin
<1>2. worker' \in [Workers -> [pc : {"idle", "turn"}, to : Targets \union {None}]]
  BY <1>1 DEF Turns
<1>3. \A v \in Workers : worker'[v].pc = "turn" => worker'[v].to \in Targets
  BY <1>1 DEF Turns
<1>4. mem' \in [Managers -> Targets \union {None}] /\ file' \in Targets \union {None}
  BY DEF Begin, SetLastChannel, Turns, Managers
<1>5. QED BY <1>2, <1>3, <1>4 DEF Turns

\* Turns publish for the chats they work for and touch no channel.
LEMMA StartInvTurn == ASSUME StartInv, Turn PROVE StartInv'
<1> USE DEF StartInv
<1>1. ASSUME NEW c \in Channels, UserMessage(c) PROVE StartInv'
  <2>1. Begin("run", c) /\ UNCHANGED <<old, step, channel, mlock, out, disp>>
    BY <1>1 DEF UserMessage
  <2>2. Turns'
    BY <2>1, BeginTyped DEF Workers, Targets
  <2>3. QED BY <2>1, <2>2 DEF Shapes, StartsLocked, SendsLate
<1>2. ASSUME NEW c \in Targets, HandleDispatch(c) PROVE StartInv'
  <2>1. Begin("api", c) /\ UNCHANGED <<old, step, channel, mlock, out, disp>>
    BY <1>2 DEF HandleDispatch
  <2>2. Turns'
    BY <2>1, BeginTyped DEF Workers
  <2>3. QED BY <2>1, <2>2 DEF Shapes, StartsLocked, SendsLate
<1>3. CASE ExecuteHeartbeat
  <2>1. Begin("beat", HeartbeatTarget) /\ UNCHANGED <<old, step, channel, mlock, out, disp>>
    BY <1>3 DEF ExecuteHeartbeat
  <2>2. HeartbeatTarget \in Targets
    BY DEF HeartbeatTarget, Turns, Targets, Managers
  <2>3. Turns'
    BY <2>1, <2>2, BeginTyped DEF Workers
  <2>4. QED BY <2>1, <2>3 DEF Shapes, StartsLocked, SendsLate
<1>4. CASE SendNotification
  <2>1. /\ mem["devices"] \in Targets
        /\ worker' = [worker EXCEPT !["device"] = [pc |-> "turn", to |-> mem["devices"]]]
        /\ UNCHANGED <<old, mem, file, step, channel, mlock, out, disp>>
    BY <1>4 DEF SendNotification, Turns, Managers
  <2>2. Turns'
    BY <2>1 DEF Turns, Workers
  <2>3. QED BY <2>1, <2>2 DEF Shapes, StartsLocked, SendsLate
<1>5. ASSUME NEW w \in Workers, PublishOutbound(w) PROVE StartInv'
  <2>1. /\ worker[w].to \in Targets /\ out' = Append(out, worker[w].to)
        /\ worker' = [worker EXCEPT ![w] = IdleTurn]
        /\ UNCHANGED <<old, mem, file, step, channel, mlock, disp>>
    BY <1>5 DEF PublishOutbound, Turns
  <2>2. out' \in Seq(Targets)
    BY <2>1 DEF Shapes
  <2>3. Turns'
    BY <2>1 DEF Turns, IdleTurn
  <2>4. QED BY <2>1, <2>2, <2>3 DEF Shapes, StartsLocked, SendsLate
<1>6. ASSUME NEW w \in Workers, TurnEnds(w) PROVE StartInv'
  <2>1. /\ worker' = [worker EXCEPT ![w] = IdleTurn]
        /\ UNCHANGED <<old, mem, file, step, channel, mlock, out, disp>>
    BY <1>6 DEF TurnEnds
  <2>2. Turns'
    BY <2>1 DEF Turns, IdleTurn
  <2>3. QED BY <2>1, <2>2 DEF Shapes, StartsLocked, SendsLate
<1>7. QED BY <1>1, <1>2, <1>3, <1>4, <1>5, <1>6 DEF Turn

\* The end of the process forgets what was queued.
LEMMA StartInvGone == ASSUME StartInv, Gone PROVE StartInv'
<1>1. Shapes'
  BY DEF StartInv, Gone, Shapes, NoMsg, Early
<1>2. Turns'
  BY DEF StartInv, Gone, Turns, Quiet, IdleTurn, Targets
<1>3. StartsLocked' /\ SendsLate'
  BY DEF Gone, StartsLocked, SendsLate, NoMsg, Early, Late
<1>4. QED BY <1>1, <1>2, <1>3 DEF StartInv

\* The shutdown never makes a channel one that is to be started.
LEMMA StartInvShutdown == ASSUME StartInv, Interrupt \/ Shutdown \/ Crash PROVE StartInv'
<1> USE DEF StartInv, Early, Late
<1>1. CASE Interrupt
  BY <1>1 DEF Interrupt, Shapes, Turns, StartsLocked, SendsLate
<1>2. CASE HealthStop
  BY <1>2 DEF HealthStop, Shapes, Turns, StartsLocked, SendsLate
<1>3. CASE StopServices
  BY <1>3 DEF StopServices, Shapes, Turns, StartsLocked, SendsLate
<1>4. CASE StopAll
  BY <1>4 DEF StopAll, Shapes, Turns, StartsLocked, SendsLate
<1>5. ASSUME NEW c \in Channels, StopChannel(c) PROVE StartInv'
  <2>1. /\ channel' = [channel EXCEPT ![c] = "stopped"]
        /\ UNCHANGED <<step, disp, mlock, out, worker, mem, file, old>>
    BY <1>5 DEF StopChannel
  <2>2. Shapes' /\ Turns'
    BY <2>1 DEF Shapes, Turns
  <2>3. \A d \in Channels : channel'[d] = "off" => channel[d] = "off"
    BY <2>1 DEF Shapes
  <2>4. StartsLocked' /\ SendsLate'
    BY <2>1, <2>3 DEF StartsLocked, SendsLate
  <2>5. QED BY <2>2, <2>4
<1>6. CASE Exit \/ Crash
  BY <1>6, StartInvGone DEF Exit, Crash
<1>7. QED BY <1>1, <1>2, <1>3, <1>4, <1>5, <1>6 DEF Shutdown

\* Start-up, dispatching, turns, shutdown and crashes keep the invariant.
THEOREM GatewayInvariant == GatewaySpec => []StartInv
<1>1. StartInv /\ [GatewayNext]_gwVars => StartInv'
  <2>1. SUFFICES ASSUME StartInv, [GatewayNext]_gwVars PROVE StartInv'
    OBVIOUS
  <2>2. CASE UNCHANGED gwVars
    BY <2>1, <2>2 DEF gwVars, StartInv, Shapes, Turns, StartsLocked, SendsLate
  <2>3. CASE GatewayNext
    BY <2>1, <2>3, StartInvBoot, StartInvDispatcher, StartInvTurn, StartInvShutdown DEF GatewayNext
  <2>4. QED BY <2>1, <2>2, <2>3
<1>2. QED BY StartInvInit, <1>1, PTL DEF GatewaySpec

\* Although cron, heartbeat and devices publish before the channels are started,
\* no message is handed to a channel that has not been started (StartAll,
\* dispatchOutbound).
THEOREM GatewayNoEarlySend == GatewaySpec => []NoEarlySend
<1>1. StartInv => NoEarlySend
  BY DEF StartInv, SendsLate, NoEarlySend
<1>2. QED BY GatewayInvariant, <1>1, PTL

-------------------------------------------------------------------------------
(* The campaign runner.                                                    *)

\* The positions of run between the checks of a step and its result.
InStep == {"begin", "target", "execute", "result"}

Positions == {"idle", "context", "guardrails", "fail", "complete", "ended"} \union InStep

Executions == [status : {"none", "running", "completed", "failed", "canceled"},
               current : Nat, iterations : Nat, kill : BOOLEAN,
               toolCalls : Nat, spent : Nat, calls : Nat]

Types == exec \in Executions /\ rpc \in Positions /\ killedAt \in Nat

\* CurrentStep is the step being done, or the last one done; the run goroutine
\* is there as long as the status is "running".
StepsCounted ==
  /\ exec.current <= exec.iterations /\ exec.iterations <= exec.current + 1
  /\ rpc \in {"target", "execute", "result"} => exec.iterations = exec.current
  /\ rpc = "complete" => exec.iterations = Steps
  /\ rpc \in Positions \ {"complete", "ended"} => exec.iterations < Steps
  /\ exec.status = "running" => rpc \notin {"idle", "ended"}
  /\ exec.status = "completed" => rpc = "ended" /\ exec.iterations = Steps

\* Once the switch is used the guardrails see it, and only a step whose checks
\* had passed before may still add to the iterations.
KillCounted ==
  killedAt # Never =>
    /\ exec.kill
    /\ exec.iterations <= killedAt + 1
    /\ rpc \in InStep => exec.iterations <= killedAt

KillInv == Types /\ StepsCounted /\ KillCounted
-----------------------------------------------------------------------------
\* The invariant holds before a campaign starts.
LEMMA KillInvInit == CampaignInit => KillInv
<1>1. SUFFICES ASSUME CampaignInit PROVE KillInv
  OBVIOUS
<1>2. exec = NoExec /\ rpc = "idle" /\ killedAt = 0
  BY <1>1 DEF CampaignInit, Never
<1>3. exec \in Executions
  BY <1>2 DEF NoExec, Executions
<1>4. StepsCounted
  BY <1>2, CampaignAssumption DEF NoExec, StepsCounted, Positions, InStep
<1>5. QED BY <1>2, <1>3, <1>4 DEF KillInv, Types, KillCounted, Never, Positions

\* Start, and the steps that are not the run goroutine's.
LEMMA KillInvOthers ==
  ASSUME KillInv,
         \/ \E b \in AllBackends : RegisterAdapter(b)
         \/ Start \/ Stop \/ Expire \/ Deadline
         \/ \E cost \in {0, 1} : RecordToolCall(cost)
  PROVE  KillInv'
<1> USE DEF KillInv, Types, Executions, Positions, InStep, Never
<1>1. CASE \E b \in AllBackends : RegisterAdapter(b)
  BY <1>1 DEF RegisterAdapter, StepsCounted, KillCounted
<1>2. CASE Start
  <2>1. exec = NoExec /\ exec' = [NoExec EXCEPT !.status = "running"]
        /\ rpc' = "context" /\ killedAt' = killedAt
    BY <1>2 DEF Start
  <2>2. exec' \in Executions
    BY <2>1 DEF NoExec
  <2>3. killedAt = 0
    BY <2>1 DEF KillCounted, NoExec
  <2>4. StepsCounted'
    BY <2>1, CampaignAssumption DEF StepsCounted, NoExec
  <2>5. QED BY <2>1, <2>2, <2>3, <2>4 DEF KillCounted
<1>3. CASE Stop
  <2>1. /\ exec.status = "running" /\ rpc' = rpc
        /\ exec' = [exec EXCEPT !.kill = TRUE, !.status = "canceled"]
        /\ killedAt' = exec.current + 1
    BY <1>3 DEF Stop
  <2>2. exec' \in Executions
    BY <2>1
  <2>3. exec'.iterations = exec.iterations /\ exec'.current = exec.current
        /\ exec'.status = "canceled"
    BY <2>1
  <2>4. StepsCounted'
    BY <2>1, <2>3 DEF StepsCounted
  <2>5. exec'.kill
    BY <2>1
  <2>6. exec'.iterations <= killedAt'
    BY <2>1, <2>3 DEF StepsCounted
  <2>7. QED BY <2>1, <2>2, <2>4, <2>5, <2>6 DEF KillCounted
<1>4. CASE Expire
  BY <1>4 DEF Expire, StepsCounted, KillCounted
<1>5. CASE Deadline
  BY <1>5 DEF Deadline, StepsCounted, KillCounted
<1>6. ASSUME NEW cost \in {0, 1}, RecordToolCall(cost) PROVE KillInv'
  <2>1. exec' = [exec EXCEPT !.toolCalls = @ + 1, !.spent = @ + cost]
        /\ rpc' = rpc /\ killedAt' = killedAt
    BY <1>6 DEF RecordToolCall
  <2>2. exec' \in Executions
    <3>1. exec.toolCalls + 1 \in Nat /\ exec.spent + cost \in Nat
      BY <1>6
    <3>2. QED BY <2>1, <3>1
  <2>3. /\ exec'.iterations = exec.iterations /\ exec'.current = exec.current
        /\ exec'.status = exec.status
    BY <2>1
  <2>4. exec'.kill = exec.kill
    BY <2>1
  <2>5. StepsCounted'
    BY <2>1, <2>3 DEF StepsCounted
  <2>6. KillCounted'
    BY <2>1, <2>3, <2>4 DEF KillCounted
  <2>7. QED BY <2>1, <2>2, <2>5, <2>6
<1>7. QED BY <1>1, <1>2, <1>3, <1>4, <1>5, <1>6

\* Every step of the run goroutine.
LEMMA KillInvRun == ASSUME KillInv, Run PROVE KillInv'
<1> USE CampaignAssumption DEF KillInv, Types, Executions, Positions, InStep, Never
<1>1. CASE CheckContext
  <2>1. /\ rpc = "context" /\ rpc' \in {"ended", "guardrails"} /\ killedAt' = killedAt
        /\ rpc' = "ended" => exec' = IF exec.status = "running" THEN [exec EXCEPT !.status = "canceled"] ELSE exec
        /\ rpc' = "guardrails" => exec' = exec
    BY <1>1 DEF CheckContext, Returns
  <2>2. exec' \in Executions
    BY <2>1
  <2>3. /\ exec'.iterations = exec.iterations /\ exec'.current = exec.current
        /\ exec'.status = exec.status \/ (exec'.status = "canceled" /\ rpc' = "ended")
        /\ rpc' = "ended" => exec'.status # "running"
    BY <2>1
  <2>4. exec'.kill = exec.kill
    BY <2>1
  <2>5. StepsCounted'
    BY <2>1, <2>3 DEF StepsCounted
  <2>6. KillCounted'
    BY <2>1, <2>3, <2>4 DEF KillCounted
  <2>7. QED BY <2>1, <2>2, <2>5, <2>6
<1>2. CASE CheckGuardrails
  \* With the switch used, the guardrails trip and no step begins.
  <2>1. /\ rpc = "guardrails" /\ rpc' \in {"fail", "begin"}
        /\ exec' = exec /\ killedAt' = killedAt
    BY <1>2 DEF CheckGuardrails
  <2>2. exec.kill => rpc' = "fail"
    BY <1>2 DEF CheckGuardrails, Tripped
  <2>3. StepsCounted'
    BY <2>1 DEF StepsCounted
  <2>4. KillCounted'
    BY <2>1, <2>2 DEF KillCounted
  <2>5. QED BY <2>1, <2>3, <2>4
<1>3. CASE Fail
  <2>1. /\ rpc = "fail" /\ rpc' = "ended" /\ killedAt' = killedAt
        /\ exec' = [exec EXCEPT !.status = "failed"]
    BY <1>3 DEF Fail, Returns
  <2>2. exec' \in Executions
    BY <2>1
  <2>3. /\ exec'.iterations = exec.iterations /\ exec'.current = exec.current
        /\ exec'.status = "failed"
    BY <2>1
  <2>4. exec'.kill = exec.kill
    BY <2>1
  <2>5. StepsCounted'
    BY <2>1, <2>3 DEF StepsCounted
  <2>6. KillCounted'
    BY <2>1, <2>3, <2>4 DEF KillCounted
  <2>7. QED BY <2>1, <2>2, <2>5, <2>6
<1>4. CASE BeginStep
  <2>1. /\ rpc = "begin" /\ rpc' = "target" /\ killedAt' = killedAt
        /\ exec' = [exec EXCEPT !.current = exec.iterations, !.calls = 0]
    BY <1>4 DEF BeginStep
  <2>2. exec' \in Executions
    BY <2>1
  <2>3. /\ exec'.iterations = exec.iterations /\ exec'.current = exec.iterations
        /\ exec'.status = exec.status
    BY <2>1
  <2>4. exec'.kill = exec.kill
    BY <2>1
  <2>5. StepsCounted'
    BY <2>1, <2>3 DEF StepsCounted
  <2>6. KillCounted'
    BY <2>1, <2>3, <2>4 DEF KillCounted
  <2>7. QED BY <2>1, <2>2, <2>5, <2>6
<1>5. CASE PickTarget
  <2>1. /\ rpc = "target" /\ rpc' \in {"target", "execute", "result"} /\ killedAt' = killedAt
        /\ exec' = exec \/ exec' = [exec EXCEPT !.calls = @ + 1]
    BY <1>5 DEF PickTarget
  <2>2. exec' \in Executions
    BY <2>1
  <2>3. /\ exec'.iterations = exec.iterations /\ exec'.current = exec.current
        /\ exec'.status = exec.status
    BY <2>1
  <2>4. exec'.kill = exec.kill
    BY <2>1
  <2>5. StepsCounted'
    BY <2>1, <2>3 DEF StepsCounted
  <2>6. KillCounted'
    BY <2>1, <2>3, <2>4 DEF KillCounted
  <2>7. QED BY <2>1, <2>2, <2>5, <2>6
<1>6. CASE Execute
  <2>1. /\ rpc = "execute" /\ rpc' \in {"target", "result"}
        /\ exec' = exec /\ killedAt' = killedAt
    BY <1>6 DEF Execute
  <2>2. StepsCounted' /\ KillCounted'
    BY <2>1 DEF StepsCounted, KillCounted
  <2>3. QED BY <2>1, <2>2
<1>7. CASE AppendResult
  <2>1. /\ rpc = "result" /\ rpc' \in {"context", "complete"} /\ killedAt' = killedAt
        /\ exec' = [exec EXCEPT !.iterations = @ + 1]
        /\ rpc' = "complete" <=> ~(exec.iterations + 1 < Steps)
    BY <1>7 DEF AppendResult
  <2>2. exec' \in Executions
    BY <2>1
  <2>3. /\ exec'.iterations = exec.iterations + 1 /\ exec'.current = exec.current
        /\ exec'.status = exec.status
    BY <2>1
  <2>4. exec'.kill = exec.kill
    BY <2>1
  <2>5. exec.iterations < Steps
    BY <2>1 DEF StepsCounted
  <2>6. StepsCounted'
    BY <2>1, <2>3, <2>5 DEF StepsCounted
  <2>7. KillCounted'
    BY <2>1, <2>3, <2>4 DEF KillCounted
  <2>8. QED BY <2>1, <2>2, <2>6, <2>7
<1>8. CASE Complete
  <2>1. /\ rpc = "complete" /\ rpc' = "ended" /\ killedAt' = killedAt
        /\ exec' = [exec EXCEPT !.status = "completed"]
    BY <1>8 DEF Complete, Returns
  <2>2. exec' \in Executions
    BY <2>1
  <2>3. /\ exec'.iterations = exec.iterations /\ exec'.current = exec.current
        /\ exec'.status = "completed"
    BY <2>1
  <2>4. exec'.kill = exec.kill
    BY <2>1
  <2>5. StepsCounted'
    BY <2>1, <2>3 DEF StepsCounted
  <2>6. KillCounted'
    BY <2>1, <2>3, <2>4 DEF KillCounted
  <2>7. QED BY <2>1, <2>2, <2>5, <2>6
<1>9. QED BY <1>1, <1>2, <1>3, <1>4, <1>5, <1>6, <1>7, <1>8 DEF Run

\* The bookkeeping of steps and of the kill switch holds whatever the definition
\* of the campaign and whoever stops it when (Runner.Start, Stop, run).
THEOREM CampaignInvariant == CampaignSpec => []KillInv
<1>1. KillInv /\ [CampaignNext]_camVars => KillInv'
  <2>1. SUFFICES ASSUME KillInv, [CampaignNext]_camVars PROVE KillInv'
    OBVIOUS
  <2>2. CASE UNCHANGED camVars
    BY <2>1, <2>2 DEF camVars, KillInv, Types, StepsCounted, KillCounted
  <2>3. CASE CampaignNext
    BY <2>1, <2>3, KillInvOthers, KillInvRun DEF CampaignNext
  <2>4. QED BY <2>1, <2>2, <2>3
<1>2. QED BY KillInvInit, <1>1, PTL DEF CampaignSpec

\* The kill switch stops a campaign at most one step later, and a killed one
\* counts as completed only when that step was its last (Stop, run).
THEOREM KillSwitchStops == CampaignSpec => []KillStops
<1>1. KillInv => KillStops
  BY DEF KillInv, Types, Executions, StepsCounted, KillCounted, KillStops, Never
<1>2. QED BY CampaignInvariant, <1>1, PTL
===============================================================================

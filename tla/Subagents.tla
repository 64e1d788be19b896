------------------------------ MODULE Subagents ------------------------------
\* Subagents: the spawn and subagent tools, the manager with its mutex, the tool
\* loop a task runs, and the announcement of its result on the inbound half of
\* the bus, whose only reader is the agent loop. Source: pkg/tools/subagent.go,
\* spawn.go, toolloop.go. A turn of the agent loop or of the HTTP API is: begin,
\* call the tools, end; the context of an API turn ends with its request.
EXTENDS Naturals, Sequences, FiniteSets

CONSTANTS
  Tasks,       \* bound: the tasks spawned in a behaviour
  InCap,       \* capacity of the inbound buffer (100)
  MaxInbound,  \* bound: messages users send
  MaxIter,     \* maxIterations of a task (10)
  TurnCalls,   \* tool calls of a turn (its iterations are bounded)
  Agents,      \* agent ids a spawn may name
  Allowed      \* those CanSpawnSubagent accepts

ASSUME SubagentsAssumption ==
  /\ IsFiniteSet(Tasks) /\ Allowed \subseteq Agents
  /\ InCap \in Nat \ {0} /\ MaxInbound \in Nat /\ MaxIter \in Nat /\ TurnCalls \in Nat

VARIABLES
  task,        \* of each task: its step, status, owner of its context, iterations
  smu,         \* SubagentManager.mu: "free" or the task that holds it
  inbound,     \* the inbound buffer: "user" or the task that reports
  turn,        \* the turns of "run" (the agent loop) and "api", and the tool
               \* calls they still make
  over,        \* contexts that are done: "run" (the process) and "api"
  told,        \* tasks whose result the agent loop has taken
  heard        \* messages users have sent

subVars == <<task, smu, inbound, turn, over, told, heard>>
-----------------------------------------------------------------------------
Turns    == {"run", "api"}
Spawners == {"spawn", "subagent"}
Idle     == [pc |-> "idle", left |-> 0]
Working  == [pc |-> "turn", left |-> TurnCalls]
NoTask   == [pc |-> "none", status |-> "none", ctx |-> "run", iter |-> 0]
Unspawned == {t \in Tasks : task[t].pc = "none"}

\* The context of an API request is a child of the server's, not of the process.
Done(ctx) == ctx \in over

SubagentsInit ==
  /\ task = [t \in Tasks |-> NoTask]
  /\ smu = "free" /\ inbound = <<>> /\ told = {} /\ heard = 0 /\ over = {}
  /\ turn = [w \in Turns |-> Idle]
-----------------------------------------------------------------------------
\* The bus and the turns (modelled in MessageBus and AgentLoop).

UserSends ==
  /\ heard < MaxInbound /\ Len(inbound) < InCap
  /\ heard' = heard + 1
  /\ inbound' = Append(inbound, "user")
  /\ UNCHANGED <<task, smu, turn, over, told>>

\* Run takes a message; a report is a system message (processSystemMessage).
ConsumeInbound ==
  /\ turn["run"] = Idle /\ inbound # <<>> /\ ~Done("run")
  /\ turn' = [turn EXCEPT !["run"] = Working]
  /\ inbound' = Tail(inbound)
  /\ told' = told \union ({Head(inbound)} \intersect Tasks)
  /\ UNCHANGED <<task, smu, over, heard>>

ApiBegins ==
  /\ turn["api"] = Idle /\ ~Done("api")
  /\ turn' = [turn EXCEPT !["api"] = Working]
  /\ UNCHANGED <<task, smu, inbound, over, told, heard>>

EndTurn(w) ==
  /\ turn[w].pc = "turn"
  /\ turn' = [turn EXCEPT ![w] = Idle]
  /\ over' = IF w = "api" THEN over \union {"api"} ELSE over
  /\ UNCHANGED <<task, smu, inbound, told, heard>>

CancelRun ==
  /\ ~Done("run")
  /\ over' = over \union {"run"}
  /\ UNCHANGED <<task, smu, inbound, turn, told, heard>>
-----------------------------------------------------------------------------
\* SpawnTool.Execute: the allow list, then the manager's mutex. NoAgent is the
\* empty agent_id.

NoAgent == "none"
SpawnAllowed(a) == a = NoAgent \/ a \in Allowed

SpawnCalled(w) ==
  /\ turn[w].pc = "turn" /\ turn[w].left > 0
  /\ Cardinality({v \in Turns : turn[v].pc = "spawn"}) < Cardinality(Unspawned)
  /\ \E a \in Agents \union {NoAgent} : turn' = [turn EXCEPT
       ![w] = [pc |-> IF SpawnAllowed(a) THEN "spawn" ELSE "turn", left |-> @.left - 1]]
  /\ UNCHANGED <<task, smu, inbound, over, told, heard>>

Spawn(w) ==
  /\ turn[w].pc = "spawn" /\ smu = "free"
  /\ turn' = [turn EXCEPT ![w].pc = "turn"]
  /\ \E t \in Unspawned : task' = [task EXCEPT ![t] =
       [pc |-> "new", status |-> "running", ctx |-> w, iter |-> 0]]
  /\ UNCHANGED <<smu, inbound, over, told, heard>>

\* SubagentTool.Execute reads the manager's settings under the mutex and runs
\* the tool loop within the turn.
SubagentCalled(w) ==
  /\ turn[w].pc = "turn" /\ turn[w].left > 0
  /\ turn' = [turn EXCEPT ![w] = [pc |-> "subagent", left |-> @.left - 1]]
  /\ UNCHANGED <<task, smu, inbound, over, told, heard>>

SubagentReturns(w) ==
  /\ turn[w].pc = "subagent" /\ smu = "free"
  /\ turn' = [turn EXCEPT ![w].pc = "turn"]
  /\ UNCHANGED <<task, smu, inbound, over, told, heard>>
-----------------------------------------------------------------------------
\* runTask.

\* A context that is done at the start ends the task without a report.
CanceledBefore(t) ==
  /\ task[t].pc = "new" /\ Done(task[t].ctx) /\ smu = "free"
  /\ task' = [task EXCEPT ![t].pc = "silent", ![t].status = "canceled"]
  /\ UNCHANGED <<smu, inbound, turn, over, told, heard>>

\* The settings are read under the read lock.
ReadSettings(t) ==
  /\ task[t].pc = "new" /\ ~Done(task[t].ctx) /\ smu = "free"
  /\ task' = [task EXCEPT ![t].pc = "loop"]
  /\ UNCHANGED <<smu, inbound, turn, over, told, heard>>

\* RunToolLoop: an iteration with tool calls, whose results are appended.
CallTools(t) ==
  /\ task[t].pc = "loop" /\ task[t].iter < MaxIter
  /\ task' = [task EXCEPT ![t].iter = @ + 1]
  /\ UNCHANGED <<smu, inbound, turn, over, told, heard>>

\* It ends with an answer, with an empty one when the iterations are used up, or
\* with the error of a call; a call whose context is done may fail or still
\* succeed.
LoopEnds(t, result) ==
  /\ task[t].pc = "loop"
  /\ result = "failed" => task[t].iter < MaxIter
  /\ task' = [task EXCEPT ![t].pc = result]
  /\ UNCHANGED <<smu, inbound, turn, over, told, heard>>

\* The mutex is taken to set the status, and kept.
SetStatus(t) ==
  /\ task[t].pc \in {"completed", "failed"} /\ smu = "free"
  /\ smu' = t
  /\ task' = [task EXCEPT ![t].pc = "report",
       ![t].status = IF task[t].pc = "failed" /\ Done(task[t].ctx) THEN "canceled" ELSE task[t].pc]
  /\ UNCHANGED <<inbound, turn, over, told, heard>>

\* Mutant: a failed task returns early, without its report.
PublishInboundCompleted(t) ==
  /\ task[t].pc = "report" /\ (task[t].status = "completed" => Len(inbound) < InCap)
  /\ inbound' = IF task[t].status = "completed" THEN Append(inbound, t) ELSE inbound
  /\ smu' = "free"
  /\ task' = [task EXCEPT ![t].pc = "done"]
  /\ UNCHANGED <<turn, over, told, heard>>

\* PublishInbound waits for room with the mutex held; the deferred function then
\* releases it and calls back.
PublishInbound(t) ==
  /\ task[t].pc = "report" /\ Len(inbound) < InCap
  /\ inbound' = Append(inbound, t)
  /\ smu' = "free"
  /\ task' = [task EXCEPT ![t].pc = "done"]
  /\ UNCHANGED <<turn, over, told, heard>>

-----------------------------------------------------------------------------
TurnStep(w) == SpawnCalled(w) \/ Spawn(w) \/ SubagentCalled(w) \/ SubagentReturns(w) \/ EndTurn(w)

TaskStep(t) ==
  \/ CanceledBefore(t) \/ ReadSettings(t) \/ CallTools(t)
  \/ \E r \in {"completed", "failed"} : LoopEnds(t, r)
  \/ SetStatus(t) \/ PublishInbound(t)

SubagentsNext ==
  \/ UserSends \/ ConsumeInbound \/ ApiBegins \/ CancelRun
  \/ \E w \in Turns : TurnStep(w)
  \/ \E t \in Tasks : TaskStep(t)

\* Goroutines go on when they can. Weak fairness is enough for the mutex: it is
\* kept across a wait only by a task that reports, once.
SubagentsFairness ==
  /\ WF_subVars(ConsumeInbound)
  /\ \A w \in Turns : WF_subVars(TurnStep(w))
  /\ \A t \in Tasks : WF_subVars(TaskStep(t))

SubagentsSpec == SubagentsInit /\ [][SubagentsNext]_subVars
-----------------------------------------------------------------------------
\* The types; the mutex is held by the one task that reports, and a task's
\* status says whether it has ended.
SubagentsTypeOK ==
  /\ task \in [Tasks -> [pc : {"none", "new", "loop", "completed", "failed", "report", "done", "silent"},
                         status : {"none", "running", "completed", "failed", "canceled"},
                         ctx : Turns, iter : 0..MaxIter]]
  /\ smu \in Tasks \union {"free"}
  /\ inbound \in Seq(Tasks \union {"user"}) /\ Len(inbound) <= InCap
  /\ turn \in [Turns -> [pc : {"idle", "turn"} \union Spawners, left : 0..TurnCalls]]
  /\ over \subseteq Turns /\ told \subseteq Tasks /\ heard \in 0..MaxInbound
  /\ \A t \in Tasks :
       /\ smu = t <=> task[t].pc = "report"
       /\ task[t].status \in {"none", "running"} <=> task[t].pc \notin {"report", "done", "silent"}

\* The reporting task holds the mutex the agent loop waits for, and waits for
\* room that only the agent loop can make.
Embraced == smu # "free" /\ Len(inbound) = InCap /\ turn["run"].pc \in Spawners

\* Whatever a task's end is, completed, failed or canceled half-way, the agent
\* loop hears of it (runTask, processSystemMessage), unless the context was done
\* before the task began, the process is shutting down, or the loop and a
\* reporting task wait for each other: only then may a spawned task stay silent.
TasksReport ==
  \A t \in Tasks :
    (task[t].pc = "new") ~>
      (t \in told \/ task[t].pc = "silent" \/ Done("run") \/ Embraced)
=============================================================================

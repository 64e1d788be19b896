------------------------------- MODULE Campaign -------------------------------
\* The campaign runner: steps executed on the first target that succeeds, the
\* guardrails, the kill switch and the time limit. Source: pkg/campaign/runner.go,
\* guardrails.go, adapters/adapter.go. One campaign; time is the choice of when
\* its limit passes.
EXTENDS Naturals, Sequences

CONSTANTS
  Steps,       \* number of steps of the definition
  Backends,    \* backends of its targets, in order
  MaxTools,    \* Guardrails.MaxToolCalls
  Budget,      \* Guardrails.AIAPIBudgetCents
  MaxIters     \* values of Guardrails.MaxIterations

ASSUME CampaignAssumption ==
  Steps \in Nat \ {0} /\ MaxTools \in Nat /\ Budget \in Nat /\ MaxIters \subseteq Nat

VARIABLES
  maxIter,     \* MaxIterations of this definition
  adapters,    \* registered adapters
  exec,        \* the Execution, or NoExec
  rpc,         \* step of run
  target,      \* position in Backends
  expired,     \* MaxDurationMinutes have passed
  canceled,    \* the context is done
  cancelFn,    \* Runner.cancel has an entry
  killedAt     \* CurrentStep when the kill switch was used, or Never

camVars == <<maxIter, adapters, exec, rpc, target, expired, canceled, cancelFn, killedAt>>
-----------------------------------------------------------------------------
Never    == 0
AllBackends == {Backends[i] : i \in 1..Len(Backends)}
NoExec   == [status |-> "none", current |-> 0, iterations |-> 0, kill |-> FALSE,
             toolCalls |-> 0, spent |-> 0, calls |-> 0]

CampaignInit ==
  /\ maxIter \in MaxIters /\ adapters = {}
  /\ exec = NoExec /\ rpc = "idle" /\ target = 1
  /\ expired = FALSE /\ canceled = FALSE /\ cancelFn = FALSE /\ killedAt = Never

RegisterAdapter(b) ==
  /\ b \notin adapters
  /\ adapters' = adapters \union {b}
  /\ UNCHANGED <<maxIter, exec, rpc, target, expired, canceled, cancelFn, killedAt>>

\* An execution is never removed: an ID runs once.
Start ==
  /\ exec = NoExec
  /\ exec' = [NoExec EXCEPT !.status = "running"]
  /\ cancelFn' = TRUE
  /\ rpc' = "context"
  /\ UNCHANGED <<maxIter, adapters, target, expired, canceled, killedAt>>

\* Mutant: Stop only marks the execution.
StopMarks ==
  /\ exec.status = "running"
  /\ exec' = [exec EXCEPT !.status = "canceled"]
  /\ killedAt' = exec.current + 1
  /\ UNCHANGED <<maxIter, adapters, rpc, target, expired, canceled, cancelFn>>

\* The kill switch: refused unless the status is running.
Stop ==
  /\ exec.status = "running"
  /\ exec' = [exec EXCEPT !.kill = TRUE, !.status = "canceled"]
  /\ canceled' = (canceled \/ cancelFn)
  /\ cancelFn' = FALSE
  /\ killedAt' = exec.current + 1
  /\ UNCHANGED <<maxIter, adapters, rpc, target, expired>>

\* StartTime is taken before the context's deadline is set: the time the
\* guardrail measures is up first.
Expire ==
  /\ exec # NoExec /\ ~expired
  /\ expired' = TRUE
  /\ UNCHANGED <<maxIter, adapters, exec, rpc, target, canceled, cancelFn, killedAt>>

Deadline ==
  /\ expired /\ ~canceled
  /\ canceled' = TRUE
  /\ UNCHANGED <<maxIter, adapters, exec, rpc, target, expired, cancelFn, killedAt>>

\* A tool calls CanExecuteTool, RecordToolCall and GuardrailCheck around its work;
\* the counters are those the guardrails compare. The runner itself never does.
CanExecuteTool == ~exec.kill /\ exec.toolCalls < MaxTools

RecordToolCall(cost) ==
  /\ rpc = "execute" /\ CanExecuteTool
  /\ exec' = [exec EXCEPT !.toolCalls = @ + 1, !.spent = @ + cost]
  /\ UNCHANGED <<maxIter, adapters, rpc, target, expired, canceled, cancelFn, killedAt>>
-----------------------------------------------------------------------------
\* run, from the top of its loop.

Returns == rpc' = "ended" /\ cancelFn' = FALSE

CheckContext ==
  /\ rpc = "context"
  /\ IF canceled
       THEN /\ exec' = IF exec.status = "running" THEN [exec EXCEPT !.status = "canceled"] ELSE exec
            /\ Returns
       ELSE rpc' = "guardrails" /\ UNCHANGED <<exec, cancelFn>>
  /\ UNCHANGED <<maxIter, adapters, target, expired, canceled, killedAt>>

Tripped ==
  \/ exec.kill \/ expired \/ exec.spent >= Budget
  \/ exec.toolCalls >= MaxTools \/ exec.iterations >= maxIter

\* CheckGuardrails reads without the mutex; a tripped one overwrites the status.
CheckGuardrails ==
  /\ rpc = "guardrails"
  /\ IF Tripped THEN rpc' = "fail" ELSE rpc' = "begin"
  /\ UNCHANGED <<maxIter, adapters, exec, target, expired, canceled, cancelFn, killedAt>>

Fail ==
  /\ rpc = "fail"
  /\ exec' = [exec EXCEPT !.status = "failed"]
  /\ Returns
  /\ UNCHANGED <<maxIter, adapters, target, expired, canceled, killedAt>>

BeginStep ==
  /\ rpc = "begin"
  /\ exec' = [exec EXCEPT !.current = exec.iterations, !.calls = 0]
  /\ rpc' = "target" /\ target' = 1
  /\ UNCHANGED <<maxIter, adapters, expired, canceled, cancelFn, killedAt>>

\* A backend without an adapter is skipped.
PickTarget ==
  /\ rpc = "target"
  /\ IF target > Len(Backends) THEN rpc' = "result" /\ UNCHANGED <<target, exec>>
     ELSE IF Backends[target] \in adapters
            THEN /\ rpc' = "execute" /\ UNCHANGED target
                 /\ exec' = [exec EXCEPT !.calls = @ + 1]
            ELSE target' = target + 1 /\ UNCHANGED <<rpc, exec>>
  /\ UNCHANGED <<maxIter, adapters, expired, canceled, cancelFn, killedAt>>

\* The first success ends the step; a failure, a timeout or the canceled context
\* goes on to the next target.
Execute ==
  /\ rpc = "execute"
  /\ \/ rpc' = "result" /\ UNCHANGED target
     \/ rpc' = "target" /\ target' = target + 1
  /\ UNCHANGED <<maxIter, adapters, exec, expired, canceled, cancelFn, killedAt>>

AppendResult ==
  /\ rpc = "result"
  /\ exec' = [exec EXCEPT !.iterations = @ + 1]
  /\ rpc' = IF exec.iterations + 1 < Steps THEN "context" ELSE "complete"
  /\ UNCHANGED <<maxIter, adapters, target, expired, canceled, cancelFn, killedAt>>

\* The status is set without looking at it.
Complete ==
  /\ rpc = "complete"
  /\ exec' = [exec EXCEPT !.status = "completed"]
  /\ Returns
  /\ UNCHANGED <<maxIter, adapters, target, expired, canceled, killedAt>>
-----------------------------------------------------------------------------
Run ==
  \/ CheckContext \/ CheckGuardrails \/ Fail \/ BeginStep \/ PickTarget \/ Execute
  \/ AppendResult \/ Complete

CampaignNext ==
  \/ \E b \in AllBackends : RegisterAdapter(b)
  \/ Start \/ Stop \/ Expire \/ Deadline \/ Run
  \/ \E cost \in {0, 1} : RecordToolCall(cost)

CampaignSpec == CampaignInit /\ [][CampaignNext]_camVars
-----------------------------------------------------------------------------
\* The types; an execution that is running has somebody to run it, and never
\* goes past its iteration limit.
CampaignTypeOK ==
  /\ maxIter \in MaxIters /\ adapters \subseteq AllBackends
  /\ exec \in [status : {"none", "running", "completed", "failed", "canceled"},
               current : 0..Steps, iterations : 0..Steps, kill : BOOLEAN,
               toolCalls : 0..MaxTools, spent : 0..MaxTools, calls : 0..Len(Backends)]
  /\ rpc \in {"idle", "context", "guardrails", "fail", "begin", "target", "execute",
              "result", "complete", "ended"}
  /\ target \in 1..(Len(Backends) + 1) /\ killedAt \in 0..(Steps + 1)
  /\ expired \in BOOLEAN /\ canceled \in BOOLEAN /\ cancelFn \in BOOLEAN
  /\ exec.iterations <= maxIter
  /\ exec.status = "running" => rpc \notin {"idle", "ended"}

\* After the kill switch no step begins but the one whose checks had already
\* passed: the campaign is over at most one step later. A killed campaign still
\* reports "completed" only when that step was the last (Stop, run).
KillStops ==
  killedAt # Never =>
    /\ exec.iterations <= killedAt + 1
    /\ rpc = "ended" /\ exec.status = "completed" => exec.iterations = Steps /\ killedAt + 1 >= Steps
=============================================================================

------------------------------- MODULE History --------------------------------
(***************************************************************************)
(* A session's message history, and the functions that shrink it or turn   *)
(* it into a prompt: sanitizeHistoryForProvider (pkg/agent/context.go),    *)
(* forceCompression (pkg/agent/loop.go), TruncateHistory                   *)
(* (pkg/session/manager.go).  Everything here is a pure operator.          *)
(*                                                                         *)
(* A message is its role, the turn and LLM iteration that produced it, and *)
(* n: for an assistant message the number of tool calls it carries, for a  *)
(* tool result the number of the call it answers, otherwise 0.             *)
(***************************************************************************)
EXTENDS Integers, Sequences

User(t) == [role |-> "user", turn |-> t, iter |-> 0, n |-> 0]
Assistant(t, i, n) == [role |-> "assistant", turn |-> t, iter |-> i, n |-> n]
ToolResult(t, i, k) == [role |-> "tool", turn |-> t, iter |-> i, n |-> k]

HasCalls(m) == m.role = "assistant" /\ m.n > 0

(* The messages of a sequence, as a set.                                   *)
Elements(h) == {h[i] : i \in DOMAIN h}

(* The last message of h that is not a tool result carries tool calls.     *)
AfterCalls(h) ==
  \E i \in 1..Len(h) :
    HasCalls(h[i]) /\ \A j \in (i + 1)..Len(h) : h[j].role = "tool"

(* Mutant: a tool result may follow anything but the start of history.     *)
AdmitAnyTool(out, m) ==
  CASE m.role = "system" -> FALSE
    [] m.role = "tool" -> out # <<>>
    [] HasCalls(m) -> out # <<>> /\ out[Len(out)].role \in {"user", "tool"}
    [] OTHER -> TRUE

(* One round of the loop of sanitizeHistoryForProvider: does m follow out? *)
Admit(out, m) ==
  CASE m.role = "system" -> FALSE
    [] m.role = "tool" -> AfterCalls(out)
    [] HasCalls(m) -> out # <<>> /\ out[Len(out)].role \in {"user", "tool"}
    [] OTHER -> TRUE

SanitizeHistory(h) ==
  LET out[i \in 0..Len(h)] ==
        IF i = 0 THEN <<>>
        ELSE IF Admit(out[i - 1], h[i]) THEN Append(out[i - 1], h[i])
        ELSE out[i - 1]
  IN out[Len(h)]

(* BuildMessages without its system message, which every prompt has: the   *)
(* sanitized history, then the current message if there is one.            *)
BuildMessages(h, current) == SanitizeHistory(h) \o current

(* TruncateHistory.                                                        *)
KeepLast(h, keep) ==
  IF Len(h) =< keep THEN h ELSE SubSeq(h, Len(h) - keep + 1, Len(h))

(* The history forceCompression puts back: the first message (annotated),  *)
(* the second half of what lies between first and last, the last message.  *)
Compressed(h) ==
  LET mid == (Len(h) - 2) \div 2
  IN <<h[1]>> \o SubSeq(h, mid + 2, Len(h))

-------------------------------------------------------------------------------
(* What a provider accepts: every tool result answers a call of the        *)
(* nearest earlier message that is not a tool result, and every call is    *)
(* answered before the conversation goes on.                               *)
ResultsAnswerCalls(p) ==
  \A i \in DOMAIN p :
    p[i].role = "tool" =>
      \E j \in 1..(i - 1) :
        /\ HasCalls(p[j]) /\ p[j].turn = p[i].turn /\ p[j].iter = p[i].iter
        /\ \A k \in (j + 1)..(i - 1) : p[k].role = "tool"

CallsAreAnswered(p) ==
  \A j \in DOMAIN p :
    HasCalls(p[j]) =>
      \A c \in 1..p[j].n :
        j + c \in DOMAIN p /\ p[j + c] = ToolResult(p[j].turn, p[j].iter, c)

WellFormedPrompt(p) == ResultsAnswerCalls(p) /\ CallsAreAnswered(p)
===============================================================================

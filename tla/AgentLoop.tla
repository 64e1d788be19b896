------------------------------ MODULE AgentLoop -------------------------------
(***************************************************************************)
(* pkg/agent/loop.go with the message tool (pkg/tools/message.go), the     *)
(* tool registry (pkg/tools/registry.go) and the in-memory sessions        *)
(* (pkg/session/manager.go): how one message becomes a turn of LLM calls   *)
(* and tool calls, what the turn publishes, and what it leaves in the      *)
(* session.                                                                *)
(*                                                                         *)
(* Run is the goroutine that consumes the bus; cron, heartbeat and api are *)
(* the goroutines that enter the loop directly, concurrently with Run and  *)
(* on the same tools and sessions.  A summarizer goroutine per session     *)
(* rewrites its history in the background.  Published messages are kept in *)
(* out, in order: MessageBus shows that the bus neither loses nor reorders *)
(* them.  What Save writes to disk is SessionStore's subject.              *)
(***************************************************************************)
EXTENDS History, FiniteSets

CONSTANTS
  Agents, DefaultAgent, \* configured agents; the one GetDefaultAgent returns
  Chats,                \* user chats (channel:chatID)
  Internal,             \* an internal channel (cli, system, subagent, api)
  Route,                \* [Chats -> Agents]: the agent a chat is routed to
  DirectRoute,          \* [Chats and Internal -> Agents]: the same without a peer
  Session,              \* [Chats -> Sessions]: the session key of a chat
  Sessions,             \* session keys, "heartbeat" among them
  MainSession,          \* [Agents -> Sessions]: BuildAgentMainSessionKey
  Directs,              \* subset of {"cron", "heartbeat", "api"}
  Kinds,                \* kinds of inbound messages that arrive
  CallLists,            \* the tool-call lists an LLM response may carry
  MaxTurns,             \* bound: messages taken in the whole run
  MaxIterations,        \* agent.MaxIterations
  MaxRetries,           \* 2 in the code
  KeepMessages,         \* 4 in the code
  SummarizeAbove,       \* 20 in the code
  SinglePart            \* 10 in the code: more messages are summarized in parts

ASSUME LoopAssumption ==
  /\ DefaultAgent \in Agents
  /\ Internal \notin Chats
  /\ Route \in [Chats -> Agents] /\ Session \in [Chats -> Sessions]
  /\ DirectRoute \in [Chats \cup {Internal} -> Agents]
  /\ MainSession \in [Agents -> Sessions] /\ "heartbeat" \in Sessions
  /\ Directs \subseteq {"cron", "heartbeat", "api"}
  /\ Kinds \subseteq {"user", "command", "system"}
  /\ {MaxTurns, MaxIterations, MaxRetries, KeepMessages, SummarizeAbove, SinglePart} \subseteq Nat
  /\ MaxIterations # 0  \* 0 in the configuration means 20 (instance.go:76)
  /\ CallLists \subseteq Seq({"msg", "msgTo", "bad", "plain", "forUser"}) \ {<<>>}

Workers == {"run"} \cup Directs
Targets == Chats \cup {Internal}

VARIABLES
  pc,       \* [Workers -> program position]
  t,        \* [Workers -> the turn's options and locals]
  turns,    \* turns begun so far; a turn is its number
  asked,    \* [1..MaxTurns -> who asked, and how the turn ended]
  tool,     \* [Agents -> the message tool: default target and sentInRound]
  out,      \* everything published to the outbound channel
  hist,     \* [Sessions -> messages]
  summary,  \* [Sessions -> set of messages the summary covers]
  sum,      \* [Sessions -> the summarizer goroutine]
  lastChat  \* state.LastChannel of the loop's state manager

vars == <<pc, t, turns, asked, tool, out, hist, summary, sum, lastChat>>

NoChat == "nochat"

NoTurn == [turn |-> 0, agent |-> DefaultAgent, chat |-> Internal, session |-> "heartbeat",
           send |-> FALSE, summarize |-> FALSE, iter |-> 0, retry |-> 0,
           resp |-> "none", calls |-> <<>>, next |-> 1, prompt |-> <<>>, snap |-> <<>>]

NoSummarizer == [at |-> "none", chat |-> Internal, snap |-> <<>>, covers |-> {}]

Init ==
  /\ pc = [w \in Workers |-> "idle"]
  /\ t = [w \in Workers |-> NoTurn]
  /\ turns = 0
  /\ asked = [i \in 1..MaxTurns |-> [kind |-> "none", chat |-> Internal, end |-> "no"]]
  /\ tool = [a \in Agents |-> [chat |-> NoChat, sent |-> FALSE]]
  /\ out = <<>>
  /\ hist = [s \in Sessions |-> <<>>]
  /\ summary = [s \in Sessions |-> {}]
  /\ sum = [s \in Sessions |-> NoSummarizer]
  /\ lastChat = NoChat

-------------------------------------------------------------------------------
Publish(k, c, n) == out' = Append(out, [kind |-> k, chat |-> c, turn |-> n])

(* Mutant: SetContext without the reset of sentInRound.                    *)
SetContextKeepsRound(a, c) == tool' = [tool EXCEPT ![a].chat = c]

(* MessageTool.SetContext: new default target, and a new round.            *)
SetContext(a, c) == tool' = [tool EXCEPT ![a] = [chat |-> c, sent |-> FALSE]]

AddMessage(s, m) == hist' = [hist EXCEPT ![s] = Append(@, m)]

Goto(w, at) == pc' = [pc EXCEPT ![w] = at]

(* runAgentLoop up to BuildMessages: record the last channel, set the tool *)
(* contexts, read the history and build the first prompt.                  *)
Begin(w, kind, a, c, s, send, summarize, history) ==
  LET n == turns + 1
  IN /\ turns < MaxTurns
     /\ pc[w] = "idle"
     /\ turns' = n
     /\ asked' = [asked EXCEPT ![n] = [kind |-> kind, chat |-> c, end |-> "no"]]
     /\ lastChat' = IF c \in Chats THEN c ELSE lastChat
     /\ SetContext(a, c)
     /\ t' = [t EXCEPT ![w] = [NoTurn EXCEPT
                !.turn = n, !.agent = a, !.chat = c, !.session = s, !.send = send,
                !.summarize = summarize, !.iter = 1,
                !.prompt = BuildMessages(history, <<User(n)>>)]]
     /\ Goto(w, "adduser")
     /\ UNCHANGED <<out, hist, summary, sum>>

(* processMessage for a chat message.                                      *)
TakeUser(c) ==
  /\ "user" \in Kinds
  /\ Begin("run", "user", Route[c], c, Session[c], FALSE, TRUE, hist[Session[c]])

(* processSystemMessage: the result of a subagent, for the chat that       *)
(* started it; handled by the default agent in its main session.           *)
TakeSystem(c) ==
  /\ "system" \in Kinds
  /\ Begin("run", "system", DefaultAgent, c, MainSession[DefaultAgent], TRUE, FALSE,
           hist[MainSession[DefaultAgent]])

(* A message that never reaches an agent: handleCommand answers a slash    *)
(* command, processSystemMessage only logs a result for an internal        *)
(* channel (its response is empty).                                        *)
TakeUnrouted(kind, c, resp) ==
  /\ kind \in Kinds
  /\ turns < MaxTurns
  /\ pc["run"] = "idle"
  /\ turns' = turns + 1
  /\ asked' = [asked EXCEPT ![turns + 1] = [kind |-> kind, chat |-> c, end |-> "no"]]
  /\ t' = [t EXCEPT !["run"] = [NoTurn EXCEPT !.turn = turns + 1, !.chat = c, !.resp = resp]]
  /\ Goto("run", "respond")
  /\ UNCHANGED <<tool, out, hist, summary, sum, lastChat>>

TakeCommand(c) == TakeUnrouted("command", c, "command")
TakeSystemInternal == TakeUnrouted("system", Internal, "none")

(* ProcessDirectWithChannel from the cron service and the HTTP API.  The   *)
(* session keys they pass are not agent-scoped, so the routed one is used. *)
DirectMessage(w, c) ==
  /\ w \in Directs \cap {"cron", "api"}
  /\ LET a == DirectRoute[c]
     IN Begin(w, w, a, c, MainSession[a], FALSE, TRUE, hist[MainSession[a]])

(* ProcessHeartbeat: the default agent, no history (NoHistory).            *)
Heartbeat(c) ==
  /\ "heartbeat" \in Directs
  /\ Begin("heartbeat", "heartbeat", DefaultAgent, c, "heartbeat", FALSE, FALSE, <<>>)

AddUser(w) ==
  /\ pc[w] = "adduser"
  /\ AddMessage(t[w].session, User(t[w].turn))
  /\ Goto(w, "llm")
  /\ UNCHANGED <<t, turns, asked, tool, out, summary, sum, lastChat>>

-------------------------------------------------------------------------------
(* runLLMIteration                                                         *)

(* A response without tool calls ends the loop; it may be empty.           *)
LLMAnswers(w) ==
  /\ pc[w] = "llm"
  /\ \E r \in {"answer", "empty"} : t' = [t EXCEPT ![w].resp = r]
  /\ Goto(w, "finish")
  /\ UNCHANGED <<turns, asked, tool, out, hist, summary, sum, lastChat>>

LLMCallsTools(w) ==
  /\ pc[w] = "llm"
  /\ \E cs \in CallLists :
       LET m == Assistant(t[w].turn, t[w].iter, Len(cs))
       IN /\ t' = [t EXCEPT ![w].calls = cs, ![w].next = 1, ![w].prompt = Append(@, m)]
          /\ AddMessage(t[w].session, m)
  /\ Goto(w, "context")
  /\ UNCHANGED <<turns, asked, tool, out, summary, sum, lastChat>>

(* A context-window error while retries are left: the user is told once,   *)
(* the history is compressed and the call is made again.                   *)
LLMContextError(w) ==
  /\ pc[w] = "llm"
  /\ t[w].retry < MaxRetries
  /\ IF t[w].retry = 0 /\ t[w].chat # Internal
     THEN Publish("notice", t[w].chat, t[w].turn) ELSE UNCHANGED out
  /\ t' = [t EXCEPT ![w].snap = hist[t[w].session]]
  /\ Goto(w, "compress")
  /\ UNCHANGED <<turns, asked, tool, hist, summary, sum, lastChat>>

(* Mutant: the retry is counted where the user is told about it.           *)
CompressUncounted(w) ==
  /\ pc[w] = "compress"
  /\ LET s == t[w].session
         h == IF Len(t[w].snap) =< 4 THEN hist[s] ELSE Compressed(t[w].snap)
     IN /\ hist' = [hist EXCEPT ![s] = h]
        /\ t' = [t EXCEPT ![w].snap = <<>>,
                          ![w].retry = IF t[w].chat # Internal THEN @ + 1 ELSE @,
                          ![w].prompt = BuildMessages(h, <<>>)]
  /\ Goto(w, "llm")
  /\ UNCHANGED <<turns, asked, tool, out, summary, sum, lastChat>>

(* forceCompression writes back what it made of the history it read, and   *)
(* the prompt is rebuilt from the session without a current message.       *)
Compress(w) ==
  /\ pc[w] = "compress"
  /\ LET s == t[w].session
         h == IF Len(t[w].snap) =< 4 THEN hist[s] ELSE Compressed(t[w].snap)
     IN /\ hist' = [hist EXCEPT ![s] = h]
        /\ t' = [t EXCEPT ![w].snap = <<>>, ![w].retry = @ + 1,
                          ![w].prompt = BuildMessages(h, <<>>)]
  /\ Goto(w, "llm")
  /\ UNCHANGED <<turns, asked, tool, out, summary, sum, lastChat>>

(* Any other error, or a context error after the last retry.               *)
LLMFails(w) ==
  /\ pc[w] = "llm"
  /\ t' = [t EXCEPT ![w].resp = "error"]
  /\ Goto(w, "respond")
  /\ UNCHANGED <<turns, asked, tool, out, hist, summary, sum, lastChat>>

IsMessageCall(c) == c \in {"msg", "msgTo", "bad"}

(* ToolRegistry.ExecuteWithContext: SetContext on a contextual tool.       *)
ToolContext(w) ==
  /\ pc[w] = "context"
  /\ IF IsMessageCall(t[w].calls[t[w].next])
     THEN SetContext(t[w].agent, t[w].chat) ELSE UNCHANGED tool
  /\ Goto(w, "execute")
  /\ UNCHANGED <<t, turns, asked, out, hist, summary, sum, lastChat>>

(* MessageTool.Execute once it has a target.                               *)
MessageSend(a, c, n) ==
  /\ Publish("tool", c, n)
  /\ tool' = [tool EXCEPT ![a].sent = TRUE]

(* Tool.Execute: a message to the tool's current default target, or to one *)
(* the call names, or refused for lack of content; any other tool, whose   *)
(* ForUser text is published when the turn sends its own response.         *)
Execute(w, c) ==
  LET a == t[w].agent IN
  \/ c = "msg" /\ MessageSend(a, tool[a].chat, t[w].turn)
  \/ c = "msgTo" /\ \E d \in Chats : MessageSend(a, d, t[w].turn)
  \/ c \in {"bad", "plain"} /\ UNCHANGED <<out, tool>>
  \/ /\ c = "forUser"
     /\ IF t[w].send THEN Publish("tool", t[w].chat, t[w].turn) ELSE UNCHANGED out
     /\ UNCHANGED tool

(* The position after a tool call: the next call, the next iteration, or,  *)
(* with the iterations used up, an empty final response.                   *)
AfterTool(w) ==
  CASE t[w].next < Len(t[w].calls) -> "context"
    [] t[w].next = Len(t[w].calls) /\ t[w].iter < MaxIterations -> "llm"
    [] OTHER -> "finish"

(* The turn's locals once the result m of its current call is in.          *)
ToolDone(w, m) ==
  LET moved == [t[w] EXCEPT !.prompt = Append(@, m), !.next = @ + 1]
  IN CASE AfterTool(w) = "context" -> moved
       [] AfterTool(w) = "llm" -> [moved EXCEPT !.iter = @ + 1, !.retry = 0]
       [] OTHER -> [moved EXCEPT !.resp = "empty"]

(* Mutant: tool results are not saved to the session.                      *)
RunToolUnsaved(w) ==
  /\ pc[w] = "execute"
  /\ LET m == ToolResult(t[w].turn, t[w].iter, t[w].next)
     IN /\ Execute(w, t[w].calls[t[w].next])
        /\ t' = [t EXCEPT ![w] = ToolDone(w, m)]
  /\ UNCHANGED hist
  /\ Goto(w, AfterTool(w))
  /\ UNCHANGED <<turns, asked, summary, sum, lastChat>>

RunTool(w) ==
  /\ pc[w] = "execute"
  /\ LET m == ToolResult(t[w].turn, t[w].iter, t[w].next)
     IN /\ Execute(w, t[w].calls[t[w].next])
        /\ t' = [t EXCEPT ![w] = ToolDone(w, m)]
        /\ AddMessage(t[w].session, m)
  /\ Goto(w, AfterTool(w))
  /\ UNCHANGED <<turns, asked, summary, sum, lastChat>>

-------------------------------------------------------------------------------
(* The end of runAgentLoop: the final message joins the session (the       *)
(* default text if the response is empty), a summarizer may be started,    *)
(* and a turn with SendResponse publishes.  tokens says whether the token  *)
(* estimate is above the threshold: it depends on the text alone.          *)
Finish(w, tokens) ==
  LET s == t[w].session
      m == Assistant(t[w].turn, t[w].iter + 1, 0)
  IN /\ pc[w] = "finish"
     /\ AddMessage(s, m)
     /\ t' = [t EXCEPT ![w].resp = "answer"]
     /\ IF /\ t[w].summarize
           /\ Len(hist[s]) + 1 > SummarizeAbove \/ tokens
           /\ sum[s].at = "none"
        THEN sum' = [sum EXCEPT ![s] = [NoSummarizer EXCEPT !.at = "notify", !.chat = t[w].chat]]
        ELSE UNCHANGED sum
     /\ IF t[w].send THEN Publish("reply", t[w].chat, t[w].turn) ELSE UNCHANGED out
     /\ Goto(w, "respond")
     /\ UNCHANGED <<turns, asked, tool, summary, lastChat>>

(* How a turn ended; the goroutine is ready for another.                   *)
End(w, how) ==
  /\ asked' = [asked EXCEPT ![t[w].turn].end = how]
  /\ t' = [t EXCEPT ![w] = NoTurn]
  /\ Goto(w, "idle")

(* The channel Run answers on: the message's own, which for a system       *)
(* message is the internal channel "system".                               *)
ReplyChat == IF asked[t["run"].turn].kind = "system" THEN Internal ELSE t["run"].chat

(* Run: publish a non-empty response unless the default agent's message    *)
(* tool has sent in its current round.                                     *)
Respond ==
  /\ pc["run"] = "respond"
  /\ IF t["run"].resp # "none" /\ ~tool[DefaultAgent].sent
     THEN Publish("reply", ReplyChat, t["run"].turn) ELSE UNCHANGED out
  /\ End("run", t["run"].resp)
  /\ UNCHANGED <<turns, tool, hist, summary, sum, lastChat>>

(* A direct caller gets the response as a return value.                    *)
Return(w) ==
  /\ w \in Directs
  /\ pc[w] = "respond"
  /\ End(w, t[w].resp)
  /\ UNCHANGED <<turns, tool, out, hist, summary, sum, lastChat>>

-------------------------------------------------------------------------------
(* The summarizer goroutine of session s                                   *)

SumStep(s, from, next) == sum[s].at = from /\ sum' = [sum EXCEPT ![s] = next]

SumNotify(s) ==
  /\ SumStep(s, "notify", [sum[s] EXCEPT !.at = "read"])
  /\ IF sum[s].chat # Internal THEN Publish("notice", sum[s].chat, 0) ELSE UNCHANGED out
  /\ UNCHANGED <<pc, t, turns, asked, tool, hist, summary, lastChat>>

(* Everything but the last messages, tool traffic left out.                *)
ToSummarize(h) ==
  {m \in Elements(SubSeq(h, 1, Len(h) - KeepMessages)) : m.role \in {"user", "assistant"}}

(* summarizeSession reads the session and asks the LLM.  A batch of at     *)
(* most SinglePart messages is summarized together with the old summary;   *)
(* a longer one in two parts, without it.                                  *)
SumRead(s) ==
  /\ Len(hist[s]) > KeepMessages
  /\ LET msgs == ToSummarize(hist[s])
     IN /\ msgs # {}
        /\ SumStep(s, "read", [sum[s] EXCEPT
             !.at = "store", !.snap = hist[s],
             !.covers = IF Cardinality(msgs) > SinglePart THEN msgs ELSE msgs \cup summary[s]])
  /\ UNCHANGED <<pc, t, turns, asked, tool, out, hist, summary, lastChat>>

(* Nothing to summarize, nothing but oversized messages, or a failed call: *)
(* the goroutine ends and its key is deleted.                              *)
SumGiveUp(s) ==
  /\ sum[s].at \in {"read", "store"}
  /\ sum' = [sum EXCEPT ![s] = NoSummarizer]
  /\ UNCHANGED <<pc, t, turns, asked, tool, out, hist, summary, lastChat>>

SumStore(s) ==
  /\ SumStep(s, "store", [sum[s] EXCEPT !.at = "truncate"])
  /\ summary' = [summary EXCEPT ![s] = sum[s].covers]
  /\ UNCHANGED <<pc, t, turns, asked, tool, out, hist, lastChat>>

(* TruncateHistory(4), Save, and the deferred Delete of the key.           *)
SumTruncate(s) ==
  /\ SumStep(s, "truncate", NoSummarizer)
  /\ hist' = [hist EXCEPT ![s] = KeepLast(@, KeepMessages)]
  /\ UNCHANGED <<pc, t, turns, asked, tool, out, summary, lastChat>>

-------------------------------------------------------------------------------
Take == \/ \E c \in Chats : TakeUser(c) \/ TakeSystem(c) \/ TakeCommand(c)
        \/ TakeSystemInternal

Enter == \E c \in Targets : Heartbeat(c) \/ \E w \in Directs : DirectMessage(w, c)

WorkerStep(w) ==
  \/ AddUser(w) \/ LLMAnswers(w) \/ LLMCallsTools(w) \/ LLMContextError(w)
  \/ Compress(w) \/ LLMFails(w) \/ ToolContext(w) \/ RunTool(w)
  \/ \E tokens \in BOOLEAN : Finish(w, tokens)
  \/ Return(w)

SummarizerStep(s) ==
  SumNotify(s) \/ SumRead(s) \/ SumGiveUp(s) \/ SumStore(s) \/ SumTruncate(s)

Next == \/ Take \/ Enter \/ Respond
        \/ \E w \in Workers : WorkerStep(w)
        \/ \E s \in Sessions : SummarizerStep(s)

Spec == Init /\ [][Next]_vars

(* A goroutine that can run runs; LLM and tool calls return (they carry a  *)
(* timeout or a context).  No message ever has to arrive.                  *)
Fairness == /\ WF_vars(Respond)
            /\ \A w \in Workers : WF_vars(WorkerStep(w))
            /\ \A s \in Sessions : WF_vars(SummarizerStep(s))

FairSpec == Spec /\ Fairness

-------------------------------------------------------------------------------
Roles == {"user", "assistant", "tool"}
IsMessage(m) == /\ m.role \in Roles /\ m.turn \in 1..MaxTurns
                /\ m.iter \in 0..(MaxIterations + 1) /\ m.n \in Nat

(* The shape of the loop's state: turns in progress, published messages,   *)
(* histories and summarizers (loop.go:32, 44).                             *)
TypeOK ==
  /\ \A w \in Workers :
       /\ pc[w] \in {"idle", "adduser", "llm", "compress", "context", "execute",
                      "finish", "respond"}
       /\ t[w].agent \in Agents /\ t[w].chat \in Targets /\ t[w].session \in Sessions
       /\ t[w].iter \in 0..MaxIterations /\ t[w].retry \in 0..MaxRetries
       /\ \A m \in Elements(t[w].prompt) : IsMessage(m)
  /\ turns \in 0..MaxTurns
  /\ \A a \in Agents : tool[a].chat \in Targets \cup {NoChat} /\ tool[a].sent \in BOOLEAN
  /\ \A o \in Elements(out) : o.kind \in {"reply", "tool", "notice"} /\ o.chat \in Targets
  /\ \A s \in Sessions :
       /\ \A m \in Elements(hist[s]) \cup summary[s] : IsMessage(m)
       /\ sum[s].at \in {"none", "notify", "read", "store", "truncate"}
  /\ lastChat \in Chats \cup {NoChat}

(* What has been published for turn n to the chat that asked.              *)
Heard(n) == {i \in DOMAIN out : /\ out[i].turn = n /\ out[i].chat = asked[n].chat
                                /\ out[i].kind \in {"reply", "tool"}}

Ended(n, kind) == asked[n].kind = kind /\ asked[n].end # "no"

(* Every prompt handed to the provider is one it accepts, whatever was     *)
(* truncated or compressed before: tool results follow their calls, and    *)
(* all calls are answered (context.go:479, loop.go:583-589, 1007).         *)
PromptsWellFormed == \A w \in Workers : pc[w] = "llm" => WellFormedPrompt(t[w].prompt)

(* Whoever shares the session, and however it was cut: no prompt holds a   *)
(* tool result that does not follow an assistant message with tool calls   *)
(* (context.go:495-516).                                                   *)
NoOrphanResults ==
  \A w \in Workers :
    LET p == t[w].prompt
    IN \A i \in DOMAIN p : p[i].role = "tool" => AfterCalls(SubSeq(p, 1, i - 1))

(* When Run is done with a chat message, something has been published for  *)
(* it: a reply, an error, or a message of the message tool                 *)
(* (loop.go:165-197).                                                      *)
TurnIsHeard ==
  \A n \in 1..turns :
    Ended(n, "user") => \E i \in DOMAIN out : out[i].turn = n /\ out[i].kind # "notice"

(* Every turn ends, so with finitely many messages all workers come to     *)
(* rest: the LLM loop is bounded by MaxIterations and, within an           *)
(* iteration, by the retries (loop.go:489, 557).                           *)
TurnsEnd == []<>(\A w \in Workers : pc[w] = "idle")

(* A chat gets at most one answer per turn that used the message tool at   *)
(* most once (loop.go:175: "If so, skip publishing to avoid duplicate      *)
(* messages to the user").                                                 *)
NoReplyAfterToolMessage ==
  \A n \in 1..turns :
    asked[n].kind = "user" =>
      ~ \E i, j \in Heard(n) : out[i].kind = "tool" /\ out[j].kind = "reply"

(* The answer to a cron job's message reaches the job's chat               *)
(* (tools/cron.go: "Response is automatically sent via MessageBus").       *)
CronAnswerIsSent ==
  \A n \in 1..turns :
    Ended(n, "cron") /\ asked[n].end = "answer" /\ asked[n].chat \in Chats => Heard(n) # {}

(* The messages the summarizer leaves out of its summary are still in the  *)
(* session when it is done (loop.go:938: "Keep last 4 messages for         *)
(* continuity").                                                           *)
KeptMessagesSurvive ==
  [][\A s \in Sessions :
       sum[s].at = "truncate" /\ sum'[s].at = "none" =>
         LET kept == KeepLast(sum[s].snap, KeepMessages)
         IN Elements(kept) \subseteq Elements(hist'[s]) \cup summary'[s]]_vars
===============================================================================

--------------------------- MODULE ChatAdaptersProof ---------------------------
(***************************************************************************)
(* Proofs about the chat adapters.  One inductive invariant, in five parts *)
(* that are kept for different reasons: the handlers and what they publish,*)
(* the table of message ids, the progress of a Send, the notes and marks   *)
(* that handlers and Sends pass to each other, and the credentials.        *)
(***************************************************************************)
EXTENDS ChatAdapters, FiniteSetTheorems, SequenceTheorems, TLAPS

(* Where a handler may stand.                                              *)
HandlerSteps == {"think", "show", "typing", "ack", "token", "quote", "webhook", "note", "trim",
                 "reset", "publish"}

(* Each step but the last belongs to the handlers of one platform.         *)
StepFits(p, pc) ==
  /\ pc \in {"think", "show"} => p = "telegram"
  /\ pc = "typing" => p = "discord"
  /\ pc = "ack" => p = "slack"
  /\ pc \in {"token", "quote"} => p = "line"
  /\ pc = "webhook" => p = "dingtalk"
  /\ pc = "note" => p = "onebot"

HandlersInv ==
  /\ platform \in Platforms
  /\ hs \in [Handlers -> {IdleHandler} \cup [pc : HandlerSteps, ev : Inputs[platform]]]
  /\ \A h \in Handlers : StepFits(platform, hs[h].pc)
  /\ \A m \in inbound : \E e \in Inputs[platform] : m.chat = ChatOf(e) /\ m.place = e.place

(* The ids that have passed the duplicate check.                           *)
Passed == {i \in Ids : handled[i] > 0}

(* Until more ids than the table holds have passed, the table is exactly   *)
(* the ids that have passed, each once; a WeCom handler that is about to   *)
(* empty the table has seen it overflow.                                   *)
DedupInv ==
  /\ handled \in [Ids -> Nat]
  /\ IsFiniteSet(Passed)
  /\ Cardinality(Passed) <= Window =>
       /\ seen \in Seq(Ids) /\ Len(seen) = Cardinality(Passed) /\ Members(seen) = Passed
       /\ \A i \in Ids : handled[i] <= 1
  /\ \A h \in Handlers : hs[h].pc = "reset" => Cardinality(Passed) > Window

(* Where a Send may stand.                                                 *)
SendSteps == {"telegram", "forget", "load", "delete", "edit", "post", "plain", "discord", "chunk",
              "slack", "onebot", "line", "take", "push", "dingtalk", "qq", "feishu", "wecom",
              "wecom_app"}

Sends == [pc : SendSteps, chat : Chats, chunks : Nat, left : Nat, got : Nat, mark : Nat]

(* Each step of a Send belongs to one platform.                            *)
SendFits(p, pc) ==
  IF pc \in {"forget", "load", "delete", "edit", "post", "plain"} THEN p = "telegram"
  ELSE IF pc \in {"take", "push"} THEN p = "line"
  ELSE IF pc = "chunk" THEN p = "discord"
  ELSE p = pc

(* A Send of anything but Discord has one chunk; Discord's has delivered   *)
(* what it does not still have to send.                                    *)
SendInv ==
  /\ out \in {IdleSend} \cup Sends
  /\ out.pc # "idle" => /\ SendFits(platform, out.pc)
                        /\ IF platform = "discord" THEN out.got + out.left >= out.chunks
                           ELSE out.chunks = 1
  /\ out.pc = "chunk" => out.left > 0
  /\ SentMeansDelivered

Uses == [chat : Chats, mark : Nat, age : Int, life : Int]

(* Types of the notes.                                                     *)
NoteTypes ==
  /\ memo \in [Chats -> Notes]
  /\ marks \in Nat
  /\ open \subseteq [chat : Chats, n : 1 .. marks]
  /\ closed \subseteq 1 .. marks
  /\ used \in Seq(Uses)

(* The access token is given up before it dies, and what was presented to  *)
(* the platform was in force.                                              *)
CredentialsInv ==
  /\ clock \in Nat
  /\ token \in [have : BOOLEAN, expiry : Int, dies : Int]
  /\ token.have => token.expiry < token.dies
  /\ CredentialsInForce

(* A mark is noted for one chat only, is a number that was given out, and  *)
(* is not noted any more once it was used or its typing stopped.           *)
MarksInv ==
  /\ \A c \in Chats : memo[c].mark <= marks /\ memo[c].mark \notin closed
  /\ \A c, d \in Chats : memo[c].mark = memo[d].mark /\ memo[c].mark # 0 => c = d
  /\ \A i \in DOMAIN used : /\ used[i].mark <= marks
                            /\ used[i].mark # 0 => \A c \in Chats : memo[c].mark # used[i].mark
  /\ \A m \in open, c \in Chats : memo[c].mark = m.n => m.chat = c
  /\ open # {} => platform \in {"telegram", "discord", "slack", "onebot"}
  /\ MarksUsedOnce

(* What a Telegram Send has loaded is its own until it is edited: nobody   *)
(* else has used it, and only the chat of the Send may still note it.      *)
LoadedInv ==
  out.pc \in {"delete", "edit"} =>
    /\ out.mark \in 1 .. marks
    /\ \A i \in DOMAIN used : used[i].mark # out.mark
    /\ \A m \in open : m.n = out.mark => m.chat = out.chat
    /\ \A c \in Chats : memo[c].mark = out.mark => c = out.chat /\ out.pc = "delete"
    /\ out.pc = "delete" => memo[out.chat].mark = out.mark \/ memo[out.chat].mark \in raced

NotesInv == NoteTypes /\ MarksInv /\ LoadedInv /\ IndicatorsAreKept

AdapterInv == HandlersInv /\ DedupInv /\ SendInv /\ NotesInv /\ CredentialsInv
-------------------------------------------------------------------------------
(* Which variables the kinds of steps leave alone.                         *)

(* The chats are those of the platform.                                    *)
LEMMA ChatsFixed == ASSUME UNCHANGED platform PROVE Chats' = Chats
BY DEF Chats, ChatOf, SlackMessageChat, SlackMentionChat, SlackCommandChat, ResolveChatID,
       DingTalkChat, QQChat, WeComChat, WeComAppChat, OneBotChat, PlaceChat

(* Start changes running, live and known only, and the WeCom app's token.  *)
LEMMA StartFrame ==
  ASSUME StartAny
  PROVE  /\ UNCHANGED <<platform, hs, memo, marks, open, closed, raced, seen, handled, inbound,
                        out, sent, used, clock, panicked>>
         /\ token' = token \/ \E ok \in BOOLEAN : RefreshAccessToken(ok)
<1> USE DEF Started, noteVars, dedupVars, sendVars, envVars
<1>1. ASSUME NEW a \in BOOLEAN, NEW b \in BOOLEAN, TelegramStart(a, b) \/ DiscordStart(a, b)
      PROVE  /\ UNCHANGED <<platform, hs, memo, marks, open, closed, raced, seen, handled, inbound,
                            out, sent, used, clock, panicked>>
             /\ token' = token
  BY <1>1 DEF TelegramStart, DiscordStart
<1>2. ASSUME NEW a \in BOOLEAN,
             SlackStart(a) \/ LineStart(a) \/ DingTalkStart(a) \/ FeishuStart(a) \/ OneBotStart(a)
      PROVE  /\ UNCHANGED <<platform, hs, memo, marks, open, closed, raced, seen, handled, inbound,
                            out, sent, used, clock, panicked>>
             /\ token' = token
  BY <1>2 DEF SlackStart, LineStart, DingTalkStart, FeishuStart, OneBotStart
<1>3. ASSUME NEW a \in BOOLEAN, WeComAppStart(a)
      PROVE  /\ UNCHANGED <<platform, hs, memo, marks, open, closed, raced, seen, handled, inbound,
                            out, sent, used, clock, panicked>>
             /\ RefreshAccessToken(a)
  BY <1>3 DEF WeComAppStart
<1>4. ASSUME NEW a \in BOOLEAN, NEW b \in BOOLEAN, NEW c \in BOOLEAN, QQStart(a, b, c) \/ WeComStart
      PROVE  /\ UNCHANGED <<platform, hs, memo, marks, open, closed, raced, seen, handled, inbound,
                            out, sent, used, clock, panicked>>
             /\ token' = token
  BY <1>4 DEF QQStart, WeComStart
<1> QED
  BY <1>1, <1>2, <1>3, <1>4 DEF StartAny

(* Stop changes running and live only, and Discord's notes.                *)
LEMMA StopFrame ==
  ASSUME StopAny
  PROVE  /\ UNCHANGED <<platform, hs, seen, handled, inbound, out, sent, used, token, clock>>
         /\ \/ UNCHANGED <<memo, marks, open, closed, raced, panicked>>
            \/ DiscordStop
<1> USE DEF Stopped, noteVars, dedupVars, sendVars, envVars
<1>1. CASE TelegramStop \/ SlackStop \/ LineStop \/ DingTalkStop
  BY <1>1 DEF TelegramStop, SlackStop, LineStop, DingTalkStop
<1>2. CASE QQStop \/ FeishuStop \/ WeComStop \/ WeComAppStop
  BY <1>2 DEF QQStop, FeishuStop, WeComStop, WeComAppStop
<1>3. CASE DiscordStop
  BY <1>3 DEF DiscordStop
<1>4. CASE Cancel \/ QQSessionEnds
  BY <1>4 DEF Cancel, QQSessionEnds
<1> QED
  BY <1>1, <1>2, <1>3, <1>4 DEF StopAny

(* An event that arrives is dropped or goes on at a step of its platform,  *)
(* and changes the table of ids at most.                                   *)
LEMMA ReceiveFrame ==
  ASSUME NEW h \in Handlers, Receive(h)
  PROVE  /\ UNCHANGED <<platform, memo, marks, open, closed, raced, inbound, out, sent, used, token,
                        clock, panicked>>
         /\ \E e \in Inputs[platform] :
              \/ Drop(h)
              \/ \E pc \in HandlerSteps \ {"reset"} : StepFits(platform, pc) /\ Goto(h, e, pc)
<1> USE DEF Arrives, adapterVars, noteVars, sendVars, envVars, Unless, HandlerSteps, StepFits
<1> PICK e \in Inputs[platform] :
      \/ TelegramReceive(h, e) \/ DiscordReceive(h, e) \/ SlackReceive(h, e)
      \/ LineReceive(h, e) \/ DingTalkReceive(h, e) \/ FeishuReceive(h, e)
      \/ QQReceive(h, e) \/ OneBotReceive(h, e) \/ WeComReceive(h, e)
      \/ WeComAppReceive(h, e)
  BY DEF Receive
<1>1. UNCHANGED <<platform, memo, marks, open, closed, raced, inbound, out, sent, used, token,
                  clock, panicked>>
  BY DEF TelegramReceive, DiscordReceive, SlackReceive, LineReceive, DingTalkReceive,
         FeishuReceive, QQReceive, OneBotReceive, WeComReceive, WeComAppReceive
<1>2. CASE TelegramReceive(h, e)
  BY <1>2 DEF TelegramReceive
<1>3. CASE DiscordReceive(h, e)
  BY <1>3 DEF DiscordReceive
<1>4. CASE SlackReceive(h, e)
  BY <1>4 DEF SlackReceive
<1>5. CASE LineReceive(h, e)
  BY <1>5 DEF LineReceive
<1>6. CASE DingTalkReceive(h, e) \/ FeishuReceive(h, e)
  BY <1>6 DEF DingTalkReceive, FeishuReceive
<1>7. CASE QQReceive(h, e)
  BY <1>7 DEF QQReceive
<1>8. CASE OneBotReceive(h, e)
  BY <1>8 DEF OneBotReceive
<1>9. CASE WeComReceive(h, e) \/ WeComAppReceive(h, e)
  BY <1>9 DEF WeComReceive, WeComAppReceive, WeComAdd
<1> QED
  BY <1>1, <1>2, <1>3, <1>4, <1>5, <1>6, <1>7, <1>8, <1>9

(* Sends and the clock leave handlers, ids and the token alone.            *)
LEMMA SendFrame ==
  ASSUME SendStep
  PROVE  UNCHANGED <<platform, hs, seen, handled, inbound, token, clock>>
BY DEF SendStep, sendOnly, adapterVars, dedupVars

(* A handler leaves the Sends, the credentials and the clock alone.        *)
LEMMA HandlerFrame ==
  ASSUME NEW h \in Handlers, HandlerStep(h)
  PROVE  UNCHANGED <<platform, out, sent, used, token, clock>>
<1> USE DEF handlerOnly, adapterVars, sendVars
<1>1. CASE WeComTrim(h) \/ WeComReset(h) \/ TelegramThink(h) \/ StartTyping(h)
  BY <1>1 DEF WeComTrim, WeComReset, TelegramThink, StartTyping
<1>2. CASE LineToken(h) \/ DingTalkWebhook(h) \/ OneBotNote(h) \/ HandleMessage(h)
  BY <1>2 DEF LineToken, DingTalkWebhook, OneBotNote, HandleMessage
<1>3. ASSUME NEW ok \in BOOLEAN, TelegramShow(h, ok) \/ SlackAck(h, ok) \/ LineQuote(h, ok)
      PROVE  UNCHANGED <<platform, out, sent, used, token, clock>>
  BY <1>3 DEF TelegramShow, SlackAck, LineQuote
<1> QED
  BY <1>1, <1>2, <1>3 DEF HandlerStep

-------------------------------------------------------------------------------
(* The handlers, and what they publish.                                    *)

(* Moving one handler keeps the others where they are.                     *)
LEMMA HandlerMoves ==
  ASSUME HandlersInv, NEW h \in Handlers, UNCHANGED <<platform, inbound>>, NEW e \in Inputs[platform],
         \/ Drop(h)
         \/ \E pc \in HandlerSteps : StepFits(platform, pc) /\ Goto(h, e, pc)
  PROVE  HandlersInv'
<1> DEFINE S == {IdleHandler} \cup [pc : HandlerSteps, ev : Inputs[platform]]
<1>1. hs \in [Handlers -> S] /\ Inputs[platform]' = Inputs[platform]
  BY DEF HandlersInv
<1>2. PICK r \in S : hs' = [hs EXCEPT ![h] = r] /\ StepFits(platform, r.pc)
  <2>1. CASE Drop(h)
    <3>1. IdleHandler \in S /\ StepFits(platform, IdleHandler.pc)
      BY DEF IdleHandler, StepFits
    <3> QED
      BY <2>1, <3>1 DEF Drop
  <2>2. ASSUME NEW pc \in HandlerSteps, StepFits(platform, pc), Goto(h, e, pc)
        PROVE  \E r \in S : hs' = [hs EXCEPT ![h] = r] /\ StepFits(platform, r.pc)
    <3> DEFINE r == [pc |-> pc, ev |-> e]
    <3>1. r \in S /\ r.pc = pc /\ hs' = [hs EXCEPT ![h] = r]
      BY <2>2 DEF Goto
    <3> HIDE DEF r
    <3> QED
      BY <2>2, <3>1
  <2> QED
    BY <2>1, <2>2
<1> HIDE DEF S
<1>3. hs' \in [Handlers -> S] /\ \A g \in Handlers : hs'[g] = IF g = h THEN r ELSE hs[g]
  BY <1>1, <1>2
<1>4. \A g \in Handlers : StepFits(platform, hs'[g].pc)
  BY <1>2, <1>3 DEF HandlersInv
<1>5. \A m \in inbound' : \E f \in Inputs[platform] : m.chat = ChatOf(f)' /\ m.place = f.place
  BY DEF HandlersInv, ChatOf, SlackMessageChat, SlackMentionChat, SlackCommandChat, ResolveChatID,
         DingTalkChat, QQChat, WeComChat, WeComAppChat, OneBotChat, PlaceChat
<1> QED
  BY <1>1, <1>3, <1>4, <1>5 DEF HandlersInv, S

(* A handler at work has an event of its platform.                         *)
LEMMA HandlerEvent ==
  ASSUME HandlersInv, NEW h \in Handlers, hs[h].pc # "idle"
  PROVE  /\ Event(h) \in Inputs[platform] /\ Chat(h) \in Chats
         /\ hs[h].pc \in HandlerSteps /\ StepFits(platform, hs[h].pc)
<1>1. hs[h] \in [pc : HandlerSteps, ev : Inputs[platform]] /\ StepFits(platform, hs[h].pc)
  BY DEF HandlersInv, IdleHandler
<1> QED
  BY <1>1 DEF Event, Chat, Chats

(* Every step keeps HandlersInv.                                           *)
LEMMA HandlersStep == HandlersInv /\ [Next]_vars => HandlersInv'
<1> SUFFICES ASSUME HandlersInv, [Next]_vars PROVE HandlersInv'
  OBVIOUS
<1>1. CASE UNCHANGED <<platform, hs, inbound>>
  BY <1>1 DEF HandlersInv, StepFits, ChatOf, SlackMessageChat, SlackMentionChat, SlackCommandChat,
     ResolveChatID, DingTalkChat, QQChat, WeComChat, WeComAppChat, OneBotChat, PlaceChat
<1>2. ASSUME NEW h \in Handlers, Receive(h) PROVE HandlersInv'
  BY <1>2, ReceiveFrame, HandlerMoves
<1>3. ASSUME NEW h \in Handlers, HandlerStep(h) PROVE HandlersInv'
  <2> USE DEF At, HandlerSteps, StepFits, handlerOnly, adapterVars
  <2>0. hs[h].pc # "idle" /\ UNCHANGED platform
    BY <1>3 DEF HandlerStep, WeComTrim, WeComReset, TelegramThink, StartTyping, LineToken,
                DingTalkWebhook, OneBotNote, HandleMessage, TelegramShow, SlackAck, LineQuote
  <2>1. Event(h) \in Inputs[platform] /\ StepFits(platform, hs[h].pc)
    BY <2>0, HandlerEvent
  <2>2. CASE HandleMessage(h)
    <3> DEFINE S == {IdleHandler} \cup [pc : HandlerSteps, ev : Inputs[platform]]
    <3>1. hs' = [hs EXCEPT ![h] = IdleHandler] /\ hs \in [Handlers -> S]
      BY <2>2 DEF HandleMessage, Drop, HandlersInv
    <3>2. hs' \in [Handlers -> S] /\ \A g \in Handlers : StepFits(platform, hs'[g].pc)
      BY <2>0, <3>1 DEF HandlersInv, IdleHandler
    <3>3. \A m \in inbound' : \E e \in Inputs[platform] : m.chat = ChatOf(e) /\ m.place = e.place
      <4>1. inbound' \subseteq inbound \cup {[chat |-> ChatOf(Event(h)), place |-> Event(h).place]}
        BY <2>2 DEF HandleMessage, Chat
      <4> QED
        BY <2>1, <4>1 DEF HandlersInv
    <3>4. \A e \in Inputs[platform] : ChatOf(e)' = ChatOf(e)
      BY <2>0 DEF ChatOf, SlackMessageChat, SlackMentionChat, SlackCommandChat, ResolveChatID,
         DingTalkChat, QQChat, WeComChat, WeComAppChat, OneBotChat, PlaceChat
    <3> QED
      BY <2>0, <3>2, <3>3, <3>4 DEF HandlersInv
  <2>3. CASE WeComTrim(h) \/ WeComReset(h)
    BY <2>3, <2>1, HandlerMoves DEF WeComTrim, WeComReset
  <2>4. CASE TelegramThink(h) \/ \E ok \in BOOLEAN : TelegramShow(h, ok)
    BY <2>4, <2>1, HandlerMoves DEF TelegramThink, TelegramShow
  <2>5. CASE StartTyping(h) \/ DingTalkWebhook(h) \/ OneBotNote(h)
    BY <2>5, <2>1, HandlerMoves DEF StartTyping, DingTalkWebhook, OneBotNote
  <2>6. CASE LineToken(h)
    BY <2>6, <2>1, HandlerMoves DEF LineToken
  <2>7. CASE \E ok \in BOOLEAN : SlackAck(h, ok) \/ LineQuote(h, ok)
    BY <2>7, <2>1, HandlerMoves DEF SlackAck, LineQuote, Unless
  <2> QED
    BY <1>3, <2>2, <2>3, <2>4, <2>5, <2>6, <2>7 DEF HandlerStep
<1>4. CASE StartAny \/ StopAny \/ SendStep
  BY <1>1, <1>4, StartFrame, StopFrame, SendFrame
<1>5. ASSUME NEW ok \in BOOLEAN, TokenRefreshLoop(ok) PROVE HandlersInv'
  BY <1>1, <1>5 DEF TokenRefreshLoop, adapterVars
<1>6. ASSUME NEW m \in open, TypingEnds(m) PROVE HandlersInv'
  BY <1>1, <1>6 DEF TypingEnds, handlerOnly, adapterVars
<1>7. ASSUME NEW c \in Chats, NEW n \in 0 .. MaxChunks, SendBegin(c, n) PROVE HandlersInv'
  BY <1>1, <1>7 DEF SendBegin, sendOnly, adapterVars
<1>8. CASE Tick \/ UNCHANGED vars
  BY <1>1, <1>8 DEF Tick, vars, adapterVars
<1> QED
  BY <1>2, <1>3, <1>4, <1>5, <1>6, <1>7, <1>8 DEF Next

(* The address of a chat is the conversation it came from, but for QQ's    *)
(* groups and WeCom's bot.                                                 *)
LEMMA TargetOfChat ==
  ASSUME platform \in Platforms, NEW e \in Inputs[platform]
  PROVE  \/ Target(ChatOf(e)) = e.place.id
         \/ platform = "qq" /\ e.place.group
         \/ platform = "wecom"
<1>1. e.from \in Users
  BY DEF Users
<1>2. CASE platform = "slack"
  BY <1>2 DEF ChatOf, Target, ParseSlackChatID, SlackMentionChat, SlackCommandChat, SlackMessageChat
<1>3. CASE platform = "onebot"
  BY <1>1, <1>3, EventAssumption DEF ChatOf, Target, OneBotChat, BuildSendRequest
<1>4. CASE platform \in {"qq", "wecom"}
  BY <1>1, <1>4, EventAssumption DEF ChatOf, Target, QQChat, PostC2CMessage
<1>5. CASE platform \in {"dingtalk", "wecom_app"}
  BY <1>5, EventAssumption DEF ChatOf, Target, DingTalkChat, WeComAppChat
<1>6. CASE platform \in {"telegram", "discord", "line", "feishu"}
  BY <1>6 DEF ChatOf, Target, ResolveChatID, PlaceChat
<1> QED
  BY <1>2, <1>3, <1>4, <1>5, <1>6, AdapterAssumption

-------------------------------------------------------------------------------
(* The duplicate checks.                                                   *)

(* The members of a sequence after Append.                                 *)
LEMMA MembersAppend ==
  ASSUME NEW T, NEW s \in Seq(T), NEW x \in T
  PROVE  /\ Append(s, x) \in Seq(T) /\ Len(Append(s, x)) = Len(s) + 1
         /\ Members(Append(s, x)) = Members(s) \cup {x}
<1>1. /\ Append(s, x) \in Seq(T) /\ Len(s) \in Nat /\ Len(Append(s, x)) = Len(s) + 1
      /\ DOMAIN s = 1 .. Len(s) /\ DOMAIN Append(s, x) = 1 .. Len(s) + 1
      /\ \A k \in 1 .. Len(s) : Append(s, x)[k] = s[k]
      /\ Append(s, x)[Len(s) + 1] = x
  BY AppendProperties, LenProperties
<1>2. \A k : k \in 1 .. Len(s) + 1 <=> k \in 1 .. Len(s) \/ k = Len(s) + 1
  BY <1>1
<1> QED
  BY <1>1, <1>2 DEF Members

(* A step that leaves the table alone, and sends no handler to empty it.   *)
LEMMA DedupFrame ==
  ASSUME DedupInv, UNCHANGED <<platform, seen, handled>>,
         \A h \in Handlers : hs'[h].pc = "reset" => hs[h].pc = "reset" \/ Cardinality(Passed) > Window
  PROVE  DedupInv'
<1>1. Ids' = Ids /\ Passed' = Passed
  BY DEF Ids, Passed
<1> QED
  BY <1>1 DEF DedupInv

(* A new id passes the check: if the ids that have passed still fit, the   *)
(* table takes it and it has passed once.                                  *)
LEMMA NewId ==
  ASSUME DedupInv, UNCHANGED platform, NEW i \in Ids, i \notin Members(seen), Remember(i),
         seen \in Seq(Ids) /\ Len(seen) < Window => seen' = Append(seen, i),
         \A h \in Handlers : hs'[h].pc = "reset" => hs[h].pc = "reset"
  PROVE  DedupInv'
<1>1. Ids' = Ids /\ handled' \in [Ids -> Nat] /\ handled'[i] = handled[i] + 1 /\ handled[i] \in Nat
      /\ \A j \in Ids \ {i} : handled'[j] = handled[j]
  BY DEF Ids, DedupInv, Remember
<1>2. Passed' = Passed \cup {i}
  <2>1. handled'[i] > 0
    BY <1>1
  <2> QED
    BY <1>1, <2>1 DEF Passed
<1>3. /\ IsFiniteSet(Passed') /\ Cardinality(Passed) \in Nat /\ Cardinality(Passed') \in Nat
      /\ Cardinality(Passed') = IF i \in Passed THEN Cardinality(Passed) ELSE Cardinality(Passed) + 1
  BY <1>2, FS_AddElement, FS_CardinalityType DEF DedupInv
<1>4. Window \in Nat
  BY AdapterAssumption
<1>5. ASSUME Cardinality(Passed') <= Window
      PROVE  /\ seen' \in Seq(Ids) /\ Len(seen') = Cardinality(Passed') /\ Members(seen') = Passed'
             /\ \A j \in Ids : handled'[j] <= 1
  <2>1. Cardinality(Passed) <= Window
    BY <1>3, <1>4, <1>5
  <2>2. /\ seen \in Seq(Ids) /\ Len(seen) = Cardinality(Passed) /\ Members(seen) = Passed
        /\ \A j \in Ids : handled[j] <= 1
    BY <2>1 DEF DedupInv
  <2>3. i \notin Passed /\ Cardinality(Passed') = Len(seen) + 1 /\ Len(seen) < Window
    BY <1>3, <1>4, <1>5, <2>2
  <2>4. /\ seen' \in Seq(Ids) /\ Len(seen') = Len(seen) + 1 /\ Members(seen') = Members(seen) \cup {i}
    <3>1. seen' = Append(seen, i) /\ seen \in Seq(Ids)
      BY <2>2, <2>3
    <3>2. /\ Append(seen, i) \in Seq(Ids) /\ Len(Append(seen, i)) = Len(seen) + 1
          /\ Members(Append(seen, i)) = Members(seen) \cup {i}
      BY ONLY <3>1, i \in Ids, MembersAppend
    <3> QED
      BY <3>1, <3>2 DEF Members
  <2>5. handled'[i] = 1
    <3>1. ~(handled[i] > 0)
      BY <2>3 DEF Passed
    <3> QED
      BY <1>1, <3>1
  <2> QED
    BY <1>1, <1>2, <2>2, <2>3, <2>4, <2>5
<1>6. \A h \in Handlers : hs'[h].pc = "reset" => Cardinality(Passed') > Window
  <2>1. Cardinality(Passed) > Window => Cardinality(Passed') > Window
    BY <1>3, <1>4
  <2> QED
    BY <2>1 DEF DedupInv
<1> QED
  BY <1>1, <1>3, <1>5, <1>6 DEF DedupInv

(* Receiving an event keeps DedupInv.                                      *)
LEMMA ReceiveDedup == ASSUME HandlersInv, DedupInv, NEW h \in Handlers, Receive(h) PROVE DedupInv'
<1>1. \A g \in Handlers : hs'[g].pc = "reset" => hs[g].pc = "reset"
  <2>1. PICK e \in Inputs[platform] :
              \/ Drop(h)
              \/ \E pc \in HandlerSteps \ {"reset"} : Goto(h, e, pc)
    BY ReceiveFrame
  <2> QED
    BY <2>1 DEF Drop, Goto, IdleHandler, HandlersInv
<1>2. PICK e \in Inputs[platform] :
      \/ TelegramReceive(h, e) \/ DiscordReceive(h, e) \/ SlackReceive(h, e)
      \/ LineReceive(h, e) \/ DingTalkReceive(h, e) \/ FeishuReceive(h, e)
      \/ QQReceive(h, e) \/ OneBotReceive(h, e) \/ WeComReceive(h, e)
      \/ WeComAppReceive(h, e)
  BY DEF Receive
<1>3. UNCHANGED platform
  BY ReceiveFrame
<1>4. e.id \in Ids
  BY DEF Ids
<1>5. CASE UNCHANGED <<seen, handled>>
  BY <1>1, <1>3, <1>5, DedupFrame
<1>6. CASE QQReceive(h, e)
  <2>1. CASE e.id \in Members(seen)
    BY <1>5, <1>6, <2>1 DEF QQReceive, dedupVars
  <2>2. CASE e.id \notin Members(seen)
    <3>1. QQIsDuplicate(e.id)
      BY <1>6, <2>2 DEF QQReceive
    <3>2. seen \in Seq(Ids) /\ Len(seen) < Window => seen' = Append(seen, e.id)
      <4> SUFFICES ASSUME seen \in Seq(Ids), Len(seen) < Window PROVE seen' = Append(seen, e.id)
        OBVIOUS
      <4>1. ~(Len(Append(seen, e.id)) > Window)
        BY <1>4, MembersAppend, AdapterAssumption
      <4> QED
        BY <3>1, <4>1 DEF QQIsDuplicate
    <3> QED
      BY <1>1, <1>3, <1>4, <2>2, <3>1, <3>2, NewId DEF QQIsDuplicate
  <2> QED
    BY <2>1, <2>2
<1>7. CASE OneBotReceive(h, e)
  <2>1. CASE ~UNCHANGED <<seen, handled>>
    <3>1. OneBotIsDuplicate(e.id) /\ e.id \notin Members(seen)
      BY <1>7, <2>1 DEF OneBotReceive, dedupVars
    <3> QED
      BY <1>1, <1>3, <1>4, <3>1, NewId DEF OneBotIsDuplicate
  <2> QED
    BY <1>5, <2>1
<1>8. CASE WeComReceive(h, e) \/ WeComAppReceive(h, e)
  <2>1. CASE ~UNCHANGED <<seen, handled>>
    <3>1. Remember(e.id) /\ seen' = Append(seen, e.id) /\ e.id \notin Members(seen)
      BY <1>8, <2>1 DEF WeComReceive, WeComAppReceive, WeComAdd, dedupVars
    <3> QED
      BY <1>1, <1>3, <1>4, <3>1, NewId
  <2> QED
    BY <1>5, <2>1
<1> QED
  BY <1>2, <1>5, <1>6, <1>7, <1>8 DEF TelegramReceive, DiscordReceive, SlackReceive, LineReceive,
     DingTalkReceive, FeishuReceive, dedupVars

(* Every step keeps DedupInv.                                              *)
LEMMA DedupStep == HandlersInv /\ DedupInv /\ [Next]_vars => DedupInv'
<1> SUFFICES ASSUME HandlersInv, DedupInv, [Next]_vars PROVE DedupInv'
  OBVIOUS
<1>1. CASE UNCHANGED <<platform, hs, seen, handled>>
  BY <1>1, DedupFrame
<1>2. ASSUME NEW h \in Handlers, Receive(h) PROVE DedupInv'
  BY <1>2, ReceiveDedup
<1>3. ASSUME NEW h \in Handlers, HandlerStep(h) PROVE DedupInv'
  <2> USE DEF handlerOnly, adapterVars, dedupVars
  <2>1. hs \in [Handlers -> {IdleHandler} \cup [pc : HandlerSteps, ev : Inputs[platform]]]
    BY DEF HandlersInv
  <2>2. CASE WeComTrim(h)
    <3>1. CASE Len(seen) > Window
      <4>1. Cardinality(Passed) > Window
        <5>1. Cardinality(Passed) \in Nat /\ Window \in Nat
          BY AdapterAssumption, FS_CardinalityType DEF DedupInv
        <5> QED
          BY <3>1, <5>1 DEF DedupInv
      <4> QED
        BY <2>2, <4>1, DedupFrame DEF WeComTrim
    <3>2. CASE ~(Len(seen) > Window)
      <4>1. hs' = [hs EXCEPT ![h] = [pc |-> "publish", ev |-> Event(h)]]
        BY <2>2, <3>2 DEF WeComTrim, Goto
      <4>2. \A g \in Handlers : hs'[g].pc = "reset" => hs[g].pc = "reset"
        BY <2>1, <4>1
      <4> QED
        BY <2>2, <4>2, DedupFrame DEF WeComTrim
    <3> QED
      BY <3>1, <3>2
  <2>3. CASE WeComReset(h)
    <3>1. Cardinality(Passed) > Window /\ Cardinality(Passed) \in Nat /\ Window \in Nat
      BY <2>3, AdapterAssumption, FS_CardinalityType DEF WeComReset, At, DedupInv
    <3>2. Ids' = Ids /\ Passed' = Passed
      BY <2>3 DEF WeComReset, Ids, Passed
    <3>3. ~(Cardinality(Passed) <= Window)
      BY <3>1
    <3> QED
      BY <2>3, <3>1, <3>2, <3>3 DEF WeComReset, DedupInv
  <2>4. CASE /\ UNCHANGED <<platform, seen, handled>>
             /\ \/ Drop(h) \/ Goto(h, Event(h), "publish") \/ Goto(h, Event(h), "show")
                \/ Goto(h, Event(h), "quote")
    <3>1. \A g \in Handlers : hs'[g].pc = "reset" => hs[g].pc = "reset"
      BY <2>1, <2>4 DEF Drop, Goto, IdleHandler
    <3> QED
      BY <2>4, <3>1, DedupFrame
  <2>5. CASE TelegramThink(h) \/ StartTyping(h) \/ LineToken(h) \/ DingTalkWebhook(h)
    BY <2>4, <2>5 DEF TelegramThink, StartTyping, LineToken, DingTalkWebhook
  <2>6. CASE OneBotNote(h) \/ HandleMessage(h)
    BY <2>4, <2>6 DEF OneBotNote, HandleMessage
  <2>7. ASSUME NEW ok \in BOOLEAN, TelegramShow(h, ok) \/ SlackAck(h, ok) \/ LineQuote(h, ok)
        PROVE  DedupInv'
    BY <2>4, <2>7 DEF TelegramShow, SlackAck, LineQuote, Unless
  <2> QED
    BY <1>3, <2>2, <2>3, <2>5, <2>6, <2>7 DEF HandlerStep
<1>4. CASE StartAny \/ StopAny \/ SendStep
  BY <1>1, <1>4, StartFrame, StopFrame, SendFrame
<1>5. ASSUME NEW ok \in BOOLEAN, TokenRefreshLoop(ok) PROVE DedupInv'
  BY <1>1, <1>5 DEF TokenRefreshLoop, adapterVars, dedupVars
<1>6. ASSUME NEW m \in open, TypingEnds(m) PROVE DedupInv'
  BY <1>1, <1>6 DEF TypingEnds, handlerOnly, adapterVars, dedupVars
<1>7. ASSUME NEW c \in Chats, NEW n \in 0 .. MaxChunks, SendBegin(c, n) PROVE DedupInv'
  BY <1>1, <1>7 DEF SendBegin, sendOnly, adapterVars, dedupVars
<1>8. CASE Tick \/ UNCHANGED vars
  BY <1>1, <1>8 DEF Tick, vars, adapterVars, dedupVars
<1> QED
  BY <1>2, <1>3, <1>4, <1>5, <1>6, <1>7, <1>8 DEF Next


-------------------------------------------------------------------------------
(* The progress of a Send.                                                 *)

(* A Send at work is a record of Sends.                                    *)
LEMMA SendAtWork ==
  ASSUME SendInv, out.pc # "idle"
  PROVE  /\ out \in Sends /\ SendFits(platform, out.pc)
         /\ out.got \in Nat /\ out.left \in Nat /\ out.chunks \in Nat /\ out.chat \in Chats
         /\ IF platform = "discord" THEN out.got + out.left >= out.chunks ELSE out.chunks = 1
<1>1. out \in Sends
  BY DEF SendInv, IdleSend
<1> QED
  BY <1>1 DEF SendInv, Sends

(* What Step does to the Send.                                             *)
LEMMA StepOut ==
  ASSUME out \in Sends, NEW pc \in SendSteps, NEW o \in Outcomes \cup {Nothing}, Step(pc, o)
  PROVE  /\ out' \in Sends /\ out'.pc = pc /\ out'.chat = out.chat /\ out'.chunks = out.chunks
         /\ out'.left = out.left /\ out'.got = out.got + o.got /\ out'.mark = out.mark
         /\ o.got \in Nat /\ sent' = sent
<1>1. o.got \in Nat
  BY DEF Outcomes, Nothing
<1>2. out.got + o.got \in Nat
  BY <1>1 DEF Sends
<1> QED
  BY <1>1, <1>2 DEF Step, Sends

(* A Send that goes on keeps SendInv.                                      *)
LEMMA SendGoesOn ==
  ASSUME SendInv, out.pc # "idle", UNCHANGED platform, NEW pc \in SendSteps,
         SendFits(platform, pc), pc = "chunk" => out.left > 0,
         NEW o \in Outcomes \cup {Nothing}, Step(pc, o)
  PROVE  SendInv'
<1>1. /\ out \in Sends /\ out.got \in Nat /\ out.left \in Nat /\ out.chunks \in Nat
      /\ IF platform = "discord" THEN out.got + out.left >= out.chunks ELSE out.chunks = 1
  BY SendAtWork
<1>2. /\ out' \in Sends /\ out'.pc = pc /\ out'.chunks = out.chunks /\ out'.left = out.left
      /\ out'.got = out.got + o.got /\ o.got \in Nat /\ sent' = sent
  BY <1>1, StepOut
<1>3. Chats' = Chats
  BY ChatsFixed
<1>4. out' \in {IdleSend} \cup Sends'
  BY <1>2, <1>3 DEF Sends
<1>5. IF platform = "discord" THEN out'.got + out'.left >= out'.chunks ELSE out'.chunks = 1
  BY <1>1, <1>2
<1>6. SendFits(platform', out'.pc) /\ (out'.pc = "chunk" => out'.left > 0)
  BY <1>2
<1>7. SentMeansDelivered'
  BY <1>2 DEF SendInv, SentMeansDelivered
<1> QED
  BY <1>4, <1>5, <1>6, <1>7 DEF SendInv

(* A Send that returns nil only when everything is delivered keeps SendInv.*)
LEMMA SendReturns ==
  ASSUME SendInv, out.pc # "idle", UNCHANGED platform, NEW res, NEW o \in Outcomes \cup {Nothing},
         Return(res, o), res = "nil" => out.got + o.got >= out.chunks
  PROVE  SendInv'
<1>1. out' = IdleSend /\ out'.pc = "idle"
  BY DEF Return, IdleSend
<1>2. SentMeansDelivered'
  BY DEF Return, SentMeansDelivered
<1> QED
  BY <1>1, <1>2 DEF SendInv

(* Whatever is not Discord has delivered its one chunk when a call succeeds.*)
LEMMA OneChunk ==
  ASSUME SendInv, out.pc # "idle", platform # "discord", NEW o \in Outcomes, o.ok
  PROVE  out.got + o.got >= out.chunks
<1>1. o.got = 1
  BY DEF Outcomes
<1> QED
  BY <1>1, SendAtWork

(* A step of Telegram's Send keeps SendInv.                                *)
LEMMA TelegramSendInv ==
  ASSUME SendInv, memo \in [Chats -> Notes], UNCHANGED platform, NEW o \in Outcomes,
         TelegramSend(o)
  PROVE  SendInv'
<1> USE DEF Calling, SendSteps, SendFits
<1>0. out.pc # "idle" /\ SendFits(platform, out.pc) /\ platform = "telegram"
  <2>1. out.pc # "idle" /\ out.pc \in {"telegram", "forget", "load", "delete", "edit", "post", "plain"}
    BY DEF TelegramSend, TelegramStopThinking, TelegramForget, TelegramLoad, TelegramDelete,
           TelegramEdit, TelegramPost, TelegramPlain
  <2> QED
    BY <2>1, SendAtWork
<1>1. Nothing \in Outcomes \cup {Nothing} /\ o \in Outcomes \cup {Nothing}
  OBVIOUS
<1>2. CASE TelegramStopThinking
  <2>1. CASE Return("error", Nothing)
    BY <1>0, <1>1, <2>1, SendReturns
  <2>2. ASSUME NEW pc \in {"forget", "load"}, Step(pc, Nothing) PROVE SendInv'
    BY <1>0, <1>1, <2>2, SendGoesOn
  <2> QED
    BY <1>2, <2>1, <2>2 DEF TelegramStopThinking, NotRunning
<1>3. CASE TelegramForget
  BY <1>0, <1>1, <1>3, SendGoesOn DEF TelegramForget
<1>4. CASE TelegramDelete
  BY <1>0, <1>1, <1>4, SendGoesOn DEF TelegramDelete
<1>5. CASE TelegramEdit(o) \/ TelegramPost(o) \/ TelegramPlain(o)
  <2>1. CASE Return("nil", o) /\ o.ok
    <3>1. out.got + o.got >= out.chunks
      BY <1>0, <2>1, OneChunk
    <3> QED
      BY <1>0, <1>1, <2>1, <3>1, SendReturns
  <2>2. CASE Return("error", o)
    BY <1>0, <1>1, <2>2, SendReturns
  <2>3. ASSUME NEW pc \in {"post", "plain"}, Step(pc, o) PROVE SendInv'
    BY <1>0, <1>1, <2>3, SendGoesOn
  <2> QED
    BY <1>5, <2>1, <2>2, <2>3 DEF TelegramEdit, TelegramPost, TelegramPlain
<1>6. CASE TelegramLoad
  <2>1. PICK pc \in {"delete", "post"} : out' = [out EXCEPT !.pc = pc, !.mark = Note.mark]
    BY <1>6 DEF TelegramLoad
  <2>2. out \in Sends /\ out.chunks = 1 /\ out.chat \in Chats
    BY <1>0, SendAtWork
  <2>3. Note.mark \in Nat
    BY <2>2 DEF Note, Notes
  <2>4. out' \in Sends /\ out'.pc = pc /\ out'.chunks = 1
    BY <2>1, <2>2, <2>3 DEF Sends
  <2>5. Chats' = Chats
    BY ChatsFixed
  <2>6. out' \in Sends'
    BY <2>4, <2>5 DEF Sends
  <2>7. SentMeansDelivered'
    BY <1>6 DEF TelegramLoad, SendInv, SentMeansDelivered
  <2> QED
    BY <1>0, <2>1, <2>4, <2>6, <2>7 DEF SendInv
<1> QED
  BY <1>2, <1>3, <1>4, <1>5, <1>6 DEF TelegramSend

(* A step of Discord's Send keeps SendInv.                                 *)
LEMMA DiscordSendInv ==
  ASSUME SendInv, UNCHANGED platform, NEW o \in Outcomes, DiscordSend \/ SendChunk(o)
  PROVE  SendInv'
<1> USE DEF Calling, SendSteps, SendFits
<1>0. /\ out.pc # "idle" /\ platform = "discord" /\ out \in Sends
      /\ out.got \in Nat /\ out.left \in Nat /\ out.chunks \in Nat
      /\ out.got + out.left >= out.chunks
  <2>1. out.pc \in {"discord", "chunk"}
    BY DEF DiscordSend, SendChunk
  <2> QED
    BY <2>1, SendAtWork
<1>1. /\ Nothing \in Outcomes \cup {Nothing} /\ o \in Outcomes \cup {Nothing}
      /\ Nothing.got = 0 /\ o.got \in Nat /\ (o.ok => o.got = 1)
  BY DEF Outcomes, Nothing
<1>2. CASE DiscordSend
  <2>1. CASE Return("error", Nothing)
    BY <1>0, <1>1, <2>1, SendReturns
  <2>2. CASE out.left = 0 /\ Return("nil", Nothing)
    <3>1. out.got + Nothing.got >= out.chunks
      BY <1>0, <1>1, <2>2
    <3> QED
      BY <1>0, <1>1, <2>2, <3>1, SendReturns
  <2>3. CASE out.left # 0 /\ Step("chunk", Nothing)
    <3>1. out.left > 0
      BY <1>0, <2>3
    <3> QED
      BY <1>0, <1>1, <2>3, <3>1, SendGoesOn
  <2> QED
    BY <1>2, <2>1, <2>2, <2>3 DEF DiscordSend
<1>3. CASE SendChunk(o)
  <2>1. CASE Return("error", o)
    BY <1>0, <1>1, <2>1, SendReturns
  <2>2. CASE out.left = 1 /\ o.ok /\ Return("nil", o)
    <3>1. out.got + o.got >= out.chunks
      BY <1>0, <1>1, <2>2
    <3> QED
      BY <1>0, <1>1, <2>2, <3>1, SendReturns
  <2>3. CASE /\ out.left # 1 /\ o.ok /\ sent' = sent
             /\ out' = [out EXCEPT !.left = @ - 1, !.got = @ + o.got]
    <3>1. out.pc = "chunk" /\ out.left > 0
      BY <1>3 DEF SendChunk, SendInv
    <3>2. out.left - 1 \in Nat /\ out.left - 1 > 0 /\ out.got + 1 \in Nat
      BY <1>0, <2>3, <3>1
    <3>3. /\ out' \in Sends /\ out'.pc = "chunk" /\ out'.left = out.left - 1
          /\ out'.got = out.got + 1 /\ out'.chunks = out.chunks
      BY <1>0, <1>1, <2>3, <3>1, <3>2 DEF Sends
    <3>4. out'.left > 0 /\ out'.got + out'.left >= out'.chunks
      BY <1>0, <3>2, <3>3
    <3>5. Chats' = Chats
      BY ChatsFixed
    <3>6. out' \in Sends'
      BY <3>3, <3>5 DEF Sends
    <3>7. SentMeansDelivered'
      BY <2>3 DEF SendInv, SentMeansDelivered
    <3> QED
      BY <1>0, <3>3, <3>4, <3>6, <3>7 DEF SendInv
  <2> QED
    BY <1>3, <2>1, <2>2, <2>3 DEF SendChunk
<1> QED
  BY <1>2, <1>3

(* A step of any other Send keeps SendInv.                                 *)
LEMMA OtherSendInv ==
  ASSUME SendInv, UNCHANGED platform, NEW o \in Outcomes,
         \/ LineSend \/ SlackSend(o) \/ OneBotSend(o) \/ LineReply(o) \/ LinePush(o)
         \/ DingTalkSend(o) \/ QQSend(o) \/ FeishuSend(o) \/ WeComSend(o) \/ WeComAppSend(o)
  PROVE  SendInv'
<1> USE DEF Calling, SendSteps, SendFits
<1>0. out.pc # "idle" /\ platform # "discord" /\ (out.pc \in {"line", "take"} => platform = "line")
  <2>1. out.pc \in {"line", "slack", "onebot", "take", "push", "dingtalk", "qq", "feishu", "wecom",
                    "wecom_app"}
    BY DEF LineSend, SlackSend, OneBotSend, LineReply, LinePush, DingTalkSend, QQSend, FeishuSend,
           WeComSend, WeComAppSend
  <2> QED
    BY <2>1, SendAtWork
<1>1. Nothing \in Outcomes \cup {Nothing} /\ o \in Outcomes \cup {Nothing}
  OBVIOUS
<1>2. ASSUME NEW q \in Outcomes \cup {Nothing}, Return("error", q) PROVE SendInv'
  BY <1>0, <1>2, SendReturns
<1>3. CASE o.ok /\ Return("nil", o)
  <2>1. out.got + o.got >= out.chunks
    BY <1>0, <1>3, OneChunk
  <2> QED
    BY <1>0, <1>1, <1>3, <2>1, SendReturns
<1>4. CASE LineSend
  <2>1. CASE NotRunning
    BY <1>1, <1>2, <2>1 DEF NotRunning
  <2>2. CASE Step("take", Nothing)
    BY <1>0, <1>1, <1>4, <2>2, SendGoesOn DEF LineSend
  <2> QED
    BY <1>4, <2>1, <2>2 DEF LineSend
<1>5. CASE LineReply(o)
  <2>1. ASSUME NEW q \in {o, Nothing}, Step("push", q) PROVE SendInv'
    BY <1>0, <1>1, <1>5, <2>1, SendGoesOn DEF LineReply
  <2> QED
    BY <1>3, <1>5, <2>1 DEF LineReply
<1>6. CASE LinePush(o)
  BY <1>1, <1>2, <1>3, <1>6 DEF LinePush
<1>7. CASE SlackSend(o) \/ OneBotSend(o)
  BY <1>1, <1>2, <1>3, <1>7 DEF SlackSend, OneBotSend, NotRunning
<1>8. CASE DingTalkSend(o)
  <2>1. [ok |-> FALSE, got |-> 0] \in Outcomes \cup {Nothing} /\ ~[ok |-> FALSE, got |-> 0].ok
    BY DEF Outcomes
  <2> QED
    BY <1>1, <1>2, <1>3, <1>8, <2>1 DEF DingTalkSend, NotRunning, PostOnce
<1>9. CASE QQSend(o) \/ FeishuSend(o) \/ WeComSend(o)
  BY <1>1, <1>2, <1>3, <1>9 DEF QQSend, FeishuSend, WeComSend, SendWebhookReply, PostOnce, NotRunning
<1>10. CASE WeComAppSend(o)
  BY <1>1, <1>2, <1>3, <1>10 DEF WeComAppSend, SendTextMessage, NotRunning
<1> QED
  BY <1>4, <1>5, <1>6, <1>7, <1>8, <1>9, <1>10

(* Every step keeps SendInv.                                               *)
LEMMA SendKept ==
  HandlersInv /\ SendInv /\ memo \in [Chats -> Notes] /\ [Next]_vars => SendInv'
<1> SUFFICES ASSUME HandlersInv, SendInv, memo \in [Chats -> Notes], [Next]_vars PROVE SendInv'
  OBVIOUS
<1>1. CASE UNCHANGED <<platform, out, sent>>
  <2>1. Sends' = Sends
    BY <1>1, ChatsFixed DEF Sends
  <2> QED
    BY <1>1, <2>1 DEF SendInv, SentMeansDelivered
<1>2. CASE SendStep
  <2>1. UNCHANGED platform /\ Nothing \in Outcomes \cup {Nothing} /\ \E o : o \in Outcomes
    BY <1>2, SendFrame DEF Outcomes
  <2>2. \E o \in Outcomes :
          \/ TelegramSend(o) \/ DiscordSend \/ SendChunk(o) \/ LineSend \/ SlackSend(o)
          \/ OneBotSend(o) \/ LineReply(o) \/ LinePush(o) \/ DingTalkSend(o) \/ QQSend(o)
          \/ FeishuSend(o) \/ WeComSend(o) \/ WeComAppSend(o)
    BY <1>2, <2>1 DEF SendStep
  <2> QED
    BY <2>1, <2>2, TelegramSendInv, DiscordSendInv, OtherSendInv
<1>3. ASSUME NEW c \in Chats, NEW n \in 0 .. MaxChunks, platform \in {"discord"} \/ n = 1,
             SendBegin(c, n)
      PROVE  SendInv'
  <2>1. /\ out' = [pc |-> platform, chat |-> c, chunks |-> n, left |-> n, got |-> 0, mark |-> 0]
        /\ UNCHANGED <<platform, sent>>
    BY <1>3 DEF SendBegin, sendOnly, adapterVars
  <2>2. /\ platform \in SendSteps /\ platform # "chunk" /\ SendFits(platform, platform)
        /\ n \in Nat /\ 0 \in Nat
    BY AdapterAssumption DEF HandlersInv, SendSteps, SendFits
  <2>3. /\ out' \in Sends /\ out'.pc = platform /\ out'.got = 0 /\ out'.left = n
        /\ out'.chunks = n
    BY <2>1, <2>2 DEF Sends
  <2>4. out'.got + out'.left >= out'.chunks
    BY <2>2, <2>3
  <2>5. out' \in Sends'
    BY <2>1, <2>3, ChatsFixed DEF Sends
  <2>6. SentMeansDelivered'
    BY <2>1 DEF SendInv, SentMeansDelivered
  <2> QED
    BY <1>3, <2>1, <2>2, <2>3, <2>4, <2>5, <2>6 DEF SendInv
<1>4. CASE StartAny \/ StopAny
  BY <1>1, <1>4, StartFrame, StopFrame
<1>5. ASSUME NEW ok \in BOOLEAN, TokenRefreshLoop(ok) PROVE SendInv'
  BY <1>1, <1>5 DEF TokenRefreshLoop, adapterVars, sendVars
<1>6. ASSUME NEW m \in open, TypingEnds(m) PROVE SendInv'
  BY <1>1, <1>6 DEF TypingEnds, handlerOnly, adapterVars, sendVars
<1>7. ASSUME NEW h \in Handlers, Receive(h) \/ HandlerStep(h) PROVE SendInv'
  BY <1>1, <1>7, ReceiveFrame, HandlerFrame
<1>8. CASE Tick \/ UNCHANGED vars
  BY <1>1, <1>8 DEF Tick, vars, adapterVars, sendVars
<1> QED
  BY <1>2, <1>3, <1>4, <1>5, <1>6, <1>7, <1>8 DEF Next

-------------------------------------------------------------------------------
(* The notes.  Five kinds of steps: one that leaves the marks alone, one   *)
(* that stores a new mark, one that takes a mark out of the notes, the     *)
(* edit of a loaded placeholder, and the end of a typing goroutine.        *)

(* The marks in the notes stay, or one of them becomes v.                  *)
MarksKept ==
  memo' \in [Chats -> Notes] /\ \A d \in Chats : memo'[d].mark = memo[d].mark
Stored(c, v) ==
  memo' \in [Chats -> Notes] /\ \A d \in Chats : memo'[d].mark = IF d = c THEN v ELSE memo[d].mark

(* One more use at the end of used.                                        *)
Presented(u) ==
  /\ used' \in Seq(Uses)
  /\ \E k : /\ k \notin DOMAIN used /\ DOMAIN used' = DOMAIN used \cup {k} /\ used'[k] = u
            /\ \A i \in DOMAIN used : used'[i] = used[i]

(* Storing a mark.                                                         *)
LEMMA StoreMark ==
  ASSUME memo \in [Chats -> Notes], NEW c \in Chats, NEW v \in Nat, memo' = [memo EXCEPT ![c].mark = v]
  PROVE  Stored(c, v)
<1> DEFINE r == [memo[c] EXCEPT !.mark = v]
<1>1. memo[c] \in Notes /\ memo' = [memo EXCEPT ![c] = r]
  OBVIOUS
<1>2. r \in Notes /\ r.mark = v
  BY <1>1 DEF Notes
<1> HIDE DEF r
<1> QED
  BY <1>1, <1>2 DEF Stored

(* Storing the other thing a note holds.                                   *)
LEMMA StoreAux ==
  ASSUME memo \in [Chats -> Notes], NEW c \in Chats, NEW v \in Nat, memo' = [memo EXCEPT ![c].aux = v]
  PROVE  MarksKept
<1> DEFINE r == [memo[c] EXCEPT !.aux = v]
<1>1. memo[c] \in Notes /\ memo' = [memo EXCEPT ![c] = r]
  OBVIOUS
<1>2. r \in Notes /\ r.mark = memo[c].mark
  BY <1>1 DEF Notes
<1> HIDE DEF r
<1> QED
  BY <1>1, <1>2 DEF MarksKept

(* Append presents one more use.                                           *)
LEMMA UsedAppend ==
  ASSUME used \in Seq(Uses), NEW u \in Uses, used' = Append(used, u)
  PROVE  Presented(u)
<1>1. /\ used' \in Seq(Uses) /\ Len(used) \in Nat
      /\ DOMAIN used = 1 .. Len(used) /\ DOMAIN used' = 1 .. Len(used) + 1
      /\ \A k \in 1 .. Len(used) : used'[k] = used[k]
      /\ used'[Len(used) + 1] = u
  BY AppendProperties, LenProperties
<1>2. /\ \A k : k \in 1 .. Len(used) + 1 <=> k \in 1 .. Len(used) \/ k = Len(used) + 1
      /\ Len(used) + 1 \notin 1 .. Len(used)
  BY <1>1
<1> QED
  BY <1>1, <1>2 DEF Presented

(* The Send goes from step to step without loading a mark, or forgetting   *)
(* the one it is editing.                                                  *)
OutKept ==
  /\ out'.pc \in {"delete", "edit"} =>
       out'.pc = out.pc /\ out'.mark = out.mark /\ out'.chat = out.chat
  /\ out.pc = "edit" => out'.pc = "edit" /\ out'.mark = out.mark

(* A step that leaves the marks alone keeps NotesInv.                      *)
LEMMA QuietNotes ==
  ASSUME NotesInv, SendInv, UNCHANGED <<platform, open, closed, raced, used, panicked>>,
         marks' \in {marks, marks + 1}, MarksKept, OutKept
  PROVE  NotesInv'
<1>0. Chats' = Chats
  BY ChatsFixed
<1>1. marks \in Nat /\ marks' \in Nat /\ marks <= marks' /\ 1 .. marks \subseteq 1 .. marks'
  BY DEF NotesInv, NoteTypes
<1>2. NoteTypes'
  <2>1. open' \subseteq [chat : Chats, n : 1 .. marks'] /\ closed' \subseteq 1 .. marks'
    BY <1>1 DEF NotesInv, NoteTypes
  <2>2. used' \in Seq(Uses') /\ memo' \in [Chats -> Notes]
    BY <1>0 DEF NotesInv, NoteTypes, Uses, MarksKept
  <2> QED
    BY <1>0, <1>1, <2>1, <2>2 DEF NoteTypes
<1>3. \A c \in Chats : memo[c].mark \in Nat /\ memo'[c].mark = memo[c].mark
  BY DEF NotesInv, NoteTypes, Notes, MarksKept
<1>4. MarksInv'
  <2>1. \A c \in Chats : memo'[c].mark <= marks' /\ memo'[c].mark \notin closed'
    <3>1. \A c \in Chats : memo[c].mark <= marks /\ memo[c].mark \notin closed
      BY DEF NotesInv, MarksInv
    <3> QED
      BY <1>1, <1>3, <3>1
  <2>2. \A c, d \in Chats : memo'[c].mark = memo'[d].mark /\ memo'[c].mark # 0 => c = d
    BY <1>3 DEF NotesInv, MarksInv
  <2>3. \A i \in DOMAIN used' :
          /\ used'[i].mark <= marks'
          /\ used'[i].mark # 0 => \A c \in Chats : memo'[c].mark # used'[i].mark
    <3>1. \A i \in DOMAIN used : used[i] \in Uses
      BY DEF NotesInv, NoteTypes
    <3>2. \A i \in DOMAIN used : used[i].mark \in Nat /\ used[i].mark <= marks
      BY <3>1 DEF NotesInv, MarksInv, Uses
    <3>3. \A i \in DOMAIN used : used[i].mark <= marks'
      BY <1>1, <3>2
    <3> QED
      BY <1>3, <3>3 DEF NotesInv, MarksInv
  <2>4. \A m \in open', c \in Chats : memo'[c].mark = m.n => m.chat = c
    BY <1>3 DEF NotesInv, MarksInv
  <2>5. (open # {} => platform \in {"telegram", "discord", "slack", "onebot"})'
    BY DEF NotesInv, MarksInv
  <2>6. MarksUsedOnce'
    BY DEF NotesInv, MarksInv, MarksUsedOnce
  <2> QED
    BY <1>0, <2>1, <2>2, <2>3, <2>4, <2>5, <2>6 DEF MarksInv
<1>5. LoadedInv'
  <2> SUFFICES ASSUME out'.pc \in {"delete", "edit"} PROVE LoadedInv'
    BY DEF LoadedInv
  <2>1. /\ out'.pc = out.pc /\ out'.mark = out.mark /\ out'.chat = out.chat
        /\ out.chat \in Chats
    BY SendAtWork DEF OutKept
  <2>2. out'.mark \in 1 .. marks'
    BY <1>1, <2>1 DEF NotesInv, LoadedInv
  <2> QED
    BY <1>0, <1>3, <2>1, <2>2 DEF NotesInv, LoadedInv
<1>6. IndicatorsAreKept'
  <2>1. \A m \in open : m.chat \in Chats
    BY DEF NotesInv, NoteTypes
  <2> QED
    BY <1>3, <2>1 DEF NotesInv, IndicatorsAreKept, OutKept
<1> QED
  BY <1>2, <1>4, <1>5, <1>6 DEF NotesInv

(* A step that stores a new mark keeps NotesInv: the mark is new, and what *)
(* it replaces is closed (Discord) or followed by the new one; one stored  *)
(* between a Send's Load and Delete is in raced.                           *)
LEMMA NewMarkNotes ==
  ASSUME NotesInv, SendInv, UNCHANGED <<platform, used, out>>, NEW c \in Chats,
         marks' = marks + 1, Stored(c, marks + 1),
         \/ /\ open' = open \cup {Mark(c, marks + 1)}
            /\ platform \in {"telegram", "discord", "slack", "onebot"}
         \/ open = {} /\ open' = {},
         \/ closed' = closed \cup Noted({c})
         \/ closed' = closed /\ platform # "discord",
         ~panicked', raced \subseteq raced',
         out.pc = "delete" /\ out.chat = c => marks + 1 \in raced'
  PROVE  NotesInv'
<1> DEFINE n == marks + 1
<1>0. Chats' = Chats
  BY ChatsFixed
<1>1. /\ marks \in Nat /\ n \in Nat /\ n # 0 /\ n \notin 1 .. marks /\ n \in 1 .. n
      /\ 1 .. marks \subseteq 1 .. n /\ \A x \in Nat : x <= marks => x # n /\ x <= n
      /\ \A x \in 1 .. marks : n > x /\ x # 0 /\ x \in Nat
      /\ n <= n
  BY DEF NotesInv, NoteTypes
<1>2. /\ marks' = n /\ memo' \in [Chats -> Notes] /\ memo \in [Chats -> Notes]
      /\ \A d \in Chats : memo'[d].mark = IF d = c THEN n ELSE memo[d].mark
  BY DEF Stored, NotesInv, NoteTypes
<1>3. \A d \in Chats : /\ memo[d].mark \in Nat /\ memo[d].mark # n /\ memo[d].mark <= n
                       /\ memo[d].mark \notin closed
  <2>1. \A d \in Chats : memo[d].mark \in Nat
    BY <1>2 DEF Notes
  <2> QED
    BY <1>1, <2>1 DEF NotesInv, MarksInv
<1>4. \A d \in Chats : memo[d].mark # 0 => memo[d].mark \in 1 .. marks
  <2> SUFFICES ASSUME NEW d \in Chats, memo[d].mark # 0 PROVE memo[d].mark \in 1 .. marks
    OBVIOUS
  <2>1. memo[d].mark \in Nat /\ memo[d].mark <= marks
    BY <1>3 DEF NotesInv, MarksInv
  <2> QED
    BY <1>1, <2>1
<1>5. /\ open \subseteq [chat : Chats, n : 1 .. marks] /\ closed \subseteq 1 .. marks
      /\ used \in Seq(Uses)
  BY DEF NotesInv, NoteTypes
<1>6. /\ open' = open \cup {Mark(c, n)} \/ (open = {} /\ open' = {})
      /\ Mark(c, n) \in [chat : Chats, n : 1 .. n] /\ Mark(c, n).chat = c /\ Mark(c, n).n = n
  BY <1>1 DEF Mark
<1>7. closed' \subseteq closed \cup Noted({c}) /\ closed \subseteq closed'
      /\ Noted({c}) = {memo[c].mark} \ {0}
  BY DEF Noted
<1>8. out.pc = "delete" /\ out.chat = c => n \in raced'
  OBVIOUS
<1> HIDE DEF n
<1>9. \A i \in DOMAIN used : used[i].mark \in Nat /\ used[i].mark <= marks /\ used[i].mark # n
                             /\ used[i].mark <= n
  <2>1. \A i \in DOMAIN used : used[i] \in Uses
    BY <1>5
  <2>2. \A i \in DOMAIN used : used[i].mark \in Nat /\ used[i].mark <= marks
    BY <2>1 DEF Uses, NotesInv, MarksInv
  <2> QED
    BY <1>1, <2>2
<1>10. NoteTypes'
  <2>1. open' \subseteq [chat : Chats, n : 1 .. n]
    BY <1>1, <1>5, <1>6
  <2>2. closed' \subseteq 1 .. n
    BY <1>1, <1>4, <1>5, <1>7
  <2>3. used' \in Seq(Uses')
    BY <1>0, <1>5 DEF Uses
  <2> QED
    BY <1>0, <1>1, <1>2, <2>1, <2>2, <2>3 DEF NoteTypes
<1>11. MarksInv'
  <2>1. \A d \in Chats : memo'[d].mark <= n /\ memo'[d].mark \notin closed'
    <3> SUFFICES ASSUME NEW d \in Chats PROVE memo'[d].mark <= n /\ memo'[d].mark \notin closed'
      OBVIOUS
    <3>1. CASE d = c
      BY <1>1, <1>2, <1>3, <1>5, <1>7, <3>1
    <3>2. CASE d # c
      <4>1. memo[c].mark # 0 => memo[d].mark # memo[c].mark
        BY <3>2 DEF NotesInv, MarksInv
      <4> QED
        BY <1>2, <1>3, <1>7, <3>2, <4>1
    <3> QED
      BY <3>1, <3>2
  <2>2. \A d, e \in Chats : memo'[d].mark = memo'[e].mark /\ memo'[d].mark # 0 => d = e
    BY <1>2, <1>3 DEF NotesInv, MarksInv
  <2>3. \A i \in DOMAIN used' :
          /\ used'[i].mark <= n
          /\ used'[i].mark # 0 => \A d \in Chats : memo'[d].mark # used'[i].mark
    BY <1>2, <1>9 DEF NotesInv, MarksInv
  <2>4. \A m \in open', d \in Chats : memo'[d].mark = m.n => m.chat = d
    <3> SUFFICES ASSUME NEW m \in open', NEW d \in Chats, memo'[d].mark = m.n PROVE m.chat = d
      OBVIOUS
    <3>1. CASE m \in open
      <4>1. m.n \in 1 .. marks
        BY <1>5, <3>1
      <4>2. m.n # n
        BY <1>1, <4>1
      <4> QED
        BY <1>2, <3>1, <4>2 DEF NotesInv, MarksInv
    <3>2. CASE m \notin open
      <4>1. m.chat = c /\ m.n = n
        BY <1>6, <3>2
      <4> QED
        BY <1>2, <1>3, <4>1
    <3> QED
      BY <3>1, <3>2
  <2>5. (open # {} => platform \in {"telegram", "discord", "slack", "onebot"})'
    BY DEF NotesInv, MarksInv
  <2>6. MarksUsedOnce'
    BY DEF NotesInv, MarksInv, MarksUsedOnce
  <2> QED
    BY <1>0, <1>2, <2>1, <2>2, <2>3, <2>4, <2>5, <2>6 DEF MarksInv
<1>12. LoadedInv'
  <2> SUFFICES ASSUME out.pc \in {"delete", "edit"} PROVE LoadedInv'
    BY DEF LoadedInv
  <2>1. /\ out.mark \in 1 .. marks
        /\ \A i \in DOMAIN used : used[i].mark # out.mark
        /\ \A m \in open : m.n = out.mark => m.chat = out.chat
        /\ \A d \in Chats : memo[d].mark = out.mark => d = out.chat /\ out.pc = "delete"
        /\ out.pc = "delete" => memo[out.chat].mark = out.mark \/ memo[out.chat].mark \in raced
    BY DEF NotesInv, LoadedInv
  <2>2. out.mark \in 1 .. n /\ out.mark # n
    BY <1>1, <2>1
  <2>3. \A m \in open' : m.n = out.mark => m.chat = out.chat
    BY <1>6, <2>1, <2>2
  <2>4. \A d \in Chats : memo'[d].mark = out.mark => d = out.chat /\ out.pc = "delete"
    BY <1>2, <2>1, <2>2
  <2>5. out.pc = "delete" => memo'[out.chat].mark = out.mark \/ memo'[out.chat].mark \in raced'
    <3>1. out.chat \in Chats
      BY SendAtWork
    <3> QED
      BY <1>2, <1>8, <2>1, <3>1
  <2> QED
    BY <1>0, <1>2, <2>1, <2>2, <2>3, <2>4, <2>5 DEF LoadedInv
<1>13. IndicatorsAreKept'
  <2> SUFFICES ASSUME NEW m \in open'
               PROVE  \/ m.n \in closed'
                      \/ memo'[m.chat].mark = m.n
                      \/ out.pc = "edit" /\ out.mark = m.n
                      \/ platform # "discord" /\ \E k \in open' : k.chat = m.chat /\ k.n > m.n
                      \/ platform # "discord" /\ \E i \in DOMAIN used :
                                                  used[i].chat = m.chat /\ used[i].mark > m.n
                      \/ m.n \in raced'
    BY DEF IndicatorsAreKept
  <2>1. CASE m \notin open
    BY <1>2, <1>6, <2>1
  <2>2. CASE m \in open
    <3>1. m.chat \in Chats /\ m.n \in 1 .. marks /\ m.n # 0 /\ n > m.n
      BY <1>1, <1>5, <2>2
    <3>2. CASE memo[m.chat].mark = m.n /\ m.chat = c
      <4>1. CASE platform = "discord"
        BY <1>7, <3>1, <3>2, <4>1
      <4>2. CASE platform # "discord"
        <5>1. Mark(c, n) \in open' /\ Mark(c, n).chat = m.chat /\ Mark(c, n).n > m.n
          BY <1>6, <2>2, <3>1, <3>2
        <5> QED
          BY <4>2, <5>1
      <4> QED
        BY <4>1, <4>2
    <3>3. CASE memo[m.chat].mark = m.n /\ m.chat # c
      BY <1>2, <3>1, <3>3
    <3>4. CASE memo[m.chat].mark # m.n
      <4>1. open \subseteq open'
        BY <1>6
      <4> QED
        BY <1>7, <2>2, <3>4, <4>1 DEF NotesInv, IndicatorsAreKept
    <3> QED
      BY <3>2, <3>3, <3>4
  <2> QED
    BY <2>1, <2>2
<1> QED
  BY <1>10, <1>11, <1>12, <1>13 DEF NotesInv

(* A step that takes the chat's mark out of the notes keeps NotesInv: what *)
(* the user sees is removed and its use recorded, or its stop is closed.   *)
LEMMA TakenNotes ==
  ASSUME NotesInv, SendInv, UNCHANGED <<platform, marks, raced>>, NEW c \in Chats, Stored(c, 0),
         out.pc \notin {"delete", "edit"}, out'.pc \notin {"delete", "edit"}, ~panicked',
         \/ used' = used
         \/ memo[c].mark # 0 /\ \E u \in Uses : u.chat = c /\ u.mark = memo[c].mark /\ Presented(u),
         \/ /\ closed' = closed /\ open' = open \ {Mark(c, memo[c].mark)} /\ platform # "discord"
            /\ memo[c].mark # 0 => used' # used
         \/ closed' = closed /\ open = {} /\ open' = {}
         \/ closed' = closed \cup Noted({c}) /\ open' = open /\ used' = used
  PROVE  NotesInv'
<1>0. Chats' = Chats
  BY ChatsFixed
<1>1. /\ memo' \in [Chats -> Notes] /\ memo \in [Chats -> Notes] /\ marks \in Nat
      /\ \A d \in Chats : memo'[d].mark = IF d = c THEN 0 ELSE memo[d].mark
      /\ open \subseteq [chat : Chats, n : 1 .. marks] /\ closed \subseteq 1 .. marks
      /\ used \in Seq(Uses)
  BY DEF Stored, NotesInv, NoteTypes
<1>2. \A x \in 1 .. marks : x # 0 /\ x \in Nat
  BY <1>1
<1>3. \A d \in Chats : memo[d].mark \in Nat /\ memo[d].mark <= marks /\ memo[d].mark \notin closed
  BY <1>1 DEF Notes, NotesInv, MarksInv
<1>4. memo[c].mark # 0 => memo[c].mark \in 1 .. marks
  <2>1. memo[c].mark \in Nat /\ memo[c].mark <= marks
    BY <1>3
  <2> QED
    BY <1>1, <2>1
<1>5. closed' \subseteq closed \cup ({memo[c].mark} \ {0}) /\ closed \subseteq closed'
  BY DEF Noted
<1>6. open' \subseteq open
  OBVIOUS
<1>7. /\ used' \in Seq(Uses)
      /\ \A i \in DOMAIN used : i \in DOMAIN used' /\ used'[i] = used[i]
      /\ \A i \in DOMAIN used' \ DOMAIN used :
           used'[i].chat = c /\ used'[i].mark = memo[c].mark /\ memo[c].mark # 0
      /\ \A i, j \in DOMAIN used' \ DOMAIN used : i = j
      /\ used' = used \/ \E i \in DOMAIN used' : used'[i].chat = c /\ used'[i].mark = memo[c].mark
  BY <1>1 DEF Presented
<1>8. NoteTypes'
  <2>1. open' \subseteq [chat : Chats, n : 1 .. marks] /\ closed' \subseteq 1 .. marks
    BY <1>1, <1>4, <1>5, <1>6
  <2>2. used' \in Seq(Uses')
    BY <1>0, <1>7 DEF Uses
  <2> QED
    BY <1>0, <1>1, <2>1, <2>2 DEF NoteTypes
<1>9. MarksInv'
  <2>1. \A d \in Chats : memo'[d].mark <= marks /\ memo'[d].mark \notin closed'
    <3> SUFFICES ASSUME NEW d \in Chats PROVE memo'[d].mark <= marks /\ memo'[d].mark \notin closed'
      OBVIOUS
    <3>1. CASE d = c
      <4>1. 0 <= marks /\ 0 \notin 1 .. marks
        BY <1>1
      <4>2. 0 \notin closed'
        BY <1>1, <1>5, <4>1
      <4> QED
        BY <1>1, <3>1, <4>1, <4>2
    <3>2. CASE d # c
      <4>1. memo[c].mark # 0 => memo[d].mark # memo[c].mark
        BY <3>2 DEF NotesInv, MarksInv
      <4> QED
        BY <1>1, <1>3, <1>5, <3>2, <4>1
    <3> QED
      BY <3>1, <3>2
  <2>2. \A d, e \in Chats : memo'[d].mark = memo'[e].mark /\ memo'[d].mark # 0 => d = e
    BY <1>1 DEF NotesInv, MarksInv
  <2>3. ASSUME NEW i \in DOMAIN used'
        PROVE  /\ used'[i].mark <= marks
               /\ used'[i].mark # 0 => \A d \in Chats : memo'[d].mark # used'[i].mark
    <3>1. CASE i \in DOMAIN used
      BY <1>1, <1>7, <3>1 DEF NotesInv, MarksInv
    <3>2. CASE i \notin DOMAIN used
      <4>1. used'[i].mark = memo[c].mark /\ memo[c].mark # 0
        BY <1>7, <3>2
      <4>2. \A d \in Chats : d # c => memo[d].mark # memo[c].mark
        BY <4>1 DEF NotesInv, MarksInv
      <4> QED
        BY <1>1, <1>3, <4>1, <4>2
    <3> QED
      BY <3>1, <3>2
  <2>4. \A m \in open', d \in Chats : memo'[d].mark = m.n => m.chat = d
    <3> SUFFICES ASSUME NEW m \in open', NEW d \in Chats, memo'[d].mark = m.n PROVE m.chat = d
      OBVIOUS
    <3>1. m \in open /\ m.n # 0
      BY <1>1, <1>2, <1>6
    <3> QED
      BY <1>1, <3>1 DEF NotesInv, MarksInv
  <2>5. (open # {} => platform \in {"telegram", "discord", "slack", "onebot"})'
    BY <1>6 DEF NotesInv, MarksInv
  <2>6. MarksUsedOnce'
    <3> SUFFICES ASSUME NEW i \in DOMAIN used', NEW j \in DOMAIN used', i # j, used'[i].mark # 0
                 PROVE  used'[i].mark # used'[j].mark
      BY DEF MarksUsedOnce
    <3>1. CASE i \in DOMAIN used /\ j \in DOMAIN used
      BY <1>7, <3>1 DEF NotesInv, MarksInv, MarksUsedOnce
    <3>2. CASE i \in DOMAIN used /\ j \notin DOMAIN used
      BY <1>7, <3>2 DEF NotesInv, MarksInv
    <3>3. CASE i \notin DOMAIN used /\ j \in DOMAIN used
      BY <1>7, <3>3 DEF NotesInv, MarksInv
    <3> QED
      BY <1>7, <3>1, <3>2, <3>3
  <2> QED
    BY <1>0, <2>1, <2>2, <2>3, <2>4, <2>5, <2>6 DEF MarksInv
<1>10. LoadedInv'
  BY DEF LoadedInv
<1>11. IndicatorsAreKept'
  <2> SUFFICES ASSUME NEW m \in open'
               PROVE  \/ m.n \in closed'
                      \/ memo'[m.chat].mark = m.n
                      \/ platform # "discord" /\ \E k \in open' : k.chat = m.chat /\ k.n > m.n
                      \/ platform # "discord" /\ \E i \in DOMAIN used' :
                                                  used'[i].chat = m.chat /\ used'[i].mark > m.n
                      \/ m.n \in raced
    BY DEF IndicatorsAreKept
  <2>1. m \in open /\ m \in [chat : Chats, n : 1 .. marks] /\ m.chat \in Chats /\ m.n # 0
    BY <1>1, <1>2, <1>6
  <2>2. CASE m.n \in closed
    BY <1>5, <2>2
  <2>3. CASE memo[m.chat].mark = m.n /\ m.chat # c
    BY <1>1, <2>1, <2>3
  <2>4. CASE memo[m.chat].mark = m.n /\ m.chat = c
    <3>1. m = Mark(c, memo[c].mark)
      BY <2>1, <2>4 DEF Mark
    <3> QED
      BY <2>1, <2>4, <3>1 DEF Noted
  <2>5. CASE platform # "discord" /\ \E k \in open : k.chat = m.chat /\ k.n > m.n
    <3>1. PICK k \in open : k.chat = m.chat /\ k.n > m.n
      BY <2>5
    <3>2. CASE k \in open'
      BY <2>5, <3>1, <3>2
    <3>3. CASE k \notin open'
      <4>1. k = Mark(c, memo[c].mark) /\ used' # used
        <5>1. k.n # 0
          BY <1>1, <1>2
        <5> QED
          BY <3>3, <5>1, <2>1 DEF Mark
      <4>2. k.chat = c /\ k.n = memo[c].mark
        BY <4>1 DEF Mark
      <4> QED
        BY <1>7, <2>5, <3>1, <4>1, <4>2
    <3> QED
      BY <3>2, <3>3
  <2>6. CASE platform # "discord" /\ \E i \in DOMAIN used : used[i].chat = m.chat /\ used[i].mark > m.n
    BY <1>7, <2>6
  <2>7. CASE m.n \in raced
    BY <2>7
  <2> QED
    BY <2>1, <2>2, <2>3, <2>4, <2>5, <2>6, <2>7 DEF NotesInv, IndicatorsAreKept
<1> QED
  BY <1>8, <1>9, <1>10, <1>11 DEF NotesInv

(* The edit of a loaded placeholder keeps NotesInv: the mark is this       *)
(* Send's alone.                                                           *)
LEMMA EditNotes ==
  ASSUME NotesInv, SendInv, NEW o \in Outcomes, TelegramEdit(o), UNCHANGED platform
  PROVE  NotesInv'
<1>0. Chats' = Chats
  BY ChatsFixed
<1>1. /\ out.pc = "edit" /\ out \in Sends /\ out.chat \in Chats
      /\ UNCHANGED <<memo, marks, closed, raced, panicked>>
      /\ open' = open \ {Mark(out.chat, out.mark)}
  BY SendAtWork DEF TelegramEdit, Calling
<1>2. out'.pc \notin {"delete", "edit"}
  <2>1. CASE Return("nil", o)
    BY <2>1 DEF Return, IdleSend
  <2>2. CASE Step("post", o)
    BY <1>1, <2>2, StepOut DEF SendSteps
  <2> QED
    BY <2>1, <2>2 DEF TelegramEdit
<1>3. PICK u \in Uses : Presented(u) /\ u.mark = out.mark /\ u.chat = out.chat
  <2> DEFINE u == [chat |-> out.chat, mark |-> out.mark, age |-> 0, life |-> 1]
  <2>1. u \in Uses /\ u.mark = out.mark /\ u.chat = out.chat
    BY <1>1 DEF Uses, Sends
  <2>2. used' = Append(used, u) /\ used \in Seq(Uses)
    BY DEF TelegramEdit, Use, NotesInv, NoteTypes
  <2> HIDE DEF u
  <2> QED
    BY <2>1, <2>2, UsedAppend
<1>4. /\ out.mark \in 1 .. marks /\ marks \in Nat
      /\ \A i \in DOMAIN used : used[i].mark # out.mark
      /\ \A m \in open : m.n = out.mark => m.chat = out.chat
      /\ \A d \in Chats : memo[d].mark # out.mark
  BY <1>1 DEF NotesInv, LoadedInv, NoteTypes
<1>5. /\ used' \in Seq(Uses)
      /\ \A i \in DOMAIN used : i \in DOMAIN used' /\ used'[i] = used[i]
      /\ \A i \in DOMAIN used' \ DOMAIN used : used'[i].mark = out.mark
      /\ \A i, j \in DOMAIN used' \ DOMAIN used : i = j
      /\ \E i \in DOMAIN used' : used'[i].chat = out.chat /\ used'[i].mark = out.mark
  BY <1>3 DEF Presented
<1>6. open \subseteq [chat : Chats, n : 1 .. marks]
  BY DEF NotesInv, NoteTypes
<1>7. NoteTypes'
  <2>1. used' \in Seq(Uses')
    BY <1>0, <1>5 DEF Uses
  <2> QED
    BY <1>0, <1>1, <2>1 DEF NotesInv, NoteTypes
<1>8. MarksInv'
  <2>1. ASSUME NEW i \in DOMAIN used'
        PROVE  /\ used'[i].mark <= marks
               /\ used'[i].mark # 0 => \A d \in Chats : memo'[d].mark # used'[i].mark
    <3>1. CASE i \in DOMAIN used
      BY <1>1, <1>5, <3>1 DEF NotesInv, MarksInv
    <3>2. CASE i \notin DOMAIN used
      <4>1. out.mark <= marks
        BY <1>4
      <4> QED
        BY <1>1, <1>4, <1>5, <3>2, <4>1
    <3> QED
      BY <3>1, <3>2
  <2>2. \A m \in open', d \in Chats : memo'[d].mark = m.n => m.chat = d
    BY <1>1 DEF NotesInv, MarksInv
  <2>3. (open # {} => platform \in {"telegram", "discord", "slack", "onebot"})'
    BY <1>1 DEF NotesInv, MarksInv
  <2>4. MarksUsedOnce'
    <3> SUFFICES ASSUME NEW i \in DOMAIN used', NEW j \in DOMAIN used', i # j, used'[i].mark # 0
                 PROVE  used'[i].mark # used'[j].mark
      BY DEF MarksUsedOnce
    <3>1. CASE i \in DOMAIN used /\ j \in DOMAIN used
      BY <1>5, <3>1 DEF NotesInv, MarksInv, MarksUsedOnce
    <3>2. CASE i \in DOMAIN used /\ j \notin DOMAIN used
      BY <1>4, <1>5, <3>2
    <3>3. CASE i \notin DOMAIN used /\ j \in DOMAIN used
      BY <1>4, <1>5, <3>3
    <3> QED
      BY <1>5, <3>1, <3>2, <3>3
  <2>5. \A d \in Chats : memo'[d].mark <= marks' /\ memo'[d].mark \notin closed'
    BY <1>1 DEF NotesInv, MarksInv
  <2>6. \A d, e \in Chats : memo'[d].mark = memo'[e].mark /\ memo'[d].mark # 0 => d = e
    BY <1>1 DEF NotesInv, MarksInv
  <2> QED
    BY <1>0, <1>1, <2>1, <2>2, <2>3, <2>4, <2>5, <2>6 DEF MarksInv
<1>9. LoadedInv'
  BY <1>2 DEF LoadedInv
<1>10. IndicatorsAreKept'
  <2> SUFFICES ASSUME NEW m \in open'
               PROVE  \/ m.n \in closed
                      \/ memo[m.chat].mark = m.n
                      \/ platform # "discord" /\ \E k \in open' : k.chat = m.chat /\ k.n > m.n
                      \/ platform # "discord" /\ \E i \in DOMAIN used' :
                                                  used'[i].chat = m.chat /\ used'[i].mark > m.n
                      \/ m.n \in raced
    BY <1>1 DEF IndicatorsAreKept, NotesInv
  <2>1. m \in open /\ m \in [chat : Chats, n : 1 .. marks] /\ m # Mark(out.chat, out.mark)
    BY <1>1, <1>6
  <2>2. m.n # out.mark
    BY <1>4, <2>1 DEF Mark
  <2>3. CASE platform # "discord" /\ \E k \in open : k.chat = m.chat /\ k.n > m.n
    <3>1. PICK k \in open : k.chat = m.chat /\ k.n > m.n
      BY <2>3
    <3>2. CASE k \in open'
      BY <2>3, <3>1, <3>2
    <3>3. CASE k \notin open'
      <4>1. k = Mark(out.chat, out.mark)
        BY <1>1, <3>3
      <4>2. k.chat = out.chat /\ k.n = out.mark
        BY <4>1 DEF Mark
      <4> QED
        BY <1>5, <2>3, <3>1, <4>2
    <3> QED
      BY <3>2, <3>3
  <2>4. CASE platform # "discord" /\ \E i \in DOMAIN used : used[i].chat = m.chat /\ used[i].mark > m.n
    BY <1>5, <2>4
  <2> QED
    BY <1>1, <2>1, <2>2, <2>3, <2>4 DEF NotesInv, IndicatorsAreKept
<1> QED
  BY <1>7, <1>8, <1>9, <1>10 DEF NotesInv

(* Telegram's Load keeps NotesInv: what it finds is nobody else's.         *)
LEMMA LoadNotes ==
  ASSUME NotesInv, SendInv, TelegramLoad, UNCHANGED platform
  PROVE  NotesInv'
<1>0. Chats' = Chats
  BY ChatsFixed
<1>1. /\ out.pc = "load" /\ out \in Sends /\ out.chat \in Chats
      /\ UNCHANGED <<memo, marks, open, closed, raced, panicked, used>>
  BY SendAtWork DEF TelegramLoad, Calling, noteVars
<1> DEFINE n == memo[out.chat].mark
<1>2. /\ out'.chat = out.chat /\ out'.mark = n
      /\ (out'.pc = "delete" /\ n # 0) \/ out'.pc = "post"
  BY <1>1 DEF TelegramLoad, Note, Sends
<1>3. NoteTypes' /\ MarksInv'
  BY <1>0, <1>1 DEF NotesInv, NoteTypes, MarksInv, MarksUsedOnce, Uses
<1>4. LoadedInv'
  <2> SUFFICES ASSUME out'.pc = "delete", n # 0 PROVE LoadedInv'
    BY <1>2 DEF LoadedInv
  <2>1. n \in 1 .. marks
    <3>1. n \in Nat /\ marks \in Nat /\ n <= marks
      BY <1>1 DEF NotesInv, NoteTypes, MarksInv, Notes
    <3> QED
      BY <3>1
  <2>2. /\ \A i \in DOMAIN used : used[i].mark # n
        /\ \A m \in open : m.n = n => m.chat = out.chat
        /\ \A d \in Chats : memo[d].mark = n => d = out.chat
    BY <1>1 DEF NotesInv, MarksInv
  <2> QED
    BY <1>0, <1>1, <1>2, <2>1, <2>2 DEF LoadedInv
<1>5. IndicatorsAreKept'
  BY <1>1 DEF NotesInv, IndicatorsAreKept
<1> QED
  BY <1>3, <1>4, <1>5 DEF NotesInv

(* Telegram's Delete keeps NotesInv: it removes what was loaded, or a mark *)
(* stored since, which is in raced.                                        *)
LEMMA DeleteNotes ==
  ASSUME NotesInv, SendInv, TelegramDelete, UNCHANGED platform
  PROVE  NotesInv'
<1>0. Chats' = Chats
  BY ChatsFixed
<1>1. /\ out.pc = "delete" /\ out \in Sends /\ out.chat \in Chats
      /\ UNCHANGED <<marks, open, closed, raced, panicked, used>>
  BY SendAtWork DEF TelegramDelete, Calling
<1>2. out'.chat = out.chat /\ out'.mark = out.mark /\ out'.pc = "edit"
  <2>1. Nothing \in Outcomes \cup {Nothing} /\ Step("edit", Nothing) /\ "edit" \in SendSteps
    BY DEF TelegramDelete, SendSteps
  <2> QED
    BY <1>1, <2>1, StepOut
<1>3. /\ memo' \in [Chats -> Notes] /\ memo \in [Chats -> Notes] /\ marks \in Nat
      /\ \A d \in Chats : memo'[d].mark = IF d = out.chat THEN 0 ELSE memo[d].mark
  <2>1. Stored(out.chat, 0)
    BY <1>1, StoreMark DEF TelegramDelete, NotesInv, NoteTypes
  <2> QED
    BY <2>1 DEF Stored, NotesInv, NoteTypes
<1>4. \A x \in 1 .. marks : x # 0 /\ x \in Nat
  BY <1>3
<1>5. open \subseteq [chat : Chats, n : 1 .. marks] /\ closed \subseteq 1 .. marks
  BY DEF NotesInv, NoteTypes
<1>6. /\ out.mark \in 1 .. marks
      /\ \A i \in DOMAIN used : used[i].mark # out.mark
      /\ \A m \in open : m.n = out.mark => m.chat = out.chat
      /\ \A c \in Chats : memo[c].mark = out.mark => c = out.chat
      /\ memo[out.chat].mark = out.mark \/ memo[out.chat].mark \in raced
  BY <1>1 DEF NotesInv, LoadedInv
<1>7. NoteTypes'
  BY <1>0, <1>1, <1>3 DEF NotesInv, NoteTypes, Uses
<1>8. MarksInv'
  <2>1. 0 <= marks /\ 0 \notin closed
    BY <1>3, <1>4, <1>5
  <2>2. \A d \in Chats : memo'[d].mark <= marks' /\ memo'[d].mark \notin closed'
    BY <1>1, <1>3, <2>1 DEF NotesInv, MarksInv
  <2>3. \A d, e \in Chats : memo'[d].mark = memo'[e].mark /\ memo'[d].mark # 0 => d = e
    BY <1>3 DEF NotesInv, MarksInv
  <2>4. \A i \in DOMAIN used' :
          /\ used'[i].mark <= marks'
          /\ used'[i].mark # 0 => \A c \in Chats : memo'[c].mark # used'[i].mark
    BY <1>1, <1>3 DEF NotesInv, MarksInv
  <2>5. \A m \in open', d \in Chats : memo'[d].mark = m.n => m.chat = d
    <3> SUFFICES ASSUME NEW m \in open, NEW d \in Chats, memo'[d].mark = m.n PROVE m.chat = d
      BY <1>1
    <3>1. m.n # 0
      BY <1>4, <1>5
    <3> QED
      BY <1>3, <3>1 DEF NotesInv, MarksInv
  <2> QED
    BY <1>0, <1>1, <2>2, <2>3, <2>4, <2>5 DEF NotesInv, MarksInv, MarksUsedOnce
<1>9. LoadedInv'
  <2>1. out.mark # 0
    BY <1>4, <1>6
  <2> QED
    BY <1>0, <1>1, <1>2, <1>3, <1>6, <2>1 DEF LoadedInv
<1>10. IndicatorsAreKept'
  <2> SUFFICES ASSUME NEW m \in open
               PROVE  \/ m.n \in closed
                      \/ memo'[m.chat].mark = m.n
                      \/ out'.mark = m.n
                      \/ platform # "discord" /\ \E k \in open : k.chat = m.chat /\ k.n > m.n
                      \/ platform # "discord" /\ \E i \in DOMAIN used :
                                                  used[i].chat = m.chat /\ used[i].mark > m.n
                      \/ m.n \in raced
    BY <1>1, <1>2 DEF IndicatorsAreKept, NotesInv
  <2>1. m.chat \in Chats
    BY <1>5
  <2>2. CASE memo[m.chat].mark = m.n /\ m.chat = out.chat
    BY <1>2, <1>6, <2>2
  <2>3. CASE memo[m.chat].mark = m.n /\ m.chat # out.chat
    BY <1>3, <2>1, <2>3
  <2>4. CASE memo[m.chat].mark # m.n
    BY <1>1, <2>4 DEF NotesInv, IndicatorsAreKept
  <2> QED
    BY <2>2, <2>3, <2>4
<1> QED
  BY <1>7, <1>8, <1>9, <1>10 DEF NotesInv

(* Discord's Stop keeps NotesInv: every noted indicator is closed, none of *)
(* them for the second time.                                               *)
LEMMA StopNotes ==
  ASSUME NotesInv, SendInv, DiscordStop, UNCHANGED <<platform, out, used>>
  PROVE  NotesInv'
<1>0. Chats' = Chats
  BY ChatsFixed
<1>1. /\ platform = "discord" /\ UNCHANGED <<marks, open, raced>>
      /\ closed' = closed \cup Noted(Chats) /\ memo' = [c \in Chats |-> NoNote]
      /\ panicked' = (panicked \/ Noted(Chats) \cap closed # {})
  BY DEF DiscordStop, Stopped, CloseStops
<1>2. out.pc \notin {"delete", "edit"}
  <2>1. CASE out.pc # "idle"
    BY <1>1, <2>1, SendAtWork DEF SendFits
  <2> QED
    BY <2>1
<1>3. /\ memo \in [Chats -> Notes] /\ marks \in Nat
      /\ open \subseteq [chat : Chats, n : 1 .. marks] /\ closed \subseteq 1 .. marks
  BY DEF NotesInv, NoteTypes
<1>4. memo' \in [Chats -> Notes] /\ \A c \in Chats : memo'[c].mark = 0
  BY <1>1 DEF NoNote, Notes
<1>5. \A c \in Chats : memo[c].mark \in Nat /\ memo[c].mark <= marks /\ memo[c].mark \notin closed
  BY <1>3 DEF NotesInv, MarksInv, Notes
<1>6. Noted(Chats) \subseteq 1 .. marks /\ Noted(Chats) \cap closed = {}
  <2> SUFFICES ASSUME NEW x \in Noted(Chats) PROVE x \in 1 .. marks /\ x \notin closed
    OBVIOUS
  <2>1. x \in Nat /\ x # 0 /\ x <= marks /\ x \notin closed
    BY <1>5 DEF Noted
  <2> QED
    BY <1>3, <2>1
<1>7. NoteTypes'
  BY <1>0, <1>1, <1>3, <1>4, <1>6 DEF NotesInv, NoteTypes, Uses
<1>8. MarksInv'
  <2>1. 0 <= marks /\ 0 \notin closed' /\ \A m \in open : m.n # 0
    <3>1. \A x \in 1 .. marks : x # 0
      BY <1>3
    <3> QED
      BY <1>1, <1>3, <1>6, <3>1
  <2>2. \A i \in DOMAIN used : used[i].mark <= marks
    BY DEF NotesInv, MarksInv
  <2> QED
    BY <1>0, <1>1, <1>4, <2>1, <2>2 DEF NotesInv, MarksInv, MarksUsedOnce
<1>9. LoadedInv'
  BY <1>2 DEF LoadedInv
<1>10. IndicatorsAreKept'
  <2>1. \A m \in open : m.chat \in Chats /\ m.n # 0
    <3>1. \A x \in 1 .. marks : x # 0
      BY <1>3
    <3> QED
      BY <1>3, <3>1
  <2>2. ~panicked'
    BY <1>1, <1>6 DEF NotesInv, IndicatorsAreKept
  <2>3. \A m \in open : m.n \in closed' \/ m.n \in raced
    BY <1>1, <1>2, <2>1 DEF NotesInv, IndicatorsAreKept, Noted
  <2> QED
    BY <1>1, <2>2, <2>3 DEF IndicatorsAreKept
<1> QED
  BY <1>7, <1>8, <1>9, <1>10 DEF NotesInv

(* The end of a typing goroutine keeps NotesInv.                           *)
LEMMA TypingNotes ==
  ASSUME NotesInv, SendInv, NEW m \in open, TypingEnds(m)
  PROVE  NotesInv'
<1>1. /\ platform = "discord" /\ open' \subseteq open
      /\ UNCHANGED <<platform, memo, marks, closed, raced, panicked, used, out>>
  BY DEF TypingEnds, handlerOnly, adapterVars, sendVars
<1>2. Chats' = Chats
  BY <1>1, ChatsFixed
<1>3. NoteTypes'
  BY <1>1, <1>2 DEF NotesInv, NoteTypes, Uses
<1>4. MarksInv'
  BY <1>1, <1>2 DEF NotesInv, MarksInv, MarksUsedOnce
<1>5. LoadedInv'
  BY <1>1, <1>2 DEF NotesInv, LoadedInv
<1>6. IndicatorsAreKept'
  BY <1>1 DEF NotesInv, IndicatorsAreKept
<1> QED
  BY <1>3, <1>4, <1>5, <1>6 DEF NotesInv

(* Presenting the WeCom app's access token keeps NotesInv: it is no mark.  *)
LEMMA TokenNotes ==
  ASSUME NotesInv, SendInv, platform = "wecom_app", NEW u \in Uses, u.mark = 0, Presented(u),
         UNCHANGED <<platform, memo, marks, open, closed, raced, panicked>>,
         out'.pc \notin {"delete", "edit"}
  PROVE  NotesInv'
<1>1. Chats' = Chats
  BY ChatsFixed
<1>2. open = {}
  BY DEF NotesInv, MarksInv
<1>3. /\ used' \in Seq(Uses)
      /\ \A i \in DOMAIN used : i \in DOMAIN used' /\ used'[i] = used[i]
      /\ \A i \in DOMAIN used' \ DOMAIN used : used'[i].mark = 0
  BY DEF Presented
<1>4. NoteTypes'
  <2>1. used' \in Seq(Uses')
    BY <1>1, <1>3 DEF Uses
  <2> QED
    BY <1>1, <2>1 DEF NotesInv, NoteTypes
<1>5. MarksInv'
  <2>1. MarksUsedOnce'
    BY <1>3 DEF NotesInv, MarksInv, MarksUsedOnce
  <2>2. 0 <= marks
    BY DEF NotesInv, NoteTypes
  <2>3. \A i \in DOMAIN used' : /\ used'[i].mark <= marks
                                /\ used'[i].mark # 0 => \A c \in Chats : memo[c].mark # used'[i].mark
    BY <1>3, <2>2 DEF NotesInv, MarksInv
  <2> QED
    BY <1>1, <1>2, <2>1, <2>3 DEF NotesInv, MarksInv
<1>6. LoadedInv'
  BY DEF LoadedInv
<1>7. IndicatorsAreKept'
  BY <1>2 DEF NotesInv, IndicatorsAreKept
<1> QED
  BY <1>4, <1>5, <1>6, <1>7 DEF NotesInv

(* Every step of a handler keeps NotesInv.                                 *)
LEMMA HandlerNotes ==
  ASSUME HandlersInv, NotesInv, SendInv, CredentialsInv, NEW h \in Handlers, HandlerStep(h)
  PROVE  NotesInv'
<1> DEFINE c == Chat(h)
<1>1. UNCHANGED <<platform, out, used>>
  BY HandlerFrame
<1>2. hs[h].pc # "idle"
  BY DEF At, HandlerStep, WeComTrim, WeComReset, TelegramThink, StartTyping, LineToken,
         DingTalkWebhook, OneBotNote, HandleMessage, TelegramShow, SlackAck, LineQuote
<1>3. c \in Chats /\ Event(h) \in Inputs[platform] /\ StepFits(platform, hs[h].pc)
  BY <1>2, HandlerEvent
<1>4. Event(h).id \in Nat
  BY <1>3, EventAssumption DEF HandlersInv
<1>5. /\ memo \in [Chats -> Notes] /\ marks \in Nat /\ marks + 1 \in Nat
      /\ ~panicked /\ (open # {} => platform \in {"telegram", "discord", "slack", "onebot"})
  BY DEF NotesInv, NoteTypes, MarksInv, IndicatorsAreKept
<1>6. OutKept
  BY <1>1 DEF OutKept
<1>7. (platform # "telegram" => out.pc # "delete")
  <2>1. CASE out.pc # "idle"
    BY <2>1, SendAtWork DEF SendFits
  <2> QED
    BY <2>1
<1>8. memo' = memo => MarksKept
  BY <1>5 DEF MarksKept
<1>9. CASE WeComTrim(h) \/ WeComReset(h) \/ HandleMessage(h)
  <2>1. UNCHANGED <<memo, marks, open, closed, raced, panicked>>
    BY <1>9 DEF WeComTrim, WeComReset, HandleMessage, noteVars, handlerOnly
  <2> QED
    BY <1>1, <1>6, <1>8, <2>1, QuietNotes
<1>10. CASE TelegramThink(h)
  <2>1. MarksKept
    BY <1>3, <1>5, <1>10, StoreAux DEF TelegramThink
  <2> QED
    BY <1>1, <1>6, <1>10, <2>1, QuietNotes DEF TelegramThink
<1>11. ASSUME NEW ok \in BOOLEAN, LineQuote(h, ok) PROVE NotesInv'
  <2>1. MarksKept
    BY <1>3, <1>4, <1>5, <1>8, <1>11, StoreAux DEF LineQuote
  <2> QED
    BY <1>1, <1>6, <1>11, <2>1, QuietNotes DEF LineQuote
<1>12. ASSUME NEW ok \in BOOLEAN, TelegramShow(h, ok) PROVE NotesInv'
  <2>1. CASE ok
    <3>1. Stored(c, marks + 1)
      BY <1>3, <1>5, <1>12, <2>1, StoreMark DEF TelegramShow
    <3>2. platform = "telegram"
      BY <1>3, <1>12 DEF TelegramShow, At, StepFits
    <3>3. /\ marks' = marks + 1 /\ open' = open \cup {Mark(c, marks + 1)} /\ closed' = closed
          /\ raced \subseteq raced' /\ (out.pc = "delete" /\ out.chat = c => marks + 1 \in raced')
      BY <1>12, <2>1 DEF TelegramShow
    <3>4. ~panicked'
      BY <1>5, <1>12 DEF TelegramShow
    <3> QED
      BY <1>1, <1>3, <3>1, <3>2, <3>3, <3>4, NewMarkNotes
  <2>2. CASE ~ok
    BY <1>1, <1>6, <1>8, <1>12, <2>2, QuietNotes DEF TelegramShow
  <2> QED
    BY <2>1, <2>2
<1>13. CASE StartTyping(h)
  <2>1. Stored(c, marks + 1)
    BY <1>3, <1>5, <1>13, StoreMark DEF StartTyping
  <2>2. platform = "discord"
    BY <1>3, <1>13 DEF StartTyping, At, StepFits
  <2>3. /\ marks' = marks + 1 /\ open' = open \cup {Mark(c, marks + 1)}
        /\ closed' = closed \cup Noted({c}) /\ raced' = raced
    BY <1>13 DEF StartTyping, CloseStops
  <2>4. ~panicked'
    <3>1. Noted({c}) \cap closed = {}
      BY <1>3 DEF Noted, NotesInv, MarksInv
    <3> QED
      BY <1>5, <1>13, <3>1 DEF StartTyping, CloseStops
  <2> QED
    BY <1>1, <1>3, <1>7, <2>1, <2>2, <2>3, <2>4, NewMarkNotes
<1>14. ASSUME NEW ok \in BOOLEAN, SlackAck(h, ok) PROVE NotesInv'
  <2>1. Stored(c, marks + 1)
    BY <1>3, <1>5, <1>14, StoreMark DEF SlackAck
  <2>2. platform = "slack"
    BY <1>3, <1>14 DEF SlackAck, At, StepFits
  <2>3. /\ marks' = marks + 1 /\ open' = open \cup {Mark(c, marks + 1)}
        /\ closed' = closed /\ raced' = raced
    BY <1>14 DEF SlackAck
  <2>4. ~panicked'
    BY <1>5, <1>14 DEF SlackAck
  <2> QED
    BY <1>1, <1>3, <1>7, <2>1, <2>2, <2>3, <2>4, NewMarkNotes
<1>15. CASE LineToken(h) \/ DingTalkWebhook(h)
  <2>1. Stored(c, marks + 1)
    <3>1. CASE LineToken(h)
      <4> DEFINE r == [memo[c] EXCEPT !.mark = marks + 1, !.at = clock]
      <4>1. memo[c] \in Notes /\ memo' = [memo EXCEPT ![c] = r]
        BY <1>3, <1>5, <3>1 DEF LineToken
      <4>2. clock \in Nat
        BY DEF CredentialsInv
      <4>3. r \in Notes /\ r.mark = marks + 1
        BY <1>5, <4>1, <4>2 DEF Notes
      <4> HIDE DEF r
      <4> QED
        BY <1>3, <1>5, <4>1, <4>3 DEF Stored
    <3>2. CASE DingTalkWebhook(h)
      BY <1>3, <1>5, <3>2, StoreMark DEF DingTalkWebhook
    <3> QED
      BY <1>15, <3>1, <3>2
  <2>2. platform \in {"line", "dingtalk"}
    BY <1>3, <1>15 DEF LineToken, DingTalkWebhook, At, StepFits
  <2>3. marks' = marks + 1 /\ open' = open /\ closed' = closed /\ raced' = raced
    BY <1>15 DEF LineToken, DingTalkWebhook
  <2>4. ~panicked'
    BY <1>5, <1>15 DEF LineToken, DingTalkWebhook
  <2> QED
    BY <1>1, <1>3, <1>5, <1>7, <2>1, <2>2, <2>3, <2>4, NewMarkNotes
<1>16. CASE OneBotNote(h)
  <2> DEFINE emoji == Event(h).place.group /\ Event(h).id # NoId
             v == IF emoji THEN marks + 1 ELSE memo[c].mark
             r == [memo[c] EXCEPT !.aux = Event(h).id, !.mark = v]
  <2>1. memo[c] \in Notes /\ memo' = [memo EXCEPT ![c] = r]
    BY <1>3, <1>5, <1>16 DEF OneBotNote
  <2>2. /\ marks' = (IF emoji THEN marks + 1 ELSE marks) /\ UNCHANGED <<closed, raced, panicked>>
        /\ open' = IF emoji THEN open \cup {Mark(c, marks + 1)} ELSE open
    BY <1>16 DEF OneBotNote
  <2>3. r \in Notes /\ r.mark = v
    BY <1>4, <1>5, <2>1 DEF Notes
  <2>4. v = IF emoji THEN marks + 1 ELSE memo[c].mark
    OBVIOUS
  <2>5. platform = "onebot"
    BY <1>3, <1>16 DEF OneBotNote, At, StepFits
  <2> HIDE DEF r, v, emoji
  <2>6. Stored(c, v)
    BY <1>3, <1>5, <2>1, <2>3 DEF Stored
  <2>7. CASE emoji
    <3>1. Stored(c, marks + 1)
      BY <2>4, <2>6, <2>7
    <3> QED
      BY <1>1, <1>3, <1>5, <1>7, <2>2, <2>5, <2>7, <3>1, NewMarkNotes
  <2>8. CASE ~emoji
    <3>1. MarksKept
      BY <2>4, <2>6, <2>8 DEF Stored, MarksKept
    <3> QED
      BY <1>1, <1>6, <2>2, <2>8, <3>1, QuietNotes
  <2> QED
    BY <2>7, <2>8
<1> QED
  BY <1>9, <1>10, <1>11, <1>12, <1>13, <1>14, <1>15, <1>16 DEF HandlerStep

(* A Send that returns or goes on has loaded nothing.                      *)
LEMMA OutMoves ==
  ASSUME SendInv, out.pc \notin {"idle", "edit"}, NEW res, NEW pc \in SendSteps \ {"delete", "edit"},
         NEW o \in Outcomes \cup {Nothing}, Return(res, o) \/ Step(pc, o)
  PROVE  OutKept /\ out'.pc \notin {"delete", "edit"}
<1>1. CASE Return(res, o)
  BY <1>1 DEF Return, IdleSend, OutKept
<1>2. CASE Step(pc, o)
  BY <1>2, SendAtWork, StepOut DEF OutKept
<1> QED
  BY <1>1, <1>2

(* Every step of a Send keeps NotesInv.                                    *)
LEMMA SendNotes ==
  ASSUME NotesInv, SendInv, CredentialsInv, SendStep
  PROVE  NotesInv'
<1> USE DEF Calling
<1>1. UNCHANGED <<platform, token, clock>>
  BY SendFrame
<1>2. /\ memo \in [Chats -> Notes] /\ marks \in Nat /\ used \in Seq(Uses)
      /\ ~panicked /\ (open # {} => platform \in {"telegram", "discord", "slack", "onebot"})
  BY DEF NotesInv, NoteTypes, MarksInv, IndicatorsAreKept
<1>3. memo' = memo => MarksKept
  BY <1>2 DEF MarksKept
<1>4. Nothing \in Outcomes \cup {Nothing} /\ \A o \in Outcomes : o \in Outcomes \cup {Nothing}
  OBVIOUS
<1>5. ASSUME NEW res, NEW pc \in SendSteps \ {"delete", "edit"}, NEW o \in Outcomes \cup {Nothing},
             out.pc \notin {"idle", "edit"}, Return(res, o) \/ Step(pc, o),
             UNCHANGED <<used, noteVars, panicked>>
      PROVE  NotesInv'
  BY <1>1, <1>3, <1>5, OutMoves, QuietNotes DEF noteVars
<1>6. \A pc \in {"load", "forget", "post", "plain", "chunk", "take", "push"} :
        pc \in SendSteps \ {"delete", "edit"}
  BY DEF SendSteps
<1>7. PICK o \in Outcomes :
        \/ DiscordSend \/ LineSend
        \/ TelegramSend(o) \/ SendChunk(o) \/ SlackSend(o) \/ OneBotSend(o)
        \/ LineReply(o) \/ LinePush(o) \/ DingTalkSend(o) \/ QQSend(o)
        \/ FeishuSend(o) \/ WeComSend(o) \/ WeComAppSend(o)
  BY DEF SendStep, Outcomes
<1>8. ASSUME out.pc \notin {"idle", "edit"}, NotRunning PROVE NotesInv'
  BY <1>4, <1>5, <1>6, <1>8 DEF NotRunning
<1>9. ASSUME out.pc # "idle" PROVE out.chat \in Chats /\ out \in Sends /\ SendFits(platform, out.pc)
  BY <1>9, SendAtWork
<1>10. CASE TelegramSend(o)
  <2>1. CASE TelegramStopThinking \/ TelegramPost(o) \/ TelegramPlain(o)
    BY <2>1, <1>4, <1>5, <1>6, <1>8 DEF TelegramStopThinking, TelegramPost, TelegramPlain
  <2>2. CASE TelegramForget
    <3>1. MarksKept
      BY <1>2, <1>9, <2>2, StoreAux DEF TelegramForget
    <3>2. OutKept
      BY <1>4, <1>6, <2>2, OutMoves DEF TelegramForget
    <3> QED
      BY <1>1, <2>2, <3>1, <3>2, QuietNotes DEF TelegramForget
  <2>3. CASE TelegramLoad
    BY <1>1, <2>3, LoadNotes
  <2>4. CASE TelegramDelete
    BY <1>1, <2>4, DeleteNotes
  <2>5. CASE TelegramEdit(o)
    BY <1>1, <2>5, EditNotes
  <2> QED
    BY <1>10, <2>1, <2>2, <2>3, <2>4, <2>5 DEF TelegramSend
<1>11. CASE DiscordSend
  <2>1. out.pc = "discord" /\ out.chat \in Chats /\ platform = "discord"
    BY <1>9, <1>11 DEF DiscordSend, SendFits
  <2>2. Stored(out.chat, 0)
    BY <1>2, <1>11, <2>1, StoreMark DEF DiscordSend, StopTyping
  <2>3. /\ closed' = closed \cup Noted({out.chat}) /\ UNCHANGED <<marks, open, raced, used>>
        /\ panicked' = (panicked \/ Noted({out.chat}) \cap closed # {})
    BY <1>11 DEF DiscordSend, StopTyping, CloseStops
  <2>4. ~panicked'
    <3>1. Noted({out.chat}) \cap closed = {}
      BY <2>1 DEF Noted, NotesInv, MarksInv
    <3> QED
      BY <1>2, <2>3, <3>1
  <2>5. out'.pc \notin {"delete", "edit"}
    BY <1>4, <1>6, <1>11, <2>1, OutMoves DEF DiscordSend
  <2> QED
    BY <1>1, <2>1, <2>2, <2>3, <2>4, <2>5, TakenNotes
<1>12. CASE SendChunk(o)
  <2>1. CASE \E res : Return(res, o)
    BY <1>4, <1>5, <1>6, <1>12, <2>1 DEF SendChunk
  <2>2. CASE out' = [out EXCEPT !.left = @ - 1, !.got = @ + o.got]
    <3>1. out.pc = "chunk" /\ out \in Sends /\ UNCHANGED <<used, memo, marks, open, closed, raced, panicked>>
      BY <1>9, <1>12 DEF SendChunk, noteVars
    <3>2. out'.pc = "chunk"
      BY <2>2, <3>1 DEF Sends
    <3> QED
      BY <1>1, <1>3, <3>1, <3>2, QuietNotes DEF OutKept
  <2> QED
    BY <1>12, <2>1, <2>2 DEF SendChunk
<1>13. CASE SlackSend(o) \/ OneBotSend(o)
  <2>1. out.pc \in {"slack", "onebot"} /\ out.chat \in Chats /\ platform # "discord"
    BY <1>9, <1>13 DEF SlackSend, OneBotSend, SendFits
  <2>2. CASE NotRunning
    BY <1>8, <2>1, <2>2
  <2>3. CASE Return("error", o) /\ UNCHANGED <<used, noteVars, panicked>>
    BY <1>4, <1>5, <1>6, <2>1, <2>3
  <2>4. CASE Return("nil", o) /\ TakeMark(0, 1)
    <3>1. Stored(out.chat, 0)
      BY <1>2, <2>1, <2>4, StoreMark DEF TakeMark
    <3>2. /\ open' = open \ {Mark(out.chat, memo[out.chat].mark)}
          /\ UNCHANGED <<marks, closed, raced, panicked>>
      BY <2>4 DEF TakeMark, Note
    <3>3. out'.pc \notin {"delete", "edit"}
      BY <2>4 DEF Return, IdleSend
    <3>4. CASE memo[out.chat].mark = 0
      <4>1. used' = used
        BY <2>4, <3>4 DEF TakeMark, Note
      <4> QED
        BY <1>1, <1>2, <2>1, <3>1, <3>2, <3>3, <3>4, <4>1, TakenNotes
    <3>5. CASE memo[out.chat].mark # 0
      <4> DEFINE u == [chat |-> out.chat, mark |-> memo[out.chat].mark, age |-> 0, life |-> 1]
      <4>1. used' = Append(used, u)
        BY <2>4, <3>5 DEF TakeMark, Note, Use
      <4>2. u \in Uses /\ u.chat = out.chat /\ u.mark = memo[out.chat].mark
        BY <1>2, <2>1 DEF Uses, Notes
      <4> HIDE DEF u
      <4>3. Presented(u)
        BY <1>2, <4>1, <4>2, UsedAppend
      <4>4. used' # used
        BY <4>3 DEF Presented
      <4> QED
        BY <1>1, <1>2, <2>1, <3>1, <3>2, <3>3, <3>5, <4>2, <4>3, <4>4, TakenNotes
    <3> QED
      BY <3>4, <3>5
  <2> QED
    BY <1>13, <2>2, <2>3, <2>4 DEF SlackSend, OneBotSend
<1>14. CASE LineSend
  <2>1. CASE NotRunning
    BY <1>8, <1>14, <2>1 DEF LineSend
  <2>2. CASE ~NotRunning
    <3>1. MarksKept
      BY <1>2, <1>9, <1>14, <2>2, StoreAux DEF LineSend
    <3>2. OutKept
      BY <1>4, <1>6, <1>14, <2>2, OutMoves DEF LineSend
    <3> QED
      BY <1>1, <1>14, <2>2, <3>1, <3>2, QuietNotes DEF LineSend
  <2> QED
    BY <2>1, <2>2
<1>15. CASE LineReply(o)
  <2>1. out.pc = "take" /\ out.chat \in Chats /\ platform = "line" /\ open = {}
    BY <1>2, <1>9, <1>15 DEF LineReply, SendFits
  <2>2. Stored(out.chat, 0) /\ UNCHANGED <<marks, open, closed, raced, panicked>>
    BY <1>2, <1>15, <2>1, StoreMark DEF LineReply
  <2>3. out'.pc \notin {"delete", "edit"}
    BY <1>4, <1>6, <1>15, <2>1, OutMoves DEF LineReply
  <2>4. \/ used' = used
        \/ /\ memo[out.chat].mark # 0
           /\ \E u \in Uses : u.chat = out.chat /\ u.mark = memo[out.chat].mark /\ Presented(u)
    <3>1. CASE memo[out.chat].mark # 0 /\ used' # used
      <4> DEFINE u == [chat |-> out.chat, mark |-> memo[out.chat].mark,
                       age |-> clock - memo[out.chat].at, life |-> LineLife]
      <4>1. used' = Append(used, u)
        BY <1>15, <3>1 DEF LineReply, Note, Use
      <4>2. clock \in Int /\ LineLife \in Int /\ memo[out.chat].at \in Int
            /\ memo[out.chat].mark \in Nat
        BY <1>2, <2>1, AdapterAssumption DEF Notes, CredentialsInv
      <4>3. u \in Uses /\ u.chat = out.chat /\ u.mark = memo[out.chat].mark
        BY <2>1, <4>2 DEF Uses
      <4> HIDE DEF u
      <4>4. Presented(u)
        BY <1>2, <4>1, <4>3, UsedAppend
      <4> QED
        BY <3>1, <4>3, <4>4
    <3> QED
      BY <1>15, <3>1 DEF LineReply, Note
  <2> QED
    BY <1>1, <1>2, <2>1, <2>2, <2>3, <2>4, TakenNotes
<1>16. CASE LinePush(o)
  BY <1>4, <1>5, <1>6, <1>16 DEF LinePush
<1>17. CASE DingTalkSend(o) \/ QQSend(o) \/ FeishuSend(o) \/ WeComSend(o)
  <2>1. [ok |-> FALSE, got |-> 0] \in Outcomes \cup {Nothing}
    BY DEF Outcomes
  <2>2. ASSUME NEW q \in Outcomes \cup {Nothing}, PostOnce(q), out.pc \notin {"idle", "edit"}
        PROVE  NotesInv'
    BY <1>5, <1>6, <2>2 DEF PostOnce
  <2> QED
    BY <1>4, <1>8, <1>17, <2>1, <2>2 DEF DingTalkSend, QQSend, FeishuSend, WeComSend, SendWebhookReply
<1>18. CASE WeComAppSend(o)
  <2>1. out.pc = "wecom_app" /\ out.chat \in Chats /\ platform = "wecom_app"
    BY <1>9, <1>18 DEF WeComAppSend, SendFits
  <2>2. CASE NotRunning
    BY <1>8, <2>1, <2>2
  <2>3. CASE Return("error", Nothing) /\ UNCHANGED <<used, noteVars, panicked>>
    BY <1>4, <1>5, <1>6, <2>1, <2>3
  <2>4. CASE SendTextMessage(o)
    <3> DEFINE u == [chat |-> out.chat, mark |-> 0, age |-> clock, life |-> token.dies]
    <3>1. used' = Append(used, u) /\ UNCHANGED <<memo, marks, open, closed, raced, panicked>>
      BY <2>4 DEF SendTextMessage, Use, noteVars
    <3>2. u \in Uses /\ u.mark = 0
      BY <2>1 DEF Uses, CredentialsInv
    <3> HIDE DEF u
    <3>3. Presented(u)
      BY <1>2, <3>1, <3>2, UsedAppend
    <3>4. out'.pc \notin {"delete", "edit"}
      BY <2>4 DEF SendTextMessage, Return, IdleSend
    <3> QED
      BY <1>1, <2>1, <3>1, <3>2, <3>3, <3>4, TokenNotes
  <2> QED
    BY <1>18, <2>2, <2>3, <2>4 DEF WeComAppSend
<1> QED
  BY <1>7, <1>10, <1>11, <1>12, <1>13, <1>14, <1>15, <1>16, <1>17, <1>18

(* Every step keeps NotesInv.                                              *)
LEMMA NotesStep ==
  HandlersInv /\ SendInv /\ NotesInv /\ CredentialsInv /\ [Next]_vars => NotesInv'
<1> SUFFICES ASSUME HandlersInv, SendInv, NotesInv, CredentialsInv, [Next]_vars PROVE NotesInv'
  OBVIOUS
<1>1. CASE UNCHANGED <<platform, memo, marks, open, closed, raced, used, out, panicked>>
  <2>1. MarksKept /\ OutKept
    BY <1>1 DEF MarksKept, OutKept, NotesInv, NoteTypes
  <2> QED
    BY <1>1, <2>1, QuietNotes
<1>2. CASE StartAny
  BY <1>1, <1>2, StartFrame
<1>3. CASE StopAny
  BY <1>1, <1>3, StopFrame, StopNotes
<1>4. CASE SendStep
  BY <1>4, SendNotes
<1>5. ASSUME NEW c \in Chats, NEW n \in 0 .. MaxChunks, SendBegin(c, n) PROVE NotesInv'
  <2>1. /\ out.pc = "idle" /\ UNCHANGED <<platform, memo, marks, open, closed, raced, used, panicked>>
        /\ out'.pc = platform
    BY <1>5 DEF SendBegin, Calling, sendOnly, adapterVars, noteVars
  <2>2. platform \notin {"delete", "edit"}
    BY AdapterAssumption DEF HandlersInv
  <2>3. OutKept /\ MarksKept
    BY <2>1, <2>2 DEF OutKept, MarksKept, NotesInv, NoteTypes
  <2> QED
    BY <2>1, <2>3, QuietNotes
<1>6. ASSUME NEW ok \in BOOLEAN, TokenRefreshLoop(ok) PROVE NotesInv'
  BY <1>1, <1>6 DEF TokenRefreshLoop, adapterVars, noteVars, sendVars
<1>7. ASSUME NEW m \in open, TypingEnds(m) PROVE NotesInv'
  BY <1>7, TypingNotes
<1>8. ASSUME NEW h \in Handlers, Receive(h) PROVE NotesInv'
  BY <1>1, <1>8, ReceiveFrame
<1>9. ASSUME NEW h \in Handlers, HandlerStep(h) PROVE NotesInv'
  BY <1>9, HandlerNotes
<1>10. CASE Tick \/ UNCHANGED vars
  BY <1>1, <1>10 DEF Tick, vars, adapterVars, noteVars, sendVars, envVars
<1> QED
  BY <1>2, <1>3, <1>4, <1>5, <1>6, <1>7, <1>8, <1>9, <1>10 DEF Next

-------------------------------------------------------------------------------
(* The credentials.                                                        *)

(* One more use that is in force keeps CredentialsInForce.                 *)
LEMMA InForce ==
  ASSUME CredentialsInForce, used \in Seq(Uses), NEW u \in Uses, used' = Append(used, u),
         u.age < u.life
  PROVE  CredentialsInForce'
BY UsedAppend DEF CredentialsInForce, Presented

(* A step of a Send presents only what is in force.                        *)
LEMMA SendInForce ==
  ASSUME NoteTypes, SendInv, CredentialsInv, SendStep
  PROVE  CredentialsInForce'
<1> USE DEF Calling
<1>1. used' = used => CredentialsInForce'
  BY DEF CredentialsInv, CredentialsInForce
<1>2. CredentialsInForce /\ used \in Seq(Uses) /\ memo \in [Chats -> Notes]
  BY DEF NoteTypes, CredentialsInv
<1>3. PICK o \in Outcomes :
        \/ DiscordSend \/ LineSend
        \/ TelegramSend(o) \/ SendChunk(o) \/ SlackSend(o) \/ OneBotSend(o)
        \/ LineReply(o) \/ LinePush(o) \/ DingTalkSend(o) \/ QQSend(o)
        \/ FeishuSend(o) \/ WeComSend(o) \/ WeComAppSend(o)
  BY DEF SendStep, Outcomes
<1>4. ASSUME out.pc # "idle" PROVE out.chat \in Chats /\ out.mark \in Nat
  BY <1>4, SendAtWork DEF Sends
<1>5. CASE DiscordSend \/ LineSend \/ SendChunk(o) \/ LinePush(o) \/ DingTalkSend(o) \/ QQSend(o)
           \/ FeishuSend(o) \/ WeComSend(o)
  BY <1>1, <1>5 DEF DiscordSend, LineSend, SendChunk, LinePush, DingTalkSend, QQSend, FeishuSend,
     WeComSend, SendWebhookReply, PostOnce, NotRunning
<1>6. CASE TelegramSend(o)
  <2>1. CASE TelegramEdit(o)
    <3> DEFINE u == [chat |-> out.chat, mark |-> out.mark, age |-> 0, life |-> 1]
    <3>1. u \in Uses /\ used' = Append(used, u) /\ u.age < u.life
      BY <1>4, <2>1 DEF Uses, TelegramEdit, Use
    <3> HIDE DEF u
    <3> QED
      BY <1>2, <3>1, InForce
  <2> QED
    BY <1>1, <1>6, <2>1 DEF TelegramSend, TelegramStopThinking, TelegramForget, TelegramLoad,
       TelegramDelete, TelegramPost, TelegramPlain, NotRunning
<1>7. CASE SlackSend(o) \/ OneBotSend(o)
  <2>1. CASE used' # used
    <3> DEFINE u == [chat |-> out.chat, mark |-> Note.mark, age |-> 0, life |-> 1]
    <3>1. used' = Append(used, u) /\ out.pc # "idle"
      BY <1>7, <2>1 DEF SlackSend, OneBotSend, TakeMark, Use, NotRunning
    <3>2. u \in Uses /\ u.age < u.life
      BY <1>2, <1>4, <3>1 DEF Uses, Note, Notes
    <3> HIDE DEF u
    <3> QED
      BY <1>2, <3>1, <3>2, InForce
  <2> QED
    BY <1>1, <2>1
<1>8. CASE LineReply(o)
  <2>1. CASE used' # used
    <3> DEFINE a == clock - Note.at
               u == [chat |-> out.chat, mark |-> Note.mark, age |-> a, life |-> LineLife]
    <3>1. used' = Append(used, u) /\ a < LineMaxAge /\ out.pc # "idle"
      BY <1>8, <2>1 DEF LineReply, Use
    <3>2. Note.at \in Nat /\ Note.mark \in Nat /\ clock \in Nat /\ out.chat \in Chats
      BY <1>2, <1>4, <3>1 DEF Note, Notes, CredentialsInv
    <3>3. a \in Int /\ a < LineLife /\ LineLife \in Int
      BY <3>1, <3>2, AdapterAssumption
    <3> HIDE DEF a
    <3>4. u \in Uses /\ u.age < u.life
      BY <3>2, <3>3 DEF Uses
    <3> HIDE DEF u
    <3> QED
      BY <1>2, <3>1, <3>4, InForce
  <2> QED
    BY <1>1, <2>1
<1>9. CASE WeComAppSend(o)
  <2>1. CASE used' # used
    <3> DEFINE u == [chat |-> out.chat, mark |-> 0, age |-> clock, life |-> token.dies]
    <3>1. used' = Append(used, u) /\ GetAccessToken /\ out.pc # "idle"
      BY <1>9, <2>1 DEF WeComAppSend, SendTextMessage, Use, NotRunning
    <3>2. /\ clock \in Nat /\ token.expiry \in Int /\ token.dies \in Int
          /\ clock <= token.expiry /\ token.expiry < token.dies /\ out.chat \in Chats
      BY <1>4, <3>1 DEF CredentialsInv, GetAccessToken
    <3>3. clock < token.dies
      BY <3>2
    <3>4. u \in Uses /\ u.age < u.life
      BY <3>2, <3>3 DEF Uses
    <3> HIDE DEF u
    <3> QED
      BY <1>2, <3>1, <3>4, InForce
  <2> QED
    BY <1>1, <2>1
<1> QED
  BY <1>3, <1>5, <1>6, <1>7, <1>8, <1>9

(* A refreshed token is given up one interval before it dies.              *)
LEMMA RefreshedToken ==
  ASSUME CredentialsInv, NEW ok \in BOOLEAN, RefreshAccessToken(ok)
  PROVE  /\ token' \in [have : BOOLEAN, expiry : Int, dies : Int]
         /\ token'.have => token'.expiry < token'.dies
<1>1. clock \in Nat /\ AppLife \in Nat
  BY AdapterAssumption DEF CredentialsInv
<1>2. CASE ok
  <2> DEFINE x == clock + AppLife - 1
             y == clock + AppLife
  <2>1. x \in Int /\ y \in Int /\ x < y
    BY <1>1
  <2>2. token' = [have |-> TRUE, expiry |-> x, dies |-> y]
    BY <1>2 DEF RefreshAccessToken
  <2> HIDE DEF x, y
  <2> QED
    BY <2>1, <2>2
<1>3. CASE ~ok
  BY <1>3 DEF RefreshAccessToken, CredentialsInv
<1> QED
  BY <1>2, <1>3

(* Every step keeps CredentialsInv.                                        *)
LEMMA CredentialsStep == NoteTypes /\ SendInv /\ CredentialsInv /\ [Next]_vars => CredentialsInv'
<1> SUFFICES ASSUME NoteTypes, SendInv, CredentialsInv, [Next]_vars PROVE CredentialsInv'
  OBVIOUS
<1>1. CASE UNCHANGED <<clock, token, used>>
  BY <1>1 DEF CredentialsInv, CredentialsInForce
<1>2. CASE SendStep
  BY <1>2, SendFrame, SendInForce DEF CredentialsInv
<1>3. ASSUME NEW ok \in BOOLEAN, RefreshAccessToken(ok), UNCHANGED <<clock, used>>
      PROVE  CredentialsInv'
  BY <1>3, RefreshedToken DEF CredentialsInv, CredentialsInForce
<1>4. CASE StartAny
  BY <1>1, <1>3, <1>4, StartFrame
<1>5. CASE StopAny
  BY <1>1, <1>5, StopFrame
<1>6. ASSUME NEW ok \in BOOLEAN, TokenRefreshLoop(ok) PROVE CredentialsInv'
  BY <1>3, <1>6 DEF TokenRefreshLoop, sendVars
<1>7. ASSUME NEW m \in open, TypingEnds(m) PROVE CredentialsInv'
  BY <1>1, <1>7 DEF TypingEnds, handlerOnly, sendVars
<1>8. ASSUME NEW h \in Handlers, Receive(h) \/ HandlerStep(h) PROVE CredentialsInv'
  BY <1>1, <1>8, ReceiveFrame, HandlerFrame
<1>9. ASSUME NEW c \in Chats, NEW n \in 0 .. MaxChunks, SendBegin(c, n) PROVE CredentialsInv'
  BY <1>1, <1>9 DEF SendBegin, sendOnly
<1>10. CASE Tick
  <2>1. clock \in Nat /\ clock' = clock + 1 /\ UNCHANGED <<token, used>>
    BY <1>10 DEF Tick, CredentialsInv, sendVars
  <2> QED
    BY <2>1 DEF CredentialsInv, CredentialsInForce
<1>11. CASE UNCHANGED vars
  BY <1>1, <1>11 DEF vars, sendVars, envVars
<1> QED
  BY <1>2, <1>4, <1>5, <1>6, <1>7, <1>8, <1>9, <1>10, <1>11 DEF Next

-------------------------------------------------------------------------------
(* The theorems.                                                           *)

(* The adapter starts with no handler, note, id or Send.                   *)
LEMMA AdapterInit == Init => AdapterInv
<1> SUFFICES ASSUME Init PROVE AdapterInv
  OBVIOUS
<1>1. HandlersInv
  BY DEF Init, HandlersInv, IdleHandler, StepFits
<1>2. DedupInv
  <2>1. Passed = {}
    BY DEF Init, Passed
  <2>2. IsFiniteSet(Passed) /\ Cardinality(Passed) = 0
    BY <2>1, FS_EmptySet
  <2>3. seen \in Seq(Ids) /\ Len(seen) = 0 /\ Members(seen) = {}
    BY DEF Init, Members
  <2>4. handled \in [Ids -> Nat] /\ \A i \in Ids : handled[i] <= 1
    BY DEF Init
  <2>5. \A h \in Handlers : hs[h].pc # "reset"
    BY DEF Init, IdleHandler
  <2> QED
    BY <2>1, <2>2, <2>3, <2>4, <2>5 DEF DedupInv
<1>3. SendInv
  BY DEF Init, SendInv, IdleSend, SentMeansDelivered
<1>4. NotesInv
  <2>1. memo \in [Chats -> Notes] /\ \A c \in Chats : memo[c].mark = 0
    BY DEF Init, NoNote, Notes
  <2>2. marks = 0 /\ open = {} /\ closed = {} /\ used = <<>> /\ ~panicked /\ out.pc = "idle"
    BY DEF Init, IdleSend
  <2>3. NoteTypes
    BY <2>1, <2>2 DEF NoteTypes
  <2>4. MarksInv
    <3>1. DOMAIN used = {}
      BY <2>2
    <3> QED
      BY <2>1, <2>2, <3>1 DEF MarksInv, MarksUsedOnce
  <2>5. LoadedInv /\ IndicatorsAreKept
    BY <2>2 DEF LoadedInv, IndicatorsAreKept
  <2> QED
    BY <2>3, <2>4, <2>5 DEF NotesInv
<1>5. CredentialsInv
  BY DEF Init, CredentialsInv, CredentialsInForce
<1> QED
  BY <1>1, <1>2, <1>3, <1>4, <1>5 DEF AdapterInv

(* The invariant holds in every state of every adapter.                    *)
THEOREM AdapterInvariant == Spec => []AdapterInv
<1>1. Init => AdapterInv
  BY AdapterInit
<1>2. AdapterInv /\ [Next]_vars => AdapterInv'
  <2> SUFFICES ASSUME AdapterInv, [Next]_vars PROVE AdapterInv'
    OBVIOUS
  <2>1. HandlersInv /\ DedupInv /\ SendInv /\ NotesInv /\ CredentialsInv
    BY DEF AdapterInv
  <2>2. NoteTypes /\ memo \in [Chats -> Notes]
    BY <2>1 DEF NotesInv, NoteTypes
  <2>3. HandlersInv' /\ DedupInv'
    BY <2>1, HandlersStep, DedupStep
  <2>4. SendInv' /\ NotesInv' /\ CredentialsInv'
    BY <2>1, <2>2, SendKept, NotesStep, CredentialsStep
  <2> QED
    BY <2>3, <2>4 DEF AdapterInv
<1> QED
  BY <1>1, <1>2, PTL DEF Spec

(* A placeholder, reaction or reply token is presented at most once, for   *)
(* any number of handlers, events and replies.                             *)
THEOREM AdapterMarksUsedOnce == Spec => []MarksUsedOnce
<1>1. AdapterInv => MarksUsedOnce
  BY DEF AdapterInv, NotesInv, MarksInv
<1> QED
  BY <1>1, AdapterInvariant, PTL

(* LINE's reply token and the WeCom app's access token are presented only  *)
(* before they expire at the platform, whatever their lives.               *)
THEOREM AdapterCredentialsInForce == Spec => []CredentialsInForce
<1>1. AdapterInv => CredentialsInForce
  BY DEF AdapterInv, CredentialsInv
<1> QED
  BY <1>1, AdapterInvariant, PTL

(* A redelivered message is handled once until more ids than the window    *)
(* have passed, for every window size.                                     *)
THEOREM AdapterNoDuplicate == Spec => []NoDuplicateBeforeOverflow
<1>1. AdapterInv => NoDuplicateBeforeOverflow
  <2> SUFFICES ASSUME DedupInv, NEW i \in Ids, handled[i] > 1 PROVE Cardinality(Passed) > Window
    BY DEF AdapterInv, NoDuplicateBeforeOverflow, Passed
  <2>1. handled[i] \in Nat /\ ~(handled[i] <= 1)
    BY DEF DedupInv
  <2>2. ~(Cardinality(Passed) <= Window)
    BY <2>1 DEF DedupInv
  <2>3. Cardinality(Passed) \in Nat /\ Window \in Nat
    BY AdapterAssumption, FS_CardinalityType DEF DedupInv
  <2> QED
    BY <2>2, <2>3
<1> QED
  BY <1>1, AdapterInvariant, PTL

(* Send returns nil only when the platform took every chunk.               *)
THEOREM AdapterSentMeansDelivered == Spec => []SentMeansDelivered
<1>1. AdapterInv => SentMeansDelivered
  BY DEF AdapterInv, SendInv
<1> QED
  BY <1>1, AdapterInvariant, PTL

(* No placeholder, reaction or typing goroutine is leaked outside the      *)
(* races IndicatorsAreKept names, and no stop channel is closed twice.     *)
THEOREM AdapterIndicatorsAreKept == Spec => []IndicatorsAreKept
<1>1. AdapterInv => IndicatorsAreKept
  BY DEF AdapterInv, NotesInv
<1> QED
  BY <1>1, AdapterInvariant, PTL

(* The reply to a published message goes to the conversation it came from, *)
(* but for QQ's groups and WeCom's bot.                                    *)
THEOREM AdapterRepliesGoBack == Spec => []RepliesGoBack
<1>1. AdapterInv => RepliesGoBack
  <2> SUFFICES ASSUME HandlersInv, NEW m \in inbound
               PROVE  \/ Target(m.chat) = m.place.id
                      \/ platform = "qq" /\ m.place.group
                      \/ platform = "wecom"
    BY DEF AdapterInv, RepliesGoBack
  <2>1. PICK e \in Inputs[platform] : m.chat = ChatOf(e) /\ m.place = e.place
    BY DEF HandlersInv
  <2>2. platform \in Platforms
    BY DEF HandlersInv
  <2> QED
    BY <2>1, <2>2, TargetOfChat
<1> QED
  BY <1>1, AdapterInvariant, PTL
===============================================================================

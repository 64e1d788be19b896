----------------------------- MODULE ChatAdapters -----------------------------
(***************************************************************************)
(* The chat adapters of pkg/channels that talk to a platform through an    *)
(* SDK or a webhook: Telegram, Discord, Slack, LINE, DingTalk, QQ, Feishu, *)
(* WeCom (bot and app), and the message side of OneBot.  They share only   *)
(* the bus, so a behaviour is that of one adapter, chosen in Init.         *)
(*                                                                         *)
(* Events are handled by goroutines (Handlers), replies are sent by the    *)
(* one outbound dispatcher.  Between a message and its reply an adapter    *)
(* keeps a note per chat in a sync.Map: a placeholder to edit, a typing    *)
(* indicator to stop, a reaction to replace, a reply token, a webhook.     *)
(***************************************************************************)
EXTENDS Integers, Sequences, FiniteSets

CONSTANTS
  Platforms,   \* the adapters to explore
  Inputs,      \* [Platforms -> set of events the platform may deliver]
  Handlers,    \* goroutines the SDK or web server runs event handlers on
  AllowList,   \* [Platforms -> set of entries of allow_from]
  Bot, None,   \* the bot's own user; an absent sender or user name
  MentionOnly, \* Discord's mention_only setting
  Window,      \* ids the deduplication keeps: 1024, 1000 or 10000 in the code
  LineMaxAge, LineLife,  \* LINE reply token: used before 25 s, valid 30 s
  AppLife,     \* life of a WeCom app access token in refresh intervals
  MaxEvents, MaxSends,  \* bounds: [Platforms -> events delivered, replies sent]
  MaxChunks, MaxClock   \* bounds

(* The adapters there are; the margin between using and losing a LINE      *)
(* token is not negative (25 s and 30 s in line.go).                       *)
ASSUME AdapterAssumption ==
  /\ Platforms \subseteq {"telegram", "discord", "slack", "line", "dingtalk", "qq", "feishu",
                          "wecom", "wecom_app", "onebot"}
  /\ Window \in Nat /\ AppLife \in Nat /\ MaxChunks \in Nat
  /\ LineMaxAge \in Nat /\ LineLife \in Nat /\ LineMaxAge <= LineLife

(* A private conversation is named after the user at its other end where   *)
(* the platform gives it no name of its own.                               *)
ASSUME EventAssumption ==
  \A p \in Platforms : \A e \in Inputs[p] :
    /\ e.id \in Nat
    /\ p \in {"dingtalk", "qq", "onebot"} /\ ~e.place.group => e.place.id = e.from
    /\ p = "wecom_app" => e.place.id = e.from

VARIABLES
  platform,    \* whose adapter this is
  running,     \* BaseChannel.running
  live,        \* "off", "on", "done": the SDK or server delivers events
  known,       \* the bot's own identity was fetched (LINE)
  hs,          \* [Handlers -> what the goroutine is doing]
  memo,        \* [chat -> note]: the adapter's sync.Maps
  marks,       \* how many marks were made: a mark is a placeholder, token...
  open,        \* marks the user still sees, or goroutines still typing
  closed,      \* typing stop channels that were closed (Discord)
  raced,       \* marks stored between Load and Delete of a Send (Telegram)
  seen,        \* remembered message ids, oldest first
  handled,     \* history: [id -> how often it passed the duplicate check]
  inbound,     \* history: messages published on the bus
  out,         \* the dispatcher's Send
  sent,        \* history: how the last Send ended
  used,        \* history: marks and tokens presented to the platform
  token,       \* the WeCom app's access token
  clock, events, sends, panicked

adapterVars == <<platform, running, live, known>>
noteVars == <<memo, marks, open, closed, raced>>
dedupVars == <<seen, handled>>
sendVars == <<out, sent, used, sends>>
envVars == <<token, clock, panicked>>
vars == <<adapterVars, hs, noteVars, dedupVars, inbound, sendVars, envVars, events>>

-------------------------------------------------------------------------------
(* Events.  from/user: sender id and user name; place: the conversation    *)
(* it happened in; thread: Slack; text: "", "mention" (of the bot only) or *)
(* "words"; file: an attachment; type: the platform's event type.          *)

Members(s) == {s[i] : i \in DOMAIN s}
Words(e) == e.text = "words"      \* what stripBotMention leaves
Ids == {e.id : e \in Inputs[platform]}

(* An absent message id (isDuplicate ignores it), an absent thread.        *)
NoId == 0
NoThread == 0

(* BaseChannel.IsAllowed; an entry is id, @id or id|user, a sender is id   *)
(* or id|user.                                                             *)
IsAllowed(id, user) ==
  \/ AllowList[platform] = {}
  \/ \E a \in AllowList[platform] :
       \/ a.id = id
       \/ a.user # None /\ user = None /\ id = a.user
       \/ user # None /\ user \in (IF a.user = None THEN {a.id} ELSE {a.user})

-------------------------------------------------------------------------------
(* The chat id an adapter gives to a message.                              *)

SlackMessageChat(e) == <<e.place.id, e.thread>>
SlackMentionChat(e) == <<e.place.id, IF e.thread # NoThread THEN e.thread ELSE e.id>>
SlackCommandChat(e) == <<e.place.id, NoThread>>
ResolveChatID(e) == <<e.place.id, NoThread>>
DingTalkChat(e) == <<IF e.place.group THEN e.place.id ELSE e.from, NoThread>>
QQChat(e) == <<IF e.place.group THEN e.place.id ELSE e.from, NoThread>>
WeComChat(e) == <<IF e.place.group THEN e.place.id ELSE e.from, NoThread>>
WeComAppChat(e) == <<e.from, NoThread>>
OneBotChat(e) == IF e.place.group THEN <<"group", e.place.id>> ELSE <<"private", e.from>>
PlaceChat(e) == <<e.place.id, NoThread>>

ChatOf(e) ==
  CASE platform = "slack" ->
         (CASE e.type = "app_mention" -> SlackMentionChat(e)
            [] e.type = "slash" -> SlackCommandChat(e)
            [] OTHER -> SlackMessageChat(e))
    [] platform = "line" -> ResolveChatID(e)
    [] platform = "dingtalk" -> DingTalkChat(e)
    [] platform = "qq" -> QQChat(e)
    [] platform = "wecom" -> WeComChat(e)
    [] platform = "wecom_app" -> WeComAppChat(e)
    [] platform = "onebot" -> OneBotChat(e)
    [] OTHER -> PlaceChat(e)

Chats == {ChatOf(e) : e \in Inputs[platform]}

(* Where the platform puts a message that Send addresses to a chat.        *)
Elsewhere == "elsewhere"
Users == {e.from : e \in Inputs[platform]}
ParseSlackChatID(chat) == chat[1]

(* Mutant: the "group:" prefix is not recognised.                          *)
BuildSendRequestPrivate(chat) == IF chat[2] \in Users THEN chat[2] ELSE Elsewhere

BuildSendRequest(chat) ==
  IF chat[1] = "group" THEN chat[2]
  ELSE IF chat[2] \in Users THEN chat[2] ELSE Elsewhere

PostC2CMessage(chat) == IF chat[1] \in Users THEN chat[1] ELSE Elsewhere
WebhookURL(chat) == Elsewhere    \* the group of the configured webhook

Target(chat) ==
  CASE platform = "slack" -> ParseSlackChatID(chat)
    [] platform = "onebot" -> BuildSendRequest(chat)
    [] platform = "qq" -> PostC2CMessage(chat)
    [] platform = "wecom" -> WebhookURL(chat)
    [] OTHER -> chat[1]

-------------------------------------------------------------------------------
NoNote == [mark |-> 0, at |-> 0, aux |-> 0]
IdleHandler == [pc |-> "idle"]
IdleSend == [pc |-> "idle"]

Init ==
  /\ platform \in Platforms
  /\ running = FALSE
  /\ live = "off"
  /\ known = FALSE
  /\ hs = [h \in Handlers |-> IdleHandler]
  /\ memo = [c \in Chats |-> NoNote]
  /\ marks = 0
  /\ open = {}
  /\ closed = {}
  /\ raced = {}
  /\ seen = <<>>
  /\ handled = [i \in Ids |-> 0]
  /\ inbound = {}
  /\ out = IdleSend
  /\ sent = [res |-> "none", got |-> 0, chunks |-> 0]
  /\ used = <<>>
  /\ token = [have |-> FALSE, expiry |-> 0, dies |-> 0]
  /\ clock = 0
  /\ events = 0
  /\ sends = 0
  /\ panicked = FALSE

-------------------------------------------------------------------------------
(* Start, and the steps of it that may fail.                               *)

Started(p, ok) ==
  /\ platform = p
  /\ live = "off"
  /\ live' = IF ok THEN "on" ELSE "done"
  /\ running' = ok
  /\ UNCHANGED <<platform, hs, noteVars, dedupVars, inbound, sendVars, events>>

TelegramStart(polling, handler) ==
  Started("telegram", polling /\ handler) /\ UNCHANGED <<known, envVars>>
DiscordStart(user, opened) ==
  Started("discord", user /\ opened) /\ UNCHANGED <<known, envVars>>
SlackStart(auth) == Started("slack", auth) /\ UNCHANGED <<known, envVars>>
FetchBotInfo(ok) == known' = ok
LineStart(info) == Started("line", TRUE) /\ FetchBotInfo(info) /\ UNCHANGED envVars
DingTalkStart(stream) == Started("dingtalk", stream) /\ UNCHANGED <<known, envVars>>
QQStart(conf, refresh, ws) ==
  Started("qq", conf /\ refresh /\ ws) /\ UNCHANGED <<known, envVars>>
FeishuStart(conf) == Started("feishu", conf) /\ UNCHANGED <<known, envVars>>
WeComStart == Started("wecom", TRUE) /\ UNCHANGED <<known, envVars>>
OneBotStart(url) == Started("onebot", url) /\ UNCHANGED <<known, envVars>>

(* Mutant: the token's whole life is taken for usable.                     *)
RefreshAccessTokenFull(ok) ==
  token' = IF ok THEN [have |-> TRUE, expiry |-> clock + AppLife, dies |-> clock + AppLife]
           ELSE token

(* refreshAccessToken: usable until five minutes (one interval) before the *)
(* platform lets it die; a failed refresh keeps the old token.             *)
RefreshAccessToken(ok) ==
  token' = IF ok THEN [have |-> TRUE, expiry |-> clock + AppLife - 1, dies |-> clock + AppLife]
           ELSE token

(* getAccessToken: time.Now().After(expiry) means none.                    *)
GetAccessToken == token.have /\ clock <= token.expiry

WeComAppStart(ok) ==
  /\ Started("wecom_app", TRUE)
  /\ RefreshAccessToken(ok)
  /\ UNCHANGED <<known, clock, panicked>>

TokenRefreshLoop(ok) ==
  /\ platform = "wecom_app" /\ live = "on"
  /\ RefreshAccessToken(ok)
  /\ UNCHANGED <<adapterVars, hs, noteVars, dedupVars, inbound, sendVars, events,
                 clock, panicked>>

StartAny ==
  \/ \E a, b \in BOOLEAN : TelegramStart(a, b) \/ DiscordStart(a, b)
  \/ \E a \in BOOLEAN : SlackStart(a) \/ LineStart(a) \/ DingTalkStart(a)
                        \/ FeishuStart(a) \/ WeComAppStart(a) \/ OneBotStart(a)
  \/ \E a, b, c \in BOOLEAN : QQStart(a, b, c)
  \/ WeComStart

-------------------------------------------------------------------------------
(* Stop.  Only running is cleared everywhere; most also end the delivery.  *)

Stopped(p, l) ==
  /\ platform = p
  /\ live = "on"
  /\ running
  /\ running' = FALSE
  /\ live' = l
  /\ UNCHANGED <<platform, known, hs, dedupVars, inbound, sendVars, events, token, clock>>

TelegramStop == Stopped("telegram", "on") /\ UNCHANGED <<noteVars, panicked>>
SlackStop == Stopped("slack", "done") /\ UNCHANGED <<noteVars, panicked>>
LineStop == Stopped("line", "done") /\ UNCHANGED <<noteVars, panicked>>
DingTalkStop == Stopped("dingtalk", "done") /\ UNCHANGED <<noteVars, panicked>>
QQStop == Stopped("qq", "done") /\ UNCHANGED <<noteVars, panicked>>
FeishuStop == Stopped("feishu", "done") /\ UNCHANGED <<noteVars, panicked>>
WeComStop == Stopped("wecom", "done") /\ UNCHANGED <<noteVars, panicked>>
WeComAppStop == Stopped("wecom_app", "done") /\ UNCHANGED <<noteVars, panicked>>

(* close(stop) of every typing indicator in the map.                       *)
CloseStops(stops) ==
  /\ closed' = closed \cup stops
  /\ panicked' = (panicked \/ stops \cap closed # {})

Noted(chats) == {memo[c].mark : c \in chats} \ {0}

DiscordStop ==
  /\ Stopped("discord", "done")
  /\ CloseStops(Noted(Chats))
  /\ memo' = [c \in Chats |-> NoNote]
  /\ UNCHANGED <<marks, open, raced>>

(* The context the channel was started with is canceled.                   *)
Cancel ==
  /\ live = "on"
  /\ live' = "done"
  /\ UNCHANGED <<platform, running, known, hs, noteVars, dedupVars, inbound, sendVars,
                 envVars, events>>

(* sessionManager.Start returned an error in its goroutine.                *)
QQSessionEnds ==
  /\ platform = "qq" /\ running
  /\ running' = FALSE
  /\ live' = "done"
  /\ UNCHANGED <<platform, known, hs, noteVars, dedupVars, inbound, sendVars, envVars, events>>

StopAny ==
  \/ TelegramStop \/ SlackStop \/ LineStop \/ DingTalkStop \/ QQStop \/ FeishuStop
  \/ WeComStop \/ WeComAppStop \/ DiscordStop \/ Cancel \/ QQSessionEnds

-------------------------------------------------------------------------------
(* Handlers                                                                *)

(* An event reaches a handler, again if the platform retries.  Slack and   *)
(* OneBot have one event loop.                                             *)
Arrives(h, e) ==
  /\ live = "on"
  /\ events < MaxEvents[platform]
  /\ e \in Inputs[platform]
  /\ hs[h].pc = "idle"
  /\ platform \in {"slack", "onebot"} => \A g \in Handlers : hs[g].pc = "idle"
  /\ events' = events + 1
  /\ UNCHANGED <<adapterVars, noteVars, inbound, sendVars, envVars>>

Goto(h, e, pc) == hs' = [hs EXCEPT ![h] = [pc |-> pc, ev |-> e]]
Drop(h) == hs' = [hs EXCEPT ![h] = IdleHandler]

(* Go on at pc when the handler's checks pass, return when they do not.    *)
Unless(h, e, ok, pc) == IF ok THEN Goto(h, e, pc) ELSE Drop(h)

TelegramReceive(h, e) ==
  /\ platform = "telegram"
  /\ Arrives(h, e)
  /\ Unless(h, e, e.type # "command" /\ e.from # None /\ IsAllowed(e.from, e.user), "think")
  /\ UNCHANGED dedupVars

DiscordReceive(h, e) ==
  /\ platform = "discord"
  /\ Arrives(h, e)
  /\ Unless(h, e, /\ e.from \notin {None, Bot}
                  /\ IsAllowed(e.from, None)
                  /\ MentionOnly /\ e.place.group => e.mention
                  /\ Words(e) \/ e.file, "typing")
  /\ UNCHANGED dedupVars

SlackMessageAccepted(e) ==
  e.type = "message" /\ e.from \notin {Bot, None} /\ IsAllowed(e.from, None)
SlackMentionAccepted(e) ==
  e.type = "app_mention" /\ e.from # Bot /\ IsAllowed(e.from, None)
SlackCommandAccepted(e) == e.type = "slash" /\ IsAllowed(e.from, None)

(* eventLoop and handleEventsAPI: the event is acknowledged first.         *)
SlackReceive(h, e) ==
  /\ platform = "slack"
  /\ Arrives(h, e)
  /\ IF SlackMessageAccepted(e) \/ SlackMentionAccepted(e) THEN Goto(h, e, "ack")
     ELSE Unless(h, e, SlackCommandAccepted(e), "publish")
  /\ UNCHANGED dedupVars

(* verifySignature has accepted the webhook, a goroutine runs processEvent.*)
IsBotMentioned(e) == e.type = "all" \/ (known /\ e.mention)

LineReceive(h, e) ==
  /\ platform = "line"
  /\ Arrives(h, e)
  /\ Unless(h, e, e.type # "other" /\ (e.place.group => IsBotMentioned(e)), "token")
  /\ UNCHANGED dedupVars

DingTalkReceive(h, e) ==
  /\ platform = "dingtalk"
  /\ Arrives(h, e)
  /\ Unless(h, e, e.text # "", "webhook")
  /\ UNCHANGED dedupVars

(* extractFeishuSenderID: an absent sender is "unknown".                   *)
FeishuReceive(h, e) ==
  /\ platform = "feishu"
  /\ Arrives(h, e)
  /\ Unless(h, e, e.place.id # None, "publish")
  /\ UNCHANGED dedupVars

(* Duplicate checks; each is one critical section.                         *)
Remember(i) == handled' = [handled EXCEPT ![i] = @ + 1]

(* Mutant: the overflow test comes one id too early.                       *)
QQIsDuplicateTight(i) ==
  /\ Remember(i)
  /\ LET all == Append(seen, i) IN
     IF Len(all) >= Window
     THEN \E gone \in SUBSET Members(all) :
            /\ Cardinality(gone) = Window \div 2
            /\ seen' = SelectSeq(all, LAMBDA x : x \notin gone)
     ELSE seen' = all

(* isDuplicate of QQ for a new id: past the limit half of the map goes, in *)
(* map order, that is any half.                                            *)
QQIsDuplicate(i) ==
  /\ Remember(i)
  /\ LET all == Append(seen, i) IN
     IF Len(all) > Window
     THEN \E gone \in SUBSET Members(all) :
            /\ Cardinality(gone) = Window \div 2
            /\ seen' = SelectSeq(all, LAMBDA x : x \notin gone)
     ELSE seen' = all

(* handleC2CMessage and handleGroupATMessage.                              *)
QQReceive(h, e) ==
  /\ platform = "qq"
  /\ Arrives(h, e)
  /\ IF e.id \in Members(seen) THEN Drop(h) /\ UNCHANGED dedupVars
     ELSE /\ QQIsDuplicate(e.id)
          /\ Unless(h, e, e.from # None /\ e.text # "", "publish")

(* isDuplicate of OneBot for a new id: a ring of the last Window ids.      *)
OneBotIsDuplicate(i) ==
  /\ Remember(i)
  /\ seen' = IF Len(seen) < Window THEN Append(seen, i) ELSE Append(Tail(seen), i)

CheckGroupTrigger(e) == e.mention \/ e.type = "prefix"

(* parseMessageSegments: text, files that could be downloaded.             *)
OneBotContent(e, got) == Words(e) \/ (e.file /\ got)

(* handleRawEvent and handleMessage up to the trigger check.               *)
OneBotReceive(h, e) ==
  /\ platform = "onebot"
  /\ Arrives(h, e)
  /\ IF e.type = "other" \/ e.from = None \/ ~IsAllowed(e.from, None)
        \/ (e.id # NoId /\ e.id \in Members(seen))
     THEN Drop(h) /\ UNCHANGED dedupVars
     ELSE /\ IF e.id = NoId THEN UNCHANGED dedupVars ELSE OneBotIsDuplicate(e.id)
          /\ \E got \in BOOLEAN :
               Unless(h, e, OneBotContent(e, got) /\ (e.place.group => CheckGroupTrigger(e)),
                      "note")

(* processMessage of both WeCom adapters: check and add under the lock,    *)
(* the overflow test after it.                                             *)
WeComAdd(h, e) ==
  IF e.type = "other" \/ e.id \in Members(seen) THEN Drop(h) /\ UNCHANGED dedupVars
  ELSE /\ Remember(e.id)
       /\ seen' = Append(seen, e.id)
       /\ Goto(h, e, "trim")

WeComReceive(h, e) == platform = "wecom" /\ Arrives(h, e) /\ WeComAdd(h, e)
WeComAppReceive(h, e) == platform = "wecom_app" /\ Arrives(h, e) /\ WeComAdd(h, e)

Receive(h) ==
  \E e \in Inputs[platform] :
    \/ TelegramReceive(h, e) \/ DiscordReceive(h, e) \/ SlackReceive(h, e)
    \/ LineReceive(h, e) \/ DingTalkReceive(h, e) \/ FeishuReceive(h, e)
    \/ QQReceive(h, e) \/ OneBotReceive(h, e) \/ WeComReceive(h, e)
    \/ WeComAppReceive(h, e)

-------------------------------------------------------------------------------
(* What a handler stores for the reply.                                    *)

At(h, pc) == hs[h].pc = pc
Event(h) == hs[h].ev
Chat(h) == ChatOf(Event(h))
handlerOnly == <<adapterVars, dedupVars, sendVars, token, clock, events>>

(* The length is read without the lock, the reset takes it again.          *)
WeComTrim(h) ==
  /\ At(h, "trim")
  /\ Goto(h, Event(h), IF Len(seen) > Window THEN "reset" ELSE "publish")
  /\ UNCHANGED <<handlerOnly, noteVars, inbound, panicked>>

WeComReset(h) ==
  /\ At(h, "reset")
  /\ seen' = <<>>
  /\ Goto(h, Event(h), "publish")
  /\ UNCHANGED <<adapterVars, handled, sendVars, token, clock, events, noteVars, inbound,
                 panicked>>

(* A new mark n for chat c; the user sees it.                              *)
Mark(c, n) == [chat |-> c, n |-> n]

(* The previous cancel function is called, the new one stored.             *)
TelegramThink(h) ==
  /\ At(h, "think")
  /\ marks' = marks + 1
  /\ memo' = [memo EXCEPT ![Chat(h)].aux = marks + 1]
  /\ Goto(h, Event(h), "show")
  /\ UNCHANGED <<handlerOnly, open, closed, raced, inbound, panicked>>

TelegramShow(h, ok) ==
  /\ At(h, "show")
  /\ Goto(h, Event(h), "publish")
  /\ IF ok
     THEN /\ marks' = marks + 1
          /\ memo' = [memo EXCEPT ![Chat(h)].mark = marks + 1]
          /\ open' = open \cup {Mark(Chat(h), marks + 1)}
          /\ raced' = IF out.pc = "delete" /\ out.chat = Chat(h)
                      THEN raced \cup {marks + 1} ELSE raced
     ELSE UNCHANGED <<marks, memo, open, raced>>
  /\ UNCHANGED <<handlerOnly, closed, inbound, panicked>>

(* Mutant: the previous indicator of the chat is forgotten, not stopped.   *)
StartTypingForgets(h) ==
  /\ At(h, "typing")
  /\ marks' = marks + 1
  /\ memo' = [memo EXCEPT ![Chat(h)].mark = marks + 1]
  /\ open' = open \cup {Mark(Chat(h), marks + 1)}
  /\ Goto(h, Event(h), "publish")
  /\ UNCHANGED <<handlerOnly, closed, panicked, raced, inbound>>

StartTyping(h) ==
  /\ At(h, "typing")
  /\ CloseStops(Noted({Chat(h)}))
  /\ marks' = marks + 1
  /\ memo' = [memo EXCEPT ![Chat(h)].mark = marks + 1]
  /\ open' = open \cup {Mark(Chat(h), marks + 1)}
  /\ Goto(h, Event(h), "publish")
  /\ UNCHANGED <<handlerOnly, raced, inbound>>

(* The typing goroutine returns: stopped, canceled or after five minutes.  *)
TypingEnds(m) ==
  /\ platform = "discord"
  /\ m \in open
  /\ open' = open \ {m}
  /\ UNCHANGED <<handlerOnly, hs, memo, marks, closed, raced, inbound, panicked>>

(* The reaction and the pending acknowledgement come before the content is *)
(* looked at; app_mention looks at no files.                               *)
SlackAck(h, got) ==
  /\ At(h, "ack")
  /\ marks' = marks + 1
  /\ memo' = [memo EXCEPT ![Chat(h)].mark = marks + 1]
  /\ open' = open \cup {Mark(Chat(h), marks + 1)}
  /\ LET e == Event(h) IN
     Unless(h, e, Words(e) \/ (e.type = "message" /\ e.file /\ got), "publish")
  /\ UNCHANGED <<handlerOnly, closed, raced, inbound, panicked>>

LineToken(h) ==
  /\ At(h, "token")
  /\ marks' = marks + 1
  /\ memo' = [memo EXCEPT ![Chat(h)].mark = marks + 1, ![Chat(h)].at = clock]
  /\ Goto(h, Event(h), "quote")
  /\ UNCHANGED <<handlerOnly, open, closed, raced, inbound, panicked>>

(* In a group the mention of the bot is stripped from the text.            *)
LineContent(e, got) ==
  IF e.text # "" THEN Words(e) \/ ~e.place.group ELSE e.file /\ got

(* Only text has a quote token; a file that cannot be fetched is dropped.  *)
LineQuote(h, got) ==
  /\ At(h, "quote")
  /\ LET e == Event(h) IN
     /\ memo' = IF e.text # "" THEN [memo EXCEPT ![Chat(h)].aux = e.id] ELSE memo
     /\ Unless(h, e, LineContent(e, got), "publish")
  /\ UNCHANGED <<handlerOnly, marks, open, closed, raced, inbound, panicked>>

DingTalkWebhook(h) ==
  /\ At(h, "webhook")
  /\ marks' = marks + 1
  /\ memo' = [memo EXCEPT ![Chat(h)].mark = marks + 1]
  /\ Goto(h, Event(h), "publish")
  /\ UNCHANGED <<handlerOnly, open, closed, raced, inbound, panicked>>

(* lastMessageID, and the emoji of a group message.                        *)
OneBotNote(h) ==
  /\ At(h, "note")
  /\ LET e == Event(h)
         emoji == e.place.group /\ e.id # NoId
     IN /\ marks' = IF emoji THEN marks + 1 ELSE marks
        /\ memo' = [memo EXCEPT ![Chat(h)].aux = e.id,
                                ![Chat(h)].mark = IF emoji THEN marks + 1 ELSE @]
        /\ open' = IF emoji THEN open \cup {Mark(Chat(h), marks + 1)} ELSE open
  /\ Goto(h, Event(h), "publish")
  /\ UNCHANGED <<handlerOnly, closed, raced, inbound, panicked>>

(* BaseChannel.HandleMessage with the bare sender id.                      *)
HandleMessage(h) ==
  /\ At(h, "publish")
  /\ LET e == Event(h) IN
     IF IsAllowed(e.from, None)
     THEN inbound' = inbound \cup {[chat |-> Chat(h), place |-> e.place]}
     ELSE UNCHANGED inbound
  /\ Drop(h)
  /\ UNCHANGED <<handlerOnly, noteVars, panicked>>

HandlerStep(h) ==
  \/ WeComTrim(h) \/ WeComReset(h) \/ TelegramThink(h) \/ StartTyping(h)
  \/ LineToken(h) \/ DingTalkWebhook(h) \/ OneBotNote(h) \/ HandleMessage(h)
  \/ \E ok \in BOOLEAN : TelegramShow(h, ok) \/ SlackAck(h, ok) \/ LineQuote(h, ok)

-------------------------------------------------------------------------------
(* Send, called by the dispatcher.  A call of the platform's API succeeds, *)
(* fails, or reports an error (a timeout) for what it has delivered.       *)

Outcomes == {[ok |-> TRUE, got |-> 1], [ok |-> FALSE, got |-> 0], [ok |-> FALSE, got |-> 1]}
sendOnly == <<adapterVars, hs, dedupVars, inbound, token, clock, events>>

Calling(pc) == out.pc = pc
Note == memo[out.chat]
Step(pc, o) == out' = [out EXCEPT !.pc = pc, !.got = @ + o.got] /\ UNCHANGED sent
Return(res, o) ==
  /\ out' = IdleSend
  /\ sent' = [res |-> res, got |-> out.got + o.got, chunks |-> out.chunks]
Nothing == [ok |-> TRUE, got |-> 0]

Use(mark, age, life) ==
  used' = Append(used, [chat |-> out.chat, mark |-> mark, age |-> age, life |-> life])

(* The chat may have no note, the message no text (chunks = 0).            *)
SendBegin(c, n) ==
  /\ Calling("idle")
  /\ live # "off"
  /\ sends < MaxSends[platform]
  /\ sends' = sends + 1
  /\ out' = [pc |-> platform, chat |-> c, chunks |-> n, left |-> n, got |-> 0, mark |-> 0]
  /\ UNCHANGED <<sendOnly, noteVars, sent, used, panicked>>

NotRunning == ~running /\ Return("error", Nothing) /\ UNCHANGED <<used, noteVars, panicked>>

TelegramStopThinking ==
  /\ Calling("telegram")
  /\ \/ NotRunning
     \/ /\ running
        /\ Step(IF Note.aux # 0 THEN "forget" ELSE "load", Nothing)
        /\ UNCHANGED <<used, noteVars, panicked>>

TelegramForget ==
  /\ Calling("forget")
  /\ memo' = [memo EXCEPT ![out.chat].aux = 0]
  /\ Step("load", Nothing)
  /\ UNCHANGED <<used, marks, open, closed, raced, panicked>>

TelegramLoad ==
  /\ Calling("load")
  /\ out' = [out EXCEPT !.pc = IF Note.mark # 0 THEN "delete" ELSE "post", !.mark = Note.mark]
  /\ UNCHANGED <<sent, used, noteVars, panicked>>

(* Mutant: the placeholder stays in the map.                               *)
TelegramDeleteNot ==
  /\ Calling("delete")
  /\ Step("edit", Nothing)
  /\ UNCHANGED <<used, memo, marks, open, closed, raced, panicked>>

TelegramDelete ==
  /\ Calling("delete")
  /\ memo' = [memo EXCEPT ![out.chat].mark = 0]
  /\ Step("edit", Nothing)
  /\ UNCHANGED <<used, marks, open, closed, raced, panicked>>

TelegramEdit(o) ==
  /\ Calling("edit")
  /\ Use(out.mark, 0, 1)
  /\ open' = open \ {Mark(out.chat, out.mark)}
  /\ IF o.ok THEN Return("nil", o) ELSE Step("post", o)
  /\ UNCHANGED <<memo, marks, closed, raced, panicked>>

(* HTML first, then the same text without a parse mode.                    *)
TelegramPost(o) ==
  /\ Calling("post")
  /\ IF o.ok THEN Return("nil", o) ELSE Step("plain", o)
  /\ UNCHANGED <<used, noteVars, panicked>>

TelegramPlain(o) ==
  /\ Calling("plain")
  /\ Return(IF o.ok THEN "nil" ELSE "error", o)
  /\ UNCHANGED <<used, noteVars, panicked>>

TelegramSend(o) ==
  \/ TelegramStopThinking \/ TelegramForget \/ TelegramLoad \/ TelegramDelete
  \/ TelegramEdit(o) \/ TelegramPost(o) \/ TelegramPlain(o)

StopTyping ==
  /\ CloseStops(Noted({out.chat}))
  /\ memo' = [memo EXCEPT ![out.chat].mark = 0]
  /\ UNCHANGED <<marks, open, raced>>

(* stopTyping comes before the running check.                              *)
DiscordSend ==
  /\ Calling("discord")
  /\ StopTyping
  /\ IF ~running THEN Return("error", Nothing)
     ELSE IF out.left = 0 THEN Return("nil", Nothing) ELSE Step("chunk", Nothing)
  /\ UNCHANGED used

(* Mutant: a chunk that fails does not end the Send.                       *)
SendChunkGoesOn(o) ==
  /\ Calling("chunk")
  /\ IF out.left = 1 THEN Return("nil", o)
     ELSE /\ out' = [out EXCEPT !.left = @ - 1, !.got = @ + o.got]
          /\ UNCHANGED sent
  /\ UNCHANGED <<used, noteVars, panicked>>

SendChunk(o) ==
  /\ Calling("chunk")
  /\ IF ~o.ok THEN Return("error", o)
     ELSE IF out.left = 1 THEN Return("nil", o)
     ELSE /\ out' = [out EXCEPT !.left = @ - 1, !.got = @ + o.got]
          /\ UNCHANGED sent
  /\ UNCHANGED <<used, noteVars, panicked>>

(* LoadAndDelete of the pending mark, and its use if there is one.         *)
TakeMark(age, life) ==
  /\ memo' = [memo EXCEPT ![out.chat].mark = 0]
  /\ open' = open \ {Mark(out.chat, Note.mark)}
  /\ IF Note.mark # 0 THEN Use(Note.mark, age, life) ELSE UNCHANGED used
  /\ UNCHANGED <<marks, closed, raced, panicked>>

SlackSend(o) ==
  /\ Calling("slack")
  /\ \/ NotRunning
     \/ /\ running /\ ~o.ok /\ Return("error", o)
        /\ UNCHANGED <<used, noteVars, panicked>>
     \/ running /\ o.ok /\ Return("nil", o) /\ TakeMark(0, 1)

(* The write to the socket; connected or not is OneBot's other half.       *)
OneBotSend(o) ==
  /\ Calling("onebot")
  /\ \/ NotRunning
     \/ /\ running /\ ~o.ok /\ Return("error", o)
        /\ UNCHANGED <<used, noteVars, panicked>>
     \/ running /\ o.ok /\ Return("nil", o) /\ TakeMark(0, 1)

LineSend ==
  /\ Calling("line")
  /\ \/ NotRunning
     \/ /\ running
        /\ memo' = [memo EXCEPT ![out.chat].aux = 0]
        /\ Step("take", Nothing)
        /\ UNCHANGED <<used, marks, open, closed, raced, panicked>>

(* sendReply with a young enough token, sendPush otherwise or on failure.  *)
LineReply(o) ==
  /\ Calling("take")
  /\ memo' = [memo EXCEPT ![out.chat].mark = 0]
  /\ IF Note.mark # 0 /\ clock - Note.at < LineMaxAge
     THEN /\ Use(Note.mark, clock - Note.at, LineLife)
          /\ IF o.ok THEN Return("nil", o) ELSE Step("push", o)
     ELSE Step("push", Nothing) /\ UNCHANGED used
  /\ UNCHANGED <<marks, open, closed, raced, panicked>>

LinePush(o) ==
  /\ Calling("push")
  /\ Return(IF o.ok THEN "nil" ELSE "error", o)
  /\ UNCHANGED <<used, noteVars, panicked>>

PostOnce(o) ==
  /\ Return(IF o.ok THEN "nil" ELSE "error", o)
  /\ UNCHANGED <<used, noteVars, panicked>>

(* No session webhook yet: an error.  It is kept for later replies.        *)
DingTalkSend(o) ==
  /\ Calling("dingtalk")
  /\ \/ NotRunning
     \/ running /\ PostOnce(IF Note.mark # 0 THEN o ELSE [ok |-> FALSE, got |-> 0])

QQSend(o) == Calling("qq") /\ (NotRunning \/ (running /\ PostOnce(o)))
FeishuSend(o) == Calling("feishu") /\ (NotRunning \/ (running /\ PostOnce(o)))
SendWebhookReply(o) == PostOnce(o)
WeComSend(o) == Calling("wecom") /\ (NotRunning \/ (running /\ SendWebhookReply(o)))

SendTextMessage(o) ==
  /\ Use(0, clock, token.dies)
  /\ Return(IF o.ok THEN "nil" ELSE "error", o)
  /\ UNCHANGED <<noteVars, panicked>>

WeComAppSend(o) ==
  /\ Calling("wecom_app")
  /\ \/ NotRunning
     \/ /\ running /\ ~GetAccessToken
        /\ Return("error", Nothing)
        /\ UNCHANGED <<used, noteVars, panicked>>
     \/ running /\ GetAccessToken /\ SendTextMessage(o)

SendStep ==
  /\ \/ DiscordSend \/ LineSend
     \/ \E o \in Outcomes :
          \/ TelegramSend(o) \/ SendChunk(o) \/ SlackSend(o) \/ OneBotSend(o)
          \/ LineReply(o) \/ LinePush(o) \/ DingTalkSend(o) \/ QQSend(o)
          \/ FeishuSend(o) \/ WeComSend(o) \/ WeComAppSend(o)
  /\ UNCHANGED <<sendOnly, sends>>

Tick ==
  /\ platform \in {"line", "wecom_app"}
  /\ clock < MaxClock
  /\ clock' = clock + 1
  /\ UNCHANGED <<adapterVars, hs, noteVars, dedupVars, inbound, sendVars, token, panicked,
                 events>>

-------------------------------------------------------------------------------
Next ==
  \/ StartAny
  \/ StopAny
  \/ \E ok \in BOOLEAN : TokenRefreshLoop(ok)
  \/ \E h \in Handlers : Receive(h) \/ HandlerStep(h)
  \/ \E m \in open : TypingEnds(m)
  \/ \E c \in Chats, n \in 0..MaxChunks :
       /\ platform \in {"discord"} \/ n = 1
       /\ SendBegin(c, n)
  \/ SendStep
  \/ Tick

Spec == Init /\ [][Next]_vars

-------------------------------------------------------------------------------
(* Properties                                                              *)

Notes == [mark: Nat, at: Nat, aux: Nat]

(* The adapter's state has its shape: notes per chat, marks counted.       *)
TypeOK ==
  /\ platform \in Platforms
  /\ running \in BOOLEAN /\ known \in BOOLEAN /\ panicked \in BOOLEAN
  /\ live \in {"off", "on", "done"}
  /\ memo \in [Chats -> Notes]
  /\ \A c \in Chats : memo[c].mark <= marks
  /\ open \subseteq [chat: Chats, n: 1..marks]
  /\ closed \subseteq 1..marks
  /\ Members(seen) \subseteq Ids

(* A placeholder is edited, a reply token presented, a reaction replaced   *)
(* at most once, however handlers and replies interleave.                  *)
MarksUsedOnce ==
  \A i, j \in DOMAIN used : i # j /\ used[i].mark # 0 => used[i].mark # used[j].mark

(* Nothing is presented to the platform after it has expired there: LINE's *)
(* reply token (used only when younger than lineReplyTokenMaxAge) and the  *)
(* WeCom app's access token (expiry five minutes early).                   *)
CredentialsInForce == \A i \in DOMAIN used : used[i].age < used[i].life

(* A redelivered message is not handled twice before the table of ids has  *)
(* overflowed, whichever of the deduplications it is and however many      *)
(* handlers run.                                                           *)
NoDuplicateBeforeOverflow ==
  \A i \in Ids \ {NoId} :
    handled[i] > 1 => Cardinality({j \in Ids : handled[j] > 0}) > Window

(* Send returns nil only when the platform has taken every chunk.          *)
SentMeansDelivered == sent.res = "nil" => sent.got >= sent.chunks

(* No indicator is leaked: what the user still sees (a placeholder, a      *)
(* reaction, a typing goroutine nobody told to stop) is in the map where   *)
(* the next reply finds it or in the hands of the Send that is editing it, *)
(* unless a newer message of the chat took its place or, for Telegram, it  *)
(* was stored while a Send stood between its Load and its Delete.  No stop *)
(* channel is closed twice.                                                *)
IndicatorsAreKept ==
  /\ ~panicked
  /\ \A m \in open :
       \/ m.n \in closed
       \/ memo[m.chat].mark = m.n
       \/ out.pc = "edit" /\ out.mark = m.n
       \/ platform # "discord" /\ \E k \in open : k.chat = m.chat /\ k.n > m.n
       \/ platform # "discord" /\ \E i \in DOMAIN used :
                                   used[i].chat = m.chat /\ used[i].mark > m.n
       \/ m.n \in raced

(* A reply to a published message goes back to the conversation the        *)
(* message came from.  QQ answers groups, and WeCom's bot everybody, in    *)
(* another place: PostC2CMessage, and the configured webhook.              *)
RepliesGoBack ==
  \A m \in inbound :
    \/ Target(m.chat) = m.place.id
    \/ platform = "qq" /\ m.place.group
    \/ platform = "wecom"
===============================================================================

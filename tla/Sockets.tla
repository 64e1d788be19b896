------------------------------- MODULE Sockets -------------------------------
\* The chat adapters that hold connections of their own, as goroutines that
\* share a connection field: OneBot and XMPP dial and reconnect, WhatsApp dials
\* once, MaixCam accepts devices. Source: pkg/channels/onebot.go, xmpp.go,
\* whatsapp.go, maixcam.go. OneBot's messages are in ChatAdapters, its API calls
\* in Rpc. Which adapter a behaviour is about is chosen in the initial state.
EXTENDS Naturals, FiniteSets, Sequences

CONSTANTS
  Adapters,      \* the adapters to consider
  MaxSocks,      \* bound: connections made in a behaviour
  MaxHeard,      \* bound: messages of a behaviour
  ReadErrors,    \* reads of a failed WebSocket before the library panics (1000)
  Rooms,         \* XMPP: config.MUCRooms
  Friends        \* senders on the allow list

ASSUME SocketsAssumption ==
  /\ Adapters \subseteq {"onebot", "xmpp", "whatsapp", "maixcam"}
  /\ MaxSocks \in Nat \ {0} /\ MaxHeard \in Nat /\ ReadErrors \in Nat \ {0}

VARIABLES
  adapter,       \* which adapter
  reconnects,    \* OneBot: whether config.ReconnectInterval is positive
  running,       \* BaseChannel.running
  done,          \* whether the adapter's context is done
  stopping,      \* how far Stop has come: "no", "flagged", "taken", "done"
  sock,          \* of each connection: "none", "open", "lost", "ended", "closed"
  cur,           \* c.conn or c.session, 0 for nil
  taken,         \* XMPP: the session Stop has taken and not yet closed
  readers,       \* connections with a goroutine reading them
  members,       \* MaixCam: c.clients
  dialer,        \* the goroutine that makes connections: its step and connection
  late,          \* connections put in place after Stop had begun
  joined,        \* XMPP: connections on which the rooms have been joined
  errs,          \* WhatsApp: failed reads of the connection so far
  panicked,      \* the WebSocket library has panicked
  heard,         \* messages passed to HandleMessage
  said           \* messages sent, with the stanza type they were sent as

sockVars == <<adapter, reconnects, running, done, stopping, sock, cur, taken, readers,
              members, dialer, late, joined, errs, panicked, heard, said>>
-----------------------------------------------------------------------------
Socks  == 1 .. MaxSocks
Unused == {n \in Socks : sock[n] = "none"}
Off    == [at |-> "off", sock |-> 0]
Wait   == [at |-> "wait", sock |-> 0]
Me     == "me"

SocketsInit ==
  /\ adapter \in Adapters
  /\ reconnects \in IF adapter = "onebot" THEN BOOLEAN ELSE {adapter = "xmpp"}
  /\ running = FALSE /\ done = FALSE /\ stopping = "no"
  /\ sock = [n \in Socks |-> "none"]
  /\ cur = 0 /\ taken = 0
  /\ readers = {} /\ members = {} /\ late = {} /\ joined = {}
  /\ dialer = Off
  /\ errs = 0 /\ panicked = FALSE
  /\ heard = <<>> /\ said = <<>>
-----------------------------------------------------------------------------
\* Start.

Connected(n) ==
  /\ n \in Unused /\ \A k \in Unused : n <= k
  /\ sock' = [sock EXCEPT ![n] = "open"]
  /\ cur' = n
  /\ readers' = readers \union {n}

\* Start of OneBot connects or leaves it to reconnectLoop; without that a
\* failure is an error.
OneBotStart ==
  /\ adapter = "onebot" /\ stopping = "no" /\ ~running /\ dialer = Off /\ Unused = Socks
  /\ dialer' = IF reconnects THEN Wait ELSE Off
  /\ \/ \E n \in Socks : Connected(n) /\ running' = TRUE
     \/ running' = reconnects /\ UNCHANGED <<sock, cur, readers>>
  /\ UNCHANGED <<adapter, reconnects, done, stopping, taken, members, late, joined, errs, panicked, heard, said>>

\* joinMUCRooms on the session in the field, if any.
JoinMUCRooms(n) == IF adapter = "xmpp" /\ n # 0 THEN joined \union {n} ELSE joined

XmppStart ==
  /\ adapter = "xmpp" /\ stopping = "no" /\ ~running /\ Unused = Socks
  /\ \E n \in Socks : Connected(n) /\ joined' = JoinMUCRooms(n)
  /\ running' = TRUE
  /\ UNCHANGED <<adapter, reconnects, done, stopping, taken, members, dialer, late, errs, panicked, heard, said>>

WhatsAppStart ==
  /\ adapter = "whatsapp" /\ stopping = "no" /\ ~running /\ Unused = Socks
  /\ \E n \in Socks : Connected(n)
  /\ running' = TRUE
  /\ UNCHANGED <<adapter, reconnects, done, stopping, taken, members, dialer, late, joined, errs, panicked, heard, said>>

\* The acceptor is MaixCam's dialer: it waits for a device.
MaixCamStart ==
  /\ adapter = "maixcam" /\ stopping = "no" /\ ~running /\ dialer = Off
  /\ running' = TRUE
  /\ dialer' = Wait
  /\ UNCHANGED <<adapter, reconnects, done, stopping, sock, cur, taken, readers, members, late, joined, errs, panicked, heard, said>>
-----------------------------------------------------------------------------
\* Making a connection again: reconnectLoop of OneBot and XMPP.

\* At the top of the loop: XMPP looks at running and both at the context; OneBot
\* dials only if it has no connection.
LoopReturns ==
  /\ dialer = Wait
  /\ done \/ (adapter = "xmpp" /\ ~running)
  /\ dialer' = Off
  /\ UNCHANGED <<adapter, reconnects, running, done, stopping, sock, cur, taken, readers, members, late, joined, errs, panicked, heard, said>>

Dial ==
  /\ adapter \in {"onebot", "xmpp"} /\ dialer = Wait
  /\ IF adapter = "onebot" THEN cur = 0 ELSE running
  /\ dialer' = [at |-> "dialing", sock |-> 0]
  /\ UNCHANGED <<adapter, reconnects, running, done, stopping, sock, cur, taken, readers, members, late, joined, errs, panicked, heard, said>>

DialFails ==
  /\ dialer.at = "dialing"
  /\ dialer' = Wait
  /\ UNCHANGED <<adapter, reconnects, running, done, stopping, sock, cur, taken, readers, members, late, joined, errs, panicked, heard, said>>

\* The connection is up and stored under the mutex; XMPP's dial is given the
\* context and fails once it is done.
DialSucceeds ==
  /\ dialer.at = "dialing"
  /\ adapter = "xmpp" => ~done
  /\ \E n \in Unused :
       /\ \A k \in Unused : n <= k
       /\ sock' = [sock EXCEPT ![n] = "open"]
       /\ dialer' = [at |-> "dialed", sock |-> n]
  /\ UNCHANGED <<adapter, reconnects, running, done, stopping, cur, taken, readers, members, late, joined, errs, panicked, heard, said>>

Store ==
  /\ dialer.at = "dialed" /\ adapter \in {"onebot", "xmpp"}
  /\ cur' = dialer.sock
  /\ late' = IF stopping = "no" THEN late ELSE late \union {dialer.sock}
  /\ dialer' = [dialer EXCEPT !.at = "stored"]
  /\ UNCHANGED <<adapter, reconnects, running, done, stopping, sock, taken, readers, members, joined, errs, panicked, heard, said>>

\* joinMUCRooms, then go receiveLoop or go listen, which take the connection
\* from the field: Stop may have cleared it. XMPP's loop ends here, OneBot's
\* goes back to waiting.
StartReader ==
  /\ dialer.at = "stored"
  /\ joined' = JoinMUCRooms(cur)
  /\ readers' = IF cur = 0 THEN readers ELSE readers \union {cur}
  /\ dialer' = IF adapter = "xmpp" THEN Off ELSE Wait
  /\ UNCHANGED <<adapter, reconnects, running, done, stopping, sock, cur, taken, members, late, errs, panicked, heard, said>>
-----------------------------------------------------------------------------
\* MaixCam: acceptConnections and handleConnection.

Accept ==
  /\ adapter = "maixcam" /\ dialer = Wait /\ stopping = "no"
  /\ \E n \in Unused :
       /\ \A k \in Unused : n <= k
       /\ sock' = [sock EXCEPT ![n] = "open"]
       /\ dialer' = [at |-> "accepted", sock |-> n]
  /\ UNCHANGED <<adapter, reconnects, running, done, stopping, cur, taken, readers, members, late, joined, errs, panicked, heard, said>>

AddClient ==
  /\ dialer.at = "accepted"
  /\ members' = members \union {dialer.sock}
  /\ readers' = readers \union {dialer.sock}
  /\ late' = IF stopping = "done" THEN late \union {dialer.sock} ELSE late
  /\ dialer' = Wait
  /\ UNCHANGED <<adapter, reconnects, running, done, stopping, sock, cur, taken, joined, errs, panicked, heard, said>>

\* The listener is closed: Accept fails and the acceptor returns.
AcceptFails ==
  /\ adapter = "maixcam" /\ dialer = Wait /\ stopping # "no"
  /\ dialer' = Off
  /\ UNCHANGED <<adapter, reconnects, running, done, stopping, sock, cur, taken, readers, members, late, joined, errs, panicked, heard, said>>
-----------------------------------------------------------------------------
\* The network and the other side.

\* A connection breaks, or (XMPP) the server ends the stream in good order.
Lose(n) ==
  /\ sock[n] = "open"
  /\ \/ sock' = [sock EXCEPT ![n] = "lost"]
     \/ adapter = "xmpp" /\ sock' = [sock EXCEPT ![n] = "ended"]
  /\ UNCHANGED <<adapter, reconnects, running, done, stopping, cur, taken, readers, members, dialer, late, joined, errs, panicked, heard, said>>

Dead(n) == sock[n] \in {"lost", "ended", "closed"}

\* Mutant: the field keeps the dead connection.
OneBotReadFailsKeeps(n) ==
  /\ adapter = "onebot" /\ n \in readers /\ Dead(n)
  /\ readers' = readers \ {n}
  /\ sock' = [sock EXCEPT ![n] = "closed"]
  /\ UNCHANGED <<adapter, reconnects, running, done, stopping, cur, taken, members, dialer, late, joined, errs, panicked, heard, said>>

\* listen of OneBot after a read error: it closes and clears the field only if
\* it still holds this connection.
OneBotReadFails(n) ==
  /\ adapter = "onebot" /\ n \in readers /\ Dead(n)
  /\ readers' = readers \ {n}
  /\ IF cur = n
       THEN cur' = 0 /\ sock' = [sock EXCEPT ![n] = "closed"]
       ELSE UNCHANGED <<cur, sock>>
  /\ UNCHANGED <<adapter, reconnects, running, done, stopping, taken, members, dialer, late, joined, errs, panicked, heard, said>>

\* Serve returns: with an error the adapter reconnects if it is running, after a
\* regular end it does not.
XmppServeReturns(n) ==
  /\ adapter = "xmpp" /\ n \in readers /\ Dead(n)
  /\ readers' = readers \ {n}
  /\ dialer' = IF sock[n] # "ended" /\ running THEN Wait ELSE dialer
  /\ UNCHANGED <<adapter, reconnects, running, done, stopping, sock, cur, taken, members, late, joined, errs, panicked, heard, said>>

\* listen of WhatsApp sleeps two seconds and reads the same connection again;
\* the library panics when a failed connection is read too often.
WhatsAppReadFails(n) ==
  /\ adapter = "whatsapp" /\ n \in readers /\ cur = n /\ Dead(n) /\ ~done
  /\ errs' = errs + 1
  /\ panicked' = (errs' >= ReadErrors)
  /\ UNCHANGED <<adapter, reconnects, running, done, stopping, sock, cur, taken, readers, members, dialer, late, joined, heard, said>>

MaixCamReadFails(n) ==
  /\ adapter = "maixcam" /\ n \in readers /\ (Dead(n) \/ done)
  /\ readers' = readers \ {n}
  /\ members' = members \ {n}
  /\ sock' = [sock EXCEPT ![n] = "closed"]
  /\ UNCHANGED <<adapter, reconnects, running, done, stopping, cur, taken, dialer, late, joined, errs, panicked, heard, said>>

\* A reader at the top of its loop, or XMPP's handler at its next stanza, finds
\* the context done. It closes nothing. XMPP's Serve then returns an error.
ReaderSeesDone(n) ==
  /\ adapter # "maixcam" /\ n \in readers /\ done
  /\ readers' = readers \ {n}
  /\ dialer' = IF adapter = "xmpp" /\ running THEN Wait ELSE dialer
  /\ UNCHANGED <<adapter, reconnects, running, done, stopping, sock, cur, taken, members, late, joined, errs, panicked, heard, said>>
-----------------------------------------------------------------------------
\* Messages. An XMPP room speaks with the room's bare address whoever is behind
\* it, and sends every member's message to all members, the speaker included.

\* handleIncoming: the sender is the bare address, and so is the chat.
XmppAccepts(from) == from # Me /\ from \in Friends

Hears(n, from, author) ==
  /\ n \in readers /\ sock[n] = "open" /\ ~done
  /\ Len(heard) < MaxHeard
  /\ heard' = Append(heard, [chat |-> from, author |-> author])
  /\ UNCHANGED <<adapter, reconnects, running, done, stopping, sock, cur, taken, readers, members, dialer, late, joined, errs, panicked, said>>

XmppDirect(n) ==
  /\ adapter = "xmpp"
  /\ \E f \in (Friends \union {Me}) \ Rooms : XmppAccepts(f) /\ Hears(n, f, f)

XmppRoom(n) ==
  /\ adapter = "xmpp" /\ n \in joined
  /\ \E r \in Rooms \intersect Friends :
     \E a \in {"guest"} \union (IF \E k \in 1 .. Len(said) : said[k].chat = r THEN {Me} ELSE {}) :
       XmppAccepts(r) /\ Hears(n, r, a)

\* whatsapp.go handleIncomingMessage: the chat is the sender unless the bridge
\* names a group; HandleMessage applies the allow list.
WhatsAppMessage(n) ==
  /\ adapter = "whatsapp" /\ cur = n
  /\ \E f \in Friends \ Rooms, c \in Friends \union Rooms : Hears(n, c, f)

\* A detection of any device is a message of "maixcam" in the chat "default".
MaixCamDetection(n) ==
  /\ adapter = "maixcam"
  /\ "maixcam" \in Friends
  /\ Hears(n, "default", "maixcam")

XmppType(chat) == IF chat \in Rooms THEN "groupchat" ELSE "chat"

\* A message of one chunk that Send reports as sent.
Said(chat, as) ==
  /\ Len(said) < MaxHeard
  /\ said' = Append(said, [chat |-> chat, as |-> as])
  /\ UNCHANGED <<adapter, reconnects, running, done, stopping, sock, cur, taken, readers, members, dialer, late, joined, errs, panicked, heard>>

\* XMPP and WhatsApp write to the connection in the field, MaixCam to every
\* device: it reports a failure if one of them fails.
XmppSend(chat) ==
  adapter = "xmpp" /\ running /\ cur # 0 /\ sock[cur] = "open" /\ Said(chat, XmppType(chat))

WhatsAppSend(chat) ==
  adapter = "whatsapp" /\ cur # 0 /\ sock[cur] = "open" /\ Said(chat, "message")

MaixCamSend(chat) ==
  /\ adapter = "maixcam" /\ running
  /\ members # {} /\ \A n \in members : sock[n] = "open"
  /\ Said(chat, "command")

\* The agent answers in the chat of the last message.
Reply ==
  /\ heard # <<>>
  /\ LET chat == heard[Len(heard)].chat IN XmppSend(chat) \/ WhatsAppSend(chat) \/ MaixCamSend(chat)
-----------------------------------------------------------------------------
\* Shutdown: the gateway cancels the context it gave to Start, then stops.

Cancel ==
  /\ running /\ ~done
  /\ done' = TRUE
  /\ UNCHANGED <<adapter, reconnects, running, stopping, sock, cur, taken, readers, members, dialer, late, joined, errs, panicked, heard, said>>

\* setRunning(false) and, for OneBot and XMPP, their own cancel; MaixCam closes
\* its listener.
StopFlag ==
  /\ adapter # "whatsapp" /\ stopping = "no" /\ running
  /\ stopping' = "flagged"
  /\ running' = FALSE
  /\ done' = (done \/ adapter \in {"onebot", "xmpp"})
  /\ UNCHANGED <<adapter, reconnects, sock, cur, taken, readers, members, dialer, late, joined, errs, panicked, heard, said>>

OneBotStop ==
  /\ adapter = "onebot" /\ stopping = "flagged"
  /\ stopping' = "done"
  /\ sock' = IF cur = 0 THEN sock ELSE [sock EXCEPT ![cur] = "closed"]
  /\ cur' = 0
  /\ UNCHANGED <<adapter, reconnects, running, done, taken, readers, members, dialer, late, joined, errs, panicked, heard, said>>

XmppTake ==
  /\ adapter = "xmpp" /\ stopping = "flagged"
  /\ stopping' = "taken"
  /\ taken' = cur
  /\ cur' = 0
  /\ UNCHANGED <<adapter, reconnects, running, done, sock, readers, members, dialer, late, joined, errs, panicked, heard, said>>

\* Mutant: Stop closes the session only while the channel is running.
XmppCloseRunning ==
  /\ adapter = "xmpp" /\ stopping = "taken"
  /\ stopping' = "done"
  /\ sock' = IF taken = 0 \/ ~running THEN sock ELSE [sock EXCEPT ![taken] = "closed"]
  /\ taken' = 0
  /\ UNCHANGED <<adapter, reconnects, running, done, cur, readers, members, dialer, late, joined, errs, panicked, heard, said>>

XmppClose ==
  /\ adapter = "xmpp" /\ stopping = "taken"
  /\ stopping' = "done"
  /\ sock' = IF taken = 0 THEN sock ELSE [sock EXCEPT ![taken] = "closed"]
  /\ taken' = 0
  /\ UNCHANGED <<adapter, reconnects, running, done, cur, readers, members, dialer, late, joined, errs, panicked, heard, said>>

WhatsAppStop ==
  /\ adapter = "whatsapp" /\ stopping = "no" /\ running
  /\ stopping' = "done"
  /\ running' = FALSE
  /\ sock' = IF cur = 0 THEN sock ELSE [sock EXCEPT ![cur] = "closed"]
  /\ cur' = 0
  /\ UNCHANGED <<adapter, reconnects, done, taken, readers, members, dialer, late, joined, errs, panicked, heard, said>>

MaixCamStop ==
  /\ adapter = "maixcam" /\ stopping = "flagged"
  /\ stopping' = "done"
  /\ sock' = [n \in Socks |-> IF n \in members THEN "closed" ELSE sock[n]]
  /\ members' = {}
  /\ UNCHANGED <<adapter, reconnects, running, done, cur, taken, readers, dialer, late, joined, errs, panicked, heard, said>>
-----------------------------------------------------------------------------
StartStep == OneBotStart \/ XmppStart \/ WhatsAppStart \/ MaixCamStart

DialStep == LoopReturns \/ Dial \/ DialFails \/ DialSucceeds \/ Store \/ StartReader

AcceptStep == Accept \/ AddClient \/ AcceptFails

ReadStep(n) ==
  \/ OneBotReadFails(n) \/ XmppServeReturns(n) \/ WhatsAppReadFails(n) \/ MaixCamReadFails(n)
  \/ ReaderSeesDone(n)

MessageStep(n) == XmppDirect(n) \/ XmppRoom(n) \/ WhatsAppMessage(n) \/ MaixCamDetection(n)

ShutStep ==
  \/ Cancel \/ StopFlag \/ OneBotStop \/ XmppTake \/ XmppClose \/ WhatsAppStop \/ MaixCamStop

SocketsNext ==
  /\ ~panicked
  /\ \/ StartStep \/ DialStep \/ AcceptStep \/ ShutStep \/ Reply
     \/ \E n \in Socks : Lose(n) \/ ReadStep(n) \/ MessageStep(n)

\* Goroutines that can go on do; a server that is dialled again and again
\* accepts some time (strong: each attempt may also fail).
SocketsFairness ==
  /\ WF_sockVars(DialStep)
  /\ SF_sockVars(DialSucceeds)
  /\ \A n \in Socks : WF_sockVars(ReadStep(n))

SocketsSpec == SocketsInit /\ [][SocketsNext]_sockVars
-----------------------------------------------------------------------------
\* The state is what the declarations say; until Stop only
\* MaixCam has more than one reader.
SocketsTypeOK ==
  /\ adapter \in Adapters /\ reconnects \in BOOLEAN /\ running \in BOOLEAN /\ done \in BOOLEAN
  /\ stopping \in {"no", "flagged", "taken", "done"}
  /\ sock \in [Socks -> {"none", "open", "lost", "ended", "closed"}]
  /\ cur \in 0 .. MaxSocks /\ taken \in 0 .. MaxSocks
  /\ members \subseteq readers \union late
  /\ late \subseteq Socks /\ joined \subseteq Socks /\ readers \subseteq Socks
  /\ dialer.at \in {"off", "wait", "dialing", "dialed", "stored", "accepted"}
  /\ dialer.sock \in 0 .. MaxSocks
  /\ errs \in 0 .. ReadErrors /\ panicked \in BOOLEAN
  /\ Cardinality(readers) > 1 => adapter = "maixcam" \/ stopping # "no"

\* After Stop no connection stays open, except one that reconnectLoop or the
\* acceptor was making while Stop ran: those look at nothing before they put it
\* in place, and nobody closes it any more.
LeftOpenOnlyByRace ==
  stopping = "done" =>
    \A n \in Socks : sock[n] = "open" => n \in late \/ dialer.sock = n

\* A connection that breaks is replaced by one that is read, unless the adapter
\* is stopped or its context canceled; OneBot only with a reconnect interval.
\* (Not WhatsApp, and not an XMPP stream the server has ended in good order.)
ComesBack ==
  \A n \in Socks :
    (cur = n /\ sock[n] = "lost" /\ running /\ reconnects)
      ~> (done \/ Unused = {} \/ (cur \notin {0, n} /\ cur \in readers))

\* The bot does not take its own words for a message.
OwnMessagesSkipped == \A k \in 1 .. Len(heard) : heard[k].author # Me
=============================================================================

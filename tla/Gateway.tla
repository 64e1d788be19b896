------------------------------- MODULE Gateway -------------------------------
\* The gateway process around the agent loop: what starts and stops in which
\* order, the channel manager and its dispatcher, the heartbeat and device
\* services, the HTTP API, and the state manager that remembers the last active
\* chat across restarts. Source: cmd/tinyclaw/internal/gateway/helpers.go,
\* pkg/channels/manager.go, pkg/heartbeat, pkg/devices, pkg/health, pkg/api,
\* pkg/state. The outbound half of the bus is the bounded FIFO of BusFifo; a turn
\* of the agent (AgentLoop) is: record the chat, publish, end. A chat is named by
\* its channel.
EXTENDS Naturals, Sequences, FiniteSets, TLC

CONSTANTS
  Channels,      \* configured chat channels
  Unknown,       \* a channel nobody configured
  OutCap,        \* capacity of the outbound buffer (100)
  MaxPublished,  \* bound: messages published in a behaviour
  MaxBoots,      \* bound: starts of the process
  Activities     \* what happens besides start and stop: a subset of
                 \* {"user", "api", "beat", "device", "crash", "savefail"}

ASSUME GatewayAssumption ==
  /\ IsFiniteSet(Channels) /\ Unknown \notin Channels
  /\ OutCap \in Nat \ {0} /\ MaxPublished \in Nat /\ MaxBoots \in Nat

VARIABLES
  step,          \* how far gatewayCmd has come
  boots,         \* starts still to come
  ctxDone,       \* the context of the process
  channel,       \* of each channel: "absent", "off", "running", "failed", "stopped"
  mlock,         \* who holds the channel manager's mutex for writing
  out,           \* the outbound buffer
  disp,          \* dispatchOutbound: its step and message
  published,     \* messages published so far
  worker,        \* turns of "run", "api" and "beat", and the device service
  beating,       \* hs.stopChan # nil
  ready,         \* health.Server.ready
  file,          \* state/state.json: the last channel, None if there is no file
  old,           \* state.json at its old place
  mem            \* the copies of the three state managers

gwVars == <<step, boots, ctxDone, channel, mlock, out, disp, published, worker,
            beating, ready, file, old, mem>>
-----------------------------------------------------------------------------
None     == "none"
Internal == "cli"
Targets  == Channels \union {Unknown, Internal}
Workers  == {"run", "api", "beat", "device"}
Managers == {"agent", "heartbeat", "devices"}
IdleTurn == [pc |-> "idle", to |-> None]
Quiet    == [w \in Workers |-> IdleTurn]
NoMsg    == [pc |-> "off", to |-> None]

IsInternalChannel(c) == c = Internal

GatewayInit ==
  /\ step = "down" /\ boots \in 0..MaxBoots /\ ctxDone = FALSE
  /\ channel = [c \in Channels |-> "off"]
  /\ mlock = "free"
  /\ out = <<>> /\ disp = NoMsg /\ published = 0
  /\ worker = Quiet
  /\ beating = FALSE /\ ready = FALSE
  /\ file \in {None} \union Channels /\ old \in {None} \union Channels
  /\ mem = [m \in Managers |-> None]
-----------------------------------------------------------------------------
\* pkg/state. NewManager reads the file, or moves the one at the old place.

NewManager == IF file # None THEN file ELSE old

\* SetLastChannel: memory first, then the file; a failed save keeps both apart.
SetLastChannel(c) ==
  /\ mem' = [mem EXCEPT !["agent"] = c]
  /\ \/ file' = c
     \/ "savefail" \in Activities /\ UNCHANGED file
-----------------------------------------------------------------------------
\* Start-up, in the order of gatewayCmd.

\* initChannels leaves out the channels whose constructor fails.
InitChannels == \E made \in SUBSET Channels :
  channel' = [c \in Channels |-> IF c \in made THEN "off" ELSE "absent"]

\* NewAgentLoop and NewHeartbeatService load a state manager each.
Build ==
  /\ step = "down" /\ boots > 0
  /\ step' = "built"
  /\ boots' = boots - 1
  /\ mem' = [mem EXCEPT !["agent"] = NewManager, !["heartbeat"] = NewManager]
  /\ file' = NewManager
  /\ InitChannels
  /\ UNCHANGED <<ctxDone, mlock, out, disp, published, worker, beating, ready, old>>

\* cronService.Start (CronService) and heartbeatService.Start.
StartHeartbeat ==
  /\ step = "built"
  /\ step' = "beating"
  /\ beating' = TRUE
  /\ UNCHANGED <<boots, ctxDone, channel, mlock, out, disp, published, worker, ready, file, old, mem>>

StartDevices ==
  /\ step = "beating"
  /\ step' = "devices"
  /\ mem' = [mem EXCEPT !["devices"] = NewManager]
  /\ UNCHANGED <<boots, ctxDone, channel, mlock, out, disp, published, worker, beating, ready, file, old>>

\* Mutant: the mutex is released once the dispatcher is started.
StartAllUnlocked ==
  /\ step = "devices" /\ mlock = "free"
  /\ step' = "starting"
  /\ disp' = IF \A c \in Channels : channel[c] = "absent" THEN disp ELSE [disp EXCEPT !.pc = "take"]
  /\ UNCHANGED <<boots, ctxDone, channel, mlock, out, published, worker, beating, ready, file, old, mem>>

\* StartAll holds the mutex from here to the last channel; the dispatcher runs
\* from the beginning. Without channels there is none.
StartAll ==
  /\ step = "devices" /\ mlock = "free"
  /\ step' = "starting"
  /\ IF \A c \in Channels : channel[c] = "absent"
       THEN UNCHANGED <<mlock, disp>>
       ELSE mlock' = "start" /\ disp' = [disp EXCEPT !.pc = "take"]
  /\ UNCHANGED <<boots, ctxDone, channel, out, published, worker, beating, ready, file, old, mem>>

StartChannel(c) ==
  /\ step = "starting" /\ channel[c] = "off"
  /\ \E s \in {"running", "failed"} : channel' = [channel EXCEPT ![c] = s]
  /\ UNCHANGED <<step, boots, ctxDone, mlock, out, disp, published, worker, beating, ready, file, old, mem>>

\* Mutant: StartAll returns with the mutex held.
ServeLocked ==
  /\ step = "starting" /\ \A c \in Channels : channel[c] # "off"
  /\ step' = "serving"
  /\ ready' = TRUE
  /\ UNCHANGED <<boots, ctxDone, channel, mlock, out, disp, published, worker, beating, file, old, mem>>

\* The health server and the agent loop come last.
Serve ==
  /\ step = "starting" /\ \A c \in Channels : channel[c] # "off"
  /\ step' = "serving"
  /\ mlock' = "free"
  /\ ready' = TRUE
  /\ UNCHANGED <<boots, ctxDone, channel, out, disp, published, worker, beating, file, old, mem>>
-----------------------------------------------------------------------------
\* dispatchOutbound: the loop ends at its top or in SubscribeOutbound.

Take ==
  /\ disp.pc = "take" /\ out # <<>>
  /\ disp' = [pc |-> "look", to |-> Head(out)]
  /\ out' = Tail(out)
  /\ UNCHANGED <<step, boots, ctxDone, channel, mlock, published, worker, beating, ready, file, old, mem>>

DispatchEnds ==
  /\ disp.pc = "take" /\ ctxDone
  /\ disp' = NoMsg
  /\ UNCHANGED <<step, boots, ctxDone, channel, mlock, out, published, worker, beating, ready, file, old, mem>>

\* Internal targets are skipped before the lookup, unknown ones after it.
Look ==
  /\ disp.pc = "look"
  /\ \/ /\ IsInternalChannel(disp.to)
        /\ disp' = [pc |-> "take", to |-> None]
     \/ /\ ~IsInternalChannel(disp.to) /\ mlock = "free"
        /\ disp' = IF disp.to \in Channels /\ channel[disp.to] # "absent" THEN [disp EXCEPT !.pc = "send"]
                   ELSE [pc |-> "take", to |-> None]
  /\ UNCHANGED <<step, boots, ctxDone, channel, mlock, out, published, worker, beating, ready, file, old, mem>>

\* A failed Send is logged; the message is gone.
Send ==
  /\ disp.pc = "send"
  /\ disp' = [pc |-> "take", to |-> None]
  /\ UNCHANGED <<step, boots, ctxDone, channel, mlock, out, published, worker, beating, ready, file, old, mem>>
-----------------------------------------------------------------------------
\* Turns.

\* runAgentLoop records every external chat it works for.
Begin(w, c) ==
  /\ worker[w] = IdleTurn
  /\ worker' = [worker EXCEPT ![w] = [pc |-> "turn", to |-> c]]
  /\ IF IsInternalChannel(c) THEN UNCHANGED <<mem, file>> ELSE SetLastChannel(c)

\* Run takes a message of a channel that is running.
UserMessage(c) ==
  /\ "user" \in Activities /\ step = "serving" /\ ~ctxDone /\ channel[c] = "running"
  /\ Begin("run", c)
  /\ UNCHANGED <<step, boots, ctxDone, channel, mlock, out, disp, published, beating, ready, old>>

\* POST /api/dispatch with the chat the request names, "api" if it names none.
HandleDispatch(c) ==
  /\ "api" \in Activities /\ ready
  /\ Begin("api", c)
  /\ UNCHANGED <<step, boots, ctxDone, channel, mlock, out, disp, published, beating, ready, old>>

\* executeHeartbeat reads its own manager; without a usable chat the gateway's
\* handler takes the internal one. Beats follow each other: the timer of the
\* first one and the ticker are minutes apart.
HeartbeatTarget == IF mem["heartbeat"] = None THEN Internal ELSE mem["heartbeat"]

ExecuteHeartbeat ==
  /\ "beat" \in Activities /\ beating
  /\ Begin("beat", HeartbeatTarget)
  /\ UNCHANGED <<step, boots, ctxDone, channel, mlock, out, disp, published, beating, ready, old>>

\* sendNotification: no target, or an internal one, and nothing is sent.
SendNotification ==
  /\ "device" \in Activities
  /\ step \in {"devices", "starting", "serving", "canceled", "unserved"}
  /\ mem["devices"] \notin {None, Internal} /\ worker["device"] = IdleTurn
  /\ worker' = [worker EXCEPT !["device"] = [pc |-> "turn", to |-> mem["devices"]]]
  /\ UNCHANGED <<step, boots, ctxDone, channel, mlock, out, disp, published, beating, ready, file, old, mem>>

\* PublishOutbound waits for room.
PublishOutbound(w) ==
  /\ worker[w].pc = "turn" /\ Len(out) < OutCap /\ published < MaxPublished
  /\ out' = Append(out, worker[w].to)
  /\ published' = published + 1
  /\ worker' = [worker EXCEPT ![w] = IdleTurn]
  /\ UNCHANGED <<step, boots, ctxDone, channel, mlock, disp, beating, ready, file, old, mem>>

\* A turn that publishes nothing: a heartbeat that is OK, an answer the API
\* returns. A turn of Run always publishes (AgentLoop, TurnIsHeard).
TurnEnds(w) ==
  /\ w \in {"api", "beat"} /\ worker[w].pc = "turn"
  /\ worker' = [worker EXCEPT ![w] = IdleTurn]
  /\ UNCHANGED <<step, boots, ctxDone, channel, mlock, out, disp, published, beating, ready, file, old, mem>>
-----------------------------------------------------------------------------
\* Shutdown, in the order of gatewayCmd after the signal.

Interrupt ==
  /\ step = "serving"
  /\ step' = "canceled"
  /\ ctxDone' = TRUE
  /\ UNCHANGED <<boots, channel, mlock, out, disp, published, worker, beating, ready, file, old, mem>>

\* health.Server.Stop: not ready, then Shutdown waits for the requests.
HealthStop ==
  /\ step = "canceled"
  /\ ready' = FALSE
  /\ step' = IF worker["api"] = IdleTurn THEN "unserved" ELSE step
  /\ UNCHANGED <<boots, ctxDone, channel, mlock, out, disp, published, worker, beating, file, old, mem>>

\* The device, heartbeat and cron services and the loop's flag; none waits.
StopServices ==
  /\ step = "unserved"
  /\ step' = "quiet"
  /\ beating' = FALSE
  /\ UNCHANGED <<boots, ctxDone, channel, mlock, out, disp, published, worker, ready, file, old, mem>>

StopAll ==
  /\ step = "quiet" /\ mlock = "free"
  /\ step' = "stopping"
  /\ mlock' = "stop"
  /\ UNCHANGED <<boots, ctxDone, channel, out, disp, published, worker, beating, ready, file, old, mem>>

StopChannel(c) ==
  /\ step = "stopping" /\ channel[c] \notin {"absent", "stopped"}
  /\ channel' = [channel EXCEPT ![c] = "stopped"]
  /\ UNCHANGED <<step, boots, ctxDone, mlock, out, disp, published, worker, beating, ready, file, old, mem>>

\* The process ends: what is only in memory is gone.
Gone ==
  /\ step' = "down" /\ ctxDone' = FALSE
  /\ channel' = [c \in Channels |-> "off"]
  /\ mlock' = "free" /\ out' = <<>> /\ disp' = NoMsg /\ worker' = Quiet
  /\ beating' = FALSE /\ ready' = FALSE
  /\ mem' = [m \in Managers |-> None]
  /\ UNCHANGED <<boots, published, file, old>>

Exit == step = "stopping" /\ (\A c \in Channels : channel[c] \in {"absent", "stopped"}) /\ Gone

Crash == "crash" \in Activities /\ step # "down" /\ Gone
-----------------------------------------------------------------------------
Dispatcher == Take \/ DispatchEnds \/ Look \/ Send

Boot == Build \/ StartHeartbeat \/ StartDevices \/ StartAll \/ Serve
        \/ \E c \in Channels : StartChannel(c)

Shutdown == HealthStop \/ StopServices \/ StopAll \/ Exit \/ \E c \in Channels : StopChannel(c)

Turn ==
  \/ \E c \in Channels : UserMessage(c)
  \/ \E c \in Targets : HandleDispatch(c)
  \/ ExecuteHeartbeat \/ SendNotification
  \/ \E w \in Workers : PublishOutbound(w) \/ TurnEnds(w)

GatewayNext == Boot \/ Dispatcher \/ Turn \/ Interrupt \/ Shutdown \/ Crash

\* The main goroutine and the dispatcher go on when they can; a turn of the API
\* publishes or ends.
GatewayFairness ==
  /\ WF_gwVars(Boot \/ Shutdown) /\ WF_gwVars(Dispatcher)
  /\ WF_gwVars(PublishOutbound("api") \/ (published = MaxPublished /\ TurnEnds("api")))

GatewaySpec == GatewayInit /\ [][GatewayNext]_gwVars
-----------------------------------------------------------------------------
\* The state is what the declarations say; the dispatcher runs only in a process
\* that has channels, and a turn works for a channel, never for None.
GatewayTypeOK ==
  /\ step \in {"down", "built", "beating", "devices", "starting", "serving",
               "canceled", "unserved", "quiet", "stopping"}
  /\ channel \in [Channels -> {"absent", "off", "running", "failed", "stopped"}]
  /\ mlock \in {"free", "start", "stop"}
  /\ out \in Seq(Targets) /\ Len(out) <= OutCap
  /\ disp.pc \in {"off", "take", "look", "send"} /\ disp.to \in Targets \union {None}
  /\ disp.pc # "off" => \E c \in Channels : channel[c] # "absent"
  /\ worker \in [Workers -> [pc : {"idle", "turn"}, to : Targets \union {None}]]
  /\ \A w \in Workers : worker[w].pc = "turn" => worker[w].to # None
  /\ beating \in BOOLEAN /\ ready \in BOOLEAN /\ ctxDone \in BOOLEAN
  /\ file \in Targets \union {None} /\ old \in Targets \union {None}
  /\ mem \in [Managers -> Targets \union {None}]

\* No message is lost to a channel that has not been started yet, although cron,
\* heartbeat and devices publish and the dispatcher runs before the channels
\* start: StartAll keeps the mutex the dispatcher's lookup needs.
NoEarlySend == disp.pc = "send" => channel[disp.to] # "off"

\* A shutdown ends, unless an API turn waits for room in a buffer from which,
\* the dispatcher being gone, nobody takes any more.
ShutdownEnds ==
  (step = "canceled") ~>
    (step = "down" \/ (worker["api"].pc = "turn" /\ Len(out) = OutCap /\ disp.pc = "off"))
=============================================================================

------------------------------- MODULE Routing -------------------------------
\* Which agent answers a message and under which session key. Source:
\* pkg/routing, with the registry of pkg/agent that looks the agent up. A
\* configuration is fixed; messages are resolved one after the other, so that
\* the keys of two messages can be compared. Identifiers are given without
\* surrounding blanks; a key is the tuple of the parts the code joins with ":".
EXTENDS Naturals, Sequences

CONSTANTS
  Configs,     \* configurations: [bindings, agents, scope, links]
  Inputs,      \* messages: [channel, account, peer, parent, guild, team]
  Canon,       \* of an identifier: lower case, other characters become "-"
  Lower,       \* of an identifier: lower case
  MaxResolved  \* bound: messages resolved

Peers        == [kind : STRING, id : STRING]
AgentIDs     == DOMAIN Canon \cup {""}
AgentBinding == [agent : AgentIDs, channel : STRING, account : STRING, peer : Peers, guild : STRING, team : STRING]
AgentConfig  == [id : AgentIDs, default : BOOLEAN]

ASSUME ConfigAssumption ==
  /\ \A c \in Configs : /\ c.bindings \in Seq(AgentBinding) /\ c.agents \in Seq(AgentConfig)
                        /\ DOMAIN c.links \subseteq DOMAIN Lower
  /\ \A in \in Inputs : in.peer.id \in DOMAIN Lower

\* Cleaning an identifier leaves something of it, and cleaning it again changes
\* nothing. (In the code there is an exception to that: more than 64 characters,
\* an underscore first and a dash at the cut.)
ASSUME CanonAssumption ==
  /\ \A id \in DOMAIN Canon : Canon[id] \in DOMAIN Canon \ {""} /\ Canon[Canon[id]] = Canon[id]
  /\ "main" \in DOMAIN Canon /\ Canon["main"] = "main"
  /\ \A id \in DOMAIN Lower \ {""} : Lower[id] # ""

VARIABLES
  cfg,         \* the configuration
  resolved     \* [in, out] of the messages resolved so far

routeVars == <<cfg, resolved>>
-----------------------------------------------------------------------------
DefaultAgentID == "main"
DefaultAccountID == "default"
NoPeer == [kind |-> "", id |-> ""]

NormalizeAgentID(id)   == IF id = "" THEN DefaultAgentID ELSE Canon[id]
NormalizeAccountID(id) == IF id = "" THEN DefaultAccountID ELSE Canon[id]
NormalizeChannel(c)    == IF c = "" THEN "unknown" ELSE Lower[c]
-----------------------------------------------------------------------------
\* Bindings, by their places in the configuration; the code takes the first that
\* matches.

First(S) == CHOOSE i \in S : \A j \in S : i <= j

\* The configured account is compared as it is written, the message's account
\* in its normalized form.
MatchesAccountID(match, actual) ==
  CASE match = "" -> actual = DefaultAccountID
    [] match = "*" -> TRUE
    [] OTHER -> Lower[match] = Lower[actual]

FilterBindings(c, in) == {i \in DOMAIN c.bindings :
  /\ c.bindings[i].channel # "" /\ Lower[c.bindings[i].channel] = Lower[in.channel]
  /\ MatchesAccountID(c.bindings[i].account, NormalizeAccountID(in.account))}

\* Mutant: the kind of the peer is not compared.
IsPeerById(b, peer) == peer.id # "" /\ b.peer.id = peer.id

IsPeer(b, peer) ==
  peer.id # "" /\ b.peer.kind # "" /\ Lower[b.peer.kind] = Lower[peer.kind] /\ b.peer.id = peer.id

NamesNobody(b) == b.peer = NoPeer /\ b.guild = "" /\ b.team = ""

FindPeerMatch(c, in, peer) == {i \in FilterBindings(c, in) : IsPeer(c.bindings[i], peer)}
FindGuildMatch(c, in) == {i \in FilterBindings(c, in) : in.guild # "" /\ c.bindings[i].guild = in.guild}
FindTeamMatch(c, in)  == {i \in FilterBindings(c, in) : in.team # "" /\ c.bindings[i].team = in.team}
FindAccountMatch(c, in) ==
  {i \in FilterBindings(c, in) : c.bindings[i].account # "*" /\ NamesNobody(c.bindings[i])}
FindChannelWildcardMatch(c, in) ==
  {i \in FilterBindings(c, in) : c.bindings[i].account = "*" /\ NamesNobody(c.bindings[i])}
-----------------------------------------------------------------------------
\* Agents.

ResolveDefaultAgentID(c) ==
  LET named == {i \in DOMAIN c.agents : c.agents[i].default /\ c.agents[i].id # ""}
  IN CASE c.agents = <<>>                   -> DefaultAgentID
       [] c.agents # <<>> /\ named # {} -> NormalizeAgentID(c.agents[First(named)].id)
       [] OTHER                             -> NormalizeAgentID(c.agents[1].id)

PickAgentID(c, id) ==
  IF \/ id = ""
     \/ c.agents # <<>> /\ \A i \in DOMAIN c.agents : NormalizeAgentID(c.agents[i].id) # NormalizeAgentID(id)
  THEN NormalizeAgentID(ResolveDefaultAgentID(c))
  ELSE NormalizeAgentID(id)

\* NewAgentRegistry: the implicit agent, or one per entry of the list.
Registry(c) ==
  IF c.agents = <<>> THEN {DefaultAgentID}
  ELSE {NormalizeAgentID(c.agents[i].id) : i \in DOMAIN c.agents}

\* GetDefaultAgent: "main", or whichever agent the map yields first.
DefaultAgents(c) == IF DefaultAgentID \in Registry(c) THEN {DefaultAgentID} ELSE Registry(c)

\* The agents that may run a turn routed to one: that one, or a default agent.
GetAgent(c, agent) ==
  IF NormalizeAgentID(agent) \in Registry(c) THEN {NormalizeAgentID(agent)} ELSE DefaultAgents(c)
-----------------------------------------------------------------------------
\* Session keys.

\* The names an identifier is linked to, as it is or with its channel in front;
\* the code ranges over a map, so which of several it takes is not determined.
LinkedNames(c, in) ==
  {n \in DOMAIN c.links \ {""} : \E id \in c.links[n] :
     \/ id = <<Lower[in.peer.id]>>
     \/ in.channel # "" /\ id = <<Lower[in.channel], Lower[in.peer.id]>>}

PeerNames(c, in) ==
  IF c.scope = "main" \/ in.peer.id = "" \/ LinkedNames(c, in) = {} THEN {in.peer.id}
  ELSE LinkedNames(c, in)

BuildAgentMainSessionKey(agent) == <<"agent", agent, "main">>

\* Mutant: the channel is part of no direct key.
DirectKeyNoChannel(c, agent, in, id) ==
  IF id = "" \/ c.scope = "main" THEN BuildAgentMainSessionKey(agent) ELSE <<"agent", agent, "direct", id>>

DirectKey(c, agent, in, id) ==
  CASE id # "" /\ c.scope = "per-peer" -> <<"agent", agent, "direct", id>>
    [] id # "" /\ c.scope = "per-channel-peer" -> <<"agent", agent, NormalizeChannel(in.channel), "direct", id>>
    [] id # "" /\ c.scope = "per-account-channel-peer" ->
         <<"agent", agent, NormalizeChannel(in.channel), NormalizeAccountID(in.account), "direct", id>>
    [] OTHER -> BuildAgentMainSessionKey(agent)

BuildAgentPeerSessionKey(c, agent, in, name) ==
  IF in.peer.kind \in {"", "direct"}
    THEN DirectKey(c, NormalizeAgentID(agent), in, IF name = "" THEN "" ELSE Lower[name])
    ELSE <<"agent", NormalizeAgentID(agent), NormalizeChannel(in.channel), Lower[in.peer.kind],
           IF in.peer.id = "" THEN "unknown" ELSE Lower[in.peer.id]>>

\* ParseAgentSessionKey: the agent a key was built for.
ParseAgentSessionKey(key) == key[2]
-----------------------------------------------------------------------------
\* The cascade of ResolveRoute: the first level with a match.
Levels(c, in) ==
  << FindPeerMatch(c, in, in.peer), FindPeerMatch(c, in, in.parent), FindGuildMatch(c, in), FindTeamMatch(c, in),
     FindAccountMatch(c, in), FindChannelWildcardMatch(c, in) >>

RouteAgent(c, in) ==
  LET hits == {l \in 1 .. 6 : Levels(c, in)[l] # {}}
  IN IF hits = {} THEN PickAgentID(c, ResolveDefaultAgentID(c))
     ELSE PickAgentID(c, c.bindings[First(Levels(c, in)[First(hits)])].agent)

ResolveRoute(c, in, name) ==
  [agent |-> RouteAgent(c, in),
   key   |-> BuildAgentPeerSessionKey(c, RouteAgent(c, in), in, name),
   name  |-> name]

RoutingInit == cfg \in Configs /\ resolved = <<>>

\* processMessage resolves and looks the agent up.
Resolve ==
  /\ Len(resolved) < MaxResolved
  /\ \E in \in Inputs : \E name \in PeerNames(cfg, in) :
       LET out == ResolveRoute(cfg, in, name)
       IN \E runner \in GetAgent(cfg, out.agent) :
            resolved' = Append(resolved, [in |-> in, out |-> out, runner |-> runner])
  /\ UNCHANGED cfg

RoutingSpec == RoutingInit /\ [][Resolve]_routeVars
-----------------------------------------------------------------------------
\* A binding's peer is p, whatever the case of its kind.
Names(b, p) == p.id # "" /\ b.peer.kind # "" /\ <<Lower[b.peer.kind], b.peer.id>> = <<Lower[p.kind], p.id>>

\* How closely a binding names a message, 0 when it does not apply: the order
\* "peer > parent_peer > guild > team > account > channel_wildcard" of
\* ResolveRoute, here as a rank of each binding on its own.
Rank(b, in) ==
  LET here == /\ b.channel # "" /\ Lower[b.channel] = Lower[in.channel]
              /\ MatchesAccountID(b.account, NormalizeAccountID(in.account))
  IN IF ~here THEN 0
     ELSE IF Names(b, in.peer) THEN 6
     ELSE IF Names(b, in.parent) THEN 5
     ELSE IF in.guild # "" /\ b.guild = in.guild THEN 4
     ELSE IF in.team # "" /\ b.team = in.team THEN 3
     ELSE IF ~NamesNobody(b) THEN 0
     ELSE IF b.account # "*" THEN 2 ELSE 1

\* A message is run by the agent of the first binding of the highest rank, or by
\* the default agent when no binding applies or that agent is not configured; and
\* if agents are configured, the session key is one of the agent that runs it.
RoutesToBest ==
  \A i \in DOMAIN resolved :
    LET in == resolved[i].in
        runner == resolved[i].runner
        n == DOMAIN cfg.bindings
        rank(j) == Rank(cfg.bindings[j], in)
        best == {j \in n : /\ rank(j) > 0
                           /\ \A k \in n : rank(k) < rank(j) \/ (rank(k) = rank(j) /\ k >= j)}
        named == {NormalizeAgentID(cfg.bindings[j].agent) : j \in {k \in best : cfg.bindings[k].agent # ""}}
    IN /\ runner \in IF named \cap Registry(cfg) # {} THEN named ELSE {ResolveDefaultAgentID(cfg)}
       /\ cfg.agents # <<>> => ParseAgentSessionKey(resolved[i].out.key) = runner

PeerScopes == {"per-peer", "per-channel-peer", "per-account-channel-peer"}
IsDirect(in) == in.peer.kind \in {"", "direct"} /\ in.peer.id # ""

\* With a per-peer scope two people share a session only if they are the same
\* but for case, or linked to one name, and, where the scope says so, write in
\* the same channel and account; and one whose identifier is linked to at most
\* one name always gets the same session.
SessionsApart ==
  \A i, j \in DOMAIN resolved :
    LET a == resolved[i]
        b == resolved[j]
    IN /\ (cfg.scope \in PeerScopes /\ IsDirect(a.in) /\ IsDirect(b.in) /\ a.out.key = b.out.key) =>
            /\ Lower[a.out.name] = Lower[b.out.name]
            /\ cfg.scope # "per-peer" => NormalizeChannel(a.in.channel) = NormalizeChannel(b.in.channel)
            /\ cfg.scope = "per-account-channel-peer" =>
                 NormalizeAccountID(a.in.account) = NormalizeAccountID(b.in.account)
       /\ (a.in = b.in /\ a.out.key # b.out.key) =>
            \E n, m \in LinkedNames(cfg, a.in) : Lower[n] # Lower[m]
=============================================================================

----------------------------- MODULE MCLibraries -----------------------------
\* Instance of five components for TLC that share no state: routing, message
\* splitting, the search for skills, their installation, and credentials. A
\* behaviour is one of one of them; the others stay as they begin. The property
\* of credentials says nothing of what follows a spoiled step, so a behaviour of
\* theirs ends there.
EXTENDS Routing, MCSplitter, SkillSearch, SkillInstall, Credentials, TLC

\* Queries: two long ones that are similar, two without a trigram.
MCQueries == {<<1, 2, 3, 4, 5, 6, 7, 8, 9>>, <<1, 2, 3, 4, 5, 6, 7, 8, 9, 10>>, <<1>>, <<2>>}
MCFound == {<<>>, <<1, 2>>}
-----------------------------------------------------------------------------
\* Identifiers, bindings, configurations and messages of routing.

Id(s) == [x \in s |-> x]
Words == {"", "*", "telegram", "discord", "default", "main", "helper", "work", "a-b",
          "direct", "group", "channel", "u1", "u2", "g1", "p1", "ann", "bob", "guild", "team"}
MCLower == Id(Words) @@ ("Discord" :> "discord") @@ ("A.B" :> "a.b") @@ ("a.b" :> "a.b")
             @@ ("U1" :> "u1") @@ ("Ann" :> "ann") @@ ("Helper!" :> "helper!")
MCCanon == Id(Words \ {"", "*"}) @@ ("A.B" :> "a-b") @@ ("Helper!" :> "helper")

Peer(k, i) == [kind |-> k, id |-> i]
Bind(agent, ch, acc, peer, guild, team) ==
  [agent |-> agent, channel |-> ch, account |-> acc, peer |-> peer, guild |-> guild, team |-> team]

Bindings == {
  Bind("helper", "telegram", "", Peer("direct", "u1"), "", ""),
  Bind("work", "telegram", "*", Peer("group", "u1"), "", ""),
  Bind("work", "Discord", "*", Peer("channel", "p1"), "", ""),
  Bind("helper", "Discord", "*", NoPeer, "guild", ""),
  Bind("work", "Discord", "A.B", NoPeer, "", "team"),
  Bind("Helper!", "telegram", "work", NoPeer, "", ""),
  Bind("a-b", "telegram", "*", NoPeer, "", ""),
  Bind("", "telegram", "", NoPeer, "", "") }

Agent(id, default) == [id |-> id, default |-> default]
AgentLists == { <<>>, <<Agent("helper", FALSE), Agent("work", TRUE)>>, <<Agent("Helper!", FALSE), Agent("", TRUE)>> }

NoLinks == [n \in {} |-> {}]
Links == { NoLinks,
  ("Ann" :> {<<"u1">>, <<"discord", "u2">>}),
  ("Ann" :> {<<"telegram", "u1">>}) @@ ("bob" :> {<<"u1">>}) }

NoConfig == [bindings |-> <<>>, agents |-> <<>>, scope |-> "main", links |-> NoLinks]

MCConfigs ==
     {[bindings |-> b, agents |-> a, scope |-> "main", links |-> NoLinks] :
        b \in UNION {[1 .. n -> Bindings] : n \in 0 .. 2}, a \in AgentLists}
  \cup {[bindings |-> <<>>, agents |-> <<>>, scope |-> s, links |-> l] :
          s \in {"per-peer", "per-channel-peer", "per-account-channel-peer"}, l \in Links}

In(ch, acc, peer, parent, guild, team) ==
  [channel |-> ch, account |-> acc, peer |-> peer, parent |-> parent, guild |-> guild, team |-> team]
MCInputs == {
  In("telegram", "", Peer("direct", "u1"), NoPeer, "", ""),
  In("telegram", "work", Peer("direct", "U1"), NoPeer, "", ""),
  In("telegram", "", Peer("group", "u1"), NoPeer, "", ""),
  In("Discord", "", Peer("channel", "g1"), Peer("channel", "p1"), "guild", ""),
  In("Discord", "A.B", Peer("direct", "u1"), NoPeer, "guild", "team"),
  In("discord", "", Peer("direct", "u2"), NoPeer, "", "team"),
  In("telegram", "", NoPeer, NoPeer, "", "") }
-----------------------------------------------------------------------------
VARIABLE part

allVars == <<routeVars, splitVars, searchVars, installVars, credVars>>

Init ==
  /\ part \in {"routing", "splitter", "search", "install", "credentials"}
  /\ SearchInit
  /\ IF part = "routing" THEN RoutingInit ELSE cfg = NoConfig /\ resolved = <<>>
  /\ IF part = "splitter" THEN SplitInit ELSE rest = <<>> /\ chunk = <<>> /\ said = {} /\ size = 0 /\ parity = 0
  /\ InstallInit /\ (part # "install" => flag = "clean")
  /\ CredentialsInit /\ (part # "credentials" => live = {})

Next ==
  /\ UNCHANGED part
  /\ \/ part = "routing" /\ Resolve /\ UNCHANGED <<splitVars, searchVars, installVars, credVars>>
     \/ part = "splitter" /\ SplitNext /\ UNCHANGED <<routeVars, searchVars, installVars, credVars>>
     \/ part = "search" /\ SearchNext /\ UNCHANGED <<routeVars, splitVars, installVars, credVars>>
     \/ part = "install" /\ InstallNext /\ UNCHANGED <<routeVars, splitVars, searchVars, credVars>>
     \/ part = "credentials" /\ ~spoiled /\ CredentialsNext /\ UNCHANGED <<routeVars, splitVars, searchVars, installVars>>

Spec == Init /\ [][Next]_<<part, allVars>>

Symmetry == Permutations(Searchers) \cup Permutations(Registries) \cup Permutations(Tools) \cup Permutations(TokenUsers)
==============================================================================

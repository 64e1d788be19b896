----------------------------- MODULE MCAgentLoop ------------------------------
(* Constants of AgentLoop for TLC: one chat or two, one agent or two.      *)
EXTENDS AgentLoop

CONSTANTS main, helper, alice, bob, cli

OneRoute == [c \in Chats |-> main]
DirectToMain == [c \in Targets |-> main]
(* bob's chat is bound to the second agent. *)
SplitRoute == [c \in Chats |-> IF c = bob THEN helper ELSE main]

(* dm_scope "main": every direct chat of an agent shares its main session. *)
MainOf == [a \in Agents |-> IF a = main THEN "main" ELSE "helper"]
SharedSession == [c \in Chats |-> MainOf[Route[c]]]
AllSessions == {"main", "helper", "heartbeat"}
OneAgentSessions == {"main", "heartbeat"}

PlainCalls == {<<"plain">>, <<"plain", "plain">>}
MessageCalls == {<<"msg">>, <<"plain", "forUser">>}
OneCall == {<<"plain">>}
===============================================================================

---------------------------- MODULE MCChatAdapters ----------------------------
(* Events, allow lists and bounds for ChatAdapters.                        *)
EXTENDS ChatAdapters, TLC

MCPlatforms == {"telegram", "discord", "slack", "line", "dingtalk", "qq", "feishu",
                "wecom", "wecom_app", "onebot"}

Direct(u) == [id |-> u, group |-> FALSE]
Group(g) == [id |-> g, group |-> TRUE]

(* A plain message of ann in the group, with the fields that differ.       *)
Base(i) == [id |-> i, from |-> "u_ann", user |-> "ann", place |-> Group("g"), thread |-> NoThread,
            mention |-> TRUE, text |-> "words", file |-> FALSE, type |-> "message"]
Plain(i) == Base(i)
Private(i) == [Base(i) EXCEPT !.place = Direct("u_ann")]
Silent(i) == [Base(i) EXCEPT !.mention = FALSE]
File(i) == [Base(i) EXCEPT !.text = "", !.file = TRUE]
Typed(i, t) == [Base(i) EXCEPT !.type = t]
By(i, u) == [Base(i) EXCEPT !.from = u, !.user = "none"]

MCInputs == [
  telegram |-> {Plain(1), By(3, "none"), Typed(4, "command"),
                [Base(5) EXCEPT !.from = "u_eve", !.user = "eve"]},
  discord |-> {Plain(1), Silent(3), [File(4) EXCEPT !.place = Direct("d")], By(5, "u_bot"),
               [Base(6) EXCEPT !.text = "mention"]},
  slack |-> {Plain(1), Typed(1, "app_mention"), [Base(2) EXCEPT !.thread = 1], File(3),
             Typed(4, "slash"), Typed(5, "other")},
  line |-> {Plain(1), [Base(2) EXCEPT !.type = "all", !.text = "mention"],
            [File(3) EXCEPT !.place = Direct("u_ann")], Typed(4, "other")},
  dingtalk |-> {Plain(1), Private(2), File(3), By(4, "u_eve")},
  qq |-> {Plain(1), Private(2), Plain(3), By(4, "none")},
  feishu |-> {Plain(1), Private(2), By(3, "none"),
              [Base(4) EXCEPT !.place = Group("none")]},
  wecom |-> {Plain(1), Private(2), Plain(3), Typed(4, "other")},
  wecom_app |-> {Private(1), Private(2), Private(3), [Private(4) EXCEPT !.type = "other"]},
  onebot |-> {Plain(1), Private(2), Silent(3), Plain(NoId), File(4),
              [Silent(5) EXCEPT !.type = "prefix"], By(6, "none")}]

Entry(i, u) == [id |-> i, user |-> u]
MCAllowList == [p \in MCPlatforms |->
  IF p = "telegram" THEN {Entry("u_ann", "ann")}
  ELSE IF p \in {"dingtalk", "slack", "onebot"} THEN {Entry("u_ann", "none")} ELSE {}]

(* The duplicate checks need a fourth delivery to overflow and repeat; the *)
(* notes need two or three messages and two replies.                       *)
MCMaxEvents == [p \in MCPlatforms |->
  IF p \in {"qq", "wecom"} THEN 4
  ELSE IF p \in {"onebot", "slack"} THEN 3 ELSE IF p = "wecom_app" THEN 1 ELSE 2]

MCMaxSends == [p \in MCPlatforms |->
  IF p \in {"telegram", "discord", "slack"} THEN 2 ELSE 1]

Symmetry == Permutations(Handlers)
===============================================================================

------------------------------ MODULE MCFallback ------------------------------
(* Instances of Fallback for TLC.                                          *)
EXTENDS Fallback

CONSTANTS run, cron, api, openai

(* Two models of one provider; the agent the HTTP API asks has no fallback. *)
TwoModels == [w \in Workers |-> IF w = api THEN <<openai>> ELSE <<openai, openai>>]

Plain == [wraps |-> "none", image |-> FALSE, form |-> "none", code |-> 0, text |-> {},
          word |-> FALSE, limit |-> FALSE]
TooLong == [Plain EXCEPT !.form = "status", !.code = 400, !.word = TRUE, !.limit = TRUE]
RateLimit == [Plain EXCEPT !.form = "status", !.code = 429, !.text = {"rate_limit"}]
Billing == [Plain EXCEPT !.form = "status", !.code = 402, !.text = {"billing"}]
Canceled == [Plain EXCEPT !.wraps = "canceled", !.word = TRUE]

SomeErrors == {TooLong, RateLimit, Billing}
CancelErrors == {Canceled, TooLong}
===============================================================================

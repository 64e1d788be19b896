------------------------------- MODULE Fallback -------------------------------
(***************************************************************************)
(* How the agents call their providers: the fallback chain of              *)
(* pkg/providers/fallback.go with the error classifier and the cooldown    *)
(* tracker it shares between all goroutines, and the retry loop around it  *)
(* in pkg/agent/loop.go.                                                   *)
(*                                                                         *)
(* A method of the tracker holds its mutex throughout and is one step.     *)
(* Between IsAvailable and the mark that follows the provider's answer a   *)
(* caller holds nothing, and the others and the clock go on.  Time is in   *)
(* minutes; 0 is the zero time.Time.                                       *)
(***************************************************************************)
EXTENDS Integers, Sequences

CONSTANTS
  Workers,     \* goroutines in runLLMIteration
  Providers,   \* provider names
  Candidates,  \* [Workers -> Seq(Providers)]: agent.Candidates, models left out
  Cancelable,  \* workers whose context may be canceled (Run's, a request's)
  Errors,      \* the errors a provider may return
  Delays,      \* what the clock may advance by
  MaxTime,     \* bound on the clock
  MaxCalls,    \* bound on the LLM calls made
  MaxRetries   \* 2 in the code

(* An error as the classifier sees it: what it wraps, an image complaint,  *)
(* a status code and how it is written, the pattern groups its text        *)
(* matches, and whether the text has one of the words the retry loop looks *)
(* for.  limit says whether the prompt really was too long.                *)
Groups == {"rate_limit", "overloaded", "billing", "timeout", "auth", "format"}
Error == [wraps : {"none", "canceled", "deadline"}, image : BOOLEAN,
          form : {"none", "status", "HTTP"}, code : Nat,
          text : SUBSET Groups, word : BOOLEAN, limit : BOOLEAN]

ASSUME FallbackAssumption ==
  /\ Candidates \in [Workers -> Seq(Providers)]
  /\ Cancelable \subseteq Workers
  /\ Errors \subseteq Error
  /\ Delays \subseteq Nat
  /\ MaxTime \in Nat /\ MaxCalls \in Nat /\ MaxRetries \in Nat

VARIABLES
  now,       \* nowFunc()
  entry,     \* [Providers -> cooldownEntry]
  call,      \* [Workers -> the LLM call in progress]
  canceled,  \* workers whose context is canceled
  calls,     \* LLM calls begun
  mine       \* history: until when a worker's own failures block a provider

vars == <<now, entry, call, canceled, calls, mine>>

-------------------------------------------------------------------------------
(* ClassifyError                                                           *)

(* The message is in lower case, so the pattern "HTTP ..." never matches.  *)
ExtractHTTPStatus(e) == IF e.form = "status" THEN e.code ELSE 0

Transient == {500, 502, 503, 521, 522, 523, 524, 529}

ClassifyByStatus(s) ==
  CASE s \in {401, 403} -> "auth"
    [] s = 402 -> "billing"
    [] s = 429 -> "rate_limit"
    [] s = 400 -> "format"
    [] s \in {408} \cup Transient -> "timeout"
    [] OTHER -> "none"

ClassifyByMessage(text) ==
  CASE {"rate_limit", "overloaded"} \cap text # {} -> "rate_limit"
    [] "billing" \in text -> "billing"
    [] "timeout" \in text -> "timeout"
    [] "auth" \in text -> "auth"
    [] "format" \in text -> "format"
    [] OTHER -> "none"

(* "none" is a nil *FailoverError.                                         *)
ClassifyError(e) ==
  LET byStatus == ClassifyByStatus(ExtractHTTPStatus(e))
  IN CASE e.wraps = "canceled" -> "none"
       [] e.wraps = "deadline" -> "timeout"
       [] e.wraps = "none" /\ e.image -> "format"
       [] e.wraps = "none" /\ ~e.image /\ byStatus # "none" -> byStatus
       [] OTHER -> ClassifyByMessage(e.text)

IsRetriable(reason) == reason # "format"

-------------------------------------------------------------------------------
(* CooldownTracker                                                         *)

MinOf(a, b) == IF a < b THEN a ELSE b
MaxOf(a, b) == IF a < b THEN b ELSE a

FailureWindow == 24 * 60
Fives == <<1, 5, 25, 125>>
Doublings == <<1, 2, 4, 8, 16, 32, 64, 128, 256, 512, 1024>>

StandardCooldown(n) == MinOf(60, Fives[MinOf(MaxOf(1, n) - 1, 3) + 1])
BillingCooldown(n) == MinOf(24 * 60, 300 * Doublings[MinOf(MaxOf(1, n) - 1, 10) + 1])

NoEntry == [errors |-> 0, billing |-> 0, end |-> 0, disabled |-> 0, last |-> 0]

(* A zero or past time blocks nothing.                                     *)
BlockedUntil(p) == MaxOf(entry[p].end, entry[p].disabled)

IsAvailable(p) == now >= BlockedUntil(p)

(* Mutant: every failure disables the provider as a billing failure does.  *)
FailedBillsAll(e, reason) ==
  LET kept == IF now - e.last > FailureWindow
              THEN [e EXCEPT !.errors = 0, !.billing = 0] ELSE e
      n == kept.errors + 1
      b == kept.billing + (IF reason = "billing" THEN 1 ELSE 0)
  IN [kept EXCEPT !.errors = n, !.billing = b, !.last = now,
                  !.disabled = now + BillingCooldown(b)]

(* Mutant: a failure of another kind takes the billing disable back.       *)
FailedClears(e, reason) ==
  LET kept == IF now - e.last > FailureWindow
              THEN [e EXCEPT !.errors = 0, !.billing = 0] ELSE e
      n == kept.errors + 1
      b == kept.billing + (IF reason = "billing" THEN 1 ELSE 0)
  IN IF reason = "billing"
     THEN [kept EXCEPT !.errors = n, !.billing = b, !.last = now,
                       !.disabled = now + BillingCooldown(b)]
     ELSE [kept EXCEPT !.errors = n, !.last = now, !.disabled = 0,
                       !.end = now + StandardCooldown(n)]

(* What MarkFailure makes of an entry (a new one if there was none).       *)
Failed(e, reason) ==
  LET kept == IF now - e.last > FailureWindow
              THEN [e EXCEPT !.errors = 0, !.billing = 0] ELSE e
      n == kept.errors + 1
      b == kept.billing + (IF reason = "billing" THEN 1 ELSE 0)
  IN IF reason = "billing"
     THEN [kept EXCEPT !.errors = n, !.billing = b, !.last = now,
                       !.disabled = now + BillingCooldown(b)]
     ELSE [kept EXCEPT !.errors = n, !.last = now, !.end = now + StandardCooldown(n)]

(* What MarkSuccess makes of it: the time of the last failure stays.       *)
Succeeded(e) == [e EXCEPT !.errors = 0, !.billing = 0, !.end = 0, !.disabled = 0]

-------------------------------------------------------------------------------
(* The text of the error a call ends with: whether the retry loop will     *)
(* take it for a context error, and whether it is one.                     *)
NoText == [word |-> FALSE, limit |-> FALSE]
Text(e) == [word |-> e.word, limit |-> e.limit]
Joined(a, b) == [word |-> a.word \/ b.word, limit |-> a.limit \/ b.limit]

(* context.Canceled: its text is "context canceled".                       *)
CanceledText == [word |-> TRUE, limit |-> FALSE]

Idle == [at |-> "idle", i |-> 1, retry |-> 0, err |-> NoText]

Init ==
  /\ now = 1
  /\ entry = [p \in Providers |-> NoEntry]
  /\ call = [w \in Workers |-> Idle]
  /\ canceled = {}
  /\ calls = 0
  /\ mine = [w \in Workers |-> [p \in Providers |-> 0]]

(* Fewer than two candidates: the provider is called without the chain.    *)
Chained(w) == Len(Candidates[w]) > 1

Attempt(w) == [Idle EXCEPT !.at = IF Chained(w) THEN "check" ELSE "direct"]

(* callLLM for the first time.                                             *)
CallLLM(w) ==
  /\ call[w].at = "idle"
  /\ calls < MaxCalls
  /\ calls' = calls + 1
  /\ call' = [call EXCEPT ![w] = Attempt(w)]
  /\ UNCHANGED <<now, entry, canceled, mine>>

Fails(w, text) == call' = [call EXCEPT ![w].at = "failed", ![w].err = text]

(* The top of the chain's loop: a canceled context ends it; a candidate in *)
(* cooldown is skipped; behind the last one it is exhausted, with the text *)
(* of all attempts.                                                        *)
Check(w) ==
  LET i == call[w].i
  IN /\ call[w].at = "check"
     /\ \/ i > Len(Candidates[w]) /\ Fails(w, call[w].err)
        \/ i =< Len(Candidates[w]) /\ w \in canceled /\ Fails(w, CanceledText)
        \/ /\ i =< Len(Candidates[w]) /\ w \notin canceled
           /\ call' = IF IsAvailable(Candidates[w][i]) THEN [call EXCEPT ![w].at = "run"]
                      ELSE [call EXCEPT ![w].i = i + 1]
     /\ UNCHANGED <<now, entry, canceled, calls, mine>>

Candidate(w) == Candidates[w][call[w].i]

(* run returned a response: MarkSuccess.                                   *)
RunSucceeds(w) ==
  /\ call[w].at = "run"
  /\ entry' = [entry EXCEPT ![Candidate(w)] = Succeeded(@)]
  /\ mine' = [v \in Workers |-> [mine[v] EXCEPT ![Candidate(w)] = 0]]
  /\ call' = [call EXCEPT ![w] = Idle]
  /\ UNCHANGED <<now, canceled, calls>>

(* An error that ends the chain: the context is canceled, the classifier   *)
(* has no reason for it, or it is not retriable.                           *)
RunAborts(w, e) ==
  /\ call[w].at = "run"
  /\ w \in canceled \/ ~IsRetriable(ClassifyError(e)) \/ ClassifyError(e) = "none"
  /\ Fails(w, IF w \in canceled THEN CanceledText ELSE Text(e))
  /\ UNCHANGED <<now, entry, canceled, calls, mine>>

(* A retriable one: MarkFailure, and on to the next candidate.             *)
RunFails(w, e) ==
  LET p == Candidate(w)
      reason == ClassifyError(e)
  IN /\ call[w].at = "run"
     /\ w \notin canceled /\ reason # "none" /\ IsRetriable(reason)
     /\ entry' = [entry EXCEPT ![p] = Failed(@, reason)]
     /\ mine' = [mine EXCEPT ![w][p] =
                   IF reason = "billing" THEN entry'[p].disabled ELSE entry'[p].end]
     /\ call' = [call EXCEPT ![w].at = "check", ![w].i = @ + 1,
                             ![w].err = Joined(@, Text(e))]
     /\ UNCHANGED <<now, canceled, calls>>

(* Without the chain.                                                      *)
DirectReturns(w) ==
  /\ call[w].at = "direct"
  /\ \/ call' = [call EXCEPT ![w] = Idle]
     \/ \E e \in Errors : (e.wraps = "canceled" => w \in canceled) /\ Fails(w, Text(e))
  /\ UNCHANGED <<now, entry, canceled, calls, mine>>

(* isContextError: the history is compressed and the call made again.      *)
Retry(w) ==
  /\ call[w].at = "failed" /\ call[w].err.word /\ call[w].retry < MaxRetries
  /\ call' = [call EXCEPT ![w] = [Attempt(w) EXCEPT !.retry = call[w].retry + 1]]
  /\ UNCHANGED <<now, entry, canceled, calls, mine>>

GiveUp(w) ==
  /\ call[w].at = "failed" /\ ~(call[w].err.word /\ call[w].retry < MaxRetries)
  /\ call' = [call EXCEPT ![w] = Idle]
  /\ UNCHANGED <<now, entry, canceled, calls, mine>>

(* The caller's context is canceled (shutdown).                            *)
Cancel(w) ==
  /\ w \in Cancelable \ canceled
  /\ canceled' = canceled \cup {w}
  /\ UNCHANGED <<now, entry, call, calls, mine>>

Advance(d) ==
  /\ now + d =< MaxTime
  /\ now' = now + d
  /\ UNCHANGED <<entry, call, canceled, calls, mine>>

WorkerStep(w) ==
  \/ CallLLM(w) \/ Check(w) \/ RunSucceeds(w) \/ DirectReturns(w)
  \/ \E e \in Errors : (e.wraps = "canceled" => w \in canceled) /\ (RunAborts(w, e) \/ RunFails(w, e))
  \/ Retry(w) \/ GiveUp(w) \/ Cancel(w)

Next == (\E w \in Workers : WorkerStep(w)) \/ (\E d \in Delays : Advance(d))

Spec == Init /\ [][Next]_vars

-------------------------------------------------------------------------------
CooldownEntry == [errors : Nat, billing : Nat, end : Nat, disabled : Nat, last : Nat]
CallState == [at : {"idle", "check", "run", "direct", "failed"}, i : Nat \ {0},
              retry : Nat, err : [word : BOOLEAN, limit : BOOLEAN]]

(* The shape of the tracker and of the calls in progress (cooldown.go:15,  *)
(* fallback.go:101).                                                       *)
TypeOK ==
  /\ now \in Nat /\ calls \in Nat
  /\ entry \in [Providers -> CooldownEntry]
  /\ call \in [Workers -> CallState]
  /\ \A w \in Workers : call[w].at = "run" => call[w].i =< Len(Candidates[w])
  /\ canceled \subseteq Workers
  /\ mine \in [Workers -> [Providers -> Nat]]

(* A goroutine that saw a provider fail does not call it again before the  *)
(* backoff of that failure is over, unless somebody succeeded with the     *)
(* provider since: failures reported late by others, which share the       *)
(* counters and their daily reset, never shorten it (cooldown.go:42,       *)
(* fallback.go:107).                                                       *)
BackoffIsHonoured ==
  \A w \in Workers : call[w].at = "run" => now >= mine[w][Candidate(w)]

(* No provider is lost for good: a day after its last failure it is        *)
(* available, and, unless a billing failure is on record, after an hour    *)
(* (cooldown.go:172-205).                                                  *)
RecoversInTime ==
  \A p \in Providers :
    now >= entry[p].last + (IF entry[p].billing > 0 THEN 24 * 60 ELSE 60) => IsAvailable(p)

(* History is compressed for a prompt that is too long, and for nothing    *)
(* else (loop.go: "forceCompression aggressively reduces context when the  *)
(* limit is hit").                                                         *)
CompressedAtTheLimit ==
  [][\A w \in Workers : call'[w].retry > call[w].retry => call[w].err.limit]_vars

-------------------------------------------------------------------------------
(* How long an entry can block, from its counters.                         *)
EntryBounded(e) ==
  /\ e.last =< now /\ e.billing =< e.errors
  /\ e.end =< e.last + StandardCooldown(e.errors)
  /\ e.disabled =< e.last + BillingCooldown(e.billing)
  /\ e.billing = 0 => e.disabled =< e.last

BackoffBounded == \A p \in Providers : EntryBounded(entry[p])

(* What a worker was told to wait is what the tracker makes it wait.       *)
MineIsBlocked == \A w \in Workers, p \in Providers : mine[w][p] =< BlockedUntil(p)

IndInv == TypeOK /\ BackoffBounded /\ MineIsBlocked /\ BackoffIsHonoured
===============================================================================

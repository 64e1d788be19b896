---------------------------- MODULE LibrariesProof ----------------------------
(* What a turn uses beside the loop: which model answers (Fallback), for   *)
(* any goroutines, providers, candidate lists, errors and any movement of  *)
(* the clock; which agent runs it (Routing), for any configurations and    *)
(* messages; the search for skills (SkillSearch), for any goroutines,      *)
(* queries, registries, answers and size of the cache; and the splitting   *)
(* of answers (Splitter), for any message and limit.                       *)
EXTENDS Fallback, Routing, SkillSearch, Splitter,
        WellFoundedInduction, FiniteSetTheorems, SequenceTheorems, TLAPS

(* calculateStandardCooldown as the table its comment gives.               *)
LEMMA StandardTable ==
  ASSUME NEW n \in Nat
  PROVE  /\ n =< 1 => StandardCooldown(n) = 1
         /\ n = 2 => StandardCooldown(n) = 5
         /\ n = 3 => StandardCooldown(n) = 25
         /\ n >= 4 => StandardCooldown(n) = 60
<1>1. n =< 1 => StandardCooldown(n) = 1
  BY DEF StandardCooldown, MinOf, MaxOf, Fives
<1>2. n = 2 => StandardCooldown(n) = 5
  BY DEF StandardCooldown, MinOf, MaxOf, Fives
<1>3. n = 3 => StandardCooldown(n) = 25
  BY DEF StandardCooldown, MinOf, MaxOf, Fives
<1>4. n >= 4 => StandardCooldown(n) = 60
  BY DEF StandardCooldown, MinOf, MaxOf, Fives
<1> QED  BY <1>1, <1>2, <1>3, <1>4

(* The standard backoff is at most an hour and never falls as errors rise. *)
LEMMA StandardGrows ==
  ASSUME NEW m \in Nat, NEW n \in Nat, m =< n
  PROVE  /\ StandardCooldown(n) \in 1..60
         /\ StandardCooldown(m) =< StandardCooldown(n)
<1>1. StandardCooldown(n) \in 1..60
  BY StandardTable
<1>2. CASE m >= 4
  BY <1>2, StandardTable
<1>3. CASE m < 4
  <2>1. m =< 1 \/ m = 2 \/ m = 3
    BY <1>3
  <2>2. n =< 1 \/ n = 2 \/ n = 3 \/ n >= 4
    OBVIOUS
  <2> QED  BY <2>1, <2>2, StandardTable
<1> QED  BY <1>1, <1>2, <1>3

(* calculateBillingCooldown as the table its comment gives.                *)
LEMMA BillingTable ==
  ASSUME NEW n \in Nat
  PROVE  /\ n =< 1 => BillingCooldown(n) = 300
         /\ n = 2 => BillingCooldown(n) = 600
         /\ n = 3 => BillingCooldown(n) = 1200
         /\ n >= 4 => BillingCooldown(n) = 1440
<1>1. n =< 1 => BillingCooldown(n) = 300
  BY DEF BillingCooldown, MinOf, MaxOf, Doublings
<1>2. n = 2 => BillingCooldown(n) = 600
  BY DEF BillingCooldown, MinOf, MaxOf, Doublings
<1>3. n = 3 => BillingCooldown(n) = 1200
  BY DEF BillingCooldown, MinOf, MaxOf, Doublings
<1>4. ASSUME n >= 4 PROVE BillingCooldown(n) = 1440
  <2> DEFINE k == MinOf(MaxOf(1, n) - 1, 10) + 1
  <2>1. k \in 4..11
    BY <1>4 DEF MinOf, MaxOf
  <2>2. \A j \in 4..11 : Doublings[j] \in Nat /\ Doublings[j] >= 8
    BY DEF Doublings
  <2>3. 300 * Doublings[k] >= 2400
    BY <2>1, <2>2
  <2>4. BillingCooldown(n) = MinOf(24 * 60, 300 * Doublings[k])
    BY DEF BillingCooldown
  <2> HIDE DEF k
  <2> QED  BY <2>1, <2>2, <2>3, <2>4 DEF MinOf
<1> QED  BY <1>1, <1>2, <1>3, <1>4

(* A backoff of at most a day.                                             *)
InDay(n) == BillingCooldown(n) \in Nat /\ BillingCooldown(n) =< 1440

(* The billing backoff is at most a day and never falls as failures rise.  *)
LEMMA BillingGrows ==
  ASSUME NEW m \in Nat, NEW n \in Nat, m =< n
  PROVE  /\ InDay(n)
         /\ BillingCooldown(m) =< BillingCooldown(n)
<1>1. InDay(n)
  BY BillingTable DEF InDay
<1>2. CASE m >= 4
  BY <1>1, <1>2, BillingTable
<1>3. CASE m < 4
  <2>1. m =< 1 \/ m = 2 \/ m = 3
    BY <1>3
  <2>2. n =< 1 \/ n = 2 \/ n = 3 \/ n >= 4
    OBVIOUS
  <2> QED  BY <1>1, <2>1, <2>2, BillingTable
<1> QED  BY <1>1, <1>2, <1>3

(* MarkFailure: the entry stays bounded, what it blocks until never moves  *)
(* back, and the failure's own backoff is part of it.                      *)
LEMMA FailedKeeps ==
  ASSUME NEW e \in CooldownEntry, NEW reason, now \in Nat, EntryBounded(e)
  PROVE  LET f == Failed(e, reason)
         IN /\ f \in CooldownEntry /\ EntryBounded(f)
            /\ MaxOf(e.end, e.disabled) =< MaxOf(f.end, f.disabled)
            /\ (IF reason = "billing" THEN f.disabled ELSE f.end)
                 =< MaxOf(f.end, f.disabled)
<1> DEFINE stale == now - e.last > FailureWindow
           errors == IF stale THEN 0 ELSE e.errors
           billing == IF stale THEN 0 ELSE e.billing
           n == errors + 1
           b == billing + (IF reason = "billing" THEN 1 ELSE 0)
           f == Failed(e, reason)
<1>1. /\ e.errors \in Nat /\ e.billing \in Nat /\ e.end \in Nat
      /\ e.disabled \in Nat /\ e.last \in Nat
  BY DEF CooldownEntry
<1>2. f = [errors |-> n, billing |-> IF reason = "billing" THEN b ELSE billing,
           end |-> IF reason = "billing" THEN e.end ELSE now + StandardCooldown(n),
           disabled |-> IF reason = "billing" THEN now + BillingCooldown(b) ELSE e.disabled,
           last |-> now]
  BY DEF Failed, CooldownEntry
<1>3. /\ e.last =< now /\ e.billing =< e.errors
      /\ e.end =< e.last + StandardCooldown(e.errors)
      /\ e.disabled =< e.last + BillingCooldown(e.billing)
      /\ e.billing = 0 => e.disabled =< e.last
  BY DEF EntryBounded
<1>4. n \in Nat /\ b \in Nat /\ billing \in Nat /\ errors \in Nat /\ billing =< errors
  BY <1>1, <1>3
<1>5. /\ errors \in {0, e.errors} /\ billing \in {0, e.billing}
      /\ ~stale => errors = e.errors /\ billing = e.billing
      /\ stale => errors = 0 /\ billing = 0
      /\ n = errors + 1
      /\ reason = "billing" => b = billing + 1
      /\ reason # "billing" => b = billing
  BY <1>4
<1>6. /\ f.errors = n /\ f.last = now
      /\ f.billing = IF reason = "billing" THEN b ELSE billing
      /\ f.end = IF reason = "billing" THEN e.end ELSE now + StandardCooldown(n)
      /\ f.disabled = IF reason = "billing" THEN now + BillingCooldown(b) ELSE e.disabled
  BY <1>2
<1>7. stale <=> now - e.last > 1440
  BY DEF FailureWindow
<1> HIDE DEF n, b, f, stale, errors, billing
<1>8. StandardCooldown(n) \in 1..60 /\ StandardCooldown(e.errors) \in 1..60
  BY <1>1, <1>4, StandardGrows
<1>9. /\ InDay(b) /\ InDay(billing)
      /\ InDay(e.billing)
  <2>1. InDay(b)
    BY <1>4, BillingGrows
  <2>2. InDay(billing)
    BY <1>4, BillingGrows
  <2>3. InDay(e.billing)
    BY <1>1, BillingGrows
  <2> QED  BY <2>1, <2>2, <2>3
<1>10. e.end =< now + StandardCooldown(n)
  <2>1. CASE stale
    BY <2>1, <1>1, <1>3, <1>7, <1>8
  <2>2. CASE ~stale
    <3>1. StandardCooldown(e.errors) =< StandardCooldown(n)
      BY <2>2, <1>1, <1>4, <1>5, StandardGrows
    <3> QED  BY <3>1, <1>1, <1>3, <1>8
  <2> QED  BY <2>1, <2>2
<1>11. /\ e.disabled =< now + BillingCooldown(b)
       /\ e.disabled =< now + BillingCooldown(billing)
       /\ billing = 0 => e.disabled =< now
  (* Past the window the disable is over. *)
  <2>1. CASE stale
    BY <2>1, <1>1, <1>3, <1>7, <1>9 DEF InDay
  <2>2. CASE ~stale
    <3>1. billing = e.billing /\ e.billing =< b
      BY <2>2, <1>1, <1>4, <1>5
    <3>2. BillingCooldown(e.billing) =< BillingCooldown(b)
      BY <3>1, <1>1, <1>4, BillingGrows
    <3> QED  BY <3>1, <3>2, <1>1, <1>3, <1>9 DEF InDay
  <2> QED  BY <2>1, <2>2
<1>12. f \in CooldownEntry
  <2>1. now + StandardCooldown(n) \in Nat /\ now + BillingCooldown(b) \in Nat
    BY <1>8, <1>9 DEF InDay
  <2> QED  BY <2>1, <1>1, <1>2, <1>4 DEF CooldownEntry
<1>13. EntryBounded(f)
  <2>1. f.billing =< f.errors
    BY <1>1, <1>4, <1>5, <1>6
  <2>2. CASE reason = "billing"
    BY <2>1, <2>2, <1>1, <1>4, <1>5, <1>6, <1>8, <1>9, <1>10 DEF EntryBounded, InDay
  <2>3. CASE reason # "billing"
    BY <2>1, <2>3, <1>1, <1>4, <1>5, <1>6, <1>8, <1>9, <1>11 DEF EntryBounded, InDay
  <2> QED  BY <2>2, <2>3
<1>14. /\ e.end =< f.end /\ e.disabled =< f.disabled
       /\ f.end \in Nat /\ f.disabled \in Nat
  <2>1. f.end \in Nat /\ f.disabled \in Nat
    BY <1>12 DEF CooldownEntry
  <2>2. CASE reason = "billing"
    BY <2>1, <2>2, <1>1, <1>6, <1>9, <1>11 DEF InDay
  <2>3. CASE reason # "billing"
    BY <2>1, <2>3, <1>1, <1>6, <1>8, <1>10
  <2> QED  BY <2>1, <2>2, <2>3
<1>15. MaxOf(e.end, e.disabled) =< MaxOf(f.end, f.disabled)
  BY <1>1, <1>14 DEF MaxOf
<1>16. (IF reason = "billing" THEN f.disabled ELSE f.end) =< MaxOf(f.end, f.disabled)
  BY <1>14 DEF MaxOf
<1> QED  BY <1>12, <1>13, <1>15, <1>16 DEF f

(* MarkSuccess keeps the entry bounded.                                    *)
LEMMA SucceededKeeps ==
  ASSUME NEW e \in CooldownEntry, now \in Nat, EntryBounded(e)
  PROVE  Succeeded(e) \in CooldownEntry /\ EntryBounded(Succeeded(e))
<1>1. e.last \in Nat /\ e.last =< now
  BY DEF CooldownEntry, EntryBounded
<1>2. /\ Succeeded(e).errors = 0 /\ Succeeded(e).billing = 0 /\ Succeeded(e).end = 0
      /\ Succeeded(e).disabled = 0 /\ Succeeded(e).last = e.last
  BY DEF Succeeded, CooldownEntry
<1>3. StandardCooldown(0) = 1 /\ BillingCooldown(0) = 300
  BY StandardTable, BillingTable
<1>4. Succeeded(e) \in CooldownEntry
  BY DEF Succeeded, CooldownEntry
<1>5. EntryBounded(Succeeded(e))
  BY <1>1, <1>2, <1>3 DEF EntryBounded
<1> QED  BY <1>4, <1>5

(* A step that leaves the tracker alone and lets no goroutine into "run"   *)
(* and no time run backwards keeps the rest of the invariant.              *)
LEMMA QuietKeeps ==
  ASSUME IndInv, now' \in Nat, now =< now', UNCHANGED <<entry, mine>>,
         \A w \in Workers : call'[w].at = "run" =>
            call[w].at = "run" /\ call'[w].i = call[w].i
  PROVE  BackoffBounded' /\ MineIsBlocked' /\ BackoffIsHonoured'
<1>1. now \in Nat /\ entry \in [Providers -> CooldownEntry]
      /\ mine \in [Workers -> [Providers -> Nat]] /\ call \in [Workers -> CallState]
  BY DEF IndInv, TypeOK
<1>2. BackoffBounded'
  <2> SUFFICES ASSUME NEW p \in Providers PROVE EntryBounded(entry[p])'
    BY DEF BackoffBounded
  <2>1. EntryBounded(entry[p]) /\ entry[p] \in CooldownEntry
    BY <1>1 DEF IndInv, BackoffBounded
  <2>2. entry[p].last =< now'
    BY <1>1, <2>1 DEF EntryBounded, CooldownEntry
  <2> QED  BY <2>1, <2>2 DEF EntryBounded
<1>3. MineIsBlocked'
  BY DEF IndInv, MineIsBlocked, BlockedUntil
<1>4. BackoffIsHonoured'
  <2> SUFFICES ASSUME NEW w \in Workers, call'[w].at = "run"
               PROVE  now' >= mine'[w][Candidates[w][call'[w].i]]
    BY DEF BackoffIsHonoured, Candidate
  <2>1. now >= mine[w][Candidates[w][call[w].i]] /\ call'[w].i = call[w].i
    BY DEF IndInv, BackoffIsHonoured, Candidate
  <2>2. Candidates[w][call[w].i] \in Providers
    <3>1. call[w].i \in 1..Len(Candidates[w])
      BY <1>1 DEF IndInv, TypeOK, CallState
    <3> QED  BY <3>1, FallbackAssumption
  <2>3. mine[w][Candidates[w][call[w].i]] \in Nat
    BY <1>1, <2>2
  <2> QED  BY <1>1, <2>1, <2>3
<1> QED  BY <1>2, <1>3, <1>4

(* A goroutine in "run" is at a real candidate.                            *)
LEMMA CandidateKnown ==
  ASSUME TypeOK, NEW w \in Workers, call[w].at = "run"
  PROVE  Candidate(w) \in Providers
<1>1. call[w].i \in 1..Len(Candidates[w])
  BY DEF TypeOK, CallState
<1> QED  BY <1>1, FallbackAssumption DEF Candidate

(* Changing one goroutine's call to one of the right shape keeps the type  *)
(* of the calls.                                                           *)
LEMMA CallTyped ==
  ASSUME TypeOK, NEW w \in Workers, NEW c \in CallState, call' = [call EXCEPT ![w] = c],
         c.at = "run" => c.i =< Len(Candidates[w])
  PROVE  /\ call' \in [Workers -> CallState]
         /\ \A v \in Workers : call'[v].at = "run" => call'[v].i =< Len(Candidates[v])
<1>1. call \in [Workers -> CallState]
  BY DEF TypeOK
<1>2. \A v \in Workers : call'[v] = IF v = w THEN c ELSE call[v]
  BY <1>1
<1>3. \A v \in Workers : call[v].at = "run" => call[v].i =< Len(Candidates[v])
  BY DEF TypeOK
<1> QED  BY <1>1, <1>2, <1>3

(* A step of one goroutine that leaves clock and tracker alone and does    *)
(* not bring it into "run".                                                *)
LEMMA StepKeeps ==
  ASSUME IndInv, NEW w \in Workers, NEW c \in CallState, call' = [call EXCEPT ![w] = c],
         c.at # "run", calls' \in Nat, canceled' \subseteq Workers,
         UNCHANGED <<now, entry, mine>>
  PROVE  IndInv'
<1>1. TypeOK
  BY DEF IndInv
<1>2. /\ call' \in [Workers -> CallState]
      /\ \A v \in Workers : call'[v].at = "run" => call'[v].i =< Len(Candidates[v])
  BY <1>1, CallTyped
<1>3. TypeOK'
  BY <1>1, <1>2 DEF TypeOK
<1>4. \A v \in Workers : call'[v] = IF v = w THEN c ELSE call[v]
  BY <1>1 DEF TypeOK
<1>5. now' \in Nat /\ now =< now'
  BY <1>1 DEF TypeOK
<1>6. BackoffBounded' /\ MineIsBlocked' /\ BackoffIsHonoured'
  BY <1>4, <1>5, QuietKeeps
<1> QED  BY <1>3, <1>6 DEF IndInv

(* The calls of a goroutine as the actions leave them are well formed.     *)
LEMMA CallShapes ==
  ASSUME TypeOK, NEW w \in Workers, NEW text \in [word : BOOLEAN, limit : BOOLEAN]
  PROVE  /\ Idle \in CallState /\ Attempt(w) \in CallState
         /\ Idle.at # "run" /\ Attempt(w).at # "run"
         /\ [call[w] EXCEPT !.at = "failed", !.err = text] \in CallState
         /\ [call[w] EXCEPT !.at = "run"] \in CallState
         /\ [call[w] EXCEPT !.i = @ + 1] \in CallState
         /\ [call[w] EXCEPT !.at = "check", !.i = @ + 1, !.err = text] \in CallState
<1>1. Idle \in CallState /\ Idle.at # "run"
  BY DEF Idle, CallState, NoText
<1>2. Attempt(w) \in CallState /\ Attempt(w).at # "run"
  BY <1>1 DEF Attempt, CallState, Idle, NoText
<1>3. call[w] \in CallState
  BY DEF TypeOK
<1>4. call[w].i \in Nat \ {0} /\ call[w].i + 1 \in Nat \ {0}
  BY <1>3 DEF CallState
<1>5. [call[w] EXCEPT !.at = "failed", !.err = text] \in CallState
  BY <1>3 DEF CallState
<1>6. [call[w] EXCEPT !.at = "run"] \in CallState
  BY <1>3 DEF CallState
<1>7. [call[w] EXCEPT !.i = @ + 1] \in CallState
  BY <1>3, <1>4 DEF CallState
<1>8. [call[w] EXCEPT !.at = "check", !.i = @ + 1, !.err = text] \in CallState
  BY <1>3, <1>4 DEF CallState
<1> QED  BY <1>1, <1>2, <1>5, <1>6, <1>7, <1>8

(* The texts errors are made of.                                           *)
LEMMA Texts ==
  /\ CanceledText \in [word : BOOLEAN, limit : BOOLEAN]
  /\ \A e \in Errors : Text(e) \in [word : BOOLEAN, limit : BOOLEAN]
  /\ \A a, b \in [word : BOOLEAN, limit : BOOLEAN] : Joined(a, b) \in [word : BOOLEAN, limit : BOOLEAN]
<1>1. CanceledText \in [word : BOOLEAN, limit : BOOLEAN]
  BY DEF CanceledText
<1>2. \A e \in Errors : Text(e) \in [word : BOOLEAN, limit : BOOLEAN]
  BY FallbackAssumption DEF Text, Error
<1>3. \A a, b \in [word : BOOLEAN, limit : BOOLEAN] :
        Joined(a, b) \in [word : BOOLEAN, limit : BOOLEAN]
  BY Zenon DEF Joined
<1> QED  BY <1>1, <1>2, <1>3

(* The chain's check lets a goroutine into "run" only past every backoff   *)
(* that BlockedUntil stands for.                                           *)
LEMMA CheckKeeps ==
  ASSUME IndInv, NEW w \in Workers, Check(w)
  PROVE  IndInv'
<1> DEFINE i == call[w].i
           texts == [word : BOOLEAN, limit : BOOLEAN]
<1>1. /\ TypeOK /\ call[w] \in CallState /\ call[w].err \in texts
      /\ UNCHANGED <<now, entry, canceled, calls, mine>>
  BY DEF IndInv, TypeOK, CallState, Check
<1>2. calls' \in Nat /\ canceled' \subseteq Workers
  BY <1>1 DEF TypeOK
<1>3. ASSUME NEW text \in texts, Fails(w, text) PROVE IndInv'
  <2>1. call' = [call EXCEPT ![w] = [call[w] EXCEPT !.at = "failed", !.err = text]]
    BY <1>1, <1>3 DEF Fails, TypeOK
  <2>2. [call[w] EXCEPT !.at = "failed", !.err = text] \in CallState
    BY <1>1, CallShapes
  <2>3. [call[w] EXCEPT !.at = "failed", !.err = text].at # "run"
    BY <1>1 DEF CallState
  <2> QED  BY <2>1, <2>2, <2>3, <1>1, <1>2, StepKeeps
<1>4. ASSUME call' = [call EXCEPT ![w].i = i + 1], call[w].at = "check" PROVE IndInv'
  <2>1. call' = [call EXCEPT ![w] = [call[w] EXCEPT !.i = @ + 1]]
    BY <1>4
  <2>2. [call[w] EXCEPT !.i = @ + 1] \in CallState
    BY <1>1, Texts, CallShapes
  <2>3. [call[w] EXCEPT !.i = @ + 1].at # "run"
    BY <1>1, <1>4 DEF CallState
  <2> QED  BY <2>1, <2>2, <2>3, <1>1, <1>2, StepKeeps
<1>5. ASSUME i =< Len(Candidates[w]), IsAvailable(Candidates[w][i]),
             call' = [call EXCEPT ![w].at = "run"]
      PROVE  IndInv'
  <2> DEFINE c == [call[w] EXCEPT !.at = "run"]
             p == Candidates[w][i]
  <2>1. call' = [call EXCEPT ![w] = c]
    BY <1>5
  <2>2. c \in CallState
    BY <1>1, Texts, CallShapes
  <2>3. c.at = "run" /\ c.i = i
    BY <1>1 DEF CallState
  <2>4. TypeOK'
    <3>1. /\ call' \in [Workers -> CallState]
          /\ \A v \in Workers : call'[v].at = "run" => call'[v].i =< Len(Candidates[v])
      BY <1>1, <1>5, <2>1, <2>2, <2>3, CallTyped
    <3> QED  BY <1>1, <3>1 DEF TypeOK
  <2>5. BackoffBounded' /\ MineIsBlocked'
    BY <1>1 DEF IndInv, BackoffBounded, EntryBounded, MineIsBlocked, BlockedUntil
  <2>6. p \in Providers
    <3>1. i \in 1..Len(Candidates[w])
      BY <1>1, <1>5 DEF CallState
    <3> QED  BY <3>1, FallbackAssumption
  <2>7. now >= mine[w][p]
    <3>1. now >= BlockedUntil(p) /\ mine[w][p] =< BlockedUntil(p)
      BY <1>5, <2>6 DEF IsAvailable, IndInv, MineIsBlocked
    <3>2. now \in Nat /\ mine[w][p] \in Nat /\ entry[p] \in CooldownEntry
      BY <1>1, <2>6 DEF TypeOK
    <3>3. BlockedUntil(p) \in Nat
      BY <3>2 DEF BlockedUntil, MaxOf, CooldownEntry
    <3> QED  BY <3>1, <3>2, <3>3
  <2>8. BackoffIsHonoured'
    <3> SUFFICES ASSUME NEW v \in Workers, call'[v].at = "run"
                 PROVE  now >= mine[v][Candidates[v][call'[v].i]]
      BY <1>1 DEF BackoffIsHonoured, Candidate
    <3>1. call'[v] = IF v = w THEN c ELSE call[v]
      BY <1>1, <2>1 DEF TypeOK
    <3>2. CASE v = w
      BY <3>1, <3>2, <2>3, <2>7
    <3>3. CASE v # w
      BY <3>1, <3>3 DEF IndInv, BackoffIsHonoured, Candidate
    <3> QED  BY <3>2, <3>3
  <2> QED  BY <2>4, <2>5, <2>8 DEF IndInv
<1>6. QED
  BY <1>1, <1>3, <1>4, <1>5, Texts DEF Check

(* A response: every counter and every wait for the provider is cleared.   *)
LEMMA RunSucceedsKeeps ==
  ASSUME IndInv, NEW w \in Workers, RunSucceeds(w)
  PROVE  IndInv'
<1> DEFINE p == Candidate(w)
<1>1. /\ TypeOK /\ p \in Providers /\ now \in Nat
      /\ entry \in [Providers -> CooldownEntry]
      /\ mine \in [Workers -> [Providers -> Nat]]
      /\ call \in [Workers -> CallState]
  BY CandidateKnown DEF IndInv, TypeOK, RunSucceeds
<1>2. /\ entry' = [entry EXCEPT ![p] = Succeeded(entry[p])]
      /\ mine' = [v \in Workers |-> [mine[v] EXCEPT ![p] = 0]]
      /\ call' = [call EXCEPT ![w] = Idle]
      /\ UNCHANGED <<now, canceled, calls>>
  BY DEF RunSucceeds
<1> HIDE DEF p
<1>3. Succeeded(entry[p]) \in CooldownEntry /\ EntryBounded(Succeeded(entry[p]))
  BY <1>1, SucceededKeeps DEF IndInv, BackoffBounded
<1>4. TypeOK'
  <2>1. Idle \in CallState /\ Idle.at # "run"
    BY <1>1, Texts, CallShapes
  <2>2. /\ call' \in [Workers -> CallState]
        /\ \A v \in Workers : call'[v].at = "run" => call'[v].i =< Len(Candidates[v])
    BY <1>1, <1>2, <2>1, CallTyped
  <2>3. entry' \in [Providers -> CooldownEntry] /\ mine' \in [Workers -> [Providers -> Nat]]
    BY <1>1, <1>2, <1>3
  <2> QED  BY <1>1, <1>2, <2>2, <2>3 DEF TypeOK
<1>5. BackoffBounded'
  <2> SUFFICES ASSUME NEW q \in Providers PROVE EntryBounded(entry'[q])
    BY <1>2 DEF BackoffBounded, EntryBounded
  <2> QED  BY <1>1, <1>2, <1>3 DEF IndInv, BackoffBounded
<1>6. \A v \in Workers, q \in Providers : mine'[v][q] = IF q = p THEN 0 ELSE mine[v][q]
  BY <1>1, <1>2
<1>7. MineIsBlocked'
  <2> SUFFICES ASSUME NEW v \in Workers, NEW q \in Providers
               PROVE  mine'[v][q] =< MaxOf(entry'[q].end, entry'[q].disabled)
    BY DEF MineIsBlocked, BlockedUntil
  <2>1. CASE q = p
    <3>1. entry'[q] \in CooldownEntry
      BY <2>1, <1>1, <1>2, <1>3
    <3> QED  BY <2>1, <3>1, <1>6 DEF MaxOf, CooldownEntry
  <2>2. CASE q # p
    <3>1. entry'[q] = entry[q] /\ mine'[v][q] = mine[v][q]
      BY <2>2, <1>1, <1>2, <1>6
    <3> QED  BY <3>1 DEF IndInv, MineIsBlocked, BlockedUntil
  <2> QED  BY <2>1, <2>2
<1>8. BackoffIsHonoured'
  <2> SUFFICES ASSUME NEW v \in Workers, call'[v].at = "run"
               PROVE  now >= mine'[v][Candidates[v][call'[v].i]]
    BY <1>2 DEF BackoffIsHonoured, Candidate
  <2>1. v # w /\ call'[v] = call[v]
    BY <1>1, <1>2 DEF Idle
  <2>2. Candidate(v) \in Providers /\ now >= mine[v][Candidate(v)]
    BY <1>1, <2>1, CandidateKnown DEF IndInv, BackoffIsHonoured
  <2>3. now >= mine'[v][Candidate(v)]
    BY <1>1, <1>6, <2>2
  <2> QED  BY <2>1, <2>3 DEF Candidate
<1> QED  BY <1>4, <1>5, <1>7, <1>8 DEF IndInv

(* A retriable failure, perhaps long after the call began and after others *)
(* have reported theirs: what the provider is blocked until never falls.   *)
LEMMA RunFailsKeeps ==
  ASSUME IndInv, NEW w \in Workers, NEW e \in Errors, RunFails(w, e)
  PROVE  IndInv'
<1> DEFINE p == Candidate(w)
           reason == ClassifyError(e)
           f == Failed(entry[p], reason)
           own == IF reason = "billing" THEN f.disabled ELSE f.end
           text == Joined(call[w].err, Text(e))
           c == [call[w] EXCEPT !.at = "check", !.i = @ + 1, !.err = text]
<1>1. /\ TypeOK /\ p \in Providers /\ now \in Nat
      /\ entry \in [Providers -> CooldownEntry]
      /\ mine \in [Workers -> [Providers -> Nat]]
      /\ call \in [Workers -> CallState]
  BY CandidateKnown DEF IndInv, TypeOK, RunFails
<1>2. /\ entry' = [entry EXCEPT ![p] = f]
      /\ mine' = [mine EXCEPT ![w][p] = IF reason = "billing" THEN entry'[p].disabled
                                                             ELSE entry'[p].end]
      /\ call' = [call EXCEPT ![w].at = "check", ![w].i = @ + 1, ![w].err = Joined(@, Text(e))]
      /\ UNCHANGED <<now, canceled, calls>>
  BY DEF RunFails
<1>3. call' = [call EXCEPT ![w] = c]
  BY <1>1, <1>2
<1>4. c \in CallState /\ c.at # "run"
  <2>1. text \in [word : BOOLEAN, limit : BOOLEAN]
    BY <1>1, Texts DEF CallState
  <2>2. c \in CallState
    BY <1>1, <2>1, CallShapes
  <2>3. c.at = "check"
    BY <1>1 DEF CallState
  <2> QED  BY <2>2, <2>3
<1>5. /\ f \in CooldownEntry /\ EntryBounded(f)
      /\ MaxOf(entry[p].end, entry[p].disabled) =< MaxOf(f.end, f.disabled)
      /\ own =< MaxOf(f.end, f.disabled)
  <2>1. entry[p] \in CooldownEntry /\ EntryBounded(entry[p])
    BY <1>1 DEF IndInv, BackoffBounded
  <2> QED  BY <1>1, <2>1, FailedKeeps
<1>6. mine' = [mine EXCEPT ![w][p] = own]
  BY <1>1, <1>2
<1>7. own \in Nat
  BY <1>5 DEF CooldownEntry
<1> HIDE DEF p, f, own, c, text, reason
<1>8. TypeOK'
  <2>1. /\ call' \in [Workers -> CallState]
        /\ \A v \in Workers : call'[v].at = "run" => call'[v].i =< Len(Candidates[v])
    BY <1>1, <1>3, <1>4, CallTyped
  <2>2. entry' \in [Providers -> CooldownEntry] /\ mine' \in [Workers -> [Providers -> Nat]]
    BY <1>1, <1>2, <1>5, <1>6, <1>7
  <2> QED  BY <1>1, <1>2, <2>1, <2>2 DEF TypeOK
<1>9. BackoffBounded'
  <2> SUFFICES ASSUME NEW q \in Providers PROVE EntryBounded(entry'[q])
    BY <1>2 DEF BackoffBounded, EntryBounded
  <2> QED  BY <1>1, <1>2, <1>5 DEF IndInv, BackoffBounded
<1>10. \A v \in Workers, q \in Providers :
         mine'[v][q] = IF v = w /\ q = p THEN own ELSE mine[v][q]
  BY <1>1, <1>6
<1>11. MineIsBlocked'
  <2> SUFFICES ASSUME NEW v \in Workers, NEW q \in Providers
               PROVE  mine'[v][q] =< MaxOf(entry'[q].end, entry'[q].disabled)
    BY DEF MineIsBlocked, BlockedUntil
  <2>1. mine[v][q] =< MaxOf(entry[q].end, entry[q].disabled) /\ mine[v][q] \in Nat
    BY <1>1 DEF IndInv, MineIsBlocked, BlockedUntil
  <2>2. CASE q # p
    <3>1. entry'[q] = entry[q] /\ mine'[v][q] = mine[v][q]
      BY <2>2, <1>1, <1>2, <1>10
    <3> QED  BY <2>1, <3>1
  <2>3. CASE q = p
    <3>1. entry'[q] = f
      BY <2>3, <1>1, <1>2
    <3>2. MaxOf(entry[q].end, entry[q].disabled) \in Nat /\ MaxOf(f.end, f.disabled) \in Nat
      BY <1>1, <1>5 DEF MaxOf, CooldownEntry
    <3>3. mine[v][q] =< MaxOf(f.end, f.disabled)
      BY <2>1, <2>3, <3>2, <1>5
    <3>4. mine'[v][q] = own \/ mine'[v][q] = mine[v][q]
      BY <1>10
    <3> QED  BY <3>1, <3>3, <3>4, <1>5
  <2> QED  BY <2>2, <2>3
<1>12. BackoffIsHonoured'
  <2> SUFFICES ASSUME NEW v \in Workers, call'[v].at = "run"
               PROVE  now >= mine'[v][Candidates[v][call'[v].i]]
    BY <1>2 DEF BackoffIsHonoured, Candidate
  <2>1. v # w /\ call'[v] = call[v]
    BY <1>1, <1>3, <1>4
  <2>2. Candidate(v) \in Providers /\ now >= mine[v][Candidate(v)]
    BY <1>1, <2>1, CandidateKnown DEF IndInv, BackoffIsHonoured
  <2>3. mine'[v][Candidate(v)] = mine[v][Candidate(v)]
    BY <1>10, <2>1, <2>2
  <2> QED  BY <2>1, <2>2, <2>3 DEF Candidate
<1> QED  BY <1>8, <1>9, <1>11, <1>12 DEF IndInv

(* The steps that touch neither the clock nor the tracker.                 *)
LEMMA QuietSteps ==
  ASSUME IndInv, NEW w \in Workers,
         \/ CallLLM(w) \/ DirectReturns(w) \/ Retry(w) \/ GiveUp(w)
         \/ \E e \in Errors : RunAborts(w, e)
  PROVE  IndInv'
<1>1. /\ TypeOK /\ call[w] \in CallState /\ calls \in Nat /\ canceled \subseteq Workers
      /\ call \in [Workers -> CallState]
  BY DEF IndInv, TypeOK
<1>2. Idle \in CallState /\ Attempt(w) \in CallState /\ Idle.at # "run" /\ Attempt(w).at # "run"
  BY <1>1, Texts, CallShapes
<1>3. ASSUME NEW text \in [word : BOOLEAN, limit : BOOLEAN], Fails(w, text),
             UNCHANGED <<now, entry, canceled, calls, mine>>
      PROVE  IndInv'
  <2> DEFINE c == [call[w] EXCEPT !.at = "failed", !.err = text]
  <2>1. call' = [call EXCEPT ![w] = c]
    BY <1>1, <1>3 DEF Fails
  <2>2. c \in CallState
    BY <1>1, CallShapes
  <2>3. c.at # "run"
    BY <1>1 DEF CallState
  <2> HIDE DEF c
  <2> QED  BY <2>1, <2>2, <2>3, <1>1, <1>3, StepKeeps
<1>4. CASE CallLLM(w)
  <2>1. calls' \in Nat /\ call' = [call EXCEPT ![w] = Attempt(w)]
        /\ UNCHANGED <<now, entry, canceled, mine>>
    BY <1>1, <1>4 DEF CallLLM
  <2> QED  BY <2>1, <1>1, <1>2, StepKeeps
<1>5. CASE DirectReturns(w)
  <2>1. UNCHANGED <<now, entry, canceled, calls, mine>>
    BY <1>5 DEF DirectReturns
  <2>2. CASE call' = [call EXCEPT ![w] = Idle]
    BY <2>1, <2>2, <1>1, <1>2, StepKeeps
  <2>3. CASE \E e \in Errors : Fails(w, Text(e))
    BY <2>1, <2>3, <1>3, Texts
  <2> QED  BY <2>2, <2>3, <1>5 DEF DirectReturns
<1>6. CASE Retry(w)
  <2> DEFINE c == [Attempt(w) EXCEPT !.retry = call[w].retry + 1]
  <2>1. call' = [call EXCEPT ![w] = c] /\ UNCHANGED <<now, entry, canceled, calls, mine>>
    BY <1>6 DEF Retry
  <2>2. call[w].retry + 1 \in Nat
    BY <1>1 DEF CallState
  <2>3. c \in CallState /\ c.at # "run"
    BY <1>2, <2>2 DEF CallState
  <2> HIDE DEF c
  <2> QED  BY <2>1, <2>3, <1>1, StepKeeps
<1>7. CASE GiveUp(w)
  <2>1. call' = [call EXCEPT ![w] = Idle] /\ UNCHANGED <<now, entry, canceled, calls, mine>>
    BY <1>7 DEF GiveUp
  <2> QED  BY <2>1, <1>1, <1>2, StepKeeps
<1>8. ASSUME NEW e \in Errors, RunAborts(w, e) PROVE IndInv'
  <2>1. UNCHANGED <<now, entry, canceled, calls, mine>>
    BY <1>8 DEF RunAborts
  <2>2. Fails(w, CanceledText) \/ Fails(w, Text(e))
    BY <1>8 DEF RunAborts
  <2> QED  BY <2>1, <2>2, <1>3, Texts
<1> QED  BY <1>4, <1>5, <1>6, <1>7, <1>8

(* Initially no call is made and no provider has failed.                   *)
LEMMA InitInd == Init => IndInv
<1> SUFFICES ASSUME Init PROVE IndInv
  OBVIOUS
<1>1. now = 1 /\ calls = 0 /\ canceled = {} /\ entry = [p \in Providers |-> NoEntry]
      /\ call = [w \in Workers |-> Idle]
      /\ mine = [w \in Workers |-> [p \in Providers |-> 0]]
  BY DEF Init
<1>2. NoEntry \in CooldownEntry /\ Idle \in CallState /\ Idle.at = "idle"
  BY DEF NoEntry, CooldownEntry, Idle, CallState, NoText
<1>3. TypeOK
  BY <1>1, <1>2 DEF TypeOK
<1>4. EntryBounded(NoEntry)
  <2>1. StandardCooldown(0) = 1 /\ BillingCooldown(0) = 300
    BY StandardTable, BillingTable
  <2> QED  BY <2>1, <1>1 DEF EntryBounded, NoEntry
<1>5. BackoffBounded
  BY <1>1, <1>4 DEF BackoffBounded
<1>6. MineIsBlocked
  BY <1>1 DEF MineIsBlocked, BlockedUntil, MaxOf, NoEntry
<1>7. BackoffIsHonoured
  BY <1>1, <1>2 DEF BackoffIsHonoured
<1> QED  BY <1>3, <1>5, <1>6, <1>7 DEF IndInv

(* Every step of the callers and of the clock keeps the invariant.         *)
LEMMA NextInd == IndInv /\ [Next]_vars => IndInv'
<1> SUFFICES ASSUME IndInv, [Next]_vars PROVE IndInv'
  OBVIOUS
<1>1. CASE UNCHANGED vars
  BY <1>1 DEF vars, IndInv, TypeOK, BackoffBounded, EntryBounded, MineIsBlocked,
              BlockedUntil, BackoffIsHonoured, Candidate
<1>2. ASSUME NEW d \in Delays, Advance(d) PROVE IndInv'
  <2>1. now \in Nat /\ d \in Nat
    BY FallbackAssumption DEF IndInv, TypeOK
  <2>2. now' \in Nat /\ now =< now' /\ UNCHANGED <<entry, call, canceled, calls, mine>>
    BY <1>2, <2>1 DEF Advance
  <2>3. TypeOK'
    BY <2>2 DEF IndInv, TypeOK
  <2>4. BackoffBounded' /\ MineIsBlocked' /\ BackoffIsHonoured'
    BY <2>2, QuietKeeps
  <2> QED  BY <2>3, <2>4 DEF IndInv
<1>3. ASSUME NEW w \in Workers, Cancel(w) PROVE IndInv'
  <2>1. UNCHANGED <<now, entry, call, calls, mine>> /\ canceled' \subseteq Workers
    BY <1>3 DEF Cancel, IndInv, TypeOK
  <2>2. now' \in Nat /\ now =< now'
    BY <2>1 DEF IndInv, TypeOK
  <2>3. TypeOK'
    BY <2>1 DEF IndInv, TypeOK
  <2>4. BackoffBounded' /\ MineIsBlocked' /\ BackoffIsHonoured'
    BY <2>1, <2>2, QuietKeeps
  <2> QED  BY <2>3, <2>4 DEF IndInv
<1>4. ASSUME NEW w \in Workers, WorkerStep(w) PROVE IndInv'
  BY <1>3, <1>4, QuietSteps, CheckKeeps, RunSucceedsKeeps, RunFailsKeeps DEF WorkerStep
<1> QED  BY <1>1, <1>2, <1>4 DEF Next

(* The invariant of the fallback chain: counters bound the blocked times,  *)
(* and these cover every goroutine's own backoffs (cooldown.go:42-88,      *)
(* fallback.go:101-190).                                                   *)
THEOREM FallbackInvariant == Spec => []IndInv
<1> QED  BY InitInd, NextInd, PTL DEF Spec

(* For any number of goroutines and any interleaving of late failures: a   *)
(* goroutine that saw a provider fail waits that failure's backoff before  *)
(* it calls the provider again, or somebody has succeeded with it since.   *)
THEOREM FallbackHonoursBackoff == Spec => []BackoffIsHonoured
<1>1. IndInv => BackoffIsHonoured
  BY DEF IndInv
<1> QED  BY <1>1, FallbackInvariant, PTL

(* A provider is available a day after its last failure, and after an hour *)
(* if no billing failure is on record (cooldown.go:172-205).               *)
THEOREM FallbackRecovers == Spec => []RecoversInTime
<1>1. IndInv => RecoversInTime
  <2> SUFFICES ASSUME IndInv, NEW p \in Providers,
                      now >= entry[p].last + (IF entry[p].billing > 0 THEN 24 * 60 ELSE 60)
               PROVE  now >= MaxOf(entry[p].end, entry[p].disabled)
    BY DEF RecoversInTime, IsAvailable, BlockedUntil
  <2> DEFINE e == entry[p]
  <2>1. /\ e.errors \in Nat /\ e.billing \in Nat /\ e.end \in Nat
        /\ e.disabled \in Nat /\ e.last \in Nat /\ now \in Nat
    BY DEF IndInv, TypeOK, CooldownEntry
  <2>2. /\ e.end =< e.last + StandardCooldown(e.errors)
        /\ e.disabled =< e.last + BillingCooldown(e.billing)
        /\ e.billing = 0 => e.disabled =< e.last
    BY DEF IndInv, BackoffBounded, EntryBounded
  <2>3. StandardCooldown(e.errors) \in 1..60 /\ InDay(e.billing)
    BY <2>1, StandardGrows, BillingGrows
  <2>4. now >= e.end
    BY <2>1, <2>2, <2>3
  <2>5. now >= e.disabled
    BY <2>1, <2>2, <2>3 DEF InDay
  <2> QED  BY <2>1, <2>4, <2>5 DEF MaxOf
<1> QED  BY <1>1, FallbackInvariant, PTL
-----------------------------------------------------------------------------
(* Routing.                                                                *)

(* A set of naturals that is not empty has a least element.                *)
LEMMA LeastElement ==
  ASSUME NEW T, T \subseteq Nat, T # {}
  PROVE  \E x \in T : \A y \in T : x <= y
<1> DEFINE R == {ss \in Nat \X Nat : ss[1] < ss[2]}
<1>1. IsWellFoundedOn(R, Nat)
  BY NatLessThanWellFounded DEF OpToRel
<1> HIDE DEF R
<1>2. PICK x \in T : \A y \in T : ~(<<y, x>> \in R)
  BY <1>1, WFMin
<1>3. \A y \in T : ~(y < x)
  BY <1>2 DEF R
<1> QED
  BY <1>3

(* What can be resolved under a configuration.                             *)
Answers(c) ==
  UNION {UNION {{[in |-> in, out |-> ResolveRoute(c, in, name), runner |-> r] : r \in GetAgent(c, RouteAgent(c, in))}
                : name \in PeerNames(c, in)} : in \in Inputs}

RouteInv == cfg \in Configs /\ resolved \in Seq(Answers(cfg))

(* An answer, taken apart.                                                 *)
LEMMA AnswerParts ==
  ASSUME NEW c, NEW x \in Answers(c)
  PROVE  /\ x.in \in Inputs /\ x.out.name \in PeerNames(c, x.in)
         /\ x.out.agent = RouteAgent(c, x.in)
         /\ x.out.key = BuildAgentPeerSessionKey(c, RouteAgent(c, x.in), x.in, x.out.name)
         /\ x.runner \in GetAgent(c, RouteAgent(c, x.in))
<1>1. PICK in \in Inputs : \E name \in PeerNames(c, in) : \E r \in GetAgent(c, RouteAgent(c, in)) :
        x = [in |-> in, out |-> ResolveRoute(c, in, name), runner |-> r]
  BY DEF Answers
<1>2. PICK name \in PeerNames(c, in), r \in GetAgent(c, RouteAgent(c, in)) :
        x = [in |-> in, out |-> ResolveRoute(c, in, name), runner |-> r]
  BY <1>1
<1>3. x.in = in /\ x.out = ResolveRoute(c, in, name) /\ x.runner = r
  BY <1>2
<1> QED
  BY <1>3 DEF ResolveRoute

(* Every resolved message is one of the answers.                           *)
THEOREM RouteInvariant == RoutingSpec => []RouteInv
<1>1. RoutingInit => RouteInv
  BY DEF RoutingInit, RouteInv
<1>2. RouteInv /\ [Resolve]_routeVars => RouteInv'
  <2> SUFFICES ASSUME RouteInv, [Resolve]_routeVars PROVE RouteInv'
    OBVIOUS
  <2>1. CASE Resolve
    <3>1. PICK in \in Inputs : \E name \in PeerNames(cfg, in) : \E r \in GetAgent(cfg, ResolveRoute(cfg, in, name).agent) :
            resolved' = Append(resolved, [in |-> in, out |-> ResolveRoute(cfg, in, name), runner |-> r])
      BY <2>1 DEF Resolve
    <3>2. PICK name \in PeerNames(cfg, in) : \E r \in GetAgent(cfg, ResolveRoute(cfg, in, name).agent) :
            resolved' = Append(resolved, [in |-> in, out |-> ResolveRoute(cfg, in, name), runner |-> r])
      BY <3>1
    <3>3. ResolveRoute(cfg, in, name).agent = RouteAgent(cfg, in)
      BY DEF ResolveRoute
    <3>4. PICK r \in GetAgent(cfg, RouteAgent(cfg, in)) :
            resolved' = Append(resolved, [in |-> in, out |-> ResolveRoute(cfg, in, name), runner |-> r])
      BY <3>2, <3>3
    <3>5. [in |-> in, out |-> ResolveRoute(cfg, in, name), runner |-> r] \in Answers(cfg)
      BY DEF Answers
    <3>6. cfg' = cfg
      BY <2>1 DEF Resolve
    <3>7. resolved' \in Seq(Answers(cfg))
      <4> DEFINE S == Answers(cfg)
                 y == [in |-> in, out |-> ResolveRoute(cfg, in, name), runner |-> r]
      <4>1. resolved \in Seq(S) /\ y \in S /\ resolved' = Append(resolved, y)
        BY <3>4, <3>5 DEF RouteInv
      <4> HIDE DEF S, y
      <4>2. resolved' \in Seq(S)
        BY <4>1
      <4> QED
        BY <4>2 DEF S
    <3>8. Answers(cfg)' = Answers(cfg)
      BY <3>6
    <3> QED
      BY <3>6, <3>7, <3>8 DEF RouteInv
  <2>2. CASE UNCHANGED routeVars
    <3>1. cfg' = cfg /\ resolved' = resolved
      BY <2>2 DEF routeVars
    <3> QED
      BY <3>1 DEF RouteInv
  <2> QED
    BY <2>1, <2>2
<1> QED
  BY <1>1, <1>2, PTL DEF RoutingSpec

(* resolveLinkedPeerID and BuildAgentPeerSessionKey keep people apart: with *)
(* a per-peer scope only the same person, or people linked to one name,    *)
(* share a session, and a person with one name always gets the same, for   *)
(* every configuration and any messages.                                   *)
THEOREM RoutingSessionsApart == RoutingSpec => []SessionsApart
<1>1. RouteInv => SessionsApart
  <2> SUFFICES ASSUME RouteInv, NEW i \in DOMAIN resolved, NEW j \in DOMAIN resolved
               PROVE  LET a == resolved[i]
                          b == resolved[j]
                      IN /\ (cfg.scope \in PeerScopes /\ IsDirect(a.in) /\ IsDirect(b.in) /\ a.out.key = b.out.key) =>
                              /\ Lower[a.out.name] = Lower[b.out.name]
                              /\ cfg.scope # "per-peer" => NormalizeChannel(a.in.channel) = NormalizeChannel(b.in.channel)
                              /\ cfg.scope = "per-account-channel-peer" =>
                                   NormalizeAccountID(a.in.account) = NormalizeAccountID(b.in.account)
                         /\ (a.in = b.in /\ a.out.key # b.out.key) =>
                              \E n, m \in LinkedNames(cfg, a.in) : Lower[n] # Lower[m]
    BY DEF SessionsApart
  <2> DEFINE a == resolved[i]
             b == resolved[j]
             ai == IF a.out.name = "" THEN "" ELSE Lower[a.out.name]
             bi == IF b.out.name = "" THEN "" ELSE Lower[b.out.name]
             g == NormalizeAgentID(RouteAgent(cfg, a.in))
             h == NormalizeAgentID(RouteAgent(cfg, b.in))
  <2>1. a \in Answers(cfg) /\ b \in Answers(cfg)
    <3> DEFINE S == Answers(cfg)
    <3>1. resolved \in Seq(S)
      BY DEF RouteInv
    <3> HIDE DEF S
    <3>2. a \in S /\ b \in S
      BY <3>1
    <3> QED
      BY <3>2 DEF S
  <2>0. a.in \in Inputs /\ b.in \in Inputs
    BY <2>1, AnswerParts
  <2>2. /\ a.out.name \in PeerNames(cfg, a.in)
        /\ a.out.key = BuildAgentPeerSessionKey(cfg, RouteAgent(cfg, a.in), a.in, a.out.name)
        /\ b.out.name \in PeerNames(cfg, b.in)
        /\ b.out.key = BuildAgentPeerSessionKey(cfg, RouteAgent(cfg, b.in), b.in, b.out.name)
    BY <2>1, AnswerParts
  <2> HIDE DEF a, b
  <2>3. ASSUME cfg.scope \in PeerScopes, IsDirect(a.in), IsDirect(b.in), a.out.key = b.out.key
        PROVE  /\ Lower[a.out.name] = Lower[b.out.name]
               /\ cfg.scope # "per-peer" => NormalizeChannel(a.in.channel) = NormalizeChannel(b.in.channel)
               /\ cfg.scope = "per-account-channel-peer" =>
                    NormalizeAccountID(a.in.account) = NormalizeAccountID(b.in.account)
    <3>1. a.out.name # "" /\ b.out.name # ""
      BY <2>2, <2>3 DEF PeerNames, LinkedNames, IsDirect
    <3>2. a.out.key = DirectKey(cfg, g, a.in, ai) /\ b.out.key = DirectKey(cfg, h, b.in, bi)
      BY <2>2, <2>3 DEF BuildAgentPeerSessionKey, IsDirect
    <3>3. ai = Lower[a.out.name] /\ bi = Lower[b.out.name]
      BY <3>1
    <3>4. ai # "" /\ bi # ""
      <4>1. a.out.name \in DOMAIN Lower /\ b.out.name \in DOMAIN Lower
        BY <2>0, <2>2, ConfigAssumption DEF PeerNames, LinkedNames, RouteInv
      <4> QED
        BY <3>1, <3>3, <4>1, CanonAssumption
    <3>5. DirectKey(cfg, g, a.in, ai) = DirectKey(cfg, h, b.in, bi)
      BY <2>3, <3>2
    <3> DEFINE c == cfg
               p == a.in
               q == b.in
    <3>6. c.scope \in PeerScopes /\ DirectKey(c, g, p, ai) = DirectKey(c, h, q, bi) /\ ai # "" /\ bi # ""
      BY <2>3, <3>4, <3>5
    <3> HIDE DEF ai, bi, g, h, c, p, q
    <3>7. /\ ai = bi
          /\ c.scope # "per-peer" => NormalizeChannel(p.channel) = NormalizeChannel(q.channel)
          /\ c.scope = "per-account-channel-peer" => NormalizeAccountID(p.account) = NormalizeAccountID(q.account)
      <4> DEFINE k == DirectKey(c, g, p, ai)
                 m == DirectKey(c, h, q, bi)
                 x == NormalizeChannel(p.channel)
                 y == NormalizeChannel(q.channel)
                 v == NormalizeAccountID(p.account)
                 w == NormalizeAccountID(q.account)
      <4>1. CASE c.scope = "per-peer"
        <5>1. k = <<"agent", g, "direct", ai>>
          BY <3>6, <4>1 DEF DirectKey
        <5>2. m = <<"agent", h, "direct", bi>>
          BY <3>6, <4>1 DEF DirectKey
        <5>3. <<"agent", g, "direct", ai>> = <<"agent", h, "direct", bi>>
          BY <3>6, <5>1, <5>2
        <5> QED
          BY <4>1, <5>3
      <4>2. CASE c.scope = "per-channel-peer"
        <5>1. k = <<"agent", g, x, "direct", ai>>
          BY <3>6, <4>2 DEF DirectKey
        <5>2. m = <<"agent", h, y, "direct", bi>>
          BY <3>6, <4>2 DEF DirectKey
        <5> HIDE DEF x, y
        <5>3. <<"agent", g, x, "direct", ai>> = <<"agent", h, y, "direct", bi>>
          BY <3>6, <5>1, <5>2
        <5>4. x = y /\ ai = bi
          BY <5>3
        <5> QED
          BY <4>2, <5>4 DEF x, y
      <4>3. CASE c.scope = "per-account-channel-peer"
        <5>1. k = <<"agent", g, x, v, "direct", ai>>
          BY <3>6, <4>3 DEF DirectKey
        <5>2. m = <<"agent", h, y, w, "direct", bi>>
          BY <3>6, <4>3 DEF DirectKey
        <5> HIDE DEF x, y, v, w
        <5>3. <<"agent", g, x, v, "direct", ai>> = <<"agent", h, y, w, "direct", bi>>
          BY <3>6, <5>1, <5>2
        <5>4. x = y /\ v = w /\ ai = bi
          BY <5>3
        <5> QED
          BY <4>3, <5>4 DEF x, y, v, w
      <4> QED
        BY <3>6, <4>1, <4>2, <4>3 DEF PeerScopes
    <3> QED
      BY <3>3, <3>7 DEF c, p, q
  <2>4. ASSUME a.in = b.in, a.out.key # b.out.key
        PROVE  \E n, m \in LinkedNames(cfg, a.in) : Lower[n] # Lower[m]
    <3>1. ai # bi
      BY <2>2, <2>4 DEF BuildAgentPeerSessionKey
    <3>2. a.out.name # b.out.name
      BY <3>1
    <3>3. a.out.name \in LinkedNames(cfg, a.in) /\ b.out.name \in LinkedNames(cfg, a.in)
      BY <2>2, <2>4, <3>2 DEF PeerNames
    <3>4. a.out.name # "" /\ b.out.name # ""
      BY <3>3 DEF LinkedNames
    <3> QED
      BY <3>1, <3>3, <3>4
  <2> QED
    BY <2>3, <2>4 DEF a, b
<1> QED
  BY <1>1, RouteInvariant, PTL

(* The first of some places is one of them, and before the others.         *)
LEMMA FirstPlace ==
  ASSUME NEW S, S \subseteq Nat, S # {}
  PROVE  First(S) \in S /\ \A j \in S : First(S) <= j
<1>1. \E i \in S : \A j \in S : i <= j
  BY LeastElement
<1> QED
  BY <1>1 DEF First

(* The places of a sequence are naturals, and hold what it is a sequence   *)
(* of.                                                                     *)
LEMMA PlaceInSeq ==
  ASSUME NEW S, NEW s \in Seq(S), NEW i \in DOMAIN s
  PROVE  i \in Nat /\ s[i] \in S
OBVIOUS

(* What a configuration's lists hold.                                      *)
LEMMA ConfigParts ==
  ASSUME NEW c \in Configs
  PROVE  /\ \A i \in DOMAIN c.bindings : i \in Nat /\ c.bindings[i].agent \in AgentIDs
         /\ \A i \in DOMAIN c.agents : i \in Nat /\ c.agents[i].id \in AgentIDs
         /\ c.agents # <<>> => 1 \in DOMAIN c.agents
<1> DEFINE b == c.bindings
           a == c.agents
<1>1. b \in Seq(AgentBinding) /\ a \in Seq(AgentConfig)
  BY ConfigAssumption
<1> HIDE DEF a, b
<1>2. ASSUME NEW i \in DOMAIN b PROVE i \in Nat /\ b[i].agent \in AgentIDs
  <2>1. i \in Nat /\ b[i] \in AgentBinding
    BY <1>1, PlaceInSeq
  <2> QED
    BY <2>1 DEF AgentBinding
<1>3. ASSUME NEW i \in DOMAIN a PROVE i \in Nat /\ a[i].id \in AgentIDs
  <2>1. i \in Nat /\ a[i] \in AgentConfig
    BY <1>1, PlaceInSeq
  <2> QED
    BY <2>1 DEF AgentConfig
<1>4. a # <<>> => 1 \in DOMAIN a
  <2> DEFINE S == AgentConfig
  <2>1. a \in Seq(S)
    BY <1>1
  <2> HIDE DEF S
  <2> QED
    BY <2>1
<1> QED
  BY <1>2, <1>3, <1>4 DEF a, b

(* A binding's rank says which is the first level of the cascade that      *)
(* takes it.                                                               *)
LEMMA RankIsLevel ==
  ASSUME NEW c, NEW in, NEW j \in DOMAIN c.bindings
  PROVE  LET r == Rank(c.bindings[j], in)
         IN /\ r \in 0 .. 6
            /\ \A l \in 1 .. 6 : j \in Levels(c, in)[l] => r >= 7 - l
            /\ r > 0 => j \in Levels(c, in)[7 - r]
<1> DEFINE b == c.bindings[j]
           r == Rank(b, in)
           here == /\ b.channel # "" /\ Lower[b.channel] = Lower[in.channel]
                   /\ MatchesAccountID(b.account, NormalizeAccountID(in.account))
           p1 == IsPeer(b, in.peer)
           p2 == IsPeer(b, in.parent)
           p3 == in.guild # "" /\ b.guild = in.guild
           p4 == in.team # "" /\ b.team = in.team
           nn == NamesNobody(b)
           st == b.account = "*"
<1>1. (j \in FilterBindings(c, in)) <=> here
  BY DEF FilterBindings
<1>2. /\ (j \in Levels(c, in)[1]) <=> (here /\ p1)
      /\ (j \in Levels(c, in)[2]) <=> (here /\ p2)
      /\ (j \in Levels(c, in)[3]) <=> (here /\ p3)
      /\ (j \in Levels(c, in)[4]) <=> (here /\ p4)
      /\ (j \in Levels(c, in)[5]) <=> (here /\ ~st /\ nn)
      /\ (j \in Levels(c, in)[6]) <=> (here /\ st /\ nn)
  BY <1>1 DEF Levels, FindPeerMatch, FindGuildMatch, FindTeamMatch, FindAccountMatch, FindChannelWildcardMatch
<1>3. (Names(b, in.peer) <=> p1) /\ (Names(b, in.parent) <=> p2)
  BY DEF Names, IsPeer
<1>4. r = IF ~here THEN 0 ELSE IF p1 THEN 6 ELSE IF p2 THEN 5 ELSE IF p3 THEN 4 ELSE IF p4 THEN 3
          ELSE IF ~nn THEN 0 ELSE IF ~st THEN 2 ELSE 1
  BY <1>3 DEF Rank
<1> DEFINE L == Levels(c, in)
<1> HIDE DEF b, r, here, p1, p2, p3, p4, nn, st, L
<1>5. r \in 0 .. 6
  BY <1>4
<1>6. ASSUME NEW l \in 1 .. 6, j \in L[l] PROVE r >= 7 - l
  <2>1. l = 1 \/ l = 2 \/ l = 3 \/ l = 4 \/ l = 5 \/ l = 6
    OBVIOUS
  <2> QED
    BY <1>2, <1>4, <1>6, <2>1 DEF L
<1>7. ASSUME r > 0 PROVE j \in L[7 - r]
  <2>1. r = 1 \/ r = 2 \/ r = 3 \/ r = 4 \/ r = 5 \/ r = 6
    BY <1>5, <1>7
  <2> QED
    BY <1>2, <1>4, <2>1 DEF L
<1> QED
  BY <1>5, <1>6, <1>7 DEF L, r, b

(* The levels hold places of the configuration.                            *)
LEMMA LevelsArePlaces ==
  ASSUME NEW c, NEW in, NEW l \in 1 .. 6
  PROVE  Levels(c, in)[l] \subseteq DOMAIN c.bindings
<1>1. FilterBindings(c, in) \subseteq DOMAIN c.bindings
  BY DEF FilterBindings
<1> DEFINE D == DOMAIN c.bindings
           L == Levels(c, in)
<1>2. L[1] \subseteq D /\ L[2] \subseteq D /\ L[3] \subseteq D /\ L[4] \subseteq D /\ L[5] \subseteq D /\ L[6] \subseteq D
  BY <1>1 DEF Levels, FindPeerMatch, FindGuildMatch, FindTeamMatch, FindAccountMatch, FindChannelWildcardMatch
<1> HIDE DEF D, L
<1>3. l = 1 \/ l = 2 \/ l = 3 \/ l = 4 \/ l = 5 \/ l = 6
  OBVIOUS
<1>4. L[l] \subseteq D
  BY <1>2, <1>3
<1> QED
  BY <1>4 DEF D, L

(* The first binding of the highest rank, as RoutesToBest says it.         *)
BestBinding(c, in) ==
  LET rank(j) == Rank(c.bindings[j], in)
  IN {j \in DOMAIN c.bindings :
        /\ rank(j) > 0
        /\ \A k \in DOMAIN c.bindings : rank(k) < rank(j) \/ (rank(k) = rank(j) /\ k >= j)}

(* The levels with a match.                                                *)
LevelsHit(c, in) == {l \in 1 .. 6 : Levels(c, in)[l] # {}}

(* The cascade finds the first binding of the highest rank.                *)
LEMMA CascadeIsBest ==
  ASSUME NEW c \in Configs, NEW in
  PROVE  /\ LevelsHit(c, in) = {} => BestBinding(c, in) = {}
         /\ LevelsHit(c, in) # {} =>
              /\ First(Levels(c, in)[First(LevelsHit(c, in))]) \in DOMAIN c.bindings
              /\ BestBinding(c, in) = {First(Levels(c, in)[First(LevelsHit(c, in))])}
<1> DEFINE L == Levels(c, in)
           D == DOMAIN c.bindings
           rank(j) == Rank(c.bindings[j], in)
           H == LevelsHit(c, in)
           k == First(H)
           f == First(L[k])
<1>1. D \subseteq Nat
  BY ConfigParts
<1>2. \A j \in D : rank(j) \in 0 .. 6 /\ (\A l \in 1 .. 6 : j \in L[l] => rank(j) >= 7 - l) /\ (rank(j) > 0 => j \in L[7 - rank(j)])
  BY RankIsLevel
<1>3. \A l \in 1 .. 6 : L[l] \subseteq D
  BY LevelsArePlaces
<1>4. H = {l \in 1 .. 6 : L[l] # {}}
  BY DEF LevelsHit
<1>5. BestBinding(c, in) = {j \in D : rank(j) > 0 /\ \A i \in D : rank(i) < rank(j) \/ (rank(i) = rank(j) /\ i >= j)}
  BY DEF BestBinding
<1> HIDE DEF L, D, rank, H
<1>6. \A j \in D : rank(j) > 0 => (7 - rank(j)) \in H
  BY <1>2, <1>4
<1>7. CASE H = {}
  BY <1>5, <1>6, <1>7 DEF H
<1>8. CASE H # {}
  <2>1. k \in H /\ \A l \in H : k <= l
    BY <1>4, <1>8, FirstPlace
  <2>2. k \in 1 .. 6 /\ L[k] # {}
    BY <1>4, <2>1
  <2>3. f \in L[k] /\ \A j \in L[k] : f <= j
    BY <1>1, <1>3, <2>2, FirstPlace
  <2>4. f \in D
    BY <1>3, <2>2, <2>3
  <2> HIDE DEF k, f
  <2>5. \A j \in D : rank(j) <= 7 - k
    BY <1>2, <1>6, <2>1, <2>2
  <2>6. rank(f) = 7 - k
    BY <1>2, <2>2, <2>3, <2>4, <2>5
  <2>7. \A j \in D : rank(j) = 7 - k => j \in L[k]
    BY <1>2, <2>2
  <2>8. f \in BestBinding(c, in)
    BY <1>1, <1>2, <1>5, <2>2, <2>3, <2>4, <2>5, <2>6, <2>7
  <2>9. ASSUME NEW j \in BestBinding(c, in) PROVE j = f
    <3>1. j \in D /\ (rank(f) < rank(j) \/ (rank(f) = rank(j) /\ f >= j))
      BY <1>5, <2>4, <2>9
    <3>2. rank(j) = 7 - k /\ f >= j
      BY <1>2, <2>2, <2>4, <2>5, <2>6, <3>1
    <3>3. f <= j
      BY <2>3, <2>7, <3>1, <3>2
    <3> QED
      BY <1>1, <2>4, <3>1, <3>2, <3>3
  <2>10. f \in D /\ BestBinding(c, in) = {f}
    BY <2>4, <2>8, <2>9
  <2> QED
    BY <1>8, <2>10 DEF D, H, f, k, L
<1> QED
  BY <1>7, <1>8 DEF H

(* NormalizeAgentID yields an identifier, and nothing new the second time. *)
LEMMA NormalizeTwice ==
  ASSUME NEW id \in AgentIDs
  PROVE  /\ NormalizeAgentID(id) \in AgentIDs /\ NormalizeAgentID(id) # ""
         /\ NormalizeAgentID(NormalizeAgentID(id)) = NormalizeAgentID(id)
BY CanonAssumption DEF NormalizeAgentID, AgentIDs, DefaultAgentID

(* The default agent is one of the registry's, under its normal name.      *)
LEMMA DefaultIsRegistered ==
  ASSUME NEW c \in Configs
  PROVE  /\ ResolveDefaultAgentID(c) \in Registry(c) /\ ResolveDefaultAgentID(c) # ""
         /\ NormalizeAgentID(ResolveDefaultAgentID(c)) = ResolveDefaultAgentID(c)
<1> DEFINE named == {i \in DOMAIN c.agents : c.agents[i].default /\ c.agents[i].id # ""}
           d == ResolveDefaultAgentID(c)
<1>2. \A i \in DOMAIN c.agents : i \in Nat /\ c.agents[i].id \in AgentIDs
  BY ConfigParts
<1>3. CASE c.agents = <<>>
  BY <1>3, CanonAssumption DEF ResolveDefaultAgentID, Registry, NormalizeAgentID, DefaultAgentID
<1>4. CASE c.agents # <<>>
  <2>1. \E i \in DOMAIN c.agents : d = NormalizeAgentID(c.agents[i].id)
    <3>1. CASE named # {}
      <4>1. named \subseteq Nat
        BY <1>2
      <4>2. First(named) \in named
        BY <3>1, <4>1, FirstPlace
      <4>3. d = NormalizeAgentID(c.agents[First(named)].id)
        BY <1>4, <3>1 DEF ResolveDefaultAgentID
      <4> QED
        BY <4>2, <4>3
    <3>2. CASE named = {}
      <4>1. d = NormalizeAgentID(c.agents[1].id)
        BY <1>4, <3>2 DEF ResolveDefaultAgentID
      <4>2. 1 \in DOMAIN c.agents
        BY <1>4, ConfigParts
      <4> QED
        BY <4>1, <4>2
    <3> QED
      BY <3>1, <3>2
  <2>2. PICK i \in DOMAIN c.agents : d = NormalizeAgentID(c.agents[i].id)
    BY <2>1
  <2>3. d # "" /\ NormalizeAgentID(d) = d
    BY <1>2, <2>2, NormalizeTwice
  <2>4. d \in Registry(c)
    BY <1>4, <2>2 DEF Registry
  <2> QED
    BY <2>3, <2>4
<1> QED
  BY <1>3, <1>4

(* What pickAgentID and GetAgent make of a binding's agent.                *)
LEMMA PickedAgent ==
  ASSUME NEW c \in Configs, NEW id \in AgentIDs
  PROVE  LET picked == PickAgentID(c, id)
             known == id # "" /\ NormalizeAgentID(id) \in Registry(c)
             runner == IF known THEN NormalizeAgentID(id) ELSE ResolveDefaultAgentID(c)
         IN /\ GetAgent(c, picked) = {runner}
            /\ NormalizeAgentID(picked) = picked
            /\ c.agents # <<>> => picked = runner
<1> DEFINE d == ResolveDefaultAgentID(c)
           n == NormalizeAgentID(id)
           picked == PickAgentID(c, id)
<1>1. d \in Registry(c) /\ NormalizeAgentID(d) = d
  BY DefaultIsRegistered
<1>2. NormalizeAgentID(n) = n
  BY NormalizeTwice
<1>3. CASE c.agents = <<>>
  <2>1. Registry(c) = {DefaultAgentID} /\ d = DefaultAgentID
    BY <1>3 DEF Registry, ResolveDefaultAgentID
  <2>2. picked = IF id = "" THEN d ELSE n
    BY <1>1, <1>3 DEF PickAgentID
  <2>3. DefaultAgents(c) = {d}
    BY <2>1 DEF DefaultAgents
  <2> HIDE DEF d, n, picked
  <2> QED
    BY <1>1, <1>2, <1>3, <2>1, <2>2, <2>3 DEF GetAgent, d, n, picked
<1>4. CASE c.agents # <<>>
  <2>1. Registry(c) = {NormalizeAgentID(c.agents[i].id) : i \in DOMAIN c.agents}
    BY <1>4 DEF Registry
  <2>2. picked = IF id # "" /\ n \in Registry(c) THEN n ELSE d
    BY <1>1, <1>4, <2>1 DEF PickAgentID
  <2> HIDE DEF d, n, picked
  <2> QED
    BY <1>1, <1>2, <1>4, <2>2 DEF GetAgent, d, n, picked
<1> QED
  BY <1>3, <1>4

(* The second part of a session key is the agent it was built for.         *)
LEMMA KeyOfAgent ==
  ASSUME NEW c, NEW agent, NEW in, NEW name
  PROVE  ParseAgentSessionKey(BuildAgentPeerSessionKey(c, agent, in, name)) = NormalizeAgentID(agent)
<1> DEFINE n == NormalizeAgentID(agent)
           id == IF name = "" THEN "" ELSE Lower[name]
<1>1. DirectKey(c, n, in, id)[2] = n
  <2> HIDE DEF n, id
  <2>1. CASE id # "" /\ c.scope = "per-peer"
    <3>1. DirectKey(c, n, in, id) = <<"agent", n, "direct", id>>
      BY <2>1 DEF DirectKey
    <3> QED
      BY <3>1
  <2>2. CASE id # "" /\ c.scope = "per-channel-peer"
    <3>1. DirectKey(c, n, in, id) = <<"agent", n, NormalizeChannel(in.channel), "direct", id>>
      BY <2>2 DEF DirectKey
    <3> QED
      BY <3>1
  <2>3. CASE id # "" /\ c.scope = "per-account-channel-peer"
    <3>1. DirectKey(c, n, in, id) =
            <<"agent", n, NormalizeChannel(in.channel), NormalizeAccountID(in.account), "direct", id>>
      BY <2>3 DEF DirectKey
    <3> QED
      BY <3>1
  <2>4. CASE id = "" \/ c.scope \notin PeerScopes
    <3>1. DirectKey(c, n, in, id) = <<"agent", n, "main">>
      BY <2>4 DEF DirectKey, BuildAgentMainSessionKey, PeerScopes
    <3> QED
      BY <3>1
  <2> QED
    BY <2>1, <2>2, <2>3, <2>4 DEF PeerScopes
<1>2. CASE in.peer.kind \in {"", "direct"}
  <2>1. BuildAgentPeerSessionKey(c, agent, in, name) = DirectKey(c, n, in, id)
    BY <1>2 DEF BuildAgentPeerSessionKey
  <2> QED
    BY <1>1, <2>1 DEF ParseAgentSessionKey
<1>3. CASE ~(in.peer.kind \in {"", "direct"})
  BY <1>3 DEF BuildAgentPeerSessionKey, ParseAgentSessionKey
<1> QED
  BY <1>2, <1>3

(* ResolveRoute's cascade and GetAgent give a message to the agent of the  *)
(* first binding that names it most closely, or to the default agent, and  *)
(* file it under a key of the agent that runs it, for every list of        *)
(* bindings and agents.                                                    *)
THEOREM RoutingToBest == RoutingSpec => []RoutesToBest
<1>1. RouteInv => RoutesToBest
  <2> SUFFICES ASSUME RouteInv, NEW i \in DOMAIN resolved
               PROVE  LET in == resolved[i].in
                          named == {NormalizeAgentID(cfg.bindings[j].agent) :
                                      j \in {k \in BestBinding(cfg, in) : cfg.bindings[k].agent # ""}}
                      IN /\ resolved[i].runner \in IF named \cap Registry(cfg) # {} THEN named
                                                   ELSE {ResolveDefaultAgentID(cfg)}
                         /\ cfg.agents # <<>> => ParseAgentSessionKey(resolved[i].out.key) = resolved[i].runner
    BY DEF RoutesToBest, BestBinding
  <2> DEFINE x == resolved[i]
             in == x.in
             c == cfg
             d == ResolveDefaultAgentID(c)
             H == LevelsHit(c, in)
             f == First(Levels(c, in)[First(H)])
             named == {NormalizeAgentID(c.bindings[j].agent) : j \in {k \in BestBinding(c, in) : c.bindings[k].agent # ""}}
  <2>1. x \in Answers(c)
    <3> DEFINE S == Answers(c)
    <3>1. resolved \in Seq(S)
      BY DEF RouteInv
    <3> HIDE DEF S
    <3>2. x \in S
      BY <3>1
    <3> QED
      BY <3>2 DEF S
  <2>2. /\ x.out.key = BuildAgentPeerSessionKey(c, RouteAgent(c, in), in, x.out.name)
        /\ x.runner \in GetAgent(c, RouteAgent(c, in))
    BY <2>1, AnswerParts
  <2>3. c \in Configs
    BY DEF RouteInv
  <2>4. ParseAgentSessionKey(x.out.key) = NormalizeAgentID(RouteAgent(c, in))
    BY <2>2, KeyOfAgent
  <2>5. RouteAgent(c, in) = IF H = {} THEN PickAgentID(c, d) ELSE PickAgentID(c, c.bindings[f].agent)
    BY DEF RouteAgent, LevelsHit
  <2> HIDE DEF x, in, c
  <2>6. CASE H = {}
    <3>1. named = {}
      BY <2>3, <2>6, CascadeIsBest
    <3>2. d \in AgentIDs /\ d \in Registry(c) /\ NormalizeAgentID(d) = d
      <4>1. d \in Registry(c) /\ NormalizeAgentID(d) = d /\ d # ""
        BY <2>3, DefaultIsRegistered
      <4>3. \A j \in DOMAIN c.agents : c.agents[j].id \in AgentIDs
        BY <2>3, ConfigParts
      <4>4. \A id \in Registry(c) : id \in AgentIDs
        BY <4>3, NormalizeTwice, CanonAssumption DEF Registry, AgentIDs, DefaultAgentID
      <4> QED
        BY <4>1, <4>4
    <3>3. GetAgent(c, PickAgentID(c, d)) = {d} /\ NormalizeAgentID(PickAgentID(c, d)) = PickAgentID(c, d)
          /\ (c.agents # <<>> => PickAgentID(c, d) = d)
      BY <2>3, <3>2, PickedAgent
    <3> QED
      BY <2>2, <2>4, <2>5, <2>6, <3>1, <3>3 DEF x, in, c
  <2>7. CASE H # {}
    <3> DEFINE g == c.bindings[f].agent
    <3>1. f \in DOMAIN c.bindings /\ BestBinding(c, in) = {f}
      BY <2>3, <2>7, CascadeIsBest
    <3>2. named = IF g # "" THEN {NormalizeAgentID(g)} ELSE {}
      <4> HIDE DEF f
      <4> QED
        BY <3>1
    <3>3. g \in AgentIDs
      BY <2>3, <3>1, ConfigParts
    <3> DEFINE runner == IF g # "" /\ NormalizeAgentID(g) \in Registry(c) THEN NormalizeAgentID(g) ELSE d
    <3>4. GetAgent(c, PickAgentID(c, g)) = {runner} /\ NormalizeAgentID(PickAgentID(c, g)) = PickAgentID(c, g)
          /\ (c.agents # <<>> => PickAgentID(c, g) = runner)
      BY <2>3, <3>3, PickedAgent
    <3>5. RouteAgent(c, in) = PickAgentID(c, g)
      BY <2>5, <2>7
    <3>6. x.runner = runner /\ (c.agents # <<>> => ParseAgentSessionKey(x.out.key) = runner)
      <4> HIDE DEF g, runner
      <4> QED
        BY <2>2, <2>4, <3>4, <3>5
    <3>7. runner \in IF named \cap Registry(c) # {} THEN named ELSE {d}
      <4> HIDE DEF g, named, d
      <4> QED
        BY <3>2
    <3>8. x.runner \in (IF named \cap Registry(c) # {} THEN named ELSE {d})
      <4> HIDE DEF runner, named, d
      <4> QED
        BY <3>6, <3>7
    <3> HIDE DEF runner, g
    <3>9. c.agents # <<>> => ParseAgentSessionKey(x.out.key) = x.runner
      BY <3>6
    <3> QED
      BY <3>8, <3>9 DEF x, in, c
  <2> QED
    BY <2>6, <2>7
<1> QED
  BY <1>1, RouteInvariant, PTL

-----------------------------------------------------------------------------
(* The search for skills: sequences.                                       *)

(* A set of places that holds 0, and i whenever it holds i - 1, holds all. *)
LEMMA PlacesUpTo ==
  ASSUME NEW n \in Nat, NEW S, 0 \in S, \A i \in 1 .. n : i - 1 \in S => i \in S
  PROVE  0 .. n \subseteq S
<1> DEFINE T == (0 .. n) \ S
<1>1. SUFFICES ASSUME T # {} PROVE FALSE
  OBVIOUS
<1>2. PICK x \in T : \A y \in T : x <= y
  <2>1. T \subseteq Nat
    OBVIOUS
  <2> HIDE DEF T
  <2> QED
    BY <1>1, <2>1, LeastElement
<1>3. x \in 1 .. n /\ x - 1 \in 0 .. n /\ ~(x <= x - 1)
  BY <1>2
<1>4. x - 1 \in S
  BY <1>2, <1>3
<1> QED
  BY <1>2, <1>3, <1>4

(* g is what a loop has made of a after 0, 1, ... n rounds.                *)
Loop(g, n, X, a, F) == g \in [0 .. n -> X] /\ g[0] = a /\ \A i \in 1 .. n : g[i] = F[i][g[i - 1]]

(* A loop over n things has a result after each, whatever a round does.    *)
LEMMA LoopExists ==
  ASSUME NEW n \in Nat, NEW X, NEW a \in X, NEW F \in [1 .. n -> [X -> X]]
  PROVE  \E g : Loop(g, n, X, a, F)
<1> DEFINE P(m) == \E g \in [0 .. m -> X] : g[0] = a /\ \A i \in 1 .. m : g[i] = F[i][g[i - 1]]
           S == {m \in 0 .. n : P(m)}
<1>1. 0 \in S
  <2> DEFINE g == [i \in 0 .. 0 |-> a]
  <2>1. g \in [0 .. 0 -> X] /\ g[0] = a /\ \A i \in 1 .. 0 : g[i] = F[i][g[i - 1]]
    OBVIOUS
  <2>2. P(0)
    BY <2>1
  <2> QED
    BY <2>2
<1>2. ASSUME NEW x \in 1 .. n, x - 1 \in S PROVE x \in S
  <2>1. PICK g \in [0 .. x - 1 -> X] : g[0] = a /\ \A i \in 1 .. x - 1 : g[i] = F[i][g[i - 1]]
    BY <1>2
  <2> DEFINE f == [i \in 0 .. x |-> IF i = x THEN F[x][g[x - 1]] ELSE g[i]]
  <2>2. x \in Nat /\ x - 1 \in 0 .. x - 1 /\ x # 0 /\ x - 1 # x
    OBVIOUS
  <2>3. F[x] \in [X -> X] /\ g[x - 1] \in X
    BY <2>2
  <2>4. F[x][g[x - 1]] \in X
    BY <2>3
  <2>5. \A i \in 0 .. x : i # x => i \in 0 .. x - 1 /\ g[i] \in X
    BY <2>2
  <2>6. f \in [0 .. x -> X]
    BY <2>4, <2>5
  <2>7. f[x] = F[x][g[x - 1]] /\ \A i \in 0 .. x : i # x => f[i] = g[i]
    BY <2>2
  <2> HIDE DEF f
  <2>8. f[0] = a
    BY <2>1, <2>2, <2>7
  <2>9. ASSUME NEW i \in 1 .. x PROVE f[i] = F[i][f[i - 1]]
    <3>1. i - 1 \in 0 .. x /\ i - 1 # x /\ f[i - 1] = g[i - 1]
      BY <2>2, <2>7
    <3>2. CASE i = x
      BY <2>7, <3>1, <3>2
    <3>3. CASE i # x
      <4>1. i \in 1 .. x - 1 /\ i \in 0 .. x
        BY <3>3
      <4>2. f[i] = g[i] /\ g[i] = F[i][g[i - 1]]
        BY <2>1, <2>7, <3>3, <4>1
      <4> QED
        BY <3>1, <4>2
    <3> QED
      BY <3>2, <3>3
  <2>10. P(x)
    BY <2>6, <2>8, <2>9
  <2> QED
    BY <2>10
<1> HIDE DEF S, P
<1>3. 0 .. n \subseteq S
  BY <1>1, <1>2, PlacesUpTo
<1>4. P(n)
  BY <1>3 DEF S
<1> QED
  BY <1>4 DEF P, Loop

(* What stands in a sequence, and that it stands there once.               *)
Elems(s) == {s[i] : i \in DOMAIN s}
OnceEach(s) == \A i, j \in DOMAIN s : s[i] = s[j] => i = j

(* One more element.                                                       *)
LEMMA AppendOnce ==
  ASSUME NEW Q, NEW s \in Seq(Q), NEW x \in Q
  PROVE  /\ Append(s, x) \in Seq(Q) /\ Len(Append(s, x)) = Len(s) + 1
         /\ Elems(Append(s, x)) = Elems(s) \cup {x}
         /\ OnceEach(s) /\ x \notin Elems(s) => OnceEach(Append(s, x))
<1> DEFINE t == Append(s, x)
           n == Len(s)
<1>1. n \in Nat /\ t \in Seq(Q) /\ Len(t) = n + 1 /\ DOMAIN s = 1 .. n /\ DOMAIN t = 1 .. n + 1
  OBVIOUS
<1>2. t[n + 1] = x /\ \A i \in 1 .. n : t[i] = s[i]
  OBVIOUS
<1> HIDE DEF t, n
<1>3. Elems(t) = Elems(s) \cup {x}
  <2>1. ASSUME NEW e \in Elems(t) PROVE e \in Elems(s) \cup {x}
    <3>1. PICK i \in 1 .. n + 1 : e = t[i]
      BY <1>1 DEF Elems
    <3>2. CASE i = n + 1
      BY <1>2, <3>1, <3>2
    <3>3. CASE i # n + 1
      <4>1. i \in 1 .. n
        BY <1>1, <3>3
      <4> QED
        BY <1>1, <1>2, <3>1, <4>1 DEF Elems
    <3> QED
      BY <3>2, <3>3
  <2>2. ASSUME NEW e \in Elems(s) PROVE e \in Elems(t)
    <3>1. PICK i \in 1 .. n : e = s[i]
      BY <1>1 DEF Elems
    <3>2. i \in 1 .. n + 1
      BY <1>1
    <3> QED
      BY <1>1, <1>2, <3>1, <3>2 DEF Elems
  <2>3. x \in Elems(t)
    <3>1. n + 1 \in 1 .. n + 1
      BY <1>1
    <3> QED
      BY <1>1, <1>2, <3>1 DEF Elems
  <2> QED
    BY <2>1, <2>2, <2>3
<1>4. ASSUME OnceEach(s), x \notin Elems(s) PROVE OnceEach(t)
  <2> SUFFICES ASSUME NEW i \in 1 .. n + 1, NEW j \in 1 .. n + 1, t[i] = t[j] PROVE i = j
    BY <1>1 DEF OnceEach
  <2>1. \A k \in 1 .. n : s[k] # x
    BY <1>1, <1>4 DEF Elems
  <2>2. i \in 1 .. n \/ i = n + 1
    BY <1>1
  <2>3. j \in 1 .. n \/ j = n + 1
    BY <1>1
  <2> QED
    BY <1>1, <1>2, <1>4, <2>1, <2>2, <2>3 DEF OnceEach
<1> QED
  BY <1>1, <1>3, <1>4 DEF t, n

(* A sequence in which everything stands once is as long as there are      *)
(* elements.                                                               *)
LEMMA CountOnce ==
  ASSUME NEW Q, NEW s \in Seq(Q), OnceEach(s)
  PROVE  Cardinality(Elems(s)) = Len(s)
<1> DEFINE n == Len(s)
<1>1. n \in Nat /\ DOMAIN s = 1 .. n /\ s \in [1 .. n -> Elems(s)]
  BY DEF Elems
<1>2. s \in Bijection(1 .. n, Elems(s))
  BY <1>1 DEF Bijection, Injection, IsInjective, Surjection, OnceEach, Elems
<1>3. ExistsBijection(1 .. n, Elems(s))
  BY <1>2 DEF ExistsBijection
<1> QED
  BY <1>1, <1>3, FS_CountingElements

(* moveToEndLocked keeps what is listed, once each.                        *)
LEMMA MoveKeeps ==
  ASSUME NEW Q, NEW s \in Seq(Q), OnceEach(s), NEW q \in Elems(s)
  PROVE  /\ MoveToEnd(s, q) \in Seq(Q) /\ OnceEach(MoveToEnd(s, q))
         /\ Elems(MoveToEnd(s, q)) = Elems(s) /\ Len(MoveToEnd(s, q)) = Len(s)
<1> DEFINE n == Len(s)
           P(i) == s[i] = q /\ \A j \in 1 .. i - 1 : s[j] # q
           k == CHOOSE i \in DOMAIN s : P(i)
           t == [i \in 1 .. n |-> IF i < k THEN s[i] ELSE IF i < n THEN s[i + 1] ELSE q]
<1>1. n \in Nat /\ DOMAIN s = 1 .. n /\ \A i \in 1 .. n : s[i] \in Q
  OBVIOUS
<1>2. PICK p \in 1 .. n : s[p] = q
  BY <1>1 DEF Elems
<1>3. k \in 1 .. n /\ s[k] = q
  <2>1. P(p)
    BY <1>1, <1>2 DEF OnceEach
  <2> HIDE DEF P
  <2>2. k \in DOMAIN s /\ P(k)
    BY <1>1, <1>2, <2>1
  <2> QED
    BY <1>1, <2>2 DEF P
<1>4. MoveToEnd(s, q) = t
  BY <1>1, <1>2 DEF MoveToEnd
<1> HIDE DEF k
<1>5. q \in Q
  BY <1>1, <1>2
<1>6. \A i \in 1 .. n : t[i] \in Q
  BY <1>1, <1>5
<1>7. t \in Seq(Q) /\ Len(t) = n /\ DOMAIN t = 1 .. n
  BY <1>1, <1>6
<1>8. \A i \in 1 .. n : /\ i < k => t[i] = s[i]
                        /\ k <= i /\ i < n => t[i] = s[i + 1] /\ i + 1 \in 1 .. n
                        /\ i = n => t[i] = q
  <2> SUFFICES ASSUME NEW i \in 1 .. n
               PROVE  /\ i < k => t[i] = s[i]
                      /\ k <= i /\ i < n => t[i] = s[i + 1] /\ i + 1 \in 1 .. n
                      /\ i = n => t[i] = q
    OBVIOUS
  <2>1. t[i] = IF i < k THEN s[i] ELSE IF i < n THEN s[i + 1] ELSE q
    OBVIOUS
  <2>2. i \in Nat /\ k \in Nat /\ n \in Nat /\ k <= n
    BY <1>1, <1>3
  <2> HIDE DEF t, n
  <2> QED
    BY <2>1, <2>2
<1> HIDE DEF t, n
<1>9. OnceEach(t)
  <2> DEFINE src(i) == IF i = n THEN k ELSE IF i < k THEN i ELSE i + 1
  <2>1. \A i \in 1 .. n : src(i) \in 1 .. n /\ t[i] = s[src(i)]
    BY <1>1, <1>3, <1>8
  <2>2. \A i, j \in 1 .. n : src(i) = src(j) => i = j
    BY <1>1, <1>3
  <2> HIDE DEF src
  <2> QED
    BY <1>1, <1>7, <2>1, <2>2 DEF OnceEach
<1>10. Elems(t) = Elems(s)
  <2>1. ASSUME NEW e \in Elems(t) PROVE e \in Elems(s)
    <3>1. PICK i \in 1 .. n : e = t[i]
      BY <1>7 DEF Elems
    <3>2. e = s[i] \/ (e = s[i + 1] /\ i + 1 \in 1 .. n) \/ e = q
      BY <1>1, <1>3, <1>8, <3>1
    <3> QED
      BY <1>1, <3>1, <3>2 DEF Elems
  <2>2. ASSUME NEW e \in Elems(s) PROVE e \in Elems(t)
    <3>1. PICK i \in 1 .. n : e = s[i]
      BY <1>1 DEF Elems
    <3>2. n \in 1 .. n
      BY <1>1, <3>1
    <3>3. CASE i = k
      BY <1>3, <1>7, <1>8, <3>1, <3>2, <3>3 DEF Elems
    <3>4. CASE i < k
      BY <1>7, <1>8, <3>1, <3>4 DEF Elems
    <3>5. CASE i > k
      <4>1. i - 1 \in 1 .. n /\ k <= i - 1 /\ i - 1 < n /\ (i - 1) + 1 = i
        BY <1>1, <1>3, <3>5
      <4>2. t[i - 1] = s[i]
        BY <1>8, <4>1
      <4> QED
        BY <1>7, <3>1, <4>1, <4>2 DEF Elems
    <3> QED
      BY <1>1, <1>3, <3>3, <3>4, <3>5
  <2> QED
    BY <2>1, <2>2
<1> QED
  BY <1>4, <1>7, <1>9, <1>10 DEF n

(* The tail of a sequence of things listed once.                           *)
LEMMA TailOnce ==
  ASSUME NEW Q, NEW s \in Seq(Q), OnceEach(s), NEW n \in 0 .. Len(s)
  PROVE  LET t == SubSeq(s, n + 1, Len(s))
         IN /\ t \in Seq(Q) /\ OnceEach(t) /\ Len(t) = Len(s) - n
            /\ Elems(t) = Elems(s) \ {s[i] : i \in 1 .. n}
<1> DEFINE m == Len(s)
           t == SubSeq(s, n + 1, m)
<1>1. m \in Nat /\ n \in Nat /\ n <= m /\ DOMAIN s = 1 .. m
  OBVIOUS
<1>2. t \in Seq(Q) /\ Len(t) = m - n /\ \A i \in 1 .. m - n : t[i] = s[n + i]
  <2>1. n + 1 \in 1 .. m + 1 /\ m \in 0 .. m
    BY <1>1
  <2>2. t \in Seq(Q)
    <3>1. \A i \in n + 1 .. m : s[i] \in Q
      BY <1>1
    <3> QED
      BY <1>1, <3>1, SubSeqProperties
  <2>3. Len(t) = m - n /\ \A i \in 1 .. m - n : t[i] = s[n + 1 + i - 1]
    <3>1. Len(t) = IF n + 1 <= m THEN m - (n + 1) + 1 ELSE 0
      BY <1>1, <2>1, SubSeqProperties
    <3>2. Len(t) = m - n
      <4> HIDE DEF t, m
      <4>1. m - (n + 1) + 1 = m - n /\ (~(n + 1 <= m) => m - n = 0)
        BY <1>1
      <4> QED
        BY <3>1, <4>1
    <3>3. \A i \in 1 .. m - (n + 1) + 1 : t[i] = s[n + 1 + i - 1]
      BY <1>1, <2>1, SubSeqProperties
    <3>4. m - (n + 1) + 1 = m - n
      BY <1>1
    <3> HIDE DEF t, m
    <3> QED
      BY <3>2, <3>3, <3>4
  <2>4. \A i \in 1 .. m - n : n + 1 + i - 1 = n + i
    BY <1>1
  <2> QED
    BY <2>2, <2>3, <2>4
<1>3. DOMAIN t = 1 .. m - n
  BY <1>2
<1> HIDE DEF t, m
<1>4. OnceEach(t)
  <2> SUFFICES ASSUME NEW i \in 1 .. m - n, NEW j \in 1 .. m - n, t[i] = t[j] PROVE i = j
    BY <1>3 DEF OnceEach
  <2>1. n + i \in 1 .. m /\ n + j \in 1 .. m /\ s[n + i] = s[n + j]
    BY <1>1, <1>2
  <2>2. n + i = n + j
    BY <1>1, <2>1 DEF OnceEach
  <2> QED
    BY <1>1, <2>2
<1>5. Elems(t) = Elems(s) \ {s[i] : i \in 1 .. n}
  <2>1. ASSUME NEW e \in Elems(t) PROVE e \in Elems(s) /\ \A i \in 1 .. n : e # s[i]
    <3>1. PICK j \in 1 .. m - n : e = t[j]
      BY <1>3 DEF Elems
    <3>2. n + j \in 1 .. m /\ e = s[n + j]
      BY <1>1, <1>2, <3>1
    <3>3. ASSUME NEW i \in 1 .. n PROVE e # s[i]
      <4>1. i \in 1 .. m /\ i # n + j
        BY <1>1
      <4> QED
        BY <1>1, <3>2, <4>1 DEF OnceEach
    <3> QED
      BY <1>1, <3>2, <3>3 DEF Elems
  <2>2. ASSUME NEW e \in Elems(s), \A i \in 1 .. n : e # s[i] PROVE e \in Elems(t)
    <3>1. PICK k \in 1 .. m : e = s[k]
      BY <1>1 DEF Elems
    <3>2. k - n \in 1 .. m - n /\ n + (k - n) = k
      <4>1. k \notin 1 .. n
        BY <2>2, <3>1
      <4> QED
        BY <1>1, <4>1
    <3>3. t[k - n] = e
      BY <1>2, <3>1, <3>2
    <3> QED
      BY <1>3, <3>2, <3>3 DEF Elems
  <2> QED
    BY <2>1, <2>2
<1> QED
  BY <1>2, <1>4, <1>5 DEF t, m

(* g is the order after 0, 1, ... rounds of evictExpiredLocked.            *)
Filters(g) ==
  g = [i \in 0 .. Len(order) |->
        IF i = 0 THEN <<>>
        ELSE IF Fresh(order[i]) THEN Append(g[i - 1], order[i])
        ELSE g[i - 1]]

(* evictExpiredLocked keeps the order of what has not expired.             *)
LEMMA EvictKeeps ==
  ASSUME order \in Seq(Queries), OnceEach(order), Elems(order) = DOMAIN entries
  PROVE  LET c == EvictExpired
         IN /\ c.order \in Seq(Queries) /\ OnceEach(c.order) /\ Len(c.order) <= Len(order)
            /\ DOMAIN c.entries = Elems(c.order) /\ DOMAIN c.entries \subseteq DOMAIN entries
            /\ \A q \in DOMAIN c.entries : c.entries[q] = entries[q]
<1> DEFINE n == Len(order)
           f == CHOOSE g : Filters(g)
           c == EvictExpired
<1>1. n \in Nat /\ DOMAIN order = 1 .. n /\ \A i \in 1 .. n : order[i] \in Queries
  OBVIOUS
<1>2. \E g : Filters(g)
  <2> DEFINE X == Seq(Queries)
             F == [i \in 1 .. n |-> [t \in X |-> IF Fresh(order[i]) THEN Append(t, order[i]) ELSE t]]
  <2>1. \A i \in 1 .. n : \A t \in X : Append(t, order[i]) \in X
    BY <1>1, AppendOnce
  <2>2. <<>> \in X
    OBVIOUS
  <2>3. \A i \in 1 .. n : \A t \in X : F[i][t] = IF Fresh(order[i]) THEN Append(t, order[i]) ELSE t
    OBVIOUS
  <2>4. F \in [1 .. n -> [X -> X]]
    BY <2>1
  <2> HIDE DEF X, F
  <2>5. PICK g \in [0 .. n -> X] : g[0] = <<>> /\ \A i \in 1 .. n : g[i] = F[i][g[i - 1]]
    <3> DEFINE none == <<>>
    <3>1. none \in X
      BY <2>2
    <3> HIDE DEF n, none
    <3>2. \E g : Loop(g, n, X, none, F)
      BY <1>1, <2>4, <3>1, LoopExists
    <3> QED
      BY <3>2 DEF none, Loop
  <2>6. ASSUME NEW i \in 0 .. n
        PROVE  g[i] = IF i = 0 THEN <<>> ELSE IF Fresh(order[i]) THEN Append(g[i - 1], order[i]) ELSE g[i - 1]
    <3>1. CASE i = 0
      BY <2>5, <3>1
    <3>2. CASE i # 0
      <4>1. i \in 1 .. n /\ i - 1 \in 0 .. n
        BY <1>1, <3>2
      <4>2. g[i - 1] \in X /\ g[i] = F[i][g[i - 1]]
        BY <2>5, <4>1
      <4>3. g[i] = IF Fresh(order[i]) THEN Append(g[i - 1], order[i]) ELSE g[i - 1]
        BY <2>3, <4>1, <4>2
      <4> QED
        BY <3>2, <4>3
    <3> QED
      BY <3>1, <3>2
  <2>7. g = [i \in 0 .. n |-> g[i]]
    BY <2>5
  <2>8. Filters(g)
    BY <2>6, <2>7 DEF Filters
  <2> QED
    BY <2>8
<1>3. Filters(f)
  BY <1>2
<1>4. c.order = f[n] /\ c.entries = Unexpired
  BY Zenon DEF EvictExpired, Filters
<1> HIDE DEF f
<1>5. f[0] = <<>> /\ \A i \in 1 .. n : f[i] = IF Fresh(order[i]) THEN Append(f[i - 1], order[i]) ELSE f[i - 1]
  <2>1. \A i \in 0 .. n : f[i] = IF i = 0 THEN <<>> ELSE IF Fresh(order[i]) THEN Append(f[i - 1], order[i]) ELSE f[i - 1]
    BY <1>3 DEF Filters
  <2>2. 0 \in 0 .. n /\ \A i \in 1 .. n : i \in 0 .. n /\ i # 0
    BY <1>1
  <2> QED
    BY <2>1, <2>2
<1> DEFINE Left(i) == {order[j] : j \in {k \in 1 .. i : Fresh(order[k])}}
           P(i) == f[i] \in Seq(Queries) /\ OnceEach(f[i]) /\ Elems(f[i]) = Left(i) /\ Len(f[i]) <= i
           S == {i \in 0 .. n : P(i)}
<1>6. 0 \in S
  <2>1. P(0)
    BY <1>5 DEF OnceEach, Elems
  <2> QED
    BY <1>1, <2>1
<1>7. ASSUME NEW x \in 1 .. n, x - 1 \in S PROVE x \in S
  <2>1. P(x - 1) /\ x \in Nat /\ x \in 0 .. n
    BY <1>1, <1>7
  <2>2. f[x] = IF Fresh(order[x]) THEN Append(f[x - 1], order[x]) ELSE f[x - 1]
    BY <1>5
  <2>3. 1 .. x = (1 .. x - 1) \cup {x}
    BY <2>1
  <2>4. CASE Fresh(order[x])
    <3>1. Left(x) = Left(x - 1) \cup {order[x]}
      BY <2>3, <2>4
    <3>2. order[x] \notin Left(x - 1)
      <4>1. \A j \in 1 .. x - 1 : j \in 1 .. n /\ j # x
        BY <1>1, <2>1
      <4> QED
        BY <1>1, <4>1 DEF OnceEach
    <3>3. f[x] = Append(f[x - 1], order[x]) /\ order[x] \in Queries
      BY <1>1, <2>2, <2>4
    <3> DEFINE s == f[x - 1]
               y == order[x]
               L == Left(x - 1)
               t == f[x]
    <3>4. s \in Seq(Queries) /\ OnceEach(s) /\ Elems(s) = L /\ y \notin L /\ y \in Queries /\ t = Append(s, y)
          /\ Len(s) <= x - 1
      BY <2>1, <3>2, <3>3
    <3> HIDE DEF s, y, L, t
    <3>5. t \in Seq(Queries) /\ OnceEach(t) /\ Elems(t) = L \cup {y} /\ Len(t) = Len(s) + 1
      BY <3>4, AppendOnce
    <3>6. Len(t) <= x
      BY <2>1, <3>4, <3>5
    <3>7. P(x)
      BY <3>1, <3>5, <3>6 DEF t, L, y
    <3> QED
      BY <2>1, <3>7
  <2>5. CASE ~Fresh(order[x])
    <3>1. Left(x) = Left(x - 1)
      BY <2>3, <2>5
    <3>2. f[x] = f[x - 1]
      BY <2>2, <2>5
    <3>3. Len(f[x]) <= x
      <4>1. Len(f[x - 1]) \in Nat /\ Len(f[x - 1]) <= x - 1
        BY <2>1
      <4> QED
        BY <2>1, <3>2, <4>1
    <3>4. P(x)
      BY <2>1, <3>1, <3>2, <3>3
    <3> QED
      BY <2>1, <3>4
  <2> QED
    BY <2>4, <2>5
<1>8. P(n)
  <2> HIDE DEF S, P, n
  <2>1. \A i \in 1 .. n : i - 1 \in S => i \in S
    BY <1>7
  <2>2. 0 .. n \subseteq S
    BY <1>1, <1>6, <2>1, PlacesUpTo, Zenon
  <2>3. n \in 0 .. n
    BY <1>1
  <2> QED
    BY <2>2, <2>3 DEF S
<1>9. DOMAIN Unexpired = Left(n) /\ \A q \in DOMAIN Unexpired : Unexpired[q] = entries[q]
  <2>1. DOMAIN entries = {order[j] : j \in 1 .. n} /\ Listed = DOMAIN entries
    BY <1>1 DEF Elems, Listed
  <2>2. DOMAIN Unexpired = {q \in DOMAIN entries : Fresh(q)}
    BY <2>1 DEF Unexpired
  <2>3. Left(n) = {q \in DOMAIN entries : Fresh(q)}
    BY <2>1
  <2> QED
    BY <2>2, <2>3 DEF Unexpired
<1>10. Left(n) \subseteq DOMAIN entries
  BY <1>1 DEF Elems
<1> QED
  BY <1>4, <1>8, <1>9, <1>10

(* One round of the insertion sort.                                        *)
LEMMA InsertedKeeps ==
  ASSUME NEW t \in Seq(Int), Descending(t), NEW x \in Int
  PROVE  Inserted(t, x) \in Seq(Int) /\ Descending(Inserted(t, x))
<1> DEFINE n == Len(t)
           A(k) == \A j \in k + 1 .. n : t[j] < x
           P(k) == (k = 0 \/ t[k] >= x) /\ A(k)
           k == CHOOSE i \in 0 .. n : P(i)
           u == [i \in 1 .. n + 1 |-> IF i <= k THEN t[i] ELSE IF i = k + 1 THEN x ELSE t[i - 1]]
<1>1. n \in Nat /\ \A i \in 1 .. n : t[i] \in Int
  OBVIOUS
<1>2. k \in 0 .. n /\ P(k)
  <2> DEFINE T == {i \in 0 .. n : A(i)}
  <2>1. n \in T
    BY <1>1
  <2>2. T \subseteq Nat
    BY <1>1
  <2>3. PICK m \in T : \A y \in T : m <= y
    <3> HIDE DEF T
    <3> QED
      BY <2>1, <2>2, LeastElement
  <2>4. m \in 0 .. n /\ m \in Nat /\ A(m)
    BY <1>1, <2>3
  <2>5. m = 0 \/ t[m] >= x
    <3> SUFFICES ASSUME m # 0, ~(t[m] >= x) PROVE FALSE
      OBVIOUS
    <3>1. m \in 1 .. n /\ t[m] < x
      BY <1>1, <2>4
    <3>2. A(m - 1)
      <4> SUFFICES ASSUME NEW j \in m - 1 + 1 .. n PROVE t[j] < x
        OBVIOUS
      <4>1. j = m \/ j \in m + 1 .. n
        BY <1>1, <2>4
      <4> QED
        BY <2>4, <3>1, <4>1
    <3>3. m - 1 \in T
      <4>1. m - 1 \in 0 .. n
        BY <1>1, <2>4, <3>1
      <4> QED
        BY <3>2, <4>1
    <3>4. m <= m - 1
      <4> HIDE DEF T
      <4> QED
        BY <2>3, <3>3
    <3> QED
      BY <2>4, <3>4
  <2>6. P(m)
    BY <2>4, <2>5
  <2> HIDE DEF P
  <2> QED
    BY <2>4, <2>6
<1>3. Inserted(t, x) = u
  BY DEF Inserted
<1> HIDE DEF k
<1>4. k \in Nat /\ k <= n
  BY <1>1, <1>2
<1>5. \A i \in 1 .. n + 1 :
        /\ u[i] = IF i <= k THEN t[i] ELSE IF i = k + 1 THEN x ELSE t[i - 1]
        /\ u[i] \in Int
  <2> SUFFICES ASSUME NEW i \in 1 .. n + 1
               PROVE  (IF i <= k THEN t[i] ELSE IF i = k + 1 THEN x ELSE t[i - 1]) \in Int
    OBVIOUS
  <2>1. CASE i <= k
    <3>1. i \in 1 .. n
      BY <1>1, <1>4, <2>1
    <3> QED
      BY <1>1, <2>1, <3>1
  <2>2. CASE i = k + 1
    BY <1>4, <2>2
  <2>3. CASE i > k + 1
    <3>1. i - 1 \in 1 .. n
      BY <1>1, <1>4, <2>3
    <3> QED
      BY <1>1, <1>4, <2>3, <3>1
  <2> QED
    BY <1>4, <2>1, <2>2, <2>3
<1>6. u \in Seq(Int) /\ Len(u) = n + 1
  BY <1>1, <1>5
<1> HIDE DEF u, n
<1>7. ASSUME NEW i \in 1 .. n PROVE u[i] >= u[i + 1]
  <2>1. i \in Nat /\ i + 1 \in 1 .. n + 1 /\ i \in 1 .. n + 1
    BY <1>1
  <2>2. CASE i < k
    <3>1. u[i] = t[i] /\ u[i + 1] = t[i + 1] /\ i \in 1 .. n - 1
      BY <1>1, <1>4, <1>5, <2>1, <2>2
    <3> QED
      BY <3>1 DEF Descending, n
  <2>3. CASE i = k
    <3>1. u[i] = t[i] /\ u[i + 1] = x /\ k # 0
      BY <1>1, <1>4, <1>5, <2>1, <2>3
    <3> QED
      BY <1>2, <2>3, <3>1
  <2>4. CASE i = k + 1
    <3>1. u[i] = x /\ u[i + 1] = t[i]
      BY <1>1, <1>4, <1>5, <2>1, <2>4
    <3>2. t[i] < x /\ t[i] \in Int
      BY <1>1, <1>2, <2>4
    <3> QED
      BY <3>1, <3>2
  <2>5. CASE i > k + 1
    <3>1. u[i] = t[i - 1] /\ u[i + 1] = t[i] /\ i - 1 \in 1 .. n - 1 /\ (i - 1) + 1 = i
      BY <1>1, <1>4, <1>5, <2>1, <2>5
    <3> QED
      BY <3>1 DEF Descending, n
  <2> QED
    BY <1>4, <2>1, <2>2, <2>3, <2>4, <2>5
<1>8. Descending(u)
  BY <1>1, <1>6, <1>7 DEF Descending
<1> QED
  BY <1>3, <1>6, <1>8

(* g is what sortByScoreDesc has made of 0, 1, ... results.                *)
Sorts(g, s) == g = [i \in 0 .. Len(s) |-> IF i = 0 THEN <<>> ELSE Inserted(g[i - 1], s[i])]

(* sortByScoreDesc sorts.                                                  *)
LEMMA SortKeeps ==
  ASSUME NEW s \in Seq(Int)
  PROVE  SortByScoreDesc(s) \in Seq(Int) /\ Descending(SortByScoreDesc(s))
<1> DEFINE n == Len(s)
           X == {t \in Seq(Int) : Descending(t)}
           f == CHOOSE g : Sorts(g, s)
<1>1. n \in Nat /\ \A i \in 1 .. n : s[i] \in Int
  OBVIOUS
<1>2. <<>> \in X
  BY DEF Descending
<1>3. \A i \in 1 .. n : \A t \in X : Inserted(t, s[i]) \in X
  BY <1>1, InsertedKeeps
<1> DEFINE F == [i \in 1 .. n |-> [t \in X |-> Inserted(t, s[i])]]
<1>4. F \in [1 .. n -> [X -> X]] /\ \A i \in 1 .. n : \A t \in X : F[i][t] = Inserted(t, s[i])
  BY <1>3
<1> HIDE DEF X, F
<1>5. PICK h \in [0 .. n -> X] : h[0] = <<>> /\ \A i \in 1 .. n : h[i] = F[i][h[i - 1]]
  <2> DEFINE none == <<>>
  <2>1. none \in X
    BY <1>2
  <2>2. F \in [1 .. n -> [X -> X]]
    BY <1>4
  <2> HIDE DEF n, none
  <2>3. \E h : Loop(h, n, X, none, F)
    BY <1>1, <2>1, <2>2, LoopExists
  <2> QED
    BY <2>3 DEF none, Loop
<1>6. Sorts(h, s)
  <2>1. ASSUME NEW i \in 0 .. n PROVE h[i] = IF i = 0 THEN <<>> ELSE Inserted(h[i - 1], s[i])
    <3>1. CASE i = 0
      BY <1>5, <3>1
    <3>2. CASE i # 0
      <4>1. i \in 1 .. n /\ i - 1 \in 0 .. n
        BY <1>1, <3>2
      <4>2. h[i - 1] \in X /\ h[i] = F[i][h[i - 1]]
        BY <1>5, <4>1
      <4> QED
        BY <1>4, <3>2, <4>1, <4>2
    <3> QED
      BY <3>1, <3>2
  <2>2. h = [i \in 0 .. n |-> h[i]]
    BY <1>5
  <2> QED
    BY <2>1, <2>2 DEF Sorts
<1>7. Sorts(f, s)
  BY <1>6
<1>8. SortByScoreDesc(s) = f[n]
  BY Zenon DEF SortByScoreDesc, Sorts
<1> HIDE DEF f
<1>9. f[0] = <<>> /\ \A i \in 1 .. n : f[i] = Inserted(f[i - 1], s[i])
  <2>1. \A i \in 0 .. n : f[i] = IF i = 0 THEN <<>> ELSE Inserted(f[i - 1], s[i])
    BY <1>7 DEF Sorts
  <2>2. 0 \in 0 .. n /\ \A i \in 1 .. n : i \in 0 .. n /\ i # 0
    BY <1>1
  <2> QED
    BY <2>1, <2>2
<1> DEFINE S == {i \in 0 .. n : f[i] \in X}
<1>10. 0 \in S
  BY <1>1, <1>2, <1>9
<1>11. \A i \in 1 .. n : i - 1 \in S => i \in S
  BY <1>1, <1>3, <1>9
<1>12. n \in S
  <2> HIDE DEF S, n
  <2>1. 0 .. n \subseteq S
    BY <1>1, <1>10, <1>11, PlacesUpTo, Zenon
  <2>2. n \in 0 .. n
    BY <1>1
  <2> QED
    BY <2>1, <2>2
<1>13. f[n] \in X
  BY <1>12
<1> QED
  BY <1>8, <1>13 DEF X

(* What SearchAll returns is sorted.                                       *)
LEMMA BestSorted ==
  ASSUME NEW s \in Seq(Int), NEW limit \in Nat
  PROVE  Best(s, limit) \in Seq(Int) /\ Descending(Best(s, limit))
<1> DEFINE t == SortByScoreDesc(s)
           m == IF Len(t) < limit THEN Len(t) ELSE limit
           b == SubSeq(t, 1, m)
<1>1. t \in Seq(Int) /\ Descending(t)
  BY SortKeeps
<1>2. Best(s, limit) = b
  BY DEF Best
<1> HIDE DEF t
<1>3. m \in Nat /\ m <= Len(t) /\ Len(t) \in Nat
  BY <1>1
<1> HIDE DEF m
<1>4. b \in Seq(Int) /\ Len(b) = m /\ \A i \in 1 .. m : b[i] = t[i]
  BY <1>1, <1>3
<1> HIDE DEF b
<1>5. Descending(b)
  <2> SUFFICES ASSUME NEW i \in 1 .. m - 1 PROVE b[i] >= b[i + 1]
    BY <1>4 DEF Descending
  <2>1. i \in 1 .. m /\ i + 1 \in 1 .. m /\ i \in 1 .. Len(t) - 1
    BY <1>3
  <2> QED
    BY <1>4, <2>1, <1>1 DEF Descending
<1> QED
  BY <1>2, <1>4, <1>5

(* A query has trigrams when it has three characters, and finitely many.   *)
LEMMA Grams ==
  ASSUME NEW q \in Seq(Nat)
  PROVE  /\ IsFiniteSet(BuildTrigrams(q))
         /\ BuildTrigrams(q) = {} <=> Len(q) < 3
<1> DEFINE I == 1 .. Len(q) - 2
           B == BuildTrigrams(q)
           f == [i \in I |-> SubSeq(q, i, i + 2)]
<1>1. Len(q) \in Nat
  OBVIOUS
<1>2. IsFiniteSet(I)
  <2>1. 1 \in Int /\ Len(q) - 2 \in Int
    BY <1>1
  <2> QED
    BY <2>1, FS_Interval
<1>3. f \in Surjection(I, B)
  BY DEF Surjection, BuildTrigrams
<1>4. IsFiniteSet(B)
  <2> HIDE DEF I, B, f
  <2> QED
    BY <1>2, <1>3, FS_Surjection
<1>5. I = {} <=> Len(q) < 3
  <2>1. CASE Len(q) < 3
    BY <1>1, <2>1
  <2>2. CASE ~(Len(q) < 3)
    <3>1. 1 \in I
      BY <1>1, <2>2
    <3> QED
      BY <2>2, <3>1
  <2> QED
    BY <2>1, <2>2
<1>6. B = {} <=> I = {}
  BY DEF BuildTrigrams
<1> QED
  BY <1>4, <1>5, <1>6

(* What Get takes for a query: similar, or both too short to compare.      *)
Alike(p, q) == \/ Similar(p, q) /\ Len(q) > 2
               \/ Len(p) < 3 /\ Len(q) < 3

(* A query is like itself, and one that is similar is like it.             *)
LEMMA SimilarAlike ==
  ASSUME NEW p \in Seq(Nat), NEW q \in Seq(Nat), p = q \/ Similar(p, q)
  PROVE  Alike(p, q)
<1> DEFINE a == BuildTrigrams(p)
           b == BuildTrigrams(q)
<1>1. /\ IsFiniteSet(a) /\ (a = {} <=> Len(p) < 3) /\ Len(p) \in Nat
      /\ IsFiniteSet(b) /\ (b = {} <=> Len(q) < 3) /\ Len(q) \in Nat
  BY Grams
<1>2. Similar(p, q) <=> IF a = {} /\ b = {} THEN TRUE ELSE Cardinality(a \cap b) * 10 >= 7 * Cardinality(a \cup b)
  BY DEF Similar, AtLeast, JaccardSimilarity
<1> HIDE DEF a, b
<1>3. CASE p = q
  <2>1. a = b
    BY <1>3 DEF a, b
  <2>2. a \cap b = a /\ a \cup b = a
    BY <2>1
  <2>3. Cardinality(a) \in Nat
    BY <1>1, FS_CardinalityType
  <2>4. Cardinality(a) * 10 >= 7 * Cardinality(a)
    BY <2>3
  <2>5. Similar(p, q)
    BY <1>2, <2>2, <2>4
  <2> QED
    BY <1>1, <1>3, <2>5 DEF Alike
<1>4. CASE Similar(p, q)
  <2>1. SUFFICES ASSUME Len(q) < 3, ~(Len(p) < 3) PROVE FALSE
    BY <1>1, <1>4 DEF Alike
  <2>2. b = {} /\ a # {}
    BY <1>1, <2>1
  <2>3. a \cap b = {} /\ a \cup b = a
    BY <2>2
  <2>4. Cardinality({}) = 0 /\ Cardinality(a) \in Nat /\ Cardinality(a) # 0
    BY <1>1, <2>2, FS_EmptySet, FS_CardinalityType
  <2>5. 0 * 10 >= 7 * Cardinality(a)
    BY <1>2, <1>4, <2>2, <2>3, <2>4
  <2> QED
    BY <2>4, <2>5
<1> QED
  BY <1>3, <1>4

(* A cache: the order lists the entries, once each, and not too many.      *)
Orderly(o, e) ==
  /\ o \in Seq(Queries) /\ OnceEach(o) /\ Elems(o) = DOMAIN e /\ Len(o) <= MaxEntries

(* Once Put has evicted the excess, there is room for one more.            *)
LEMMA ExcessFits ==
  ASSUME NEW c, c.order \in Seq(Queries), OnceEach(c.order), Elems(c.order) = DOMAIN c.entries
  PROVE  Excess(c) \in 0 .. Len(c.order) /\ Len(c.order) - Excess(c) < MaxEntries
<1> DEFINE m == Len(c.order)
           fits(n) == n = m \/ Cardinality(DOMAIN c.entries \ {c.order[i] : i \in 1 .. n}) < MaxEntries
           P(n) == fits(n) /\ \A k \in 0 .. n - 1 : ~fits(k)
           T == {n \in 0 .. m : fits(n)}
           x == CHOOSE n \in 0 .. m : P(n)
<1>1. m \in Nat /\ MaxEntries \in Nat /\ 1 <= MaxEntries
  BY SearchAssumption
<1>2. Excess(c) = x
  BY DEF Excess
<1>3. m \in T /\ T \subseteq Nat
  BY <1>1
<1>4. PICK n \in T : \A y \in T : n <= y
  <2> HIDE DEF T
  <2> QED
    BY <1>3, LeastElement
<1>5. P(n)
  <2>1. n \in Nat /\ n <= m /\ fits(n)
    BY <1>1, <1>4
  <2> HIDE DEF fits
  <2>2. ASSUME NEW k \in 0 .. n - 1, fits(k) PROVE FALSE
    <3>1. k \in 0 .. m /\ ~(n <= k)
      BY <1>1, <2>1
    <3> QED
      BY <1>4, <2>2, <3>1
  <2> QED
    BY <2>1, <2>2
<1>6. x \in 0 .. m /\ P(x)
  <2>1. n \in 0 .. m
    BY <1>4
  <2> HIDE DEF P
  <2> QED
    BY <1>5, <2>1
<1> HIDE DEF x
<1>7. x \in Nat /\ x <= m
  BY <1>1, <1>6
<1>8. CASE x = m
  BY <1>1, <1>2, <1>6, <1>7, <1>8
<1>9. CASE x # m
  <2> DEFINE o == c.order
             t == SubSeq(o, x + 1, Len(o))
             D == DOMAIN c.entries \ {o[i] : i \in 1 .. x}
  <2>1. Cardinality(D) < MaxEntries
    BY <1>6, <1>9
  <2>2. o \in Seq(Queries) /\ OnceEach(o) /\ Elems(o) = DOMAIN c.entries /\ x \in 0 .. Len(o)
    BY <1>6
  <2>3. t \in Seq(Queries) /\ OnceEach(t) /\ Len(t) = Len(o) - x /\ Elems(t) = Elems(o) \ {o[i] : i \in 1 .. x}
    <3> HIDE DEF o
    <3> QED
      BY <2>2, TailOnce
  <2>4. Elems(t) = D
    BY <2>2, <2>3
  <2>5. Cardinality(Elems(t)) = Len(t)
    <3> HIDE DEF t
    <3> QED
      BY <2>3, CountOnce
  <2>6. Len(o) - x < MaxEntries
    BY <2>1, <2>3, <2>4, <2>5
  <2> QED
    BY <1>2, <1>6, <2>6
<1> QED
  BY <1>8, <1>9

(* Put keeps the cache orderly, and its other entries.                     *)
LEMMA PutKeeps ==
  ASSUME Orderly(order, entries), NEW q \in Queries, NEW results, Put(q, results)
  PROVE  /\ Orderly(order, entries)'
         /\ \A k \in DOMAIN entries' : \/ k \in DOMAIN entries /\ entries'[k] = entries[k]
                                       \/ k = q /\ entries'[k].results = results
<1> DEFINE c == EvictExpired
           o == c.order
           e == c.entries
           n == IF q \in DOMAIN e THEN 0 ELSE Excess(c)
           gone == {o[i] : i \in 1 .. n}
<1>1. /\ o \in Seq(Queries) /\ OnceEach(o) /\ Len(o) <= Len(order)
      /\ DOMAIN e = Elems(o) /\ DOMAIN e \subseteq DOMAIN entries
      /\ \A k \in DOMAIN e : e[k] = entries[k]
  BY EvictKeeps DEF Orderly
<1>2. Len(o) \in Nat /\ Len(order) \in Nat /\ Len(order) <= MaxEntries /\ MaxEntries \in Nat
  BY <1>1, SearchAssumption DEF Orderly
<1>3. /\ entries' = [k \in (DOMAIN e \ gone) \cup {q} |->
                      IF k = q THEN [query |-> q, results |-> results, at |-> sNow] ELSE e[k]]
      /\ order' = IF q \in DOMAIN e THEN MoveToEnd(o, q) ELSE Append(SubSeq(o, n + 1, Len(o)), q)
  BY DEF Put
<1>4. q \notin DOMAIN e => Excess(c) \in 0 .. Len(o) /\ Len(o) - Excess(c) < MaxEntries
  BY <1>1, ExcessFits
<1> HIDE DEF c, o, e
<1>5. DOMAIN entries' = (DOMAIN e \ gone) \cup {q}
  BY <1>3
<1>6. ASSUME NEW k \in DOMAIN entries'
      PROVE  \/ k \in DOMAIN entries /\ entries'[k] = entries[k]
             \/ k = q /\ entries'[k].results = results
  <2>1. entries'[k] = IF k = q THEN [query |-> q, results |-> results, at |-> sNow] ELSE e[k]
    BY <1>3, <1>5
  <2>2. CASE k = q
    BY <2>1, <2>2
  <2>3. CASE k # q
    BY <1>1, <1>5, <2>1, <2>3
  <2> QED
    BY <2>2, <2>3
<1>7. CASE q \in DOMAIN e
  <2>1. order' = MoveToEnd(o, q)
    BY <1>3, <1>7
  <2>2. gone = {}
    BY <1>7
  <2>3. order' \in Seq(Queries) /\ OnceEach(order') /\ Elems(order') = Elems(o) /\ Len(order') = Len(o)
    BY <1>1, <1>7, <2>1, MoveKeeps
  <2>4. Elems(order') = DOMAIN entries'
    BY <1>1, <1>5, <1>7, <2>2, <2>3
  <2>5. Len(order') <= MaxEntries
    BY <1>1, <1>2, <2>3
  <2>6. Orderly(order, entries)'
    BY <2>3, <2>4, <2>5 DEF Orderly, OnceEach, Elems
  <2> QED
    BY <1>6, <2>6
<1>8. CASE q \notin DOMAIN e
  <2> DEFINE t == SubSeq(o, n + 1, Len(o))
  <2>1. order' = Append(t, q)
    BY <1>3, <1>8
  <2>2. n \in 0 .. Len(o) /\ Len(o) - n < MaxEntries
    BY <1>4, <1>8
  <2> HIDE DEF n
  <2>3. t \in Seq(Queries) /\ OnceEach(t) /\ Len(t) = Len(o) - n /\ Elems(t) = Elems(o) \ gone
    BY <1>1, <2>2, TailOnce
  <2> HIDE DEF t, gone
  <2>4. q \notin Elems(t)
    BY <1>1, <1>8, <2>3
  <2>5. /\ order' \in Seq(Queries) /\ Len(order') = Len(t) + 1
        /\ Elems(order') = Elems(t) \cup {q} /\ OnceEach(order')
    BY <2>1, <2>3, <2>4, AppendOnce
  <2>6. Elems(order') = DOMAIN entries'
    BY <1>1, <1>5, <2>3, <2>5
  <2>7. Len(order') <= MaxEntries
    BY <1>2, <2>2, <2>3, <2>5
  <2>8. Orderly(order, entries)'
    BY <2>5, <2>6, <2>7 DEF Orderly, OnceEach, Elems
  <2> QED
    BY <1>6, <2>8
<1> QED
  BY <1>7, <1>8

(* What an answer from the cache promises.                                 *)
AnswerOk ==
  answer.kind = "hit" => /\ Alike(answer.query, answer.from)
                         /\ answer.results # <<>> /\ answer.age < TTL
                         /\ Descending(answer.results)

(* The inductive invariant: the cache is in order, and what a call works   *)
(* with has its type.                                                      *)
SearchInv ==
  /\ Orderly(order, entries)
  /\ \A k \in DOMAIN entries : entries[k].results # <<>> /\ Descending(entries[k].results)
  /\ sPc \in [Searchers -> {"idle", "get", "search"}]
  /\ ask \in [Searchers -> [query : Queries \cup {<<>>}, limit : Limits \cup {0}]]
  /\ \A g \in Searchers : sPc[g] # "idle" => ask[g].query \in Queries /\ ask[g].limit \in Limits
  /\ merged \in [Searchers -> Seq(Int)]
  /\ AnswerOk

(* NewSearchCache returns an empty cache.                                  *)
LEMMA SearchInitInv == SearchInit => SearchInv
<1> SUFFICES ASSUME SearchInit PROVE SearchInv
  OBVIOUS
<1>1. Orderly(order, entries)
  BY SearchAssumption DEF SearchInit, Orderly, OnceEach, Elems
<1>2. ask \in [Searchers -> [query : Queries \cup {<<>>}, limit : Limits \cup {0}]]
  BY DEF SearchInit, NoAsk
<1>3. AnswerOk
  BY DEF SearchInit, NoAnswer, AnswerOk
<1> QED
  BY <1>1, <1>2, <1>3 DEF SearchInit, SearchInv

(* What an ended call leaves behind, whatever it answers.                  *)
LEMMA ReturnKeeps ==
  ASSUME SearchInv, NEW g \in Searchers, NEW kind, NEW results, NEW from, NEW age,
         Return(g, kind, results, from, age)
  PROVE  /\ (sPc \in [Searchers -> {"idle", "get", "search"}])'
         /\ (ask \in [Searchers -> [query : Queries \cup {<<>>}, limit : Limits \cup {0}]])'
         /\ (\A h \in Searchers : sPc[h] # "idle" => ask[h].query \in Queries /\ ask[h].limit \in Limits)'
         /\ (merged \in [Searchers -> Seq(Int)])'
         /\ answer' = [kind |-> kind, query |-> ask[g].query, results |-> results, from |-> from, age |-> age]
<1>1. NoAsk \in [query : Queries \cup {<<>>}, limit : Limits \cup {0}] /\ <<>> \in Seq(Int)
  BY DEF NoAsk
<1> QED
  BY <1>1 DEF SearchInv, Return

(* Each step keeps it.                                                     *)
LEMMA SearchNextInv == SearchInv /\ [SearchNext]_searchVars => SearchInv'
<1> SUFFICES ASSUME SearchInv, [SearchNext]_searchVars PROVE SearchInv'
  OBVIOUS
<1> USE DEF SearchInv
<1>1. ASSUME NEW g \in Searchers, ToolCalled(g) PROVE SearchInv'
  <2>1. PICK q \in Queries, l \in Limits : ask' = [ask EXCEPT ![g] = [query |-> q, limit |-> l]]
    BY <1>1 DEF ToolCalled
  <2>2. UNCHANGED <<entries, order, merged, answer>> /\ sPc' = [sPc EXCEPT ![g] = "get"]
    BY <1>1 DEF ToolCalled
  <2>3. Orderly(order, entries)' /\ AnswerOk'
    BY <2>2 DEF Orderly, OnceEach, Elems, AnswerOk
  <2> QED
    BY <2>1, <2>2, <2>3
<1>2. ASSUME NEW g \in Searchers, CacheHit(g) PROVE SearchInv'
  <2> DEFINE p == ask[g].query
  <2>1. PICK k \in Hits(p) :
          /\ order' = MoveToEnd(order, k)
          /\ Return(g, "hit", entries[k].results, k, sNow - entries[k].at)
    BY <1>2 DEF CacheHit
  <2>2. p \in Queries /\ UNCHANGED entries
    BY <1>2 DEF CacheHit
  <2>3. k \in DOMAIN entries /\ sNow - entries[k].at < TTL /\ (p = k \/ Similar(p, k))
    BY <2>1 DEF Hits, Fresh
  <2>4. k \in Elems(order) /\ order \in Seq(Queries) /\ OnceEach(order)
    BY <2>3 DEF Orderly
  <2>5. /\ order' \in Seq(Queries) /\ OnceEach(order')
        /\ Elems(order') = Elems(order) /\ Len(order') = Len(order)
    BY <2>1, <2>4, MoveKeeps
  <2>6. Orderly(order, entries)'
    BY <2>2, <2>5 DEF Orderly, OnceEach, Elems
  <2>7. k \in Queries
    BY <2>4 DEF Elems
  <2>8. Alike(p, k)
    BY <2>2, <2>3, <2>7, SimilarAlike, SearchAssumption
  <2>9. answer' = [kind |-> "hit", query |-> p, results |-> entries[k].results, from |-> k,
                   age |-> sNow - entries[k].at]
    BY <2>1, ReturnKeeps
  <2>10. AnswerOk'
    BY <2>3, <2>8, <2>9 DEF AnswerOk, Alike
  <2> QED
    BY <2>1, <2>2, <2>6, <2>10, ReturnKeeps
<1>3. ASSUME NEW g \in Searchers, CacheMiss(g) PROVE SearchInv'
  <2>1. UNCHANGED <<entries, order, answer>>
    BY <1>3 DEF CacheMiss
  <2>2. Orderly(order, entries)' /\ AnswerOk'
    BY <2>1 DEF Orderly, OnceEach, Elems, AnswerOk
  <2>3. <<>> \in Seq(Int)
    OBVIOUS
  <2> QED
    BY <1>3, <2>1, <2>2, <2>3 DEF CacheMiss
<1>4. ASSUME NEW g \in Searchers, SearchFails(g) PROVE SearchInv'
  <2>1. UNCHANGED <<entries, order>> /\ Return(g, "error", <<>>, <<>>, 0)
    BY <1>4 DEF SearchFails
  <2>2. Orderly(order, entries)'
    BY <2>1 DEF Orderly, OnceEach, Elems
  <2>3. answer'.kind = "error"
    BY <2>1 DEF Return
  <2>4. AnswerOk'
    BY <2>3 DEF AnswerOk
  <2> QED
    BY <2>1, <2>2, <2>4, ReturnKeeps
<1>5. ASSUME NEW g \in Searchers, SearchReturns(g) PROVE SearchInv'
  <2> DEFINE best == Best(merged[g], ask[g].limit)
  <2>1. /\ IF best = <<>> THEN UNCHANGED <<entries, order>> ELSE Put(ask[g].query, best)
        /\ Return(g, "found", best, ask[g].query, 0)
        /\ ask[g].query \in Queries /\ ask[g].limit \in Nat /\ merged[g] \in Seq(Int)
    BY <1>5, SearchAssumption DEF SearchReturns
  <2>2. Descending(best)
    BY <2>1, BestSorted
  <2> HIDE DEF best
  <2>3. answer'.kind = "found"
    BY <2>1 DEF Return
  <2>4. AnswerOk'
    BY <2>3 DEF AnswerOk
  <2>5. /\ Orderly(order, entries)'
        /\ (\A k \in DOMAIN entries : entries[k].results # <<>> /\ Descending(entries[k].results))'
    <3>1. CASE best = <<>>
      BY <2>1, <3>1 DEF Orderly, OnceEach, Elems
    <3>2. CASE best # <<>>
      <4>1. Orderly(order, entries)'
            /\ \A k \in DOMAIN entries' : \/ k \in DOMAIN entries /\ entries'[k] = entries[k]
                                          \/ k = ask[g].query /\ entries'[k].results = best
        BY <2>1, <3>2, PutKeeps
      <4> QED
        BY <2>2, <3>2, <4>1
    <3> QED
      BY <3>1, <3>2
  <2> QED
    BY <2>1, <2>4, <2>5, ReturnKeeps
<1>6. ASSUME NEW g \in Searchers, NEW r \in Registries, RegistryAnswers(g, r) PROVE SearchInv'
  <2>1. UNCHANGED <<entries, order, sPc, ask, answer>>
    BY <1>6 DEF RegistryAnswers
  <2>2. Orderly(order, entries)' /\ AnswerOk'
    BY <2>1 DEF Orderly, OnceEach, Elems, AnswerOk
  <2>3. (merged \in [Searchers -> Seq(Int)])'
    <3>1. CASE UNCHANGED merged
      BY <3>1
    <3>2. ASSUME NEW f \in Found, merged' = [merged EXCEPT ![g] = @ \o f] PROVE merged' \in [Searchers -> Seq(Int)]
      <4>1. merged[g] \in Seq(Int) /\ f \in Seq(Int)
        BY SearchAssumption
      <4>2. merged[g] \o f \in Seq(Int)
        BY <4>1
      <4> QED
        BY <3>2, <4>2
    <3> QED
      BY <1>6, <3>1, <3>2 DEF RegistryAnswers
  <2> QED
    BY <2>1, <2>2, <2>3
<1>7. CASE UNCHANGED <<entries, order, sPc, ask, merged, answer>>
  <2>1. Orderly(order, entries)' /\ AnswerOk'
    BY <1>7 DEF Orderly, OnceEach, Elems, AnswerOk
  <2> QED
    BY <1>7, <2>1
<1>8. ASSUME NEW g \in Searchers, Canceled(g) PROVE SearchInv'
  BY <1>7, <1>8 DEF Canceled
<1>9. ASSUME NEW g \in Searchers, NEW r \in Registries, TakeSlot(g, r) PROVE SearchInv'
  BY <1>7, <1>9 DEF TakeSlot
<1>10. CASE Tock
  BY <1>7, <1>10 DEF Tock
<1>11. CASE UNCHANGED searchVars
  BY <1>7, <1>11 DEF searchVars
<1> QED
  BY <1>1, <1>2, <1>3, <1>4, <1>5, <1>6, <1>8, <1>9, <1>10, <1>11 DEF SearchNext

(* However the calls of find_skills interleave, the cache's table and      *)
(* order (search_cache.go) stay in step and within the size, its results   *)
(* sorted and not empty.                                                   *)
THEOREM SearchInvariant == SearchSpec => []SearchInv
<1> QED
  BY SearchInitInv, SearchNextInv, PTL DEF SearchSpec

(* CacheConsistent holds for any number of goroutines, queries, registries *)
(* and entries: the order lists exactly the entries, and a hit returns     *)
(* fresh, sorted results of a query like the one asked.                    *)
THEOREM SearchCacheConsistent == SearchSpec => []CacheConsistent
<1>1. ASSUME SearchInv PROVE CacheConsistent
  <2>1. /\ order \in Seq(Queries) /\ OnceEach(order) /\ Elems(order) = DOMAIN entries
        /\ Len(order) <= MaxEntries
    BY <1>1 DEF SearchInv, Orderly
  <2>2. Cardinality(Elems(order)) = Len(order)
    BY <2>1, CountOnce
  <2>3. Listed = Elems(order)
    BY DEF Listed, Elems
  <2> QED
    BY <1>1, <2>1, <2>2, <2>3 DEF SearchInv, AnswerOk, Alike, CacheConsistent
<1> QED
  BY <1>1, SearchInvariant, PTL

-----------------------------------------------------------------------------
(* Splitting: sequences of characters.                                     *)

(* A bounded set of positions has a last and a first one.                  *)
LEMMA Ends ==
  ASSUME NEW n \in Nat, NEW S, S \subseteq 0 .. n, S # {}
  PROVE  /\ Max(S) \in S /\ \A y \in S : y <= Max(S)
         /\ Min(S) \in S /\ \A y \in S : Min(S) <= y
<1>1. S \subseteq Nat
  OBVIOUS
<1>2. PICK a \in S : \A y \in S : a <= y
  BY <1>1, LeastElement
<1> DEFINE T == {i \in 0 .. n : n - i \in S}
<1>3. T # {} /\ T \subseteq Nat
  <2>1. n - a \in 0 .. n /\ n - (n - a) = a
    BY <1>2
  <2>2. n - a \in T
    BY <2>1
  <2> QED
    BY <2>2
<1>4. PICK t \in T : \A y \in T : t <= y
  <2> HIDE DEF T
  <2> QED
    BY <1>3, LeastElement
<1>5. n - t \in S /\ t \in 0 .. n
  BY <1>4
<1>6. \A y \in S : n - t >= y
  <2> TAKE y \in S
  <2>1. n - y \in 0 .. n /\ n - (n - y) = y /\ y \in Int
    OBVIOUS
  <2>2. n - y \in T
    BY <2>1
  <2>3. t <= n - y
    BY <1>4, <2>2
  <2> QED
    BY <1>5, <2>1, <2>3
<1> HIDE DEF T
<1>7. Max(S) \in S /\ \A y \in S : Max(S) >= y
  BY <1>5, <1>6 DEF Max
<1>8. Min(S) \in S /\ \A y \in S : Min(S) <= y
  BY <1>2 DEF Min
<1>9. \A y \in S : y \in Int
  OBVIOUS
<1> QED
  BY <1>7, <1>8, <1>9

(* The greater and the lesser of two numbers.                              *)
LEMMA Pairs ==
  ASSUME NEW a \in Int, NEW b \in Int
  PROVE  /\ Max({a, b}) = IF a >= b THEN a ELSE b
         /\ Min({a, b}) = IF a <= b THEN a ELSE b
<1>1. Max({a, b}) \in {a, b} /\ \A y \in {a, b} : Max({a, b}) >= y
  <2>1. \E x \in {a, b} : \A y \in {a, b} : x >= y
    OBVIOUS
  <2> QED
    BY <2>1 DEF Max
<1>2. Min({a, b}) \in {a, b} /\ \A y \in {a, b} : Min({a, b}) <= y
  <2>1. \E x \in {a, b} : \A y \in {a, b} : x <= y
    OBVIOUS
  <2> QED
    BY <2>1 DEF Min
<1> QED
  BY <1>1, <1>2

(* R is an initial segment; in s a letter does not appear before the one   *)
(* that it follows in the message, unless that is in R.                    *)
Down(R) == \A x \in R : x > 1 => x - 1 \in R
NoGap(R, s) == \A i \in DOMAIN s : s[i] > 1 => (s[i] - 1 \in R \/ \E j \in 1 .. i - 1 : s[j] = s[i] - 1)

(* A part of a sequence.                                                   *)
LEMMA Part ==
  ASSUME NEW s \in Seq(Int), NEW a \in Nat, NEW b \in Nat, b <= Len(s)
  PROVE  LET t == SubSeq(s, a + 1, b)
         IN /\ t \in Seq(Int) /\ Len(t) \in Nat /\ DOMAIN t = 1 .. Len(t)
            /\ Len(t) = IF a <= b THEN b - a ELSE 0
            /\ \A i \in 1 .. Len(t) : a + i \in 1 .. Len(s) /\ a + i <= b /\ t[i] = s[a + i]
<1> DEFINE t == SubSeq(s, a + 1, b)
           m == Len(s)
<1>1. m \in Nat /\ a + 1 \in Int /\ b \in Int /\ \A i \in a + 1 .. b : i \in 1 .. m /\ s[i] \in Int
  OBVIOUS
<1>2. /\ t \in Seq(Int) /\ Len(t) = IF a + 1 <= b THEN b - (a + 1) + 1 ELSE 0
      /\ \A i \in 1 .. b - (a + 1) + 1 : t[i] = s[(a + 1) + i - 1]
  BY <1>1, SubSeqProperties
<1>3. Len(t) \in Nat /\ DOMAIN t = 1 .. Len(t)
  BY <1>2
<1> HIDE DEF t, m
<1>4. Len(t) = IF a <= b THEN b - a ELSE 0
  <2>1. b - (a + 1) + 1 = b - a /\ (a + 1 <= b => a <= b) /\ (a <= b /\ ~(a + 1 <= b) => b - a = 0)
    OBVIOUS
  <2> QED
    BY <1>2, <2>1
<1>5. ASSUME NEW i \in 1 .. Len(t) PROVE a + i \in 1 .. m /\ a + i <= b /\ t[i] = s[a + i]
  <2>1. Len(t) > 0 /\ i \in Nat /\ i >= 1 /\ i <= Len(t)
    BY <1>3
  <2>2. Len(t) = b - a
    BY <1>4, <2>1
  <2>3. i \in 1 .. b - (a + 1) + 1 /\ (a + 1) + i - 1 = a + i /\ a + i <= b /\ a + i >= 1
    BY <2>1, <2>2
  <2>4. a + i \in 1 .. m
    BY <1>1, <2>3 DEF m
  <2> QED
    BY <1>2, <2>3, <2>4
<1> QED
  BY <1>2, <1>3, <1>4, <1>5 DEF t, m

(* Its letters are letters of the sequence.                                *)
LEMMA PartLetters ==
  ASSUME NEW s \in Seq(Int), NEW a \in Nat, NEW b \in Nat, b <= Len(s)
  PROVE  Letters(SubSeq(s, a + 1, b)) = {s[i] : i \in {j \in a + 1 .. b : s[j] > 0}}
<1> DEFINE t == SubSeq(s, a + 1, b)
           L == {s[i] : i \in {j \in a + 1 .. b : s[j] > 0}}
<1>1. /\ Len(t) \in Nat /\ DOMAIN t = 1 .. Len(t) /\ Len(t) = IF a <= b THEN b - a ELSE 0
      /\ \A i \in 1 .. Len(t) : a + i <= b /\ t[i] = s[a + i]
  BY Part
<1> HIDE DEF t
<1>2. ASSUME NEW e \in Letters(t) PROVE e \in L
  <2>1. PICK i \in 1 .. Len(t) : t[i] > 0 /\ e = t[i]
    BY <1>1 DEF Letters
  <2>2. a + i \in a + 1 .. b /\ s[a + i] > 0 /\ e = s[a + i]
    BY <1>1, <2>1
  <2> QED
    BY <2>2
<1>3. ASSUME NEW e \in L PROVE e \in Letters(t)
  <2>1. PICK j \in a + 1 .. b : s[j] > 0 /\ e = s[j]
    OBVIOUS
  <2>2. j - a \in 1 .. Len(t) /\ a + (j - a) = j
    BY <1>1
  <2>3. t[j - a] = s[j]
    BY <1>1, <2>2
  <2> QED
    BY <1>1, <2>1, <2>2, <2>3 DEF Letters
<1> QED
  BY <1>2, <1>3 DEF t

(* A sequence that goes on where the part before n ended, or before that.  *)
LEMMA PartNoGap ==
  ASSUME NEW s \in Seq(Int), NEW R, NoGap(R, s), NEW a \in Nat, NEW n \in Nat, NEW b \in Nat,
         a <= n, n <= Len(s), b <= Len(s)
  PROVE  NoGap(R \cup Letters(Cut(s, n)), SubSeq(s, a + 1, b))
<1> DEFINE t == SubSeq(s, a + 1, b)
           C == Letters(Cut(s, n))
<1>1. /\ Len(t) \in Nat /\ DOMAIN t = 1 .. Len(t)
      /\ \A i \in 1 .. Len(t) : a + i \in 1 .. Len(s) /\ t[i] = s[a + i]
  BY Part
<1>2. C = {s[i] : i \in {j \in 1 .. n : s[j] > 0}}
  <2>1. Cut(s, n) = SubSeq(s, 0 + 1, n)
    BY DEF Cut
  <2>2. Letters(SubSeq(s, 0 + 1, n)) = {s[i] : i \in {j \in 0 + 1 .. n : s[j] > 0}}
    BY PartLetters
  <2> QED
    BY <2>1, <2>2
<1>3. Len(s) \in Nat /\ DOMAIN s = 1 .. Len(s) /\ \A i \in 1 .. Len(s) : s[i] \in Int
  OBVIOUS
<1> HIDE DEF t, C
<1>4. ASSUME NEW i \in 1 .. Len(t), t[i] > 1
      PROVE  t[i] - 1 \in R \cup C \/ \E j \in 1 .. i - 1 : t[j] = t[i] - 1
  <2>1. a + i \in 1 .. Len(s) /\ t[i] = s[a + i] /\ s[a + i] > 1 /\ s[a + i] \in Int
    BY <1>1, <1>3, <1>4
  <2>2. CASE s[a + i] - 1 \in R
    BY <2>1, <2>2
  <2>3. CASE s[a + i] - 1 \notin R
    <3>1. PICK j \in 1 .. (a + i) - 1 : s[j] = s[a + i] - 1
      BY <1>3, <2>1, <2>3 DEF NoGap
    <3>2. s[j] > 0
      BY <2>1, <3>1
    <3>3. CASE j <= a
      <4>1. j \in 1 .. n
        BY <3>3
      <4> QED
        BY <1>2, <2>1, <3>1, <3>2, <4>1
    <3>4. CASE j > a
      <4>1. j - a \in 1 .. i - 1 /\ j - a \in 1 .. Len(t) /\ a + (j - a) = j
        BY <1>1, <3>4
      <4>2. t[j - a] = s[j]
        BY <1>1, <4>1
      <4> QED
        BY <2>1, <3>1, <4>1, <4>2
    <3> QED
      BY <3>3, <3>4
  <2> QED
    BY <2>2, <2>3
<1> QED
  BY <1>1, <1>4 DEF NoGap, t, C

(* What is cut off continues an initial segment.                           *)
LEMMA CutDown ==
  ASSUME NEW s \in Seq(Int), NEW R, NoGap(R, s), Down(R), NEW n \in Nat, n <= Len(s)
  PROVE  Down(R \cup Letters(Cut(s, n)))
<1> DEFINE C == Letters(Cut(s, n))
<1>1. C = {s[i] : i \in {j \in 1 .. n : s[j] > 0}}
  <2>1. Cut(s, n) = SubSeq(s, 0 + 1, n)
    BY DEF Cut
  <2>2. Letters(SubSeq(s, 0 + 1, n)) = {s[i] : i \in {j \in 0 + 1 .. n : s[j] > 0}}
    BY PartLetters
  <2> QED
    BY <2>1, <2>2
<1>2. Len(s) \in Nat /\ DOMAIN s = 1 .. Len(s) /\ \A i \in 1 .. Len(s) : s[i] \in Int
  OBVIOUS
<1> HIDE DEF C
<1>3. ASSUME NEW x \in C, x > 1 PROVE x - 1 \in R \cup C
  <2>1. PICK i \in 1 .. n : s[i] > 0 /\ x = s[i]
    BY <1>1
  <2>2. i \in 1 .. Len(s) /\ s[i] \in Int
    BY <1>2
  <2>3. CASE s[i] - 1 \in R
    BY <2>1, <2>3
  <2>4. CASE s[i] - 1 \notin R
    <3>1. PICK j \in 1 .. i - 1 : s[j] = s[i] - 1
      BY <1>2, <1>3, <2>1, <2>2, <2>4 DEF NoGap
    <3>2. j \in 1 .. n /\ s[j] > 0
      BY <1>3, <2>1, <2>2, <3>1
    <3> QED
      BY <1>1, <2>1, <3>1, <3>2
  <2> QED
    BY <2>3, <2>4
<1> QED
  BY <1>3 DEF Down, C

(* Two sequences, one after the other.                                     *)
LEMMA Concatenated ==
  ASSUME NEW s \in Seq(Int), NEW t \in Seq(Int)
  PROVE  /\ s \o t \in Seq(Int) /\ Len(s \o t) = Len(s) + Len(t)
         /\ Letters(s \o t) = Letters(s) \cup Letters(t)
         /\ \A R : NoGap(R, s) /\ NoGap(R, t) => NoGap(R, s \o t)
<1> DEFINE u == s \o t
           m == Len(s)
           n == Len(t)
<1>1. /\ m \in Nat /\ n \in Nat /\ DOMAIN s = 1 .. m /\ DOMAIN t = 1 .. n
      /\ u \in Seq(Int) /\ Len(u) = m + n /\ DOMAIN u = 1 .. m + n
  OBVIOUS
<1>2. (\A i \in 1 .. m : u[i] = s[i]) /\ \A i \in 1 .. n : u[m + i] = t[i]
  OBVIOUS
<1> HIDE DEF u, m, n
<1>3. \A i \in 1 .. m + n : i \in 1 .. m \/ (i - m \in 1 .. n /\ m + (i - m) = i)
  BY <1>1
<1>4. \A i \in 1 .. n : m + i \in 1 .. m + n
  BY <1>1
<1>5. \A i \in 1 .. m : i \in 1 .. m + n
  BY <1>1
<1>6. Letters(u) = Letters(s) \cup Letters(t)
  <2>1. ASSUME NEW e \in Letters(u) PROVE e \in Letters(s) \cup Letters(t)
    <3>1. PICK i \in 1 .. m + n : u[i] > 0 /\ e = u[i]
      BY <1>1 DEF Letters
    <3>2. CASE i \in 1 .. m
      BY <1>1, <1>2, <3>1, <3>2 DEF Letters
    <3>3. CASE i - m \in 1 .. n /\ m + (i - m) = i
      <4>1. u[i] = t[i - m]
        BY <1>2, <3>3
      <4> QED
        BY <1>1, <3>1, <3>3, <4>1 DEF Letters
    <3> QED
      BY <1>3, <3>2, <3>3
  <2>2. ASSUME NEW e \in Letters(s) PROVE e \in Letters(u)
    <3>1. PICK i \in 1 .. m : s[i] > 0 /\ e = s[i]
      BY <1>1 DEF Letters
    <3> QED
      BY <1>1, <1>2, <1>5, <3>1 DEF Letters
  <2>3. ASSUME NEW e \in Letters(t) PROVE e \in Letters(u)
    <3>1. PICK i \in 1 .. n : t[i] > 0 /\ e = t[i]
      BY <1>1 DEF Letters
    <3>2. m + i \in 1 .. m + n /\ u[m + i] = e /\ u[m + i] > 0
      BY <1>2, <1>4, <3>1
    <3> QED
      BY <1>1, <3>2 DEF Letters
  <2> QED
    BY <2>1, <2>2, <2>3
<1>7. ASSUME NEW R, NoGap(R, s), NoGap(R, t), NEW i \in 1 .. m + n, u[i] > 1, u[i] - 1 \notin R
      PROVE  \E j \in 1 .. i - 1 : u[j] = u[i] - 1
  <2>1. CASE i \in 1 .. m
    <3>1. PICK j \in 1 .. i - 1 : s[j] = s[i] - 1
      BY <1>1, <1>2, <1>7, <2>1 DEF NoGap
    <3>2. j \in 1 .. m
      BY <1>1, <2>1
    <3> QED
      BY <1>2, <2>1, <3>1, <3>2
  <2>2. CASE i - m \in 1 .. n /\ m + (i - m) = i
    <3>1. u[i] = t[i - m]
      BY <1>2, <2>2
    <3>2. PICK j \in 1 .. (i - m) - 1 : t[j] = t[i - m] - 1
      BY <1>1, <1>7, <2>2, <3>1 DEF NoGap
    <3>3. j \in 1 .. n /\ m + j \in 1 .. i - 1
      BY <1>1, <2>2
    <3>4. u[m + j] = t[j]
      BY <1>2, <3>3
    <3> QED
      BY <3>1, <3>2, <3>3, <3>4
  <2> QED
    BY <1>3, <2>1, <2>2
<1>8. \A R : NoGap(R, s) /\ NoGap(R, t) => NoGap(R, u)
  BY <1>1, <1>7 DEF NoGap
<1> QED
  BY <1>1, <1>6, <1>8 DEF u, m, n

(* TrimSpace takes blanks away and nothing else.                           *)
LEMMA TrimKeeps ==
  ASSUME NEW s \in Seq(Int)
  PROVE  /\ TrimSpace(s) \in Seq(Int) /\ Letters(TrimSpace(s)) = Letters(s)
         /\ \A R : NoGap(R, s) => NoGap(R, TrimSpace(s))
<1> DEFINE m == Len(s)
           text == {i \in DOMAIN s : s[i] \notin {Newline, Space}}
           a == Min(text)
           b == Max(text)
           t == SubSeq(s, a, b)
<1>1. m \in Nat /\ DOMAIN s = 1 .. m /\ text \subseteq 0 .. m
  OBVIOUS
<1>2. \A i \in 1 .. m : s[i] \in Int /\ (s[i] > 0 => i \in text)
  BY DEF Newline, Space
<1>3. CASE text = {}
  <2>1. TrimSpace(s) = <<>>
    BY <1>3 DEF TrimSpace
  <2>2. \A i \in 1 .. m : ~(s[i] > 0)
    BY <1>2, <1>3
  <2>3. Letters(s) = {}
    BY <1>1, <2>2 DEF Letters
  <2>4. Letters(<<>>) = {} /\ \A R : NoGap(R, <<>>)
    BY DEF Letters, NoGap
  <2> QED
    BY <2>1, <2>3, <2>4
<1>4. CASE text # {}
  <2>1. TrimSpace(s) = t
    BY <1>4 DEF TrimSpace
  <2>2. a \in text /\ b \in text /\ \A y \in text : a <= y /\ y <= b
    <3> HIDE DEF text, m
    <3> QED
      BY <1>1, <1>4, Ends
  <2>3. a \in 1 .. m /\ b \in 1 .. m
    BY <1>1, <2>2
  <2> HIDE DEF a, b, text
  <2> DEFINE k == a - 1
  <2>4. k \in Nat /\ k + 1 = a /\ k <= m /\ b \in Nat /\ b <= m
    BY <1>1, <2>3
  <2> HIDE DEF k
  <2>5. t = SubSeq(s, k + 1, b)
    BY <2>4
  <2>6. \A i \in 1 .. m : s[i] > 0 => i \in k + 1 .. b
    BY <1>1, <1>2, <2>2, <2>3, <2>4
  <2>7. SubSeq(s, k + 1, b) \in Seq(Int)
    BY <2>4, Part
  <2>8. Letters(SubSeq(s, k + 1, b)) = {s[i] : i \in {j \in k + 1 .. b : s[j] > 0}}
    BY <2>4, PartLetters
  <2>9. \A i \in k + 1 .. b : i \in 1 .. m
    BY <1>1, <2>4
  <2>10. Letters(SubSeq(s, k + 1, b)) = Letters(s)
    BY <1>1, <2>6, <2>8, <2>9 DEF Letters
  <2>11. Letters(Cut(s, k)) = {}
    <3>1. Cut(s, k) = SubSeq(s, 0 + 1, k)
      BY DEF Cut
    <3>2. Letters(SubSeq(s, 0 + 1, k)) = {s[i] : i \in {j \in 0 + 1 .. k : s[j] > 0}}
      BY <2>4, PartLetters
    <3>3. \A j \in 0 + 1 .. k : j \in 1 .. m /\ j \notin k + 1 .. b
      BY <1>1, <2>4
    <3> QED
      BY <2>6, <3>1, <3>2, <3>3
  <2>12. ASSUME NEW R, NoGap(R, s) PROVE NoGap(R, SubSeq(s, k + 1, b))
    <3>1. NoGap(R \cup Letters(Cut(s, k)), SubSeq(s, k + 1, b))
      BY <2>4, <2>12, PartNoGap
    <3>2. R \cup Letters(Cut(s, k)) = R
      BY <2>11
    <3> QED
      BY <3>1, <3>2
  <2> QED
    BY <2>1, <2>5, <2>7, <2>10, <2>12
<1> QED
  BY <1>3, <1>4

(* TrimRight too.                                                          *)
LEMMA TrimRightKeeps ==
  ASSUME NEW s \in Seq(Int)
  PROVE  /\ TrimRight(s) \in Seq(Int) /\ Letters(TrimRight(s)) = Letters(s)
         /\ Len(TrimRight(s)) <= Len(s)
<1> DEFINE m == Len(s)
           text == {i \in DOMAIN s : s[i] \notin {Newline, Space}}
           b == MaxOr(text, 0)
<1>1. m \in Nat /\ DOMAIN s = 1 .. m /\ text \subseteq 0 .. m
  OBVIOUS
<1>2. \A i \in 1 .. m : s[i] \in Int /\ (s[i] > 0 => i \in text)
  BY DEF Newline, Space
<1>3. b \in 0 .. m /\ \A y \in text : y <= b
  <2>1. CASE text = {}
    BY <1>1, <2>1 DEF MaxOr
  <2>2. CASE text # {}
    <3> HIDE DEF text, m
    <3>1. Max(text) \in text /\ \A y \in text : y <= Max(text)
      BY <1>1, <2>2, Ends
    <3> QED
      BY <1>1, <2>2, <3>1 DEF MaxOr
  <2> QED
    BY <2>1, <2>2
<1>4. TrimRight(s) = SubSeq(s, 0 + 1, b)
  BY DEF TrimRight, Cut
<1> HIDE DEF b, text
<1>5. b \in Nat /\ b <= m
  BY <1>1, <1>3
<1>6. SubSeq(s, 0 + 1, b) \in Seq(Int) /\ Len(SubSeq(s, 0 + 1, b)) = IF 0 <= b THEN b - 0 ELSE 0
  BY <1>5, Part
<1>7. Letters(SubSeq(s, 0 + 1, b)) = {s[i] : i \in {j \in 0 + 1 .. b : s[j] > 0}}
  BY <1>5, PartLetters
<1>8. \A i \in 1 .. m : s[i] > 0 => i \in 0 + 1 .. b
  BY <1>1, <1>2, <1>3, <1>5
<1>9. \A i \in 0 + 1 .. b : i \in 1 .. m
  BY <1>1, <1>5
<1>10. Letters(SubSeq(s, 0 + 1, b)) = Letters(s)
  BY <1>1, <1>7, <1>8, <1>9 DEF Letters
<1>11. Len(SubSeq(s, 0 + 1, b)) <= m
  BY <1>1, <1>5, <1>6
<1> QED
  BY <1>4, <1>6, <1>10, <1>11

(* findLastNewline and findLastSpace: a position before n, or -1.          *)
LEMMA FindLastIs ==
  ASSUME NEW s, NEW n \in Nat, NEW c, NEW window \in Nat
  PROVE  FindLast(s, n, c, window) = -1 \/ FindLast(s, n, c, window) \in 0 .. n - 1
<1> DEFINE w == Max({n - window, 0})
           S == {i \in w .. n - 1 : s[i + 1] = c}
<1>1. w \in Int /\ w >= 0
  <2>1. n - window \in Int /\ 0 \in Int
    OBVIOUS
  <2>2. Max({n - window, 0}) = IF n - window >= 0 THEN n - window ELSE 0
    BY <2>1, Pairs
  <2> QED
    BY <2>2
<1>2. FindLast(s, n, c, window) = IF S = {} THEN -1 ELSE Max(S)
  BY DEF FindLast, MaxOr
<1> HIDE DEF w
<1>3. S \subseteq 0 .. n - 1 /\ S \subseteq 0 .. n
  BY <1>1
<1> HIDE DEF S
<1>4. S # {} => Max(S) \in S
  BY <1>3, Ends
<1> QED
  BY <1>2, <1>3, <1>4

(* The buffer leaves room for a fence and for some text.                   *)
LEMMA EffectiveIs == EffectiveLimit \in Nat /\ EffectiveLimit > 0 /\ EffectiveLimit <= MaxLen - 2
<1> DEFINE tenth == MaxLen \div 10
           half == MaxLen \div 2
           x == Max({tenth, MinBuffer})
           y == Min({x, half})
           z == Max({MaxLen - y, half})
<1>1. MaxLen \in Nat /\ MaxLen > 9 /\ MinBuffer \in Nat /\ MinBuffer > 1
  BY SplitAssumption
<1>2. tenth \in Int /\ half \in Int /\ half >= 2 /\ half <= MaxLen - 2
  BY <1>1
<1>3. EffectiveLimit = z
  BY DEF EffectiveLimit
<1> HIDE DEF tenth, half
<1>4. x \in Int /\ x >= 2
  <2>1. x = IF tenth >= MinBuffer THEN tenth ELSE MinBuffer
    BY <1>1, <1>2, Pairs
  <2> QED
    BY <1>1, <1>2, <2>1
<1> HIDE DEF x
<1>5. y \in Int /\ y >= 2
  <2>1. y = IF x <= half THEN x ELSE half
    BY <1>2, <1>4, Pairs
  <2> QED
    BY <1>2, <1>4, <2>1
<1> HIDE DEF y
<1>6. z = IF MaxLen - y >= half THEN MaxLen - y ELSE half
  <2>1. MaxLen - y \in Int
    BY <1>1, <1>5
  <2> QED
    BY <1>2, <2>1, Pairs
<1> HIDE DEF z
<1> QED
  BY <1>1, <1>2, <1>3, <1>5, <1>6

(* A natural split point lies before n, or there is none.                  *)
LEMMA NaturalIs ==
  ASSUME NEW s, NEW n \in Nat
  PROVE  NaturalEnd(s, n) \in Int /\ NaturalEnd(s, n) < n
<1> DEFINE nl == FindLast(s, n, Newline, NewlineWindow)
           sp == FindLast(s, n, Space, SpaceWindow)
<1>1. (nl = -1 \/ nl \in 0 .. n - 1) /\ (sp = -1 \/ sp \in 0 .. n - 1)
  BY SplitAssumption, FindLastIs
<1>2. NaturalEnd(s, n) = IF nl > 0 THEN nl ELSE sp
  BY DEF NaturalEnd
<1> HIDE DEF nl, sp
<1> QED
  BY <1>1, <1>2

(* So msgEnd is in the text and leaves room for a fence.                   *)
LEMMA MsgEndIs ==
  ASSUME NEW s
  PROVE  NaturalOrLimit(s) \in Nat /\ NaturalOrLimit(s) > 0 /\ NaturalOrLimit(s) <= MaxLen - 2
<1> DEFINE e == EffectiveLimit
           p == NaturalEnd(s, e)
<1>1. e \in Nat /\ e > 0 /\ e <= MaxLen - 2 /\ MaxLen \in Nat
  BY EffectiveIs, SplitAssumption
<1> HIDE DEF e
<1>2. p \in Int /\ p < e
  BY <1>1, NaturalIs
<1>3. NaturalOrLimit(s) = IF p > 0 THEN p ELSE e
  BY DEF NaturalOrLimit, e
<1> HIDE DEF p
<1> QED
  BY <1>1, <1>2, <1>3

(* g is what findLastUnclosedCodeBlock knows after 0, 1, ... n characters. *)
Scans(g, s, n) ==
  g = [i \in 0 .. n |-> IF i = 0 THEN [inCodeBlock |-> FALSE, lastOpenIdx |-> -1, next |-> 0]
                        ELSE Toggle(g[i - 1], s, n, i)]

(* A block is found open only where a fence fits before n.                 *)
LEMMA UnclosedIs ==
  ASSUME NEW s, NEW n \in Nat
  PROVE  LET u == FindLastUnclosedCodeBlock(s, n) IN u = -1 \/ (u \in Nat /\ u + 3 <= n)
<1> DEFINE b0 == [inCodeBlock |-> FALSE, lastOpenIdx |-> -1, next |-> 0]
           X == {b \in [inCodeBlock : BOOLEAN, lastOpenIdx : Int, next : Int] :
                   b.inCodeBlock => b.lastOpenIdx \in Nat /\ b.lastOpenIdx + 3 <= n}
           f == CHOOSE g : Scans(g, s, n)
<1>1. b0 \in X
  OBVIOUS
<1>2. ASSUME NEW i \in 1 .. n, NEW b \in X PROVE Toggle(b, s, n, i) \in X
  <2>1. i - 1 \in Nat /\ i + 2 \in Int /\ (i + 2 <= n => (i - 1) + 3 <= n)
    OBVIOUS
  <2>2. b.inCodeBlock \in BOOLEAN /\ b.lastOpenIdx \in Int /\ (b.inCodeBlock => b.lastOpenIdx \in Nat /\ b.lastOpenIdx + 3 <= n)
    BY <1>2
  <2> DEFINE c == [inCodeBlock |-> ~b.inCodeBlock, lastOpenIdx |-> IF b.inCodeBlock THEN b.lastOpenIdx ELSE i - 1, next |-> i + 2]
  <2>3. i + 2 <= n => c \in X
    BY <2>1, <2>2
  <2>4. Toggle(b, s, n, i) = IF IsFence(s, i - 1) /\ i + 2 <= n /\ b.next < i THEN c ELSE b
    BY DEF Toggle
  <2> HIDE DEF c, X
  <2> QED
    BY <1>2, <2>3, <2>4
<1> DEFINE F == [i \in 1 .. n |-> [b \in X |-> Toggle(b, s, n, i)]]
<1>3. F \in [1 .. n -> [X -> X]] /\ \A i \in 1 .. n : \A b \in X : F[i][b] = Toggle(b, s, n, i)
  <2> HIDE DEF X
  <2> QED
    BY <1>2
<1> HIDE DEF X, F, b0
<1>4. PICK h : Loop(h, n, X, b0, F)
  BY <1>1, <1>3, LoopExists
<1>5. Scans(h, s, n)
  <2>1. h \in [0 .. n -> X] /\ h[0] = b0 /\ \A i \in 1 .. n : h[i] = F[i][h[i - 1]]
    BY <1>4 DEF Loop
  <2>2. ASSUME NEW i \in 0 .. n PROVE h[i] = IF i = 0 THEN b0 ELSE Toggle(h[i - 1], s, n, i)
    <3>1. CASE i = 0
      BY <2>1, <3>1
    <3>2. CASE i # 0
      <4>1. i \in 1 .. n /\ i - 1 \in 0 .. n
        BY <3>2
      <4>2. h[i - 1] \in X /\ h[i] = F[i][h[i - 1]]
        BY <2>1, <4>1
      <4> QED
        BY <1>3, <3>2, <4>1, <4>2
    <3> QED
      BY <3>1, <3>2
  <2>3. h = [i \in 0 .. n |-> h[i]]
    BY <2>1
  <2> QED
    BY <2>2, <2>3 DEF Scans, b0
<1>6. Scans(f, s, n)
  BY <1>5
<1>7. FindLastUnclosedCodeBlock(s, n) = IF f[n].inCodeBlock THEN f[n].lastOpenIdx ELSE -1
  BY Zenon DEF FindLastUnclosedCodeBlock, Scans
<1> HIDE DEF f
<1>8. f[0] = b0 /\ \A i \in 1 .. n : f[i] = Toggle(f[i - 1], s, n, i)
  <2>1. \A i \in 0 .. n : f[i] = IF i = 0 THEN b0 ELSE Toggle(f[i - 1], s, n, i)
    BY <1>6 DEF Scans, b0
  <2>2. 0 \in 0 .. n /\ \A i \in 1 .. n : i \in 0 .. n /\ i # 0
    OBVIOUS
  <2> QED
    BY <2>1, <2>2
<1> DEFINE S == {i \in 0 .. n : f[i] \in X}
<1>9. 0 \in S
  BY <1>1, <1>8
<1>10. \A i \in 1 .. n : i - 1 \in S => i \in S
  BY <1>2, <1>8
<1>11. n \in S
  <2> HIDE DEF S
  <2>1. 0 .. n \subseteq S
    BY <1>9, <1>10, PlacesUpTo, Zenon
  <2>2. n \in 0 .. n
    OBVIOUS
  <2> QED
    BY <2>1, <2>2
<1>12. f[n] \in X
  BY <1>11
<1> QED
  BY <1>7, <1>12 DEF X

(* A split point: where it cuts, and what it repeats.                      *)
GoodPoint(p, s) ==
  /\ p.end \in Nat /\ 0 < p.end /\ p.end <= MaxLen
  /\ p.header # <<>> =>
       /\ p.end <= MaxLen - 5
       /\ \E u, h \in Nat : u <= p.end /\ h <= Len(s) /\ p.header = TrimSpace(SubSeq(s, u + 1, h))

(* Where a block is split.                                                 *)
LEMMA SplitBlockIs ==
  ASSUME NEW s \in Seq(Int), Len(s) > MaxLen, NEW msgEnd \in Nat, msgEnd <= MaxLen - 2,
         NEW u \in Nat, u + 3 <= msgEnd
  PROVE  GoodPoint(SplitBlock(s, msgEnd, u), s)
<1> DEFINE nl == {i \in u .. Len(s) - 1 : s[i + 1] = Newline}
           h == IF nl = {} THEN u + 3 ELSE Min(nl)
           header == TrimSpace(SubSeq(s, u + 1, h))
           inner == MaxLen - 5
           better == FindLast(s, inner, Newline, NewlineWindow)
           before == NaturalEnd(s, u)
           p == SplitBlock(s, msgEnd, u)
<1>1. MaxLen \in Nat /\ MaxLen > 9 /\ NewlineWindow \in Nat /\ MinInside \in Nat /\ Len(s) \in Nat
  BY SplitAssumption
<1>2. h \in Nat /\ u <= h /\ h <= Len(s)
  <2>1. CASE nl = {}
    BY <1>1, <2>1
  <2>2. CASE nl # {}
    <3>1. nl \subseteq 0 .. Len(s) /\ \A i \in nl : i \in Nat /\ u <= i /\ i <= Len(s)
      BY <1>1
    <3> HIDE DEF nl
    <3>2. Min(nl) \in nl
      BY <1>1, <2>2, <3>1, Ends
    <3> QED
      BY <2>2, <3>1, <3>2
  <2> QED
    BY <2>1, <2>2
<1>3. inner \in Nat /\ inner > 0 /\ u <= inner
  BY <1>1
<1> HIDE DEF inner
<1>4. better = -1 \/ better \in 0 .. inner - 1
  BY <1>1, <1>3, FindLastIs
<1>5. before \in Int /\ before < u
  BY NaturalIs
<1>6. p = CASE msgEnd > h + MinInside -> Inside(IF better > h THEN better ELSE inner, header)
            [] msgEnd <= h + MinInside /\ before > 0 -> Plain(before)
            [] msgEnd <= h + MinInside /\ before <= 0 /\ u > MinInside -> Plain(u)
            [] OTHER -> Inside(inner, header)
  BY DEF SplitBlock, inner
<1> HIDE DEF h, better, before, p
<1>7. ASSUME NEW e \in Nat, 0 < e, u <= e, e <= inner PROVE GoodPoint(Inside(e, header), s)
  <2>1. e <= MaxLen /\ e <= MaxLen - 5
    BY <1>1, <1>7 DEF inner
  <2>2. Inside(e, header).end = e /\ Inside(e, header).header = header
    BY DEF Inside
  <2>3. \E v, k \in Nat : v <= e /\ k <= Len(s) /\ header = TrimSpace(SubSeq(s, v + 1, k))
    BY <1>2, <1>7
  <2> HIDE DEF header
  <2> QED
    BY <1>7, <2>1, <2>2, <2>3 DEF GoodPoint
<1>8. ASSUME NEW e \in Nat, 0 < e, e <= MaxLen PROVE GoodPoint(Plain(e), s)
  BY <1>8 DEF GoodPoint, Plain
<1> HIDE DEF header
<1>9. CASE msgEnd > h + MinInside
  <2> DEFINE e == IF better > h THEN better ELSE inner
  <2>1. p = Inside(e, header)
    BY <1>1, <1>2, <1>6, <1>9
  <2>2. e \in Nat /\ 0 < e /\ u <= e /\ e <= inner
    BY <1>2, <1>3, <1>4
  <2> HIDE DEF e
  <2>3. GoodPoint(p, s)
    BY <1>7, <2>1, <2>2
  <2> QED
    BY <2>3 DEF p
<1>10. CASE msgEnd <= h + MinInside /\ before > 0
  <2>1. p = Plain(before)
    BY <1>1, <1>2, <1>5, <1>6, <1>10
  <2>2. before \in Nat /\ 0 < before /\ before <= MaxLen
    BY <1>1, <1>5, <1>10
  <2>3. GoodPoint(p, s)
    BY <1>8, <2>1, <2>2
  <2> QED
    BY <2>3 DEF p
<1>11. CASE msgEnd <= h + MinInside /\ before <= 0 /\ u > MinInside
  <2>1. p = Plain(u)
    BY <1>1, <1>2, <1>5, <1>6, <1>11
  <2>2. 0 < u /\ u <= MaxLen
    BY <1>1, <1>11
  <2>3. GoodPoint(p, s)
    BY <1>8, <2>1, <2>2
  <2> QED
    BY <2>3 DEF p
<1>12. CASE msgEnd <= h + MinInside /\ before <= 0 /\ ~(u > MinInside)
  <2>1. p = Inside(inner, header)
    BY <1>1, <1>2, <1>5, <1>6, <1>12
  <2>2. inner <= inner
    BY <1>3
  <2>3. GoodPoint(p, s)
    BY <1>3, <1>7, <2>1, <2>2
  <2> QED
    BY <2>3 DEF p
<1> QED
  BY <1>1, <1>2, <1>5, <1>9, <1>10, <1>11, <1>12

(* Where SplitMessage cuts.                                                *)
LEMMA SplitPointIs ==
  ASSUME NEW s \in Seq(Int), Len(s) > MaxLen
  PROVE  LET msgEnd == NaturalOrLimit(s)
         IN GoodPoint(SplitPoint(s, msgEnd, FindLastUnclosedCodeBlock(s, msgEnd), FindNextClosingCodeBlock(s, msgEnd)), s)
<1> DEFINE msgEnd == NaturalOrLimit(s)
           u == FindLastUnclosedCodeBlock(s, msgEnd)
           at == {i \in msgEnd .. Len(s) : IsFence(s, i)}
           closing == FindNextClosingCodeBlock(s, msgEnd)
           p == SplitPoint(s, msgEnd, u, closing)
<1>1. msgEnd \in Nat /\ msgEnd > 0 /\ msgEnd <= MaxLen - 2 /\ MaxLen \in Nat /\ Len(s) \in Nat
  BY MsgEndIs, SplitAssumption
<1> HIDE DEF msgEnd
<1>2. u = -1 \/ (u \in Nat /\ u + 3 <= msgEnd)
  BY <1>1, UnclosedIs
<1>3. closing \in Int
  <2>1. closing = IF at = {} THEN -1 ELSE Min(at) + 3
    BY DEF FindNextClosingCodeBlock
  <2>2. at \subseteq 0 .. Len(s)
    BY <1>1
  <2> HIDE DEF at
  <2>3. at # {} => Min(at) \in at
    BY <1>1, <2>2, Ends
  <2> HIDE DEF closing
  <2>4. CASE at = {}
    BY <2>1, <2>4
  <2>5. CASE at # {}
    <3> DEFINE x == Min(at)
    <3>1. x \in at /\ closing = x + 3
      BY <2>1, <2>3, <2>5
    <3> HIDE DEF x
    <3>2. x \in 0 .. Len(s)
      BY <2>2, <3>1
    <3> QED
      BY <3>1, <3>2
  <2> QED
    BY <2>4, <2>5
<1>4. p = CASE u < 0 -> Plain(msgEnd)
            [] u >= 0 /\ closing > 0 /\ closing <= MaxLen -> Plain(closing)
            [] OTHER -> SplitBlock(s, msgEnd, u)
  BY DEF SplitPoint
<1> HIDE DEF u, closing, p
<1>5. ASSUME NEW e \in Nat, 0 < e, e <= MaxLen PROVE GoodPoint(Plain(e), s)
  BY <1>5 DEF GoodPoint, Plain
<1>6. CASE u < 0
  <2>1. p = Plain(msgEnd)
    BY <1>2, <1>4, <1>6
  <2>2. msgEnd <= MaxLen
    BY <1>1
  <2>3. GoodPoint(p, s)
    BY <1>1, <1>5, <2>1, <2>2
  <2> QED
    BY <2>3 DEF p, u, closing, msgEnd
<1>7. CASE u >= 0 /\ closing > 0 /\ closing <= MaxLen
  <2>1. p = Plain(closing)
    BY <1>2, <1>4, <1>7
  <2>2. GoodPoint(p, s)
    BY <1>3, <1>5, <1>7, <2>1
  <2> QED
    BY <2>2 DEF p, u, closing, msgEnd
<1>8. CASE u >= 0 /\ ~(closing > 0 /\ closing <= MaxLen)
  <2>1. p = SplitBlock(s, msgEnd, u)
    BY <1>2, <1>4, <1>8
  <2>2. GoodPoint(p, s)
    BY <1>1, <1>2, <1>8, <2>1, SplitBlockIs
  <2> QED
    BY <2>2 DEF p, u, closing, msgEnd
<1> QED
  BY <1>2, <1>6, <1>7, <1>8

(* A finite initial segment is all numbers up to how many there are.       *)
LEMMA Segment ==
  ASSUME NEW n \in Nat, NEW R, R \subseteq 1 .. n, Down(R)
  PROVE  R = 1 .. Cardinality(R)
<1>1. CASE R = {}
  <2>1. Cardinality(R) = 0
    BY <1>1, FS_EmptySet
  <2> QED
    BY <1>1, <2>1
<1>2. CASE R # {}
  <2> DEFINE m == Max(R)
  <2>1. R \subseteq 0 .. n
    OBVIOUS
  <2>2. m \in R /\ \A y \in R : y <= m
    BY <1>2, <2>1, Ends
  <2> HIDE DEF m
  <2>3. m \in Nat /\ 1 <= m
    <3>1. m \in 1 .. n
      BY <2>2
    <3> QED
      BY <3>1
  <2> DEFINE S == {i \in 0 .. m - 1 : m - i \in R}
  <2>4. 0 \in S
    BY <2>2, <2>3
  <2>5. ASSUME NEW i \in 1 .. m - 1, i - 1 \in S PROVE i \in S
    <3>1. m - (i - 1) \in R /\ m - (i - 1) > 1 /\ (m - (i - 1)) - 1 = m - i /\ i \in 0 .. m - 1
      BY <2>3, <2>5
    <3>2. m - i \in R
      BY <3>1 DEF Down
    <3> QED
      BY <3>1, <3>2
  <2>6. 0 .. m - 1 \subseteq S
    <3>1. m - 1 \in Nat
      BY <2>3
    <3> DEFINE k == m - 1
    <3>2. \A i \in 1 .. k : i - 1 \in S => i \in S
      BY <2>5
    <3>3. k \in Nat
      BY <3>1
    <3> HIDE DEF S, k
    <3>4. 0 .. k \subseteq S
      BY <2>4, <3>2, <3>3, PlacesUpTo
    <3> QED
      BY <3>4 DEF k
  <2>7. ASSUME NEW x \in 1 .. m PROVE x \in R
    <3>1. m - x \in 0 .. m - 1 /\ m - (m - x) = x
      BY <2>3
    <3>2. m - x \in S
      BY <2>6, <3>1
    <3> QED
      BY <3>1, <3>2
  <2>8. \A x \in R : x \in 1 .. m
    BY <2>2, <2>3
  <2>9. R = 1 .. m
    BY <2>7, <2>8
  <2>10. Cardinality(1 .. m) = m
    <3>1. 1 \in Int /\ m \in Int /\ m - 1 + 1 = m /\ ~(1 > m)
      BY <2>3
    <3> QED
      BY <3>1, FS_Interval
  <2> QED
    BY <2>9, <2>10
<1> QED
  BY <1>1, <1>2

(* The characters of a text have a bound.                                  *)
LEMMA Bounded ==
  ASSUME NEW s \in Seq(Int)
  PROVE  \E n \in Nat : \A i \in 1 .. Len(s) : s[i] <= n
<1> DEFINE m == Len(s)
           P(k) == \E n \in Nat : \A i \in 1 .. k : s[i] <= n
           S == {k \in 0 .. m : P(k)}
<1>1. m \in Nat /\ \A i \in 1 .. m : s[i] \in Int
  OBVIOUS
<1>2. 0 \in S
  <2>1. \A i \in 1 .. 0 : s[i] <= 0
    OBVIOUS
  <2>2. P(0)
    BY <2>1
  <2> QED
    BY <1>1, <2>2
<1>3. ASSUME NEW k \in 1 .. m, k - 1 \in S PROVE k \in S
  <2>1. PICK n \in Nat : \A i \in 1 .. k - 1 : s[i] <= n
    BY <1>3
  <2>2. s[k] \in Int /\ k \in 0 .. m
    BY <1>1
  <2> DEFINE n2 == IF s[k] > n THEN s[k] ELSE n
  <2>3. n2 \in Nat /\ s[k] <= n2 /\ n <= n2
    BY <2>2
  <2> HIDE DEF n2
  <2>4. ASSUME NEW i \in 1 .. k PROVE s[i] <= n2
    <3>1. CASE i = k
      BY <2>3, <3>1
    <3>2. CASE i # k
      <4>1. i \in 1 .. k - 1 /\ i \in 1 .. m
        BY <1>1, <3>2
      <4>2. s[i] \in Int /\ s[i] <= n
        BY <1>1, <2>1, <4>1
      <4> QED
        BY <2>3, <4>2
    <3> QED
      BY <3>1, <3>2
  <2>5. P(k)
    BY <2>3, <2>4
  <2> QED
    BY <2>2, <2>5
<1> HIDE DEF S, P, m
<1>4. 0 .. m \subseteq S
  BY <1>1, <1>2, <1>3, PlacesUpTo
<1>5. m \in 0 .. m
  BY <1>1
<1>6. P(m)
  BY <1>4, <1>5 DEF S
<1> QED
  BY <1>6 DEF P, m

(* The inductive invariant: what was said is an initial segment, and the   *)
(* rest continues it without a gap.                                        *)
SplitInv ==
  /\ rest \in Seq(Int) /\ chunk \in Seq(Int) /\ Len(chunk) <= MaxLen
  /\ chunk = <<>> => said = {}
  /\ size \in Nat /\ said \cup Letters(rest) = 1 .. size
  /\ Down(said) /\ NoGap(said, rest)

(* A message is numbered so.                                               *)
LEMMA SplitInitInv == SplitInit => SplitInv
<1> SUFFICES ASSUME SplitInit PROVE SplitInv
  OBVIOUS
<1>1. /\ rest \in Seq(Int) /\ size = Cardinality(Letters(rest)) /\ chunk = <<>> /\ said = {} /\ MaxLen \in Nat
      /\ \A i \in DOMAIN rest : rest[i] > 1 => \E j \in 1 .. i - 1 : rest[j] = rest[i] - 1
  BY SplitAssumption DEF SplitInit
<1>2. NoGap({}, rest) /\ Down({})
  BY <1>1 DEF NoGap, Down
<1> DEFINE m == Len(rest)
           L == Letters(rest)
<1>3. m \in Nat /\ DOMAIN rest = 1 .. m /\ Cut(rest, m) = rest /\ m <= Len(rest)
  <2>1. SubSeq(rest, 1, Len(rest)) = rest
    BY <1>1
  <2> QED
    BY <1>1, <2>1 DEF Cut
<1>4. Down({} \cup Letters(Cut(rest, m)))
  <2> HIDE DEF m
  <2> QED
    BY <1>1, <1>2, <1>3, CutDown
<1>5. Down(L)
  <2>1. {} \cup Letters(Cut(rest, m)) = L
    BY <1>3
  <2> QED
    BY <1>4, <2>1
<1>6. IsFiniteSet(L) /\ L \subseteq Nat \ {0}
  <2> DEFINE I == {i \in 1 .. m : rest[i] > 0}
             f == [i \in I |-> rest[i]]
  <2>1. L = {rest[i] : i \in I}
    BY <1>3 DEF Letters
  <2>2. IsFiniteSet(1 .. m)
    BY <1>3, FS_Interval
  <2>3. IsFiniteSet(I)
    BY <2>2, FS_Subset
  <2>4. f \in Surjection(I, L)
    BY <2>1 DEF Surjection
  <2>5. IsFiniteSet(L)
    <3> HIDE DEF I, L, f
    <3> QED
      BY <2>3, <2>4, FS_Surjection
  <2>6. \A i \in I : rest[i] \in Nat \ {0}
    BY <1>1, <1>3
  <2> QED
    BY <2>1, <2>5, <2>6
<1>7. size \in Nat
  BY <1>1, <1>6, FS_CardinalityType
<1>8. PICK n \in Nat : L \subseteq 1 .. n
  <2>0. PICK n \in Nat : \A i \in 1 .. m : rest[i] <= n
    BY <1>1, Bounded
  <2>1. \A x \in L : x <= n
    BY <1>3, <2>0 DEF Letters
  <2> HIDE DEF L
  <2>2. L \subseteq 1 .. n
    BY <1>6, <2>1
  <2> QED
    BY <2>2
<1>9. L = 1 .. size
  <2> HIDE DEF L
  <2>1. L = 1 .. Cardinality(L)
    BY <1>5, <1>8, Segment
  <2> QED
    BY <1>1, <2>1 DEF L
<1>10. Len(chunk) <= MaxLen /\ chunk \in Seq(Int)
  BY <1>1
<1> QED
  BY <1>1, <1>2, <1>7, <1>9, <1>10 DEF SplitInv

(* A chunk is emitted.                                                     *)
LEMMA EmitKeeps ==
  ASSUME SplitInv, NEW c \in Seq(Int), NEW r \in Seq(Int), Emit(c, r), c # <<>>, Len(c) <= MaxLen,
         NEW n \in Nat, n <= Len(rest), Letters(c) = Letters(Cut(rest, n)),
         NoGap(said \cup Letters(Cut(rest, n)), r),
         Letters(Cut(rest, n)) \cup Letters(r) = Letters(rest)
  PROVE  SplitInv'
<1>1. chunk' = c /\ rest' = r /\ said' = said \cup Letters(c) /\ size' = size
  BY DEF Emit
<1>2. Down(said \cup Letters(Cut(rest, n)))
  BY CutDown DEF SplitInv
<1>3. Down(said') /\ NoGap(said', rest')
  BY <1>1, <1>2
<1>4. said' \cup Letters(rest') = 1 .. size'
  BY <1>1 DEF SplitInv
<1> QED
  BY <1>1, <1>3, <1>4 DEF SplitInv, Down, NoGap, Letters

(* Each round of the loop keeps it.                                        *)
LEMMA SplitNextInv == SplitInv /\ [SplitNext]_splitVars => SplitInv'
<1> SUFFICES ASSUME SplitInv, [SplitNext]_splitVars PROVE SplitInv'
  OBVIOUS
<1> DEFINE m == Len(rest)
<1>0. rest \in Seq(Int) /\ m \in Nat /\ MaxLen \in Nat /\ NoGap(said, rest)
  BY SplitAssumption DEF SplitInv
<1>1. CASE LastChunk
  <2>1. rest # <<>> /\ Len(rest) <= MaxLen /\ Emit(rest, <<>>)
    BY <1>1 DEF LastChunk
  <2>2. Cut(rest, m) = rest
    BY <1>0 DEF Cut
  <2>3. <<>> \in Seq(Int) /\ NoGap(said \cup Letters(Cut(rest, m)), <<>>) /\ Letters(<<>>) = {}
    BY DEF NoGap, Letters
  <2>4. Letters(Cut(rest, m)) \cup Letters(<<>>) = Letters(rest) /\ m <= Len(rest) /\ Letters(rest) = Letters(Cut(rest, m))
    BY <1>0, <2>2, <2>3
  <2> DEFINE none == <<>>
  <2>5. none \in Seq(Int) /\ NoGap(said \cup Letters(Cut(rest, m)), none) /\ Emit(rest, none)
        /\ Letters(Cut(rest, m)) \cup Letters(none) = Letters(rest)
    BY <2>1, <2>3, <2>4
  <2> HIDE DEF none, m
  <2> QED
    BY <1>0, <2>1, <2>4, <2>5, EmitKeeps
<1>2. CASE CutChunk
  <2> DEFINE msgEnd == NaturalOrLimit(rest)
             p == SplitPoint(rest, msgEnd, FindLastUnclosedCodeBlock(rest, msgEnd), FindNextClosingCodeBlock(rest, msgEnd))
             n == p.end
             cut == Cut(rest, n)
             from == From(rest, n)
             R == said \cup Letters(cut)
             plain == TrimSpace(from)
             closed == TrimRight(cut) \o (<<Newline>> \o Fence)
             again == p.header \o (<<Newline>> \o from)
  <2>1. m > MaxLen /\ GoodPoint(p, rest)
    BY <1>0, <1>2, SplitPointIs DEF CutChunk
  <2>2. IF p.header = <<>> THEN Emit(cut, plain) ELSE Emit(TrimRight(cut) \o <<Newline>> \o Fence, TrimSpace(p.header \o <<Newline>> \o from))
    BY <1>2 DEF CutChunk
  <2> HIDE DEF p
  <2>3. n \in Nat /\ 0 < n /\ n <= MaxLen /\ n <= m
    BY <1>0, <2>1 DEF GoodPoint
  <2>4. cut \in Seq(Int) /\ Len(cut) = n /\ from \in Seq(Int) /\ NoGap(R, from)
    <3>1. SubSeq(rest, 0 + 1, n) \in Seq(Int) /\ Len(SubSeq(rest, 0 + 1, n)) = IF 0 <= n THEN n - 0 ELSE 0
      BY <1>0, <2>3, Part
    <3>2. cut = SubSeq(rest, 0 + 1, n)
      BY DEF Cut
    <3>3. SubSeq(rest, n + 1, m) \in Seq(Int)
      BY <1>0, <2>3, Part
    <3>4. from = SubSeq(rest, n + 1, m)
      BY DEF From
    <3>5. NoGap(said \cup Letters(Cut(rest, n)), SubSeq(rest, n + 1, m))
      <4>1. n <= n /\ m <= m
        BY <1>0, <2>3
      <4> QED
        BY <1>0, <2>3, <4>1, PartNoGap
    <3>6. Len(cut) = n
      BY <2>3, <3>1, <3>2
    <3> HIDE DEF n, cut, from, m
    <3> QED
      BY <3>1, <3>2, <3>3, <3>4, <3>5, <3>6 DEF cut
  <2>5. Letters(cut) \cup Letters(from) = Letters(rest)
    <3>1. Letters(SubSeq(rest, 0 + 1, n)) = {rest[i] : i \in {j \in 0 + 1 .. n : rest[j] > 0}}
      BY <1>0, <2>3, PartLetters
    <3>2. Letters(SubSeq(rest, n + 1, m)) = {rest[i] : i \in {j \in n + 1 .. m : rest[j] > 0}}
      <4>1. m <= Len(rest)
        BY <1>0
      <4>2. n \in Nat
        BY <2>3
      <4> HIDE DEF m, n
      <4> QED
        BY <1>0, <4>1, <4>2, PartLetters
    <3>3. \A i : i \in 1 .. m <=> (i \in 0 + 1 .. n \/ i \in n + 1 .. m)
      BY <1>0, <2>3
    <3>4. Letters(rest) = {rest[i] : i \in {j \in 1 .. m : rest[j] > 0}}
      BY <1>0 DEF Letters
    <3>5. cut = SubSeq(rest, 0 + 1, n) /\ from = SubSeq(rest, n + 1, m)
      BY DEF Cut, From
    <3> HIDE DEF n, m, cut, from
    <3> QED
      BY <3>1, <3>2, <3>3, <3>4, <3>5
  <2> HIDE DEF from
  <2>6. CASE p.header = <<>>
    <3>1. Emit(cut, plain)
      BY <2>2, <2>6
    <3>2. plain \in Seq(Int) /\ Letters(plain) = Letters(from) /\ NoGap(R, plain)
      BY <2>4, TrimKeeps
    <3>3. cut # <<>> /\ Len(cut) <= MaxLen
      BY <2>3, <2>4
    <3> HIDE DEF plain, n, m
    <3>4. NoGap(said \cup Letters(Cut(rest, n)), plain) /\ Letters(Cut(rest, n)) \cup Letters(plain) = Letters(rest)
      BY <2>5, <3>2
    <3> QED
      BY <2>3, <2>4, <3>1, <3>2, <3>3, <3>4, EmitKeeps DEF m
  <2>7. CASE p.header # <<>>
    <3> DEFINE x == TrimSpace(again)
    <3>1. PICK u \in Nat, h \in Nat : u <= n /\ h <= m /\ p.header = TrimSpace(SubSeq(rest, u + 1, h))
      BY <2>1, <2>7 DEF GoodPoint
    <3>2. n <= MaxLen - 5
      BY <2>1, <2>7 DEF GoodPoint
    <3>3. p.header \in Seq(Int) /\ NoGap(R, p.header) /\ Letters(p.header) \subseteq Letters(rest)
      <4> DEFINE t == SubSeq(rest, u + 1, h)
      <4>1. t \in Seq(Int)
        BY <1>0, <3>1, Part
      <4>2. NoGap(R, t)
        BY <1>0, <2>3, <3>1, PartNoGap
      <4>3. Letters(t) = {rest[i] : i \in {j \in u + 1 .. h : rest[j] > 0}}
        BY <1>0, <3>1, PartLetters
      <4>4. \A i \in u + 1 .. h : i \in DOMAIN rest
        BY <1>0, <3>1
      <4>5. Letters(t) \subseteq Letters(rest)
        BY <4>3, <4>4 DEF Letters
      <4> HIDE DEF t, R
      <4>6. TrimSpace(t) \in Seq(Int) /\ NoGap(R, TrimSpace(t)) /\ Letters(TrimSpace(t)) = Letters(t)
        BY <4>1, <4>2, TrimKeeps
      <4> QED
        BY <3>1, <4>5, <4>6 DEF t
    <3>4. <<Newline>> \in Seq(Int) /\ Letters(<<Newline>>) = {} /\ NoGap(R, <<Newline>>)
          /\ Fence \in Seq(Int) /\ Letters(Fence) = {} /\ Len(Fence) = 3 /\ Len(<<Newline>>) = 1
      BY DEF Newline, Fence, Tick, Letters, NoGap
    <3>5. closed \in Seq(Int) /\ Letters(closed) = Letters(cut) /\ Len(closed) <= MaxLen /\ closed # <<>>
      <4> DEFINE nl == <<Newline>>
                 a == TrimRight(cut)
                 b == nl \o Fence
      <4>1. a \in Seq(Int) /\ Letters(a) = Letters(cut) /\ Len(a) <= Len(cut)
        BY <2>4, TrimRightKeeps
      <4>2. /\ nl \in Seq(Int) /\ Letters(nl) = {} /\ Len(nl) = 1
            /\ Fence \in Seq(Int) /\ Letters(Fence) = {} /\ Len(Fence) = 3
        BY <3>4
      <4> HIDE DEF nl
      <4>3. b \in Seq(Int) /\ Letters(b) = {} /\ Len(b) = 4
        <5>1. /\ nl \o Fence \in Seq(Int) /\ Len(nl \o Fence) = Len(nl) + Len(Fence)
              /\ Letters(nl \o Fence) = Letters(nl) \cup Letters(Fence)
          BY <4>2, Concatenated
        <5> QED
          BY <4>2, <5>1
      <4> HIDE DEF a, b
      <4>4. a \o b \in Seq(Int) /\ Letters(a \o b) = Letters(a) \cup Letters(b) /\ Len(a \o b) = Len(a) + Len(b)
        BY <4>1, <4>3, Concatenated
      <4>5. Len(a) \in Nat /\ Len(a) <= n
        BY <2>4, <4>1
      <4>6. Len(a \o b) <= MaxLen /\ Len(a \o b) > 0
        BY <1>0, <2>3, <3>2, <4>3, <4>4, <4>5
      <4>7. a \o b # <<>>
        BY <4>6
      <4> QED
        BY <4>1, <4>3, <4>4, <4>6, <4>7 DEF a, b, nl
    <3>6. again \in Seq(Int) /\ NoGap(R, again) /\ Letters(again) = Letters(p.header) \cup Letters(from)
      <4> DEFINE nl == <<Newline>>
                 b == nl \o from
                 hd == p.header
      <4>1. nl \in Seq(Int) /\ Letters(nl) = {} /\ NoGap(R, nl)
        BY <3>4
      <4>2. hd \in Seq(Int) /\ NoGap(R, hd)
        BY <3>3
      <4> HIDE DEF nl, R, hd
      <4>3. b \in Seq(Int) /\ Letters(b) = Letters(from) /\ NoGap(R, b)
        <5>1. from \in Seq(Int) /\ NoGap(R, from)
          BY <2>4
        <5>2. /\ nl \o from \in Seq(Int) /\ Letters(nl \o from) = Letters(nl) \cup Letters(from)
              /\ NoGap(R, nl) /\ NoGap(R, from) => NoGap(R, nl \o from)
          BY <4>1, <5>1, Concatenated
        <5> QED
          BY <4>1, <5>1, <5>2
      <4> HIDE DEF b
      <4>4. hd \o b \in Seq(Int) /\ Letters(hd \o b) = Letters(hd) \cup Letters(b) /\ NoGap(R, hd \o b)
        BY <4>2, <4>3, Concatenated
      <4> QED
        BY <4>3, <4>4 DEF b, nl, hd
    <3>7. Emit(closed, x)
      <4>1. TrimRight(cut) \o <<Newline>> \o Fence = closed
        <5>1. TrimRight(cut) \in Seq(Int)
          BY <2>4, TrimRightKeeps
        <5> DEFINE a == TrimRight(cut)
                   nl == <<Newline>>
        <5>2. a \in Seq(Int) /\ nl \in Seq(Int) /\ Fence \in Seq(Int)
          BY <3>4, <5>1
        <5> HIDE DEF a, nl
        <5>3. (a \o nl) \o Fence = a \o (nl \o Fence)
          BY <5>2, ConcatAssociative
        <5> QED
          BY <5>3 DEF a, nl
      <4>2. p.header \o <<Newline>> \o from = again
        <5> DEFINE hd == p.header
                   nl == <<Newline>>
        <5>1. hd \in Seq(Int) /\ nl \in Seq(Int) /\ from \in Seq(Int)
          BY <2>4, <3>3, <3>4
        <5> HIDE DEF hd, nl
        <5>2. (hd \o nl) \o from = hd \o (nl \o from)
          BY <5>1, ConcatAssociative
        <5> QED
          BY <5>2 DEF hd, nl
      <4> HIDE DEF cut
      <4> QED
        BY <2>2, <2>7, <4>1, <4>2
    <3>8. x \in Seq(Int) /\ Letters(x) = Letters(again) /\ NoGap(R, x)
      <4> HIDE DEF again, R
      <4> QED
        BY <3>6, TrimKeeps
    <3> HIDE DEF x, closed, again, n, m
    <3>9. NoGap(said \cup Letters(Cut(rest, n)), x) /\ Letters(closed) = Letters(Cut(rest, n))
      BY <3>5, <3>8
    <3>10. Letters(Cut(rest, n)) \cup Letters(x) = Letters(rest)
      BY <2>5, <3>3, <3>6, <3>8
    <3> QED
      BY <2>3, <3>5, <3>7, <3>8, <3>9, <3>10, EmitKeeps DEF m
  <2> QED
    BY <2>6, <2>7
<1>3. CASE UNCHANGED splitVars
  BY <1>3 DEF splitVars, SplitInv, Down, NoGap, Letters
<1> QED
  BY <1>1, <1>2, <1>3 DEF SplitNext

(* Whatever the message, SplitMessage has sent an initial segment of it    *)
(* after every round, and keeps the rest without a gap.                    *)
THEOREM SplitInvariant == SplitSpec => []SplitInv
<1> QED
  BY SplitInitInv, SplitNextInv, PTL DEF SplitSpec

(* ChunksFit for every message, every limit above nine and every window:   *)
(* no chunk is longer than the platform allows, none is empty, and no text *)
(* is lost or overtakes another.                                           *)
THEOREM SplitChunksFit == SplitSpec => []ChunksFit
<1>1. ASSUME SplitInv PROVE ChunksFit
  <2>1. said \subseteq 1 .. size
    BY <1>1 DEF SplitInv
  <2>2. said = 1 .. Cardinality(said)
    BY <1>1, <2>1, Segment DEF SplitInv
  <2> QED
    BY <1>1, <2>2 DEF SplitInv, ChunksFit
<1> QED
  BY <1>1, SplitInvariant, PTL
===============================================================================

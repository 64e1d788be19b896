----------------------------- MODULE SkillSearch -----------------------------
\* find_skills: FindSkillsTool.Execute, the registries it asks at once
\* (pkg/skills/registry.go, clawhub_registry.go) and the agent's cache of answers
\* (search_cache.go), which every goroutine that runs a turn of the agent
\* shares. A query is the sequence of its characters in lower case; an answer is
\* the list of the scores found, best first.
EXTENDS Integers, Sequences, FiniteSets

CONSTANTS
  Searchers,    \* goroutines that run turns with the tool
  Queries,      \* queries asked
  Registries,   \* the registries of the manager
  MaxConcurrent,\* registries asked at once by one search
  Found,        \* lists of scores a registry may answer
  Limits,       \* limits asked for
  MaxEntries, TTL,
  MaxTocks, MaxSearches  \* bounds: clock, calls of the tool

\* NewSearchCache and Execute put defaults for a size, a life time or a limit
\* that is not positive; Execute refuses an empty query.
ASSUME SearchAssumption ==
  /\ Queries \subseteq Seq(Nat) \ {<<>>} /\ Found \subseteq Seq(Int)
  /\ Limits \subseteq Nat \ {0}
  /\ MaxEntries \in Nat \ {0} /\ TTL \in Nat \ {0}

VARIABLES
  sNow, entries, order,  \* the clock; the cache: [query, results, at] by query, least recently used first
  sPc, ask,              \* step of each goroutine; its [query, limit]
  reg, sem, merged,      \* of each search: what its registries do, slots taken, results so far
  answer, searches       \* what the last call returned: [kind, query, results, from, age]; calls begun

searchVars == <<sNow, entries, order, sPc, ask, reg, sem, merged, answer, searches>>
-----------------------------------------------------------------------------
\* Similarity.

BuildTrigrams(q) == {SubSeq(q, i, i + 2) : i \in 1 .. Len(q) - 2}

\* jaccardSimilarity(a, b), as a pair: shared trigrams over all trigrams.
JaccardSimilarity(p, q) ==
  LET a == BuildTrigrams(p)
      b == BuildTrigrams(q)
  IN IF a = {} /\ b = {} THEN <<1, 1>> ELSE <<Cardinality(a \cap b), Cardinality(a \cup b)>>

AtLeast(x, y) == x[1] * y[2] >= y[1] * x[2]

Similar(p, q) == AtLeast(JaccardSimilarity(p, q), <<7, 10>>)
-----------------------------------------------------------------------------
\* The cache.

Fresh(q) == q \in DOMAIN entries /\ sNow - entries[q].at < TTL

\* The first place of q is closed, and q put last.
MoveToEnd(s, q) ==
  IF \A i \in DOMAIN s : s[i] # q THEN Append(s, q)
  ELSE LET at == CHOOSE i \in DOMAIN s : s[i] = q /\ \A j \in 1 .. i - 1 : s[j] # q
       IN [i \in 1 .. Len(s) |-> IF i < at THEN s[i] ELSE IF i < Len(s) THEN s[i + 1] ELSE q]

\* The entries that Get may return: the query itself, or one of the most similar
\* (the code ranges over a map), if similar enough.
Hits(q) ==
  IF Fresh(q) THEN {q}
  ELSE LET fresh == {k \in DOMAIN entries : Fresh(k)}
       IN {k \in fresh : /\ Similar(q, k)
                         /\ \A l \in fresh : AtLeast(JaccardSimilarity(q, k), JaccardSimilarity(q, l))}

Listed == {order[i] : i \in DOMAIN order}
Unexpired == [q \in DOMAIN entries \ {k \in Listed : ~Fresh(k)} |-> entries[q]]

\* Mutant: expired entries leave the table, not the order.
EvictExpiredKeeps == [entries |-> Unexpired, order |-> order]

EvictExpired ==
  LET newOrder[i \in 0 .. Len(order)] ==
        IF i = 0 THEN <<>>
        ELSE IF Fresh(order[i]) THEN Append(newOrder[i - 1], order[i])
        ELSE newOrder[i - 1]
  IN [entries |-> Unexpired, order |-> newOrder[Len(order)]]

\* How many of the least recently used have to go for one more to fit.
Excess(c) ==
  CHOOSE n \in 0 .. Len(c.order) :
    LET fits(m) == m = Len(c.order) \/ Cardinality(DOMAIN c.entries \ {c.order[i] : i \in 1 .. m}) < MaxEntries
    IN fits(n) /\ \A m \in 0 .. n - 1 : ~fits(m)

\* Put evicts what has expired and, for a new query, the least recently used.
Put(q, results) ==
  LET c    == EvictExpired
      n    == IF q \in DOMAIN c.entries THEN 0 ELSE Excess(c)
      gone == {c.order[i] : i \in 1 .. n}
  IN /\ entries' = [k \in (DOMAIN c.entries \ gone) \cup {q} |->
                      IF k = q THEN [query |-> q, results |-> results, at |-> sNow] ELSE c.entries[k]]
     /\ order' = IF q \in DOMAIN c.entries THEN MoveToEnd(c.order, q)
                 ELSE Append(SubSeq(c.order, n + 1, Len(c.order)), q)
-----------------------------------------------------------------------------
NoAnswer == [kind |-> "none", query |-> <<>>, results |-> <<>>, from |-> <<>>, age |-> 0]
NoAsk == [query |-> <<>>, limit |-> 0]

SearchInit ==
  /\ sNow = 0 /\ entries = [q \in {} |-> NoAnswer] /\ order = <<>>
  /\ sPc = [g \in Searchers |-> "idle"] /\ ask = [g \in Searchers |-> NoAsk]
  /\ reg = [g \in Searchers |-> [r \in Registries |-> "done"]]
  /\ sem = [g \in Searchers |-> 0] /\ merged = [g \in Searchers |-> <<>>]
  /\ answer = NoAnswer /\ searches = 0

Return(g, kind, results, from, age) ==
  /\ sPc' = [sPc EXCEPT ![g] = "idle"]
  /\ answer' = [kind |-> kind, query |-> ask[g].query, results |-> results, from |-> from, age |-> age]
  /\ ask' = [ask EXCEPT ![g] = NoAsk] /\ merged' = [merged EXCEPT ![g] = <<>>]
  /\ reg' = [reg EXCEPT ![g] = [r \in Registries |-> "done"]]

ToolCalled(g) ==
  /\ sPc[g] = "idle" /\ searches < MaxSearches /\ searches' = searches + 1
  /\ \E q \in Queries, l \in Limits : ask' = [ask EXCEPT ![g] = [query |-> q, limit |-> l]]
  /\ sPc' = [sPc EXCEPT ![g] = "get"]
  /\ UNCHANGED <<sNow, entries, order, reg, sem, merged, answer>>

\* Cache.Get, under its lock. A hit ends the call; a miss starts a goroutine for
\* each registry.
CacheHit(g) ==
  /\ sPc[g] = "get"
  /\ \E k \in Hits(ask[g].query) :
       /\ order' = MoveToEnd(order, k)
       /\ Return(g, "hit", entries[k].results, k, sNow - entries[k].at)
  /\ UNCHANGED <<sNow, entries, sem, searches>>

CacheMiss(g) ==
  /\ sPc[g] = "get" /\ Hits(ask[g].query) = {}
  /\ sPc' = [sPc EXCEPT ![g] = "search"]
  /\ reg' = [reg EXCEPT ![g] = [r \in Registries |-> "wait"]]
  /\ sem' = [sem EXCEPT ![g] = 0] /\ merged' = [merged EXCEPT ![g] = <<>>]
  /\ UNCHANGED <<sNow, entries, order, ask, answer, searches>>

\* A registry's goroutine: a slot of the semaphore, then the request.
TakeSlot(g, r) ==
  /\ sPc[g] = "search" /\ reg[g][r] = "wait" /\ sem[g] < MaxConcurrent
  /\ reg' = [reg EXCEPT ![g][r] = "asking"] /\ sem' = [sem EXCEPT ![g] = @ + 1]
  /\ UNCHANGED <<sNow, entries, order, sPc, ask, merged, answer, searches>>

\* ClawHub's Search: an answer, or an error or a time-out.
RegistryAnswers(g, r) ==
  /\ sPc[g] = "search" /\ reg[g][r] = "asking"
  /\ \/ \E f \in Found : /\ merged' = [merged EXCEPT ![g] = @ \o f]
                         /\ reg' = [reg EXCEPT ![g][r] = "done"]
     \/ /\ reg' = [reg EXCEPT ![g][r] = "failed"] /\ UNCHANGED merged
  /\ sem' = [sem EXCEPT ![g] = @ - 1]
  /\ UNCHANGED <<sNow, entries, order, sPc, ask, answer, searches>>

\* The turn is canceled: a goroutine that waits for a slot gives up.
Canceled(g) ==
  /\ sPc[g] = "search" /\ \E r \in Registries : reg[g][r] = "wait"
  /\ reg' = [reg EXCEPT ![g] = [r \in Registries |-> IF @[r] = "done" THEN "done" ELSE "failed"]]
  /\ sem' = [sem EXCEPT ![g] = 0]
  /\ UNCHANGED <<sNow, entries, order, sPc, ask, merged, answer, searches>>

\* sortByScoreDesc and the cut at the limit.
Inserted(t, x) ==
  LET k == CHOOSE k \in 0 .. Len(t) : (k = 0 \/ t[k] >= x) /\ \A j \in k + 1 .. Len(t) : t[j] < x
  IN [i \in 1 .. Len(t) + 1 |-> IF i <= k THEN t[i] ELSE IF i = k + 1 THEN x ELSE t[i - 1]]

SortByScoreDesc(s) ==
  LET sorted[i \in 0 .. Len(s)] == IF i = 0 THEN <<>> ELSE Inserted(sorted[i - 1], s[i])
  IN sorted[Len(s)]

Best(s, limit) == LET t == SortByScoreDesc(s) IN SubSeq(t, 1, IF Len(t) < limit THEN Len(t) ELSE limit)

\* SearchAll returns when all registries have; results go into the cache.
SearchFails(g) ==
  /\ sPc[g] = "search" /\ \A r \in Registries : reg[g][r] = "failed"
  /\ Return(g, "error", <<>>, <<>>, 0)
  /\ UNCHANGED <<sNow, entries, order, sem, searches>>

SearchReturns(g) ==
  /\ sPc[g] = "search"
  /\ \A r \in Registries : reg[g][r] \in {"done", "failed"}
  /\ \E r \in Registries : reg[g][r] = "done"
  /\ LET best == Best(merged[g], ask[g].limit)
     IN /\ IF best = <<>> THEN UNCHANGED <<entries, order>> ELSE Put(ask[g].query, best)
        /\ Return(g, "found", best, ask[g].query, 0)
  /\ UNCHANGED <<sNow, sem, searches>>

Tock == sNow < MaxTocks /\ sNow' = sNow + 1 /\ UNCHANGED <<entries, order, sPc, ask, reg, sem, merged, answer, searches>>

SearchNext ==
  \/ \E g \in Searchers :
       \/ ToolCalled(g) \/ CacheHit(g) \/ CacheMiss(g) \/ SearchFails(g) \/ SearchReturns(g) \/ Canceled(g)
       \/ \E r \in Registries : TakeSlot(g, r) \/ RegistryAnswers(g, r)
  \/ Tock

SearchSpec == SearchInit /\ [][SearchNext]_searchVars
-----------------------------------------------------------------------------
Descending(s) == \A i \in 1 .. Len(s) - 1 : s[i] >= s[i + 1]

\* The order lists exactly the entries, once each and at most MaxEntries, however
\* hits, evictions and expiry alternate; and an answer from the cache was found
\* less than TTL ago for a query that is similar or, like the one asked, too
\* short to have a trigram, which makes any two of them equal.
CacheConsistent ==
  /\ Len(order) = Cardinality(DOMAIN entries) /\ Listed = DOMAIN entries
  /\ Len(order) <= MaxEntries
  /\ answer.kind = "hit" =>
       /\ \/ Similar(answer.query, answer.from) /\ Len(answer.from) > 2
          \/ Len(answer.query) < 3 /\ Len(answer.from) < 3
       /\ answer.results # <<>> /\ answer.age < TTL
       /\ Descending(answer.results)
===============================================================================
